\* One browser, two requests under way, two proxies, every endpoint.
CONSTANTS
  Browser = {chrome}
  Proxy = {p1, p2}
  Job = {j1, j2}
  Requests <- AllRequests
SPECIFICATION Spec
INVARIANTS
  TypeOK
  OneTaskPerBrowser
  NeverWedged
  PoolRestored
  TestSeesItsProxy
PROPERTIES
  ImplementsLocks
  TasksEnd
