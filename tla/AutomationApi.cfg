\* Two requests under way, every endpoint in use.
CONSTANTS
  Job = {j1, j2}
  Requests <- AllRequests
  MaxButtons = 3
SPECIFICATION Spec
INVARIANTS
  TypeOK
  OneTaskAtATime
PROPERTIES
  ImplementsLock
  AddReleases
  TasksEnd
