\* add_to_cart alone: no reset and no proxy test to blame.
CONSTANTS
  Browser = {chrome}
  Proxy = {p1}
  Job = {j1, j2}
  Requests <- AddOnly
SPECIFICATION Spec
INVARIANTS
  CompletedMeansDone
