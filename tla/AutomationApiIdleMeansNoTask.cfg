CONSTANTS
  Job = {j1, j2}
  Requests <- AddOnly
  MaxButtons = 2
SPECIFICATION Spec
INVARIANT
  IdleMeansNoTask
CHECK_DEADLOCK FALSE
