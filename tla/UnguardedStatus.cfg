\* Two requests under way, in either of the programs.
CONSTANTS
  Job = {j1, j2}
  Editions <- BothEditions
SPECIFICATION Spec
INVARIANTS
  TypeOK
  RestIsFinal
  ReportIsWhole
  FinalMeansDone
  UnknownNeedsCompany
  BrowserClosed
PROPERTY
  TasksEnd
