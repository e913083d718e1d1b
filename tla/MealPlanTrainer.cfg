\* Runs one after the other in one directory, killed at any step.
CONSTANTS
  Scale = 2
  Dump <- ThreeLines
  Count = 2
  Offers <- AnyFind
  Blank = Blank
  Examples = Examples
  Absent = Absent
  Broken = Broken
SPECIFICATION Spec
INVARIANTS
  TypeOK
  SavedFilesFit
