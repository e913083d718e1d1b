\* Two requests of any kind at a time, any number after each other.
CONSTANTS
  Job = {j1, j2}
  Text <- Texts
  Static = "tofu wrap"
  Empty = ""
  Chars <- Letters
  Long <- LongTexts
  Iters = 1
  Draws = 1
  MaxRebuilds = 2
  None = None
  Absent = Absent
  Broken = Broken
SPECIFICATION Spec
INVARIANTS
  TypeOK
  ModelFitsVocabulary
  AnswersNeedVocabulary
PROPERTIES
  SoundModelServes
  TrainingEnds
