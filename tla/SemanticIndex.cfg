\* Two uploads and two searches at a time.
CONSTANTS
  Upload = {u1, u2}
  Query = {q1, q2}
  tofu = tofu
  oats = oats
  kale = kale
  Batches <- OneOrTwo
  K = 2
  MaxVectors = 4
SPECIFICATION Spec
INVARIANTS
  TypeOK
  PrefixUntilOvertaken
  SizesAgreeAtRest
  AnswersWhatItFound
  FailsOnlyDuringUpload
