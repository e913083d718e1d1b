\* The padding of a short answer.
CONSTANTS
  Upload = {u1, u2}
  Query = {q1, q2}
  tofu = tofu
  oats = oats
  kale = kale
  Batches <- OneOrTwo
  K = 2
  MaxVectors = 4
SPECIFICATION Spec
INVARIANT
  ResultsAreMatches
