SPECIFICATION Spec
CONSTANTS
  Calls = {c1, c2}
  Closers = {k1, k2}
  MaxLines = 3
  c1 = c1
  c2 = c2
  k1 = k1
  k2 = k2
CHECK_DEADLOCK FALSE
INVARIANTS
  EndedMeansGone
  ResultHonest
