SPECIFICATION Spec
CONSTANTS
  Calls = {c1}
  Closers = {k1}
  NoCall = NoCall
  Start = Start
  c1 = c1
  k1 = k1
INVARIANTS
  GroupEnded
