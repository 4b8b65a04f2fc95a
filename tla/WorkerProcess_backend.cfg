SPECIFICATION FairSpec
CONSTANTS
  Calls = {c1, c2}
  Closers = {k1, k2}
  NoCall = NoCall
  Start = Start
  c1 = c1
  c2 = c2
  k1 = k1
  k2 = k2
INVARIANTS
  TypeOK
  InStep
  ClosedMeansReaped
PROPERTIES
  PanicReported
  CallsEnd
