SPECIFICATION Spec
CONSTANTS
  Workers = {w1, w2}
  Requests = {r1, r2}
  Closers = {c1}
  QueueCapacity = 2
  None = None
  w1 = w1
  w2 = w2
  r1 = r1
  r2 = r2
  c1 = c1
SYMMETRY Symmetry
INVARIANTS
  NoLostWakeup
  CountersAgree
  NoLostJob
  CleanPipe
  NoSlotLost
PROPERTIES
  OnlyLiveJobsExecuted
  SettledForGood
