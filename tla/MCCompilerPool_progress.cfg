SPECIFICATION LoopSpec
CONSTANTS
  Workers = {w1}
  Requests = {r1, r2}
  Closers = {c1}
  QueueCapacity = 1
  None = None
  w1 = w1
  r1 = r1
  r2 = r2
  c1 = c1
CONSTRAINT
  ProgressRunBound
PROPERTIES
  AcceptedIsAnswered
  CloseReturns
  QueuedIsTaken
  SlotRecovers
