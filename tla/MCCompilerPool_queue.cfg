SPECIFICATION Spec
CONSTANTS
  Workers = {w1}
  Requests = {r1, r2, r3}
  Closers = {c1, c2}
  QueueCapacity = 2
  None = None
  w1 = w1
  r1 = r1
  r2 = r2
  r3 = r3
  c1 = c1
  c2 = c2
SYMMETRY Symmetry
CONSTRAINT QueueRunBound
INVARIANTS
  QueueHoldsOnlyUnanswered
  AnswersJustified
  NothingLeftBehind
PROPERTIES
  SpawnsAreSafe
  ImplementsService
