SPECIFICATION PostSpec
CONSTANTS
  Names = {a, b, c}
  MaxEdges = 2
  Environments <- SmallEnvironments
  Candidates <- SmallCandidates
  MaxLog = 2
  Jobs <- SmallJobs
  Messages <- SmallMessages
  Verdicts <- SmallVerdicts
  Foreign <- ForeignLines
  Sorry = "sorry"
  Bytes <- SmallBytes
  MaxBytes = 2
  a = a
  b = b
  c = c
SYMMETRY Symmetry
INVARIANTS
  VerdictExact
  BlameIsFair
  LinesUnderstood
  CheckExact
  VerdictDelivered
PROPERTIES
  LoopShrinks
