SPECIFICATION FairSpec
CONSTANTS
  Workers = {w1, w2, w3, w4}
  Parallelism = 2
  w1 = w1
  w2 = w2
  w3 = w3
  w4 = w4
INVARIANTS
  PermitsConserved
  AllOrNothing
PROPERTIES
  NoSpawnAfterFailure
  StartEnds
