SPECIFICATION FairSpec
CONSTANTS
  Handlers = {h1, h2}
  Main = Main
  h1 = h1
  h2 = h2
CHECK_DEADLOCK FALSE
INVARIANTS
  ListensOnlyIfPinned
  ServedByRunningPool
  JoinedMeansClosed
PROPERTIES
  TurnedAwayAtEdges
  StartEnds
  RequestsEnd
  ServedCloseEnds
