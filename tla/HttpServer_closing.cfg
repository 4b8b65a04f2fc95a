SPECIFICATION FairSpec
CONSTANTS
  Handlers = {h1}
  Main = Main
  h1 = h1
CHECK_DEADLOCK FALSE
PROPERTIES
  ClosingClosesPool
