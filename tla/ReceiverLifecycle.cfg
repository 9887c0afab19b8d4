CONSTANTS
  LastIndex = 2
  Cids = {"left", "right", "back"}
  Buttons <- TwoMice
  Presses <- LeftAndBack
  MaxScans = 2
  MaxEvents = 1
SPECIFICATION FairSpec
INVARIANTS
  TypeOK
  NullLeavesLittle
  FaultsExplained
  FreeReturns
PROPERTIES
  Recognised
  WorkersEnd
  FreeEnds
CHECK_DEADLOCK FALSE
