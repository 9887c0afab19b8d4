CONSTANTS
  LastIndex = 2
  Cids = {"left", "right", "back"}
  Buttons <- TwoMice
  Presses <- LeftAndBack
  MaxScans = 2
  MaxEvents = 0
SPECIFICATION Spec
INVARIANT FreeFreesAll
CHECK_DEADLOCK FALSE
