SPECIFICATION FairSpec
CONSTANTS
  MaxRequests = 1
  MaxNotices = 3
  MaxPresses = 1
  PipeSlots = 2
PROPERTY ListenerKeepsDispatching
CHECK_DEADLOCK FALSE
