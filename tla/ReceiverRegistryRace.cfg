SPECIFICATION FairSpec
CONSTANTS
  Devnodes = {n1, n2}
  MaxPlugs = 1
  MaxUnfreed = 1
  CellsPerReceiver = 2
PROPERTY ScanCountsReceivers
CHECK_DEADLOCK FALSE
