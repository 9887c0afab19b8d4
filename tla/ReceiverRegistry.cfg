SPECIFICATION Spec
CONSTANTS
  Devnodes = {n1, n2}
  MaxPlugs = 2
  MaxUnfreed = 0
  CellsPerReceiver = 2
SYMMETRY Symmetry
INVARIANTS
  TypeOK
  MonitorWholeOrNot
  RegistryFollows
CHECK_DEADLOCK FALSE
