SPECIFICATION FairSpec
CONSTANTS
  Devnodes = {n1, n2}
  MaxPlugs = 1
  MaxUnfreed = 1
  CellsPerReceiver = 2
INVARIANTS
  NothingForgotten
  DefinedUnlessRaced
PROPERTIES
  EventsHandled
  MainGetsOn
CHECK_DEADLOCK FALSE
