SPECIFICATION FairSpec
CONSTANTS
  MaxRequests = 4
  MaxNotices = 2
  MaxPresses = 2
  PipeSlots = 2
INVARIANTS
  TypeOK
  Inv
  LagIsStrays
  ReportsConserved
PROPERTIES
  ImplementsRequestReply
  ExchangeEnds
  EventsDispatched
CHECK_DEADLOCK FALSE
