SPECIFICATION FairSpec
CONSTANTS
  Left = Left
  Right = Right
  NoDevice = NoDevice
  Kinds <- MCKinds
  ButtonIds <- MCButtonIds
  FeatureIds <- MCFeatureIds
  LastIndex = 2
  MaxChunks = 2
  IndexRange = 2
  MaxButtons = 3
  MaxErrors = 1
  MaxStrays = 1
INVARIANTS
  TypeOK
  CleanScanExact
  NothingMixedUp
  CollectedOwnsAll
  OnlyTheseLeak
PROPERTY ScanEnds
CHECK_DEADLOCK FALSE
