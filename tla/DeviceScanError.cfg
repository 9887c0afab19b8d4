SPECIFICATION FairSpec
CONSTANTS
  Left = Left
  Right = Right
  NoDevice = NoDevice
  Kinds <- MCKinds
  ButtonIds <- MCButtonIds
  FeatureIds <- MCFeatureIds
  LastIndex = 2
  MaxChunks = 2
  IndexRange = 2
  MaxButtons = 3
  MaxErrors = 1
  MaxStrays = 0
INVARIANT ErrorMeansNull
CHECK_DEADLOCK FALSE
