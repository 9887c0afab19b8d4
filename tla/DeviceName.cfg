SPECIFICATION FairSpec
CONSTANT Lengths = {0, 1, 16, 17, 240, 254}
INVARIANTS
  TypeOK
  InBounds
  NameWhole
PROPERTY LoopEnds
CHECK_DEADLOCK FALSE
