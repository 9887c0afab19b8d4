SPECIFICATION FairSpec
CONSTANT Lengths = {255}
PROPERTY NameReturned
CHECK_DEADLOCK FALSE
