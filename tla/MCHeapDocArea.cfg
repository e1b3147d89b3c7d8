SPECIFICATION Spec
CONSTANTS
  HeaderSize = 2
  AreaSize = 3
  InitialSize = 32
  SizeMod = 256
  Requests <- SmallRequests
  MaxBlocks = 6
INVARIANTS
  RegionsInArea
CHECK_DEADLOCK FALSE
