SPECIFICATION CarefulSpec
CONSTANTS
  HeaderSize = 2
  AreaSize = 3
  InitialSize = 27
  SizeMod = 256
  Requests <- SmallRequests
  MaxBlocks = 5
INVARIANTS
  StaysSound
  DoubleFreeReported
  NeverLost
  FreshWhenEmpty
  FirstFit
PROPERTIES
  KeepsBlocks
