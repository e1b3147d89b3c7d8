SPECIFICATION UntilDamage
CONSTANTS
  HeaderSize = 2
  AreaSize = 3
  InitialSize = 19
  SizeMod = 128
  Requests <- SmallRequests
  MaxBlocks = 4
INVARIANTS
  TypeOK
PROPERTIES
  CarefulIsExact
  OnlyTheseDamage
CHECK_DEADLOCK FALSE
