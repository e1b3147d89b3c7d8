SPECIFICATION ObjectsSpec
CONSTANTS
  HeaderSize = 2
  AreaSize = 3
  InitialSize = 60
  SizeMod = 128
  Requests <- AllSizes
  MaxBlocks = 2
  ClassTables <- Tables
  PointerSize = 8
  ElementSizes = {1, 16}
  Lengths = {0, 8}
INVARIANTS
  RegionsTyped
CHECK_DEADLOCK FALSE
