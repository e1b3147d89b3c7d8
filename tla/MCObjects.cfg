SPECIFICATION ObjectsSpec
CONSTANTS
  HeaderSize = 2
  AreaSize = 3
  InitialSize = 38
  SizeMod = 64
  Requests <- AllSizes
  MaxBlocks = 3
  ClassTables <- Tables
  PointerSize = 8
  ElementSizes = {1, 16}
  Lengths = {8}
INVARIANTS
  ObjectsTypeOK
  SizeExact
  MembersFit
PROPERTIES
  UsesHeapCarefully
CHECK_DEADLOCK FALSE
