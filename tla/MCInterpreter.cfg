SPECIFICATION Spec
CONSTANTS
  Codes <- Methods
  MaxStack = 3
  MaxLocals = 57
  CallerStack = 3
  AddressWords = 2
INVARIANTS
  TypeOK
  Footprint
  CleanResult
PROPERTIES
  Terminates
  UsesUpBytes
CHECK_DEADLOCK FALSE
