SPECIFICATION Spec
CONSTANTS
  Codes <- Pairs
  MaxStack = 3
  MaxLocals = 2
  CallerStack = 3
  AddressWords = 2
INVARIANTS
  DispatchesBytecode
CHECK_DEADLOCK FALSE
