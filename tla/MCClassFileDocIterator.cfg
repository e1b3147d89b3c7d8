SPECIFICATION Spec
CONSTANTS
  Files <- AllFiles
  CountMod = 12
  IndexMod = 64
  Indexes <- SomeIndexes
INVARIANT IteratorAgreesWithIndex
CHECK_DEADLOCK FALSE
