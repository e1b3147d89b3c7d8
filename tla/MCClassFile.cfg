SPECIFICATION Spec
CONSTANTS
  Files <- AllFiles
  CountMod = 12
  IndexMod = 64
  Indexes <- SomeIndexes
INVARIANTS
  TypeOK
  ReadsRight
  StaysInStep
  IndexFindsEntry
  PoolIteratorExact
  MembersExact
  MembersIterate
  NamesResolve
PROPERTIES
  AttributesExact
CHECK_DEADLOCK FALSE
