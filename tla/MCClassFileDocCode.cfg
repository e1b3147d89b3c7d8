SPECIFICATION Spec
CONSTANTS
  Files <- AllFiles
  CountMod = 12
  IndexMod = 64
  Indexes <- SomeIndexes
PROPERTY CodeOrEmpty
CHECK_DEADLOCK FALSE
