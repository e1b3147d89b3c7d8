SPECIFICATION Spec
CONSTANTS
  Words = {"a", "b"}
  Capacity = 6
INVARIANTS
  TypeOK
  GarbageIsReported
PROPERTIES
  AsJVM
  OverflowLosesNothing
