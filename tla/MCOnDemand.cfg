SPECIFICATION Spec
CONSTANTS
  IntBits = 8
  Programs <- OnDemandTest
  MemoryModels = {"sc"}
PROPERTIES
  NoOutcomeDropped
CHECK_DEADLOCK FALSE
