SPECIFICATION FairSpec
CONSTANTS
  IntBits = 8
  Programs <- WaitingTests
  MemoryModels = {"sc", "tso", "pso", "sra"}
PROPERTIES
  EndsUnlessStranded
CHECK_DEADLOCK FALSE
