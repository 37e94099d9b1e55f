SPECIFICATION Spec
CONSTANTS
  IntBits = 8
  Programs <- SpawningTest
  MemoryModels = {"sc"}
INVARIANTS
  FindsEveryOutcome
CHECK_DEADLOCK FALSE
