SPECIFICATION Spec
CONSTANTS
  IntBits = 8
  Programs <- IncrementTest
  MemoryModels = {"sra"}
INVARIANTS
  IncrementsAreAtomic
CHECK_DEADLOCK FALSE
