SPECIFICATION Spec
CONSTANTS
  IntBits = 8
  Programs <- LitmusTests
  MemoryModels = {"sc", "tso", "pso", "sra"}
INVARIANTS
  OutcomesArePossible
  FindsEveryOutcome
  CountsAsDocumented
PROPERTIES
  ExplorationAdvances
CHECK_DEADLOCK FALSE
