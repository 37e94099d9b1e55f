SPECIFICATION Spec
CONSTANTS
  IntBits = 8
  Programs <- LitmusTests
  MemoryModels = {"sc", "tso", "pso", "sra"}
INVARIANTS
  TypeOK
  NothingLeftBuffered
  NoForbiddenOutcome
  FailsWhereItMust
  TraceTellsTheRun
PROPERTIES
  ThreadsAreIsolated
CHECK_DEADLOCK FALSE
