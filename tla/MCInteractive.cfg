SPECIFICATION FairSpec
CONSTANTS
  IntBits = 8
  Programs <- DialogueTests
  MemoryModels = {"sc", "tso", "pso", "sra"}
  InputMayEnd = TRUE
  NoLocation = "no location"
  LastLines = {"x"}
INVARIANTS
  TypeOK
  EveryExecutionOffered
PROPERTIES
  ImplementsNonDeterministic
  EndsWithItsInput
CHECK_DEADLOCK FALSE
