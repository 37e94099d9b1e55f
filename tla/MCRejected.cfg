SPECIFICATION Spec
CONSTANTS
  IntBits = 8
  Programs <- OneTest
  MemoryModels = {"sc", "tso", "pso", "sra"}
  InputMayEnd = FALSE
  NoLocation = "no location"
  LastLines = {"x"}
INVARIANT NoChoiceRejected
CHECK_DEADLOCK FALSE
