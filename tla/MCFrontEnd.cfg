SPECIFICATION Spec
CONSTANTS
  Keyword <- Spelling
  FirstWord <- Words
  Inputs <- AllInputs
  IntBits = 4
INVARIANTS
  TypeOK
  TokensCoverText
  PositionsAreTrue
  RunsThePrograms
  RejectsAtFirstBadToken
  AbortsOnNumbersOnly
  ParsedAsWritten
  ProgramIsWellFormed
  RunsAsAsked
CHECK_DEADLOCK FALSE
