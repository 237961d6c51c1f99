SPECIFICATION Spec
CONSTANT MAPPINGS_BY_OS <- MCMappings
INVARIANTS
  TypeOK
  CommitsAsFarAsKnown
  ExitAnswersTheQuestion
CHECK_DEADLOCK FALSE
