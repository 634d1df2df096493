SPECIFICATION Spec
CONSTANTS
  Tokens <- MCTokens
  References <- MCReferences
  Mappings <- MCMappings
INVARIANTS
  TypeOK
  MostSpecificWins
CHECK_DEADLOCK FALSE
