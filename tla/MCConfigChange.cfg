SPECIFICATION Spec
CONSTANTS
  Tokens <- MCTokens
  InvalidChars <- MCInvalidChars
  Lowered <- MCLowered
  MaxGeneratedNameLength = 6
  Digest <- MCDigest
  MaxConversionWarningsBytes = 1000
  NoticeBytes = 1
  WordingBytes = 1
  SourceConfigs <- TemplateCases
  FlagSets <- NoFlagSet
  MaxConversions = 1
  MaxDuration = 20
  Second = 3
  MaxRetentionLimit = 2
INVARIANTS
  ConfigChangeNamesTemplate
CHECK_DEADLOCK FALSE
