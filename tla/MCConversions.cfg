SPECIFICATION GroupsSpec
CONSTANTS
  Tokens <- MCTokens
  InvalidChars <- MCInvalidChars
  Lowered <- MCLowered
  MaxGeneratedNameLength = 6
  Digest <- MCDigest
  MaxConversionWarningsBytes = 1000
  NoticeBytes = 1
  WordingBytes = 1
  SourceConfigs <- ConversionConfigs
  FlagSets <- ConversionFlags
  MaxConversions = 1
  MaxDuration = 20
  Second = 3
  MaxRetentionLimit = 2
  Groups <- ConversionGroups
INVARIANTS
  RefusalsReportNoLaterStep
  StrategyLossesDeclared
  EmittedTogether
  SourceLossesDeclared
  PullSecretKept
  TemplateRunnable
PROPERTIES
  KeepsItsContract
  AnnotationsWrittenOnce
