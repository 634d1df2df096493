SPECIFICATION GroupsSpec
CONSTANTS
  Tokens <- MCTokens
  InvalidChars <- MCInvalidChars
  Lowered <- MCLowered
  MaxGeneratedNameLength = 6
  Digest <- MCDigest
  MaxConversionWarningsBytes = 16
  NoticeBytes = 1
  WordingBytes = 1
  SourceConfigs <- OutputConfigs
  FlagSets <- OutputFlagSets
  MaxConversions = 3
  MaxDuration = 20
  Second = 3
  MaxRetentionLimit = 2
  Groups <- OutputGroups
INVARIANTS
  TypeOK
  OutcomeMatchesWarnings
  WarningsAttributed
  AnnotationAccountsForWarnings
  OutputLossesDeclared
  InsecureReachesThePush
  ChainNoticedOnce
  SpecLossesDeclared
  TimeoutIsExact
  ReusedAsFresh
