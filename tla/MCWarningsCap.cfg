SPECIFICATION Spec
CONSTANTS
  MaxConversionWarningsBytes = 16
  NoticeBytes = 3
  Inputs <- MCInputs
INVARIANTS
  TypeOK
  NeverOverCap
  KeepsAsManyAsFit
CHECK_DEADLOCK FALSE
