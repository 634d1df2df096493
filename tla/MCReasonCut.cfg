SPECIFICATION Spec
CONSTANTS
  MaxConversionReasonBytes = 8
  MaxBytes = 13
  Reasons <- MCReasons
INVARIANTS
  ReasonFits
  ReasonStaysValid
  OnlyABrokenCharacterIsCut
CHECK_DEADLOCK FALSE
