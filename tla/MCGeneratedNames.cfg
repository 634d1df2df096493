SPECIFICATION Spec
CONSTANTS
  Tokens <- MCTokens
  InvalidChars <- MCInvalidChars
  Lowered <- MCLowered
  MaxGeneratedNameLength = 5
  Digest <- MCDigest
  Originals <- MCOriginals
  MaxNames = 2
INVARIANTS
  GeneratedAreLabels
  LabelsKept
  RewrittenStayApart
CHECK_DEADLOCK FALSE
