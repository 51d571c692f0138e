SPECIFICATION Spec
CONSTANTS
  Digits <- MCDigits
  Undeclared <- MCUndeclared
  Pairs <- MCPairs
  Texts <- MCTexts
  Lower <- MCLower
  Contexts = {2}
INVARIANT ReducedPrecisionIsFlagged
CHECK_DEADLOCK FALSE
