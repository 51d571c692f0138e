SPECIFICATION Spec
CONSTANTS
  Digits <- MCDigits
  Undeclared <- MCUndeclared
  Pairs <- MCPairs
  Texts <- MCTexts
  Lower <- MCLower
  Contexts = {0, 1, 2}
INVARIANTS
  NarrowingLoses
  UnflaggedLossIsByScale
  UnchangedIsTheSame
  RowsRebuildBothSides
  DifferencesAreShown
  OnlyDifferencesOrMoves
  WindowIsExact
CHECK_DEADLOCK FALSE
