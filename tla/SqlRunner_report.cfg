SPECIFICATION Spec
CONSTANTS
  Name = {"DB", "OTHER", "S", "PUBLIC"}
  NoName = NoName
  DefaultSchema = "PUBLIC"
  ProfileContext <- MCProfileContext
  Calls <- MCPlainTransactions
  MaxCalls = 1
INVARIANT
  RolledBackMeansNothing
CHECK_DEADLOCK FALSE
