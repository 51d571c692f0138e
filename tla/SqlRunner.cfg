SPECIFICATION FairSpec
CONSTANTS
  Name = {"DB", "OTHER", "S", "PUBLIC"}
  NoName = NoName
  DefaultSchema = "PUBLIC"
  ProfileContext <- MCProfileContext
  Calls <- MCCalls
  MaxCalls = 2
INVARIANTS
  TypeOK
  OwnContext
  AllOrNothing
  CleanBetweenCalls
PROPERTIES
  ImplementsAtomicCalls
CHECK_DEADLOCK FALSE
