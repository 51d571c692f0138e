SPECIFICATION Spec
CONSTANTS
  r1 = r1
  r2 = r2
  r3 = r3
  Request = {r1, r2, r3}
  Profile = {"P", "Q", "X"}
  Configured = {"P", "Q"}
  Bodies <- MCBodies
  MaxBad = 1
  None = None
INVARIANTS
  TypeOK
  OwnAccount
  NextRequestReconnects
  NoConnectionIsLost
PROPERTIES
  UsableConnectionIsKept
CHECK_DEADLOCK FALSE
