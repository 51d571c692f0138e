SPECIFICATION Spec
CONSTANTS
  ProfileName = {"default", "other"}
  NoProfile = NoProfile
  Default = "default"
  NoDirectory = NoDirectory
  Environments <- MCEnvironments
  ConfigFiles <- MCConfigFiles
  Directories <- MCDirectories
  Orders = {"ok", "DependencyError", "KeyError"}
  MaxEnters = 2
  MaxCalls = 2
  None = None
INVARIANTS
  TypeOK
  ClosedByTheirOwner
  WorksOnOpenConnection
  WholeManifest
  BadProfileIsTold
PROPERTIES
  OneKey
CHECK_DEADLOCK FALSE
