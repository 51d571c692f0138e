SPECIFICATION Spec
CONSTANTS
  table = table
  stage = stage
  proc = proc
  Absent = Absent
  ColumnName = {"a", "b", "c"}
  ColumnType <- MCColumnType
  CaseFold <- MCCaseFold
  Stored <- MCStored
  LiveStates <- MCLiveStates
  Object = {proc, table, stage}
  Manifest <- MCManifest
  Setting = {"on", "off"}
  ErrorText = {"reason"}
  MaxDrift = 1
  MaxRuns = 2
INVARIANTS
  TypeOK
  ResultsFollowPlan
  EarlierObjectsExist
  WireOrderAcceptable
  NoNeedlessWrite
  SettledMeansApplied
  ExitCodeTells
PROPERTIES
  GateHolds
  ReadOnly
CHECK_DEADLOCK FALSE
