SPECIFICATION FairSpec
CONSTANTS
  Label <- MCLabel
  Datatype <- MCDatatype
  NoDatatype = NoDatatype
  MalformedRef = MalformedRef
  Manifests <- MCUniqueManifests
INVARIANTS
  TypeOK
  PrerequisitesFirst
  EveryObjectOnce
  CycleErrorJustified
  StableOrder
PROPERTIES
  ImplementsApplyOrder
CHECK_DEADLOCK FALSE
