SPECIFICATION Spec
CONSTANTS
  Label <- MCLabel
  Datatype <- MCDatatype
  NoDatatype = NoDatatype
  MalformedRef = MalformedRef
  Manifests <- MCDuplicateManifests
INVARIANT EveryObjectOnce
CHECK_DEADLOCK FALSE
