SPECIFICATION Spec
CONSTANTS
  Label <- MCLabel
  Datatype <- MCDatatype
  NoDatatype = NoDatatype
  MalformedRef = MalformedRef
  Manifests <- MCWithoutSchema
INVARIANT DatabasesFirst
CHECK_DEADLOCK FALSE
