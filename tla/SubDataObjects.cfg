\* A data object with a sub data object.
SPECIFICATION Spec
CONSTANTS
  FCDA <- SeqFCDA
  LNodeType <- SeqLNodeType
  DOType <- MCDOType
  Values <- MCValues
  Version = {"v1", "v2"}
  NULL = NULL
INVARIANT
  NamedValuesCurrent
