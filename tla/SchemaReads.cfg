\* Reads into a map that may be reused, on a data set the SCL describes unambiguously.
SPECIFICATION Spec
CONSTANTS
  FCDA <- MCFCDA
  LNodeType <- MCLNodeType
  DOType <- MCDOType
  Values <- MCValues
  Version = {"v1", "v2"}
  NULL = NULL
INVARIANTS
  NamedValuesCurrent
  FlatDiffersOnLists
