\* Every sequence of reports on three data sets.
SPECIFICATION Spec
CONSTANTS
  DataSets <- MCDataSets
  Values <- MCValues
  Reasons = {1, 16}
  NULL = NULL
INVARIANTS
  CountIsExact
  EntriesMatchElements
  CompleteOnceInterrogated
