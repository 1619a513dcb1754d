\* An Int32 call on a reference that an earlier boolean call has cached.
SPECIFICATION Spec
CONSTANTS
  Thread = {t1}
  Ref <- MCRef
  CtlType <- MCCtlType
  Val = {v1, v2}
  Calls <- MCTwoKinds
  CloseAlone = TRUE
  MaxCtrl = 2
  NoThread = NoThread
  Zero = Zero
  Corrupt = Corrupt
INVARIANTS
  Int32OnlyToInteger
