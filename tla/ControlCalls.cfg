\* One kind of call per reference, and Close at any time.
SPECIFICATION FairSpec
CONSTANTS
  Thread = {t1, t2}
  Ref <- MCRef
  CtlType <- MCCtlType
  Val = {v1, v2}
  Calls <- MCOneKind
  CloseAlone = FALSE
  MaxCtrl = 2
  NoThread = NoThread
  Zero = Zero
  Corrupt = Corrupt
INVARIANTS
  TypeOK
  HandleOwnership
  OperateUsesLiveHandle
  OperateSendsOwnValue
  Int32OnlyToInteger
PROPERTIES
  ControlCallsReturn
  ImplementsService
