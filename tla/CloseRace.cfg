\* Close overlaps a control call.
SPECIFICATION Spec
CONSTANTS
  Thread = {t1, t2}
  Ref <- MCRef
  CtlType <- MCCtlType
  Val = {v1, v2}
  Calls <- MCOneKind
  CloseAlone = FALSE
  MaxCtrl = 2
  NoThread = NoThread
  Zero = Zero
  Corrupt = Corrupt
INVARIANTS
  CacheClearedBeforeDestroy
