-------------------------- MODULE ControlCacheProofs --------------------------
(***************************************************************************)
(* Proofs about ControlCache for any number of goroutines, references,     *)
(* values and handles.  The argument is the mutex: whoever is between Lock *)
(* and the return holds controlMu, so neither another call nor Close can   *)
(* touch the cache entry in use.                                           *)
(***************************************************************************)
EXTENDS ControlCache, TLAPS

\* controlMu is held exactly by the goroutine between Lock and the return.
MutexDiscipline ==
  \A t \in Thread : (pc[t] \in CallPC \ {"lock"}) <=> (controlMu = t)

\* The entry of a call's reference is absent while the call creates it, and
\* present while the call uses it.
EntryInUse ==
  \A t \in Thread :
    /\ pc[t] = "create" => cache[call[t].ref].ctrl = NoCtrl
    /\ pc[t] \in {"value", "operate"} => cache[call[t].ref].ctrl # NoCtrl

\* Handles in the cache were created, and sit under one reference each.
CachedOnce ==
  /\ \A r \in Ref : cache[r].ctrl <= nextCtrl
  /\ \A r, s \in Ref : cache[r].ctrl = cache[s].ctrl /\ cache[r].ctrl # NoCtrl => r = s

\* The handles that exist are those in the cache.
LiveIsCached == live = Cached

IInv == TypeOK /\ MutexDiscipline /\ EntryInUse /\ CachedOnce /\ LiveIsCached

\* The arguments that an idle goroutine keeps are arguments.
LEMMA NoCallType == NoCall \in [kind: Kind, ref: Ref, val: Val]
<1>1. PICK r \in Ref, v \in Val : TRUE
  BY ControlAssumption
<1>2. [kind |-> "bool", ref |-> r, val |-> v] \in [kind: Kind, ref: Ref, val: Val]
  BY <1>1 DEF Kind
<1> QED
  BY <1>2 DEF NoCall

\* The initial state satisfies the inductive invariant.
LEMMA InitIInv == Init => IInv
<1> SUFFICES ASSUME Init PROVE IInv
  OBVIOUS
<1>1. TypeOK
  BY NoCallType, ControlAssumption DEF Init, TypeOK, CacheEntry, NoEntry, Ctrl, NoCtrl
<1>2. MutexDiscipline
  BY ControlAssumption DEF Init, MutexDiscipline, CallPC
<1>3. EntryInUse /\ CachedOnce /\ LiveIsCached
  BY DEF Init, EntryInUse, CachedOnce, LiveIsCached, Cached, NoEntry, NoCtrl
<1> QED
  BY <1>1, <1>2, <1>3 DEF IInv

\* Every step preserves the types.
LEMMA NextTypeOK == TypeOK /\ [Next]_vars => TypeOK'
<1> SUFFICES ASSUME TypeOK, [Next]_vars PROVE TypeOK'
  OBVIOUS
<1> USE ControlAssumption, NoCallType DEF TypeOK, Goto, UnlockAndReturn
<1>1. ASSUME NEW t \in Thread, NEW p \in Calls, NEW v \in Val, BeginControl(t, p, v)
      PROVE TypeOK'
  BY <1>1 DEF BeginControl, CallPC, Kind
<1>2. ASSUME NEW t \in Thread, LockControl(t) PROVE TypeOK'
  BY <1>2 DEF LockControl, CallPC
<1>3. ASSUME NEW t \in Thread, LookupEntry(t) PROVE TypeOK'
  BY <1>3 DEF LookupEntry, CallPC
<1>4. ASSUME NEW t \in Thread, CreateEntry(t) PROVE TypeOK'
  <2>1. nextCtrl + 1 \in Ctrl /\ nextCtrl + 1 \in 0..MaxCtrl
    BY <1>4 DEF CreateEntry, Ctrl
  <2>2. [NoEntry EXCEPT !.ctrl = nextCtrl + 1] \in CacheEntry
    BY <2>1 DEF CacheEntry, NoEntry
  <2> QED
    BY <1>4, <2>1, <2>2 DEF CreateEntry, CallPC
<1>5. ASSUME NEW t \in Thread, CreateFails(t) PROVE TypeOK'
  BY <1>5 DEF CreateFails
<1>6. ASSUME NEW t \in Thread, SetValue(t) PROVE TypeOK'
  <2>1. cache[call[t].ref] \in CacheEntry /\ call[t] \in [kind: Kind, ref: Ref, val: Val]
    OBVIOUS
  <2>2. [cache[call[t].ref] EXCEPT !.type = call[t].kind, !.val = Zero] \in CacheEntry
    BY <2>1 DEF CacheEntry
  <2>3. ASSUME NEW e \in CacheEntry PROVE Set(call[t].kind, e, call[t].val) \in CacheEntry
    BY <2>1 DEF CacheEntry, Set
  <2> QED
    BY <1>6, <2>1, <2>2, <2>3 DEF SetValue, CallPC
<1>7. ASSUME NEW t \in Thread, AllocationFails(t) PROVE TypeOK'
  BY <1>7 DEF AllocationFails
<1>8. ASSUME NEW t \in Thread, Operate(t) PROVE TypeOK'
  BY <1>8 DEF Operate
<1>9. CASE Connect \/ ConnectionLost \/ BeginClose
  BY <1>9 DEF Connect, ConnectionLost, BeginClose
<1>10. CASE CloseStep
  BY <1>10 DEF CloseStep, clearControlObjectCache, CloseConnection, DestroyConnection,
               CacheEntry, NoEntry
<1>11. CASE Terminated \/ UNCHANGED vars
  BY <1>11 DEF Terminated, vars
<1> QED
  BY <1>1, <1>2, <1>3, <1>4, <1>5, <1>6, <1>7, <1>8, <1>9, <1>10, <1>11
     DEF Next, DirectWithNormalSecurity, DirectWithNormalSecurityInt32,
         DirectWithNormalSecurityFloat32, ControlStep

\* Every step preserves the mutex discipline: only Lock takes controlMu, and
\* only the goroutine that holds it gives it back.
LEMMA NextMutexDiscipline == TypeOK /\ MutexDiscipline /\ [Next]_vars => MutexDiscipline'
<1> SUFFICES ASSUME TypeOK, MutexDiscipline, [Next]_vars PROVE MutexDiscipline'
  OBVIOUS
<1> USE ControlAssumption DEF TypeOK, MutexDiscipline, CallPC, Goto, UnlockAndReturn
<1>1. ASSUME NEW t \in Thread, NEW p \in Calls, NEW v \in Val, BeginControl(t, p, v)
      PROVE MutexDiscipline'
  BY <1>1 DEF BeginControl
<1>2. ASSUME NEW t \in Thread, LockControl(t) PROVE MutexDiscipline'
  BY <1>2 DEF LockControl
<1>3. ASSUME NEW t \in Thread, LookupEntry(t) PROVE MutexDiscipline'
  BY <1>3 DEF LookupEntry
<1>4. ASSUME NEW t \in Thread, CreateEntry(t) PROVE MutexDiscipline'
  BY <1>4 DEF CreateEntry
<1>5. ASSUME NEW t \in Thread, CreateFails(t) \/ AllocationFails(t) \/ Operate(t)
      PROVE MutexDiscipline'
  BY <1>5 DEF CreateFails, AllocationFails, Operate
<1>6. ASSUME NEW t \in Thread, SetValue(t) PROVE MutexDiscipline'
  BY <1>6 DEF SetValue
<1>7. CASE Connect \/ ConnectionLost \/ BeginClose \/ CloseStep \/ Terminated \/ UNCHANGED vars
  BY <1>7 DEF Connect, ConnectionLost, BeginClose, CloseStep, clearControlObjectCache,
              CloseConnection, DestroyConnection, Terminated, vars
<1> QED
  BY <1>1, <1>2, <1>3, <1>4, <1>5, <1>6, <1>7
     DEF Next, DirectWithNormalSecurity, DirectWithNormalSecurityInt32,
         DirectWithNormalSecurityFloat32, ControlStep

\* Setting ctlReuse leaves the handle of the entry alone.
LEMMA SetKeepsCtrl ==
  ASSUME NEW kind, NEW e \in CacheEntry, NEW v
  PROVE  Set(kind, e, v).ctrl = e.ctrl
  BY DEF Set, CacheEntry

\* In the same way, the entry that SetValue writes has the old handle.
LEMMA SetValueKeepsCtrl ==
  ASSUME TypeOK, NEW t \in Thread, SetValue(t)
  PROVE  /\ cache' \in [Ref -> CacheEntry]
         /\ \A r \in Ref : cache'[r].ctrl = cache[r].ctrl
<1> DEFINE e == IF cache[call[t].ref].type # "none" THEN cache[call[t].ref]
                ELSE [cache[call[t].ref] EXCEPT !.type = call[t].kind, !.val = Zero]
<1>1. call[t] \in [kind: Kind, ref: Ref, val: Val] /\ cache[call[t].ref] \in CacheEntry
  BY DEF TypeOK
<1>2. e \in CacheEntry /\ e.ctrl = cache[call[t].ref].ctrl
  BY <1>1 DEF CacheEntry
<1>3. cache' = [cache EXCEPT ![call[t].ref] = Set(call[t].kind, e, call[t].val)]
  BY DEF SetValue
<1> HIDE DEF e
<1>4. Set(call[t].kind, e, call[t].val).ctrl = cache[call[t].ref].ctrl
  BY <1>2, SetKeepsCtrl
<1>5. TypeOK'
  BY NextTypeOK DEF Next, DirectWithNormalSecurity, DirectWithNormalSecurityInt32,
         DirectWithNormalSecurityFloat32, ControlStep
<1> QED
  BY <1>1, <1>3, <1>4, <1>5 DEF TypeOK

\* Every step preserves the inductive invariant.
LEMMA NextIInv == IInv /\ [Next]_vars => IInv'
<1> SUFFICES ASSUME IInv, [Next]_vars PROVE IInv'
  OBVIOUS
<1> USE DEF IInv
<1>0. TypeOK' /\ MutexDiscipline'
  BY NextTypeOK, NextMutexDiscipline
<1> DEFINE Rest == EntryInUse /\ CachedOnce /\ LiveIsCached
<1> SUFFICES Rest'
  BY <1>0
\* Actions that change neither the cache nor the handles.
<1>1. ASSUME UNCHANGED <<cache, live, nextCtrl>>
      PROVE CachedOnce' /\ LiveIsCached'
  BY <1>1 DEF CachedOnce, LiveIsCached, Cached
<1>2. ASSUME NEW t \in Thread, NEW p \in Calls, NEW v \in Val, BeginControl(t, p, v)
      PROVE Rest'
  BY <1>1, <1>2 DEF BeginControl, Goto, EntryInUse, TypeOK
<1>3. ASSUME NEW t \in Thread, LockControl(t) PROVE Rest'
  BY <1>1, <1>3 DEF LockControl, Goto, EntryInUse, TypeOK
<1>4. ASSUME NEW t \in Thread, LookupEntry(t) PROVE Rest'
  BY <1>1, <1>4 DEF LookupEntry, Goto, EntryInUse, TypeOK
<1>5. ASSUME NEW t \in Thread, CreateFails(t) \/ AllocationFails(t) \/ Operate(t) PROVE Rest'
  BY <1>1, <1>5 DEF CreateFails, AllocationFails, Operate, UnlockAndReturn, Goto, EntryInUse, TypeOK
<1>6. ASSUME NEW t \in Thread, SetValue(t) PROVE Rest'
  <2>1. \A r \in Ref : cache'[r].ctrl = cache[r].ctrl
    BY <1>6, SetValueKeepsCtrl
  <2>2. EntryInUse'
    BY <1>6, <2>1 DEF SetValue, Goto, EntryInUse, TypeOK
  <2>3. CachedOnce' /\ LiveIsCached'
    BY <1>6, <2>1 DEF SetValue, CachedOnce, LiveIsCached, Cached
  <2> QED
    BY <2>2, <2>3
<1>7. ASSUME NEW t \in Thread, CreateEntry(t) PROVE Rest'
  <2>1. CASE call[t].kind = "int" /\ CtlType[call[t].ref] # "int"
    <3>1. /\ UNCHANGED <<cache, live, closing>> /\ nextCtrl' = nextCtrl + 1
          /\ pc' = [pc EXCEPT ![t] = "idle"]
          /\ call' = [call EXCEPT ![t] = NoCall]
      BY <1>7, <2>1 DEF CreateEntry, UnlockAndReturn, Goto
    <3>2. CachedOnce'
      BY <3>1 DEF CachedOnce, TypeOK, CacheEntry, Ctrl, NoCtrl
    <3> QED
      BY <3>1, <3>2 DEF EntryInUse, LiveIsCached, Cached, TypeOK
  <2>2. CASE ~(call[t].kind = "int" /\ CtlType[call[t].ref] # "int")
    <3> DEFINE r == call[t].ref
               new == nextCtrl + 1
    <3>1. /\ cache' = [cache EXCEPT ![r] = [NoEntry EXCEPT !.ctrl = new]]
          /\ live' = live \cup {new}
          /\ nextCtrl' = new
          /\ pc' = [pc EXCEPT ![t] = "value"]
          /\ UNCHANGED <<call, closing>>
      BY <1>7, <2>2 DEF CreateEntry, Goto
    <3>2. r \in Ref /\ new \in Nat /\ new # NoCtrl /\ nextCtrl \in Nat
      BY DEF TypeOK, NoCtrl
    <3>3. cache[r].ctrl = NoCtrl
      BY <1>7 DEF EntryInUse, CreateEntry
    <3>4. [NoEntry EXCEPT !.ctrl = new].ctrl = new
      BY DEF NoEntry
    <3>5. \A s \in Ref : cache'[s].ctrl = IF s = r THEN new ELSE cache[s].ctrl
      BY <3>1, <3>2, <3>4 DEF TypeOK
    <3>6. \A s \in Ref : cache[s].ctrl \in Nat /\ cache[s].ctrl <= nextCtrl
      BY DEF CachedOnce, TypeOK, CacheEntry, Ctrl, NoCtrl
    <3>7. CachedOnce'
      BY <3>1, <3>2, <3>5, <3>6 DEF CachedOnce
    <3>8. Cached' = Cached \cup {new}
      BY <3>2, <3>3, <3>5 DEF Cached
    <3>9. EntryInUse'
      \* The other goroutines do not hold controlMu.
      <4>1. \A u \in Thread : u # t => pc[u] \in {"idle", "lock"}
        BY <1>7 DEF MutexDiscipline, CreateEntry, CallPC, TypeOK
      <4> QED
        BY <3>1, <3>2, <3>5, <4>1 DEF EntryInUse, TypeOK
    <3> QED
      BY <3>1, <3>7, <3>8, <3>9 DEF LiveIsCached
  <2> QED
    BY <2>1, <2>2
<1>8. CASE Connect \/ ConnectionLost \/ BeginClose \/ CloseConnection \/ DestroyConnection
           \/ Terminated \/ UNCHANGED vars
  <2>1. UNCHANGED <<cache, live, nextCtrl, pc, call>>
    BY <1>8 DEF Connect, ConnectionLost, BeginClose, CloseConnection, DestroyConnection,
                Terminated, vars
  <2> QED
    BY <1>1, <2>1 DEF EntryInUse
<1>9. CASE clearControlObjectCache
  \* controlMu is free, so no call is using an entry.
  <2>1. \A u \in Thread : pc[u] \in {"idle", "lock"}
    BY <1>9, ControlAssumption DEF clearControlObjectCache, MutexDiscipline, CallPC, TypeOK
  <2>2. \A r \in Ref : cache'[r].ctrl = NoCtrl
    BY <1>9 DEF clearControlObjectCache, NoEntry
  <2>3. EntryInUse'
    BY <1>9, <2>1 DEF clearControlObjectCache, EntryInUse
  <2>4. CachedOnce'
    BY <1>9, <2>2 DEF clearControlObjectCache, CachedOnce, NoCtrl, TypeOK
  <2>5. LiveIsCached'
    <3>1. Cached' = {}
      BY <2>2 DEF Cached
    <3>2. live' = {}
      BY <1>9 DEF clearControlObjectCache, LiveIsCached
    <3> QED
      BY <3>1, <3>2 DEF LiveIsCached
  <2> QED
    BY <2>3, <2>4, <2>5
<1> QED
  BY <1>2, <1>3, <1>4, <1>5, <1>6, <1>7, <1>8, <1>9
     DEF Next, DirectWithNormalSecurity, DirectWithNormalSecurityInt32,
         DirectWithNormalSecurityFloat32, ControlStep, CloseStep

\* Every reachable state satisfies the inductive invariant.
THEOREM ControlInvariant == Spec => []IInv
  BY InitIInv, NextIInv, PTL DEF Spec

\* The variables of the control cache keep their types.
THEOREM ControlTypeOK == Spec => []TypeOK
<1>1. IInv => TypeOK
  BY DEF IInv
<1> QED
  BY <1>1, ControlInvariant, PTL

\* No control handle is leaked, destroyed twice or shared by two references, on
\* any path of getOrCreateControlEntryLocked and clearControlObjectCache.
THEOREM ControlHandleOwnership == Spec => []HandleOwnership
<1>1. IInv => HandleOwnership
  BY DEF IInv, HandleOwnership, CachedOnce, LiveIsCached
<1> QED
  BY <1>1, ControlInvariant, PTL

\* A call never operates on a handle that Close has destroyed by clearing the
\* cache, however Close and the calls interleave.
THEOREM ControlLiveHandle == Spec => []OperateUsesLiveHandle
<1>1. IInv => OperateUsesLiveHandle
  BY DEF IInv, OperateUsesLiveHandle, EntryInUse, LiveIsCached, Cached, TypeOK
<1> QED
  BY <1>1, ControlInvariant, PTL

-----------------------------------------------------------------------------
(* What the calls send, for an application that operates each reference    *)
(* with one kind of call                                                   *)

\* The calls are the application's, the reusable value of a reference has the
\* type of its calls, and an entry used with Int32 calls was checked.
KindInv ==
  /\ \A t \in Thread : pc[t] # "idle" => <<call[t].kind, call[t].ref>> \in Calls
  /\ \A r \in Ref : cache[r].type # "none" => <<cache[r].type, r>> \in Calls
  /\ \A r \in Ref : cache[r].ctrl # NoCtrl /\ <<"int", r>> \in Calls => CtlType[r] = "int"

SendInv == IInv /\ KindInv /\ OperateSendsOwnValue

\* The entry that SetValue leaves has the type and the value of the call.
LEMMA SetValueResult ==
  ASSUME OneKindPerRef, SendInv, NEW t \in Thread, SetValue(t)
  PROVE  /\ cache'[call[t].ref].type = call[t].kind
         /\ cache'[call[t].ref].val = call[t].val
         /\ \A r \in Ref : r # call[t].ref => cache'[r] = cache[r]
<1> DEFINE r == call[t].ref
           e == IF cache[r].type # "none" THEN cache[r]
                ELSE [cache[r] EXCEPT !.type = call[t].kind, !.val = Zero]
<1>1. call[t] \in [kind: Kind, ref: Ref, val: Val] /\ cache[r] \in CacheEntry
  BY DEF SendInv, IInv, TypeOK
<1>2. <<call[t].kind, r>> \in Calls
  BY DEF SetValue, SendInv, KindInv
<1>3. cache[r].type # "none" => cache[r].type = call[t].kind
  <2>1. SUFFICES ASSUME cache[r].type # "none" PROVE cache[r].type = call[t].kind
    OBVIOUS
  <2>2. <<cache[r].type, r>> \in Calls
    BY <1>1, <2>1 DEF SendInv, KindInv
  <2> QED
    BY <1>2, <2>2 DEF OneKindPerRef
<1>4. e \in CacheEntry /\ e.type = call[t].kind
  BY <1>1, <1>3 DEF CacheEntry
<1>5. cache' = [cache EXCEPT ![r] = Set(call[t].kind, e, call[t].val)]
  BY DEF SetValue
<1> HIDE DEF e
<1>6. Set(call[t].kind, e, call[t].val) = [e EXCEPT !.val = call[t].val]
  BY <1>4 DEF Set
<1>7. /\ [e EXCEPT !.val = call[t].val].type = call[t].kind
      /\ [e EXCEPT !.val = call[t].val].val = call[t].val
  BY <1>4 DEF CacheEntry
<1> QED
  BY <1>1, <1>5, <1>6, <1>7 DEF SendInv, IInv, TypeOK

\* Every step preserves the invariant on what is sent.
LEMMA NextSendInv == ASSUME OneKindPerRef PROVE SendInv /\ [Next]_vars => SendInv'
<1> SUFFICES ASSUME SendInv, [Next]_vars PROVE SendInv'
  OBVIOUS
<1>0. IInv' /\ IInv
  BY NextIInv DEF SendInv
<1> DEFINE Rest == KindInv /\ OperateSendsOwnValue
<1> SUFFICES Rest'
  BY <1>0 DEF SendInv
<1> USE DEF SendInv
<1>1. TypeOK
  BY <1>0 DEF IInv
<1>2. ASSUME NEW t \in Thread, NEW p \in Calls, NEW v \in Val, BeginControl(t, p, v)
      PROVE Rest'
  <2>1. p = <<p[1], p[2]>> /\ p \in Kind \X Ref
    BY ControlAssumption
  <2> QED
    BY <1>1, <1>2, <2>1 DEF BeginControl, Goto, KindInv, OperateSendsOwnValue, TypeOK
<1>3. ASSUME NEW t \in Thread, LockControl(t) \/ LookupEntry(t) PROVE Rest'
  BY <1>1, <1>3 DEF LockControl, LookupEntry, Goto, KindInv, OperateSendsOwnValue, TypeOK
<1>4. ASSUME NEW t \in Thread, CreateFails(t) \/ AllocationFails(t) \/ Operate(t) PROVE Rest'
  BY <1>1, <1>4 DEF CreateFails, AllocationFails, Operate, UnlockAndReturn, Goto,
                    KindInv, OperateSendsOwnValue, TypeOK
<1>5. ASSUME NEW t \in Thread, CreateEntry(t) PROVE Rest'
  <2>1. CASE call[t].kind = "int" /\ CtlType[call[t].ref] # "int"
    BY <1>1, <1>5, <2>1 DEF CreateEntry, UnlockAndReturn, Goto, KindInv, OperateSendsOwnValue, TypeOK
  <2>2. CASE ~(call[t].kind = "int" /\ CtlType[call[t].ref] # "int")
    <3> DEFINE r == call[t].ref
    <3>1. /\ cache' = [cache EXCEPT ![r] = [NoEntry EXCEPT !.ctrl = nextCtrl + 1]]
          /\ pc' = [pc EXCEPT ![t] = "value"]
          /\ call' = call
          /\ pc[t] = "create"
      BY <1>5, <2>2 DEF CreateEntry, Goto
    <3>2. r \in Ref /\ <<call[t].kind, r>> \in Calls
      BY <1>1, <3>1 DEF TypeOK, KindInv
    <3>3. cache'[r].type = "none" /\ \A s \in Ref : s # r => cache'[s] = cache[s]
      BY <1>1, <3>1, <3>2 DEF TypeOK, NoEntry
    <3>4. <<"int", r>> \in Calls => CtlType[r] = "int"
      BY <2>2, <3>2 DEF OneKindPerRef
    <3>5. KindInv'
      BY <1>1, <3>1, <3>2, <3>3, <3>4 DEF KindInv, TypeOK
    \* The other goroutines do not hold controlMu.
    <3>6. \A u \in Thread : u # t => pc[u] \in {"idle", "lock"}
      BY <1>0, <3>1 DEF IInv, MutexDiscipline, CallPC, TypeOK
    <3>7. OperateSendsOwnValue'
      BY <1>1, <3>1, <3>6 DEF OperateSendsOwnValue, TypeOK
    <3> QED
      BY <3>5, <3>7
  <2> QED
    BY <2>1, <2>2
<1>6. ASSUME NEW t \in Thread, SetValue(t) PROVE Rest'
  <2> DEFINE r == call[t].ref
  <2>1. /\ cache'[r].type = call[t].kind
        /\ cache'[r].val = call[t].val
        /\ \A s \in Ref : s # r => cache'[s] = cache[s]
    BY <1>6, SetValueResult
  <2>2. \A s \in Ref : cache'[s].ctrl = cache[s].ctrl
    BY <1>1, <1>6, SetValueKeepsCtrl
  <2>3. pc' = [pc EXCEPT ![t] = "operate"] /\ call' = call /\ pc[t] = "value" /\ r \in Ref
    BY <1>1, <1>6 DEF SetValue, Goto, TypeOK
  <2>4. KindInv'
    BY <1>1, <2>1, <2>2, <2>3 DEF KindInv, TypeOK
  <2>5. \A u \in Thread : u # t => pc[u] \in {"idle", "lock"}
    BY <1>0, <2>3 DEF IInv, MutexDiscipline, CallPC, TypeOK
  <2>6. OperateSendsOwnValue'
    BY <1>1, <2>1, <2>3, <2>5 DEF OperateSendsOwnValue, TypeOK
  <2> QED
    BY <2>4, <2>6
<1>7. CASE Connect \/ ConnectionLost \/ BeginClose \/ CloseConnection \/ DestroyConnection
           \/ Terminated \/ UNCHANGED vars
  <2>1. UNCHANGED <<cache, pc, call>>
    BY <1>7 DEF Connect, ConnectionLost, BeginClose, CloseConnection, DestroyConnection,
                Terminated, vars
  <2> QED
    BY <2>1 DEF KindInv, OperateSendsOwnValue
<1>8. CASE clearControlObjectCache
  <2>1. \A u \in Thread : pc[u] \in {"idle", "lock"}
    BY <1>0, <1>8, ControlAssumption
       DEF IInv, clearControlObjectCache, MutexDiscipline, CallPC, TypeOK
  <2>2. \A r \in Ref : cache'[r].ctrl = NoCtrl /\ cache'[r].type = "none"
    BY <1>8 DEF clearControlObjectCache, NoEntry
  <2> QED
    BY <1>8, <2>1, <2>2 DEF clearControlObjectCache, KindInv, OperateSendsOwnValue
<1> QED
  BY <1>2, <1>3, <1>4, <1>5, <1>6, <1>7, <1>8
     DEF Next, DirectWithNormalSecurity, DirectWithNormalSecurityInt32,
         DirectWithNormalSecurityFloat32, ControlStep, CloseStep

\* The invariant on what is sent holds in every reachable state.
LEMMA SendInvariant == ASSUME OneKindPerRef PROVE Spec => []SendInv
<1>1. Init => SendInv
  <2>1. Init => KindInv /\ OperateSendsOwnValue
    BY DEF Init, KindInv, OperateSendsOwnValue, NoEntry
  <2> QED
    BY <2>1, InitIInv DEF SendInv
<1> QED
  BY <1>1, NextSendInv, PTL DEF Spec

\* With one kind of call per reference, the Operate of a call carries the value
\* and the type of that call, whichever goroutines share the reusable MmsValue.
THEOREM ControlSendsOwnValue == ASSUME OneKindPerRef PROVE Spec => []OperateSendsOwnValue
<1>1. SendInv => OperateSendsOwnValue
  BY DEF SendInv
<1> QED
  BY <1>1, SendInvariant, PTL

\* With one kind of call per reference, DirectWithNormalSecurityInt32 sends no
\* Operate to a control whose ctlVal is not an integer.
THEOREM ControlInt32Checked == ASSUME OneKindPerRef PROVE Spec => []Int32OnlyToInteger
<1>1. SendInv => Int32OnlyToInteger
  BY DEF SendInv, IInv, KindInv, EntryInUse, Int32OnlyToInteger, TypeOK
<1> QED
  BY <1>1, SendInvariant, PTL

-----------------------------------------------------------------------------
(* The calls implement the atomic service                                  *)

\* A call in progress that goes on without reaching or leaving the library's
\* Operate is invisible to the service.
LEMMA InvisibleStep ==
  ASSUME TypeOK, NEW t \in Thread, pc[t] \notin {"idle", "operate"}, MutexDiscipline,
         NEW l \in CallPC \ {"operate"}, pc' = [pc EXCEPT ![t] = l], call' = call,
         \A u \in Thread : pc[u] = "operate" => cache'[call[u].ref] = cache[call[u].ref]
  PROVE  UNCHANGED <<Pending, Sent>>
<1>1. \A u \in Thread : /\ pc[u] = "idle" <=> pc'[u] = "idle"
                        /\ pc[u] = "operate" <=> pc'[u] = "operate"
  BY DEF TypeOK, CallPC
<1>2. Pending' = Pending
  BY <1>1 DEF Pending
<1>3. ASSUME NEW u \in Thread PROVE Sent'[u] = Sent[u]
  BY <1>1 DEF Sent
<1> QED
  BY <1>2, <1>3 DEF Sent

\* Every step of the calls is a step of the service or invisible to it.
LEMMA NextRefines ==
  ASSUME OneKindPerRef, SendInv, SendInv', [Next]_vars
  PROVE  [Service!Next]_<<Pending, Sent>>
<1>0. TypeOK /\ TypeOK' /\ MutexDiscipline /\ EntryInUse /\ KindInv /\ OperateSendsOwnValue'
  BY DEF SendInv, IInv
<1>1. ASSUME NEW t \in Thread, NEW p \in Calls, NEW v \in Val, BeginControl(t, p, v)
      PROVE Service!Next
  <2> DEFINE q == [kind |-> p[1], ref |-> p[2], val |-> v]
  <2>1. q \in [kind: Kind, ref: Ref, val: Val]
    BY ControlAssumption
  <2>2. pc[t] = "idle" /\ pc' = [pc EXCEPT ![t] = "lock"] /\ call' = [call EXCEPT ![t] = q]
        /\ cache' = cache
    BY <1>1 DEF BeginControl, Goto
  <2>3. Pending[t] = {} /\ Pending' = [Pending EXCEPT ![t] = {q}]
    BY <1>0, <2>2 DEF Pending, TypeOK
  <2>4. Sent' = Sent
    BY <1>0, <2>2 DEF Sent, TypeOK
  <2> QED
    BY <2>1, <2>3, <2>4 DEF Service!Next, Service!Ask
<1>2. ASSUME NEW t \in Thread, LockControl(t) \/ LookupEntry(t)
      PROVE UNCHANGED <<Pending, Sent>>
  <2>1. PICK l \in CallPC \ {"operate"} : pc' = [pc EXCEPT ![t] = l]
    BY <1>2 DEF LockControl, LookupEntry, Goto, CallPC
  <2> QED
    BY <1>0, <1>2, <2>1, InvisibleStep DEF LockControl, LookupEntry
\* The calls that return.
<1>3. ASSUME NEW t \in Thread, pc[t] # "idle", cache' = cache, UnlockAndReturn(t)
      PROVE Service!Next
  <2>1. pc' = [pc EXCEPT ![t] = "idle"] /\ call' = [call EXCEPT ![t] = NoCall]
    BY <1>3 DEF UnlockAndReturn, Goto
  <2>2. Pending[t] # {} /\ Pending' = [Pending EXCEPT ![t] = {}]
    BY <1>0, <1>3, <2>1 DEF Pending, TypeOK
  <2>3. Sent' = [Sent EXCEPT ![t] = {}]
    BY <1>0, <1>3, <2>1 DEF Sent, TypeOK
  <2> QED
    BY <2>2, <2>3 DEF Service!Next, Service!Return
<1>4. ASSUME NEW t \in Thread, CreateEntry(t)
      PROVE Service!Next \/ UNCHANGED <<Pending, Sent>>
  <2>1. CASE call[t].kind = "int" /\ CtlType[call[t].ref] # "int"
    BY <1>3, <1>4, <2>1 DEF CreateEntry
  <2>2. CASE ~(call[t].kind = "int" /\ CtlType[call[t].ref] # "int")
    <3>1. pc[t] = "create" /\ pc' = [pc EXCEPT ![t] = "value"] /\ call' = call
      BY <1>4, <2>2 DEF CreateEntry, Goto
    <3>2. \A u \in Thread : pc[u] # "operate"
      BY <1>0, <3>1 DEF MutexDiscipline, CallPC
    <3> QED
      BY <1>0, <3>1, <3>2, InvisibleStep DEF CallPC
  <2> QED
    BY <2>1, <2>2
<1>5. ASSUME NEW t \in Thread, SetValue(t) PROVE Service!Next
  <2>1. pc[t] = "value" /\ pc' = [pc EXCEPT ![t] = "operate"] /\ call' = call
    BY <1>5 DEF SetValue, Goto
  <2>2. \A u \in Thread : Sent[u] = {}
    BY <1>0, <2>1 DEF Sent, MutexDiscipline, CallPC
  <2>3. call[t] \in [kind: Kind, ref: Ref, val: Val]
    BY <1>0 DEF TypeOK
  <2>4. [kind |-> cache'[call[t].ref].type, ref |-> call[t].ref,
         val |-> cache'[call[t].ref].val] = call[t]
    <3>1. cache'[call[t].ref].type = call[t].kind /\ cache'[call[t].ref].val = call[t].val
      BY <1>0, <2>1 DEF OperateSendsOwnValue, TypeOK
    <3> QED
      BY <2>3, <3>1
  <2>5. \A u \in Thread : u # t => pc[u] \notin {"operate"}
    BY <1>0, <2>1 DEF MutexDiscipline, CallPC
  <2>6. Sent' = [Sent EXCEPT ![t] = {call[t]}]
    BY <1>0, <2>1, <2>4, <2>5 DEF Sent, TypeOK
  <2>7. Pending' = Pending /\ Pending[t] = {call[t]}
    BY <1>0, <2>1 DEF Pending, TypeOK
  <2>8. call[t].kind = "int" => CtlType[call[t].ref] = "int"
    BY <1>0, <2>1, <2>3 DEF KindInv, EntryInUse
  <2> QED
    BY <2>2, <2>6, <2>7, <2>8 DEF Service!Next, Service!Send
<1>6. ASSUME NEW t \in Thread, CreateFails(t) \/ AllocationFails(t) \/ Operate(t)
      PROVE Service!Next
  BY <1>3, <1>6 DEF CreateFails, AllocationFails, Operate
<1>7. CASE clearControlObjectCache
  <2>1. \A u \in Thread : pc[u] # "operate"
    BY <1>0, <1>7, ControlAssumption DEF clearControlObjectCache, MutexDiscipline, CallPC
  <2> QED
    BY <1>7, <2>1 DEF clearControlObjectCache, Pending, Sent
<1>8. CASE Connect \/ ConnectionLost \/ BeginClose \/ CloseConnection \/ DestroyConnection
           \/ Terminated \/ UNCHANGED vars
  <2>1. UNCHANGED <<cache, pc, call>>
    BY <1>8 DEF Connect, ConnectionLost, BeginClose, CloseConnection, DestroyConnection,
                Terminated, vars
  <2> QED
    BY <2>1 DEF Pending, Sent
<1> QED
  BY <1>1, <1>2, <1>4, <1>5, <1>6, <1>7, <1>8
     DEF Next, DirectWithNormalSecurity, DirectWithNormalSecurityInt32,
         DirectWithNormalSecurityFloat32, ControlStep, CloseStep

\* With one kind of call per reference, the calls on one IedClient implement the
\* atomic control service, for any number of goroutines, references and values.
THEOREM ControlImplementsService ==
  ASSUME OneKindPerRef PROVE Spec => ImplementsService
<1>1. Init => Service!Init
  BY DEF Init, Service!Init, Pending, Sent
<1>2. SendInv /\ SendInv' /\ [Next]_vars => [Service!Next]_<<Pending, Sent>>
  BY NextRefines
<1> QED
  BY <1>1, <1>2, SendInvariant, PTL DEF Spec, ImplementsService, Service!Spec, Service!vars

=============================================================================
