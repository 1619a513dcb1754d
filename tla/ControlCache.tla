----------------------------- MODULE ControlCache -----------------------------
(***************************************************************************)
(* Control operations of one IedClient (iec61850_control.go): the three    *)
(* DirectWithNormalSecurity calls, the cache of ControlObjectClient        *)
(* handles with one reusable MmsValue per control reference, the mutex     *)
(* controlMu that serialises the calls, and Close, which clears the cache  *)
(* and then closes and destroys the connection.                            *)
(*                                                                         *)
(* Creating a handle and operating block on the network with controlMu     *)
(* held; closing and destroying the connection do not take controlMu.      *)
(***************************************************************************)
EXTENDS Naturals, FiniteSets

CONSTANTS
  Thread,     \* goroutines that use the client
  Ref,        \* control references
  CtlType,    \* the type of ctlVal that the server has for each reference
  Val,        \* values the application operates with
  Calls,      \* <<kind, ref>> pairs the application calls
  CloseAlone, \* TRUE: Close does not overlap the control calls
  MaxCtrl,    \* bound on the handles ever created
  NoThread,   \* nobody holds the mutex
  Zero,       \* the value of an MmsValue that was just allocated
  Corrupt     \* a value overwritten through a setter of another type

Kind == {"bool", "int", "float"}

ASSUME ControlAssumption ==
  /\ CtlType \in [Ref -> Kind \cup {"struct"}]
  /\ Calls \subseteq Kind \X Ref
  /\ CloseAlone \in BOOLEAN
  /\ MaxCtrl \in Nat
  /\ Ref # {} /\ Val # {}
  /\ NoThread \notin Thread
  /\ Zero \notin Val /\ Corrupt \notin Val

\* The application operates each reference with one of the three calls only.
OneKindPerRef == \A p, q \in Calls : p[2] = q[2] => p[1] = q[1]

VARIABLES
  conn,       \* the connection
  controlMu,  \* the goroutine that holds the mutex
  cache,      \* controlCache: per reference a handle and its ctlReuse
  live,       \* handles allocated in the library and not destroyed
  nextCtrl,   \* handles created so far
  pc,         \* per goroutine, the next step of its call
  call,       \* per goroutine, the arguments of its call
  closing     \* how far Close has got

vars == <<conn, controlMu, cache, live, nextCtrl, pc, call, closing>>

-----------------------------------------------------------------------------

Ctrl == 1..MaxCtrl
NoCtrl == 0

\* ctrl = NoCtrl: the reference has no cache entry.  type = "none": ctlReuse is
\* nil, otherwise ctlReuse is an MmsValue of that type.
CacheEntry == [ctrl: Ctrl \cup {NoCtrl}, type: Kind \cup {"none"},
               val: Val \cup {Zero, Corrupt}]
NoEntry == [ctrl |-> NoCtrl, type |-> "none", val |-> Zero]

CallPC == {"lock", "lookup", "create", "value", "operate"}

TypeOK ==
  /\ conn \in {"closed", "connected", "destroyed"}
  /\ controlMu \in Thread \cup {NoThread}
  /\ cache \in [Ref -> CacheEntry]
  /\ live \subseteq Ctrl
  /\ nextCtrl \in 0..MaxCtrl
  /\ pc \in [Thread -> CallPC \cup {"idle"}]
  /\ call \in [Thread -> [kind: Kind, ref: Ref, val: Val]]
  /\ closing \in {"no", "clear", "close", "destroy", "done"}

Goto(t, l) == pc' = [pc EXCEPT ![t] = l]

NoCall == CHOOSE x \in [kind: Kind, ref: Ref, val: Val] : TRUE

\* The deferred Unlock, and the return of the call.
UnlockAndReturn(t) ==
  /\ controlMu' = NoThread
  /\ Goto(t, "idle")
  /\ call' = [call EXCEPT ![t] = NoCall]

Cached == {cache[r].ctrl : r \in Ref} \ {NoCtrl}

-----------------------------------------------------------------------------
(* The control calls                                                       *)

\* A goroutine calls one of the three functions below; what follows is common to
\* them, but for the kind of ctlVal and the type check of the Int32 call.
BeginControl(t, p, v) ==
  /\ pc[t] = "idle"
  /\ closing # "done"
  /\ CloseAlone => closing = "no"
  /\ call' = [call EXCEPT ![t] = [kind |-> p[1], ref |-> p[2], val |-> v]]
  /\ Goto(t, "lock")
  /\ UNCHANGED <<conn, controlMu, cache, live, nextCtrl, closing>>

\* The SPC, INC and APC calls.
DirectWithNormalSecurity(t, v) ==
  \E p \in Calls : p[1] = "bool" /\ BeginControl(t, p, v)
DirectWithNormalSecurityInt32(t, v) ==
  \E p \in Calls : p[1] = "int" /\ BeginControl(t, p, v)
DirectWithNormalSecurityFloat32(t, v) ==
  \E p \in Calls : p[1] = "float" /\ BeginControl(t, p, v)

LockControl(t) ==
  /\ pc[t] = "lock"
  /\ controlMu = NoThread
  /\ controlMu' = t
  /\ Goto(t, "lookup")
  /\ UNCHANGED <<conn, cache, live, nextCtrl, call, closing>>

\* The head of getOrCreateControlEntryLocked: a hit is returned as it is.
LookupEntry(t) ==
  /\ pc[t] = "lookup"
  /\ Goto(t, IF cache[call[t].ref].ctrl # NoCtrl THEN "value" ELSE "create")
  /\ UNCHANGED <<conn, controlMu, cache, live, nextCtrl, call, closing>>

\* Mutant: the handle of a ctlVal that is no integer is not destroyed.
CreateLeaks(t) ==
  LET new == nextCtrl + 1
      mismatch == call[t].kind = "int" /\ CtlType[call[t].ref] # "int"
  IN  /\ pc[t] = "create"
      /\ conn = "connected"
      /\ nextCtrl < MaxCtrl
      /\ nextCtrl' = new
      /\ live' = live \cup {new}
      /\ \/ mismatch /\ UnlockAndReturn(t) /\ UNCHANGED cache
         \/ /\ ~mismatch /\ Goto(t, "value") /\ UNCHANGED <<controlMu, call>>
            /\ cache' = [cache EXCEPT ![call[t].ref] = [NoEntry EXCEPT !.ctrl = new]]
      /\ UNCHANGED <<conn, closing>>

\* Mutant: the type of ctlVal is not looked at.
CreateUnchecked(t) ==
  /\ pc[t] = "create"
  /\ conn = "connected"
  /\ nextCtrl < MaxCtrl
  /\ nextCtrl' = nextCtrl + 1
  /\ live' = live \cup {nextCtrl + 1}
  /\ cache' = [cache EXCEPT ![call[t].ref] = [NoEntry EXCEPT !.ctrl = nextCtrl + 1]]
  /\ Goto(t, "value")
  /\ UNCHANGED <<conn, controlMu, call, closing>>

\* ControlObjectClient_create returns a handle, which is cached unless the call
\* requires an integer ctlVal and the server's is none: then it is destroyed.
CreateEntry(t) ==
  LET r == call[t].ref
      new == nextCtrl + 1
  IN  /\ pc[t] = "create"
      /\ conn = "connected"
      /\ nextCtrl < MaxCtrl
      /\ nextCtrl' = new
      /\ \/ /\ call[t].kind = "int" /\ CtlType[r] # "int"
            /\ UnlockAndReturn(t)
            /\ UNCHANGED <<cache, live>>
         \/ /\ ~(call[t].kind = "int" /\ CtlType[r] # "int")
            /\ cache' = [cache EXCEPT ![r] = [NoEntry EXCEPT !.ctrl = new]]
            /\ live' = live \cup {new}
            /\ Goto(t, "value")
            /\ UNCHANGED <<controlMu, call>>
      /\ UNCHANGED <<conn, closing>>

\* Mutant: the error path does not unlock.
CreateFailsLocked(t) ==
  /\ pc[t] = "create"
  /\ Goto(t, "idle")
  /\ UNCHANGED <<conn, controlMu, cache, live, nextCtrl, call, closing>>

\* It returns NULL: the requests it makes fail or time out.
CreateFails(t) ==
  /\ pc[t] = "create"
  /\ UnlockAndReturn(t)
  /\ UNCHANGED <<conn, cache, live, nextCtrl, closing>>

\* MmsValue_setBoolean does not look at the type of the value it writes to; the
\* other two setters do nothing to a value of another type.
Set(kind, e, v) ==
  CASE e.type = kind -> [e EXCEPT !.val = v]
    [] e.type # kind /\ kind = "bool" -> [e EXCEPT !.val = Corrupt]
    [] OTHER -> e

\* Mutant: the value is set when ctlReuse is allocated, and only then.
SetValueOnce(t) ==
  LET r == call[t].ref
  IN  /\ pc[t] = "value"
      /\ cache' = IF cache[r].type # "none" THEN cache
                  ELSE [cache EXCEPT ![r].type = call[t].kind, ![r].val = call[t].val]
      /\ Goto(t, "operate")
      /\ UNCHANGED <<conn, controlMu, live, nextCtrl, call, closing>>

\* Mutant: ctlReuse is allocated with the type that the server has.
SetValueServerType(t) ==
  LET r == call[t].ref
  IN  /\ pc[t] = "value"
      /\ cache' = [cache EXCEPT ![r].type = CtlType[r], ![r].val = call[t].val]
      /\ Goto(t, "operate")
      /\ UNCHANGED <<conn, controlMu, live, nextCtrl, call, closing>>

\* Mutant: controlMu is released before the request is sent.
SetValueUnlocks(t) ==
  /\ pc[t] = "value"
  /\ cache' = [cache EXCEPT ![call[t].ref].type = call[t].kind,
                            ![call[t].ref].val = call[t].val]
  /\ controlMu' = NoThread
  /\ Goto(t, "operate")
  /\ UNCHANGED <<conn, live, nextCtrl, call, closing>>

\* ctlReuse is allocated by the first call on the entry and set by every call.
SetValue(t) ==
  LET r == call[t].ref
      e == IF cache[r].type # "none" THEN cache[r]
           ELSE [cache[r] EXCEPT !.type = call[t].kind, !.val = Zero]
  IN  /\ pc[t] = "value"
      /\ cache' = [cache EXCEPT ![r] = Set(call[t].kind, e, call[t].val)]
      /\ Goto(t, "operate")
      /\ UNCHANGED <<conn, controlMu, live, nextCtrl, call, closing>>

\* The MmsValue cannot be allocated.
AllocationFails(t) ==
  /\ pc[t] = "value"
  /\ cache[call[t].ref].type = "none"
  /\ UnlockAndReturn(t)
  /\ UNCHANGED <<conn, cache, live, nextCtrl, closing>>

\* ControlObjectClient_operate has sent the value and returns, with success or
\* with an error.
Operate(t) ==
  /\ pc[t] = "operate"
  /\ UnlockAndReturn(t)
  /\ UNCHANGED <<conn, cache, live, nextCtrl, closing>>

-----------------------------------------------------------------------------
(* Connection and Close                                                    *)

Connect ==
  /\ conn = "closed"
  /\ closing = "no"
  /\ conn' = "connected"
  /\ UNCHANGED <<controlMu, cache, live, nextCtrl, pc, call, closing>>

ConnectionLost ==
  /\ conn = "connected"
  /\ conn' = "closed"
  /\ UNCHANGED <<controlMu, cache, live, nextCtrl, pc, call, closing>>

BeginClose ==
  /\ closing = "no"
  /\ CloseAlone => \A t \in Thread : pc[t] = "idle"
  /\ closing' = "clear"
  /\ UNCHANGED <<conn, controlMu, cache, live, nextCtrl, pc, call>>

\* Mutant: the cache is cleared without the lock.
ClearUnlocked ==
  /\ closing = "clear"
  /\ live' = live \ Cached
  /\ cache' = [r \in Ref |-> NoEntry]
  /\ closing' = "close"
  /\ UNCHANGED <<conn, controlMu, nextCtrl, pc, call>>

\* The whole of clearControlObjectCache runs with controlMu held.
clearControlObjectCache ==
  /\ closing = "clear"
  /\ controlMu = NoThread
  /\ live' = live \ Cached
  /\ cache' = [r \in Ref |-> NoEntry]
  /\ closing' = "close"
  /\ UNCHANGED <<conn, controlMu, nextCtrl, pc, call>>

CloseConnection ==
  /\ closing = "close"
  /\ conn' = "closed"
  /\ closing' = "destroy"
  /\ UNCHANGED <<controlMu, cache, live, nextCtrl, pc, call>>

\* IedConnection_destroy frees the connection and its list of control handles,
\* not the handles that are left.
DestroyConnection ==
  /\ closing = "destroy"
  /\ conn' = "destroyed"
  /\ closing' = "done"
  /\ UNCHANGED <<controlMu, cache, live, nextCtrl, pc, call>>

Terminated ==
  /\ closing = "done"
  /\ \A t \in Thread : pc[t] = "idle"
  /\ UNCHANGED vars

-----------------------------------------------------------------------------

Init ==
  /\ conn = "closed"
  /\ controlMu = NoThread
  /\ cache = [r \in Ref |-> NoEntry]
  /\ live = {}
  /\ nextCtrl = 0
  /\ pc = [t \in Thread |-> "idle"]
  /\ call = [t \in Thread |-> NoCall]
  /\ closing = "no"

ControlStep(t) ==
  \/ LockControl(t)
  \/ LookupEntry(t)
  \/ CreateEntry(t)
  \/ CreateFails(t)
  \/ SetValue(t)
  \/ AllocationFails(t)
  \/ Operate(t)

CloseStep == clearControlObjectCache \/ CloseConnection \/ DestroyConnection

Next ==
  \/ \E t \in Thread, v \in Val :
       \/ DirectWithNormalSecurity(t, v)
       \/ DirectWithNormalSecurityInt32(t, v)
       \/ DirectWithNormalSecurityFloat32(t, v)
  \/ \E t \in Thread : ControlStep(t)
  \/ Connect
  \/ ConnectionLost
  \/ BeginClose
  \/ CloseStep
  \/ Terminated

Spec == Init /\ [][Next]_vars

\* The calls into the library return or time out, and sync.Mutex hands the lock
\* to a goroutine that waits for long (its starvation mode).
Fairness ==
  /\ \A t \in Thread : WF_vars(ControlStep(t)) /\ SF_vars(LockControl(t))
  /\ WF_vars(CloseStep) /\ SF_vars(clearControlObjectCache)

FairSpec == Spec /\ Fairness

-----------------------------------------------------------------------------
(* Properties                                                              *)

\* The handles the library has allocated are those in the cache, each under one
\* reference: none is leaked on an error path, destroyed twice or used after it
\* was destroyed, also if a call fills the cache again behind Close.
HandleOwnership ==
  /\ live = Cached
  /\ \A r, s \in Ref : cache[r].ctrl = cache[s].ctrl /\ cache[r].ctrl # NoCtrl => r = s

\* From the lookup to the return of Operate the handle that a call works with
\* stays allocated, even if Close runs meanwhile.
OperateUsesLiveHandle ==
  \A t \in Thread : pc[t] \in {"value", "operate"} => cache[call[t].ref].ctrl \in live

\* What a call sends is the value it was given, with the type of the call,
\* although the calls of all goroutines on a reference share one MmsValue.
OperateSendsOwnValue ==
  \A t \in Thread : pc[t] = "operate" =>
    /\ cache[call[t].ref].type = call[t].kind
    /\ cache[call[t].ref].val = call[t].val

\* "If the server's ctlVal is not MMS_INTEGER (e.g. still boolean SPC), this
\* returns an error without sending Operate", says DirectWithNormalSecurityInt32.
Int32OnlyToInteger ==
  \A t \in Thread :
    pc[t] = "operate" /\ call[t].kind = "int" => CtlType[call[t].ref] = "int"

\* "Cleared in Close before the connection is destroyed", says IedClient of its
\* control cache: nothing in it outlives the connection.
CacheClearedBeforeDestroy == conn = "destroyed" => Cached = {}

\* The requests of the calls in progress, and the Operate that the library is
\* sending: the reference of the call with what its cache entry holds.
Pending == [t \in Thread |-> IF pc[t] = "idle" THEN {} ELSE {call[t]}]
Sent == [t \in Thread |->
           IF pc[t] # "operate" THEN {}
           ELSE {[kind |-> cache[call[t].ref].type, ref |-> call[t].ref,
                  val |-> cache[call[t].ref].val]}]

Service == INSTANCE ControlService WITH
             Request <- [kind: Kind, ref: Ref, val: Val], pending <- Pending, sent <- Sent

\* The calls on one client, with their cache and their shared values, look to the
\* application like requests that are sent one at a time, each at most once and
\* as it was made.
ImplementsService == Service!Spec

\* Every control call returns, and so does Close, although they wait for each
\* other on controlMu.  Nothing is said of a call that is still in progress when
\* the connection under it is destroyed.
ControlCallsReturn ==
  /\ \A t \in Thread : (pc[t] # "idle") ~> (pc[t] = "idle" \/ conn = "destroyed")
  /\ (closing # "no") ~> (closing = "done")

=============================================================================
