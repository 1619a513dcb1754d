-------------------------- MODULE ReportSubscription --------------------------
(***************************************************************************)
(* Report subscriptions of the Go client (iec61850_report.go and           *)
(* report_bridge.c): the process-wide registry of Go handlers, the table   *)
(* of C callbacks that each connection of libiec61850 keeps, the report    *)
(* control blocks of the servers, the goroutines that run SubscribeReport, *)
(* SubscribeReportWithCandidates and UnsubscribeReport, and the receive    *)
(* thread of every connection, which runs goReportCallback.                *)
(*                                                                         *)
(* A goroutine yields between two of its calls into the library or its     *)
(* critical sections on reportMu, so each of those is an action.  A        *)
(* connection's receive thread holds the library's report handler mutex    *)
(* from the moment it has found the callback until the callback returns;   *)
(* installing and uninstalling a callback wait for that mutex.             *)
(***************************************************************************)
EXTENDS Naturals, FiniteSets, SequencesExt

CONSTANTS
  Client,          \* the IedClient objects, each with its own connection
  Rcb,             \* references of report control blocks (rcbRef strings)
  ServerRcb,       \* the references that exist on the servers
  Base,            \* references given to SubscribeReportWithCandidates
  Alt01,           \* base |-> base + "01"
  RptId,           \* report identifiers carried by reports
  RptIdOf,         \* the RptID attribute of an RCB
  DefaultRptId,    \* the identifier the library derives from an rcbRef
  CandidateLists,  \* the candidate lists the application passes
  Uses,            \* <<client, rcbRef>> pairs the application works with
  SerialCalls,     \* TRUE: calls that name one rcbRef never overlap
  NoResubscribe,   \* TRUE: no Subscribe call for a subscription still held
  Thread,          \* goroutines of the application
  MaxHandlerID,    \* bound on nextHandlerID
  MaxWire          \* bound on the reports in flight on one connection

ASSUME ConstantsAssumption ==
  /\ Client # {} /\ Rcb # {}
  /\ ServerRcb \subseteq Rcb
  /\ Base \subseteq Rcb
  /\ Alt01 \in [Base -> Rcb]
  /\ RptIdOf \in [Rcb -> RptId]
  /\ DefaultRptId \in [Rcb -> RptId]
  /\ CandidateLists \subseteq Seq(Base) \ {<<>>}
  /\ Uses \subseteq Client \X Rcb
  /\ SerialCalls \in BOOLEAN
  /\ NoResubscribe \in BOOLEAN
  /\ MaxHandlerID \in Nat
  /\ MaxWire \in Nat

VARIABLES
  nextHandlerID,   \* the atomic counter
  reportHandlers,  \* the registry: the map's entries, each with its key id
  installed,       \* per connection, the library's list of callbacks
  conn,            \* state of each connection
  rptEna,          \* per connection, the RCBs its server reports on to it
  wire,            \* per connection, RCBs of the reports in flight, in order
  cb,              \* per connection, what its receive thread is doing
  pc,              \* per goroutine, the next step of its call
  frame,           \* per goroutine, the arguments and locals of its call
  granted          \* history: subscriptions the application holds

netVars == <<conn, rptEna, wire>>
regVars == <<nextHandlerID, reportHandlers>>
vars == <<nextHandlerID, reportHandlers, installed, conn, rptEna, wire, cb,
          pc, frame, granted>>

-----------------------------------------------------------------------------
(* Types                                                                   *)

Id == 1..MaxHandlerID
NoCallback == 0     \* the NULL callback that uninstalling leaves in the list

\* A registry entry: the map key, and the handler with its rcbRef.  The handler
\* is a closure of the application; what the properties tell apart is whose
\* connection it was given to.
Entry == [id: Id, owner: Client, rcbRef: Rcb]
Slot == [rcbRef: Rcb, rptId: RptId, id: Id \cup {NoCallback}]
Grant == [client: Client, rcb: Rcb, id: Id \cup {NoCallback}]

SubscribePC == {"getRCB", "register", "install", "setRCB", "response",
                "rollbackDelete", "rollbackUninstall"}
UnsubscribePC == {"uGetRCB", "uSetRCB", "uUninstall", "uDelete"}
PC == {"idle"} \cup SubscribePC \cup UnsubscribePC
Frame == [client: Client, rcb: Rcb, id: Id \cup {NoCallback}, rest: Seq(Rcb)]
Callback == [at: {"idle", "lookup", "handler"}, rcb: Rcb,
             id: Id \cup {NoCallback}, owner: Client, rcbRef: Rcb]

\* Unused fields of a frame or a callback keep these values.
SomeClient == CHOOSE c \in Client : TRUE
SomeRcb == CHOOSE r \in Rcb : TRUE
IdleFrame == [client |-> SomeClient, rcb |-> SomeRcb, id |-> NoCallback, rest |-> <<>>]
IdleCallback(c) == [at |-> "idle", rcb |-> SomeRcb, id |-> NoCallback,
                    owner |-> c, rcbRef |-> SomeRcb]

TypeOK ==
  /\ nextHandlerID \in 0..MaxHandlerID
  /\ reportHandlers \subseteq Entry
  /\ installed \in [Client -> Seq(Slot)]
  /\ conn \in [Client -> {"closed", "connected", "destroyed"}]
  /\ rptEna \in [Client -> SUBSET Rcb]
  /\ wire \in [Client -> Seq(Rcb)]
  /\ cb \in [Client -> Callback]
  /\ pc \in [Thread -> PC]
  /\ frame \in [Thread -> Frame]
  /\ granted \subseteq Grant

-----------------------------------------------------------------------------
(* Helpers                                                                 *)

Goto(t, l) == pc' = [pc EXCEPT ![t] = l]

Return(t) == Goto(t, "idle") /\ frame' = [frame EXCEPT ![t] = IdleFrame]

SlotsOf(c, r) == {k \in DOMAIN installed[c] : installed[c][k].rcbRef = r}

\* The list after IedConnection_installReportHandler: an entry of the same
\* reference is removed, the new one is appended.
Reinstall(c, r, p, i) ==
  LET rest == IF SlotsOf(c, r) = {} THEN installed[c]
              ELSE RemoveAt(installed[c], CHOOSE k \in SlotsOf(c, r) : TRUE)
  IN  [installed EXCEPT ![c] = Append(rest, [rcbRef |-> r, rptId |-> p, id |-> i])]

\* installGoReportHandler and uninstallGoReportHandler; both wait for the
\* mutex that the receive thread holds while a callback runs.
installGoReportHandler(c, r, p, i) ==
  /\ cb[c].at = "idle"
  /\ installed' = Reinstall(c, r, p, i)

\* Mutant: the callback that was installed first is taken off the list.
UninstallFirst(c, r) ==
  /\ cb[c].at = "idle"
  /\ LET s == IF installed[c] = <<>> THEN r ELSE Head(installed[c]).rcbRef
     IN  installed' = Reinstall(c, s, DefaultRptId[s], NoCallback)

uninstallGoReportHandler(c, r) ==
  /\ cb[c].at = "idle"
  /\ installed' = Reinstall(c, r, DefaultRptId[r], NoCallback)

GrantsOf(c, r) == {g \in granted : g.client = c /\ g.rcb = r}

\* The references that a call in progress names.
Named(t) == IF pc[t] = "idle" THEN {} ELSE {frame[t].rcb} \cup Range(frame[t].rest)

\* What the application takes care of when it makes a call.
MayCall(c, refs) ==
  /\ conn[c] # "destroyed"
  /\ \A r \in refs : <<c, r>> \in Uses
  /\ SerialCalls => \A u \in Thread : Named(u) \cap refs = {}

\* base, base01 for every candidate, in order.
Expand(bases) ==
  [k \in 1..(2 * Len(bases)) |->
     IF k % 2 = 1 THEN bases[(k + 1) \div 2] ELSE Alt01[bases[k \div 2]]]

\* An error ends the attempt: the next reference is tried, or the call returns.
AttemptFails(t) ==
  IF frame[t].rest = <<>>
  THEN Return(t)
  ELSE /\ Goto(t, "getRCB")
       /\ frame' = [frame EXCEPT ![t] =
            [client |-> @.client, rcb |-> Head(@.rest), id |-> NoCallback,
             rest |-> Tail(@.rest)]]

-----------------------------------------------------------------------------
(* Subscribing                                                             *)

BeginSubscribe(t, c, refs) ==
  /\ pc[t] = "idle"
  /\ MayCall(c, Range(refs))
  /\ NoResubscribe => \A r \in Range(refs) : GrantsOf(c, r) = {}
  /\ Goto(t, "getRCB")
  /\ frame' = [frame EXCEPT ![t] = [client |-> c, rcb |-> Head(refs),
                                    id |-> NoCallback, rest |-> Tail(refs)]]
  /\ UNCHANGED <<regVars, installed, netVars, cb, granted>>

SubscribeReport(t, c) == \E r \in Rcb : BeginSubscribe(t, c, <<r>>)

SubscribeReportWithCandidates(t, c) ==
  \E bases \in CandidateLists : BeginSubscribe(t, c, Expand(bases))

\* IedConnection_getRCBValues: fails on a missing RCB, without a connection, or
\* when the request times out.
GetRCBValues(t) ==
  /\ pc[t] = "getRCB"
  /\ \/ /\ conn[frame[t].client] = "connected"
        /\ frame[t].rcb \in ServerRcb
        /\ nextHandlerID + Cardinality({u \in Thread : pc[u] = "register"}) < MaxHandlerID
        /\ Goto(t, "register")
        /\ UNCHANGED frame
     \/ AttemptFails(t)
  /\ UNCHANGED <<regVars, installed, netVars, cb, granted>>

\* Mutant: the id is the counter's value from before the increment.
RegisterOldValue(t) ==
  /\ pc[t] = "register"
  /\ nextHandlerID < MaxHandlerID
  /\ nextHandlerID' = nextHandlerID + 1
  /\ frame' = [frame EXCEPT ![t].id = nextHandlerID]
  /\ reportHandlers' = reportHandlers \cup
       {[id |-> nextHandlerID, owner |-> frame[t].client, rcbRef |-> frame[t].rcb]}
  /\ Goto(t, "install")
  /\ UNCHANGED <<installed, netVars, cb, granted>>

\* Mutant: the counter is read but not advanced.
RegisterWithoutAdd(t) ==
  /\ pc[t] = "register"
  /\ frame' = [frame EXCEPT ![t].id = nextHandlerID + 1]
  /\ reportHandlers' = reportHandlers \cup
       {[id |-> nextHandlerID + 1, owner |-> frame[t].client, rcbRef |-> frame[t].rcb]}
  /\ Goto(t, "install")
  /\ UNCHANGED <<nextHandlerID, installed, netVars, cb, granted>>

\* Mutant: the handler is not put into the registry.
RegisterNothing(t) ==
  /\ pc[t] = "register"
  /\ nextHandlerID < MaxHandlerID
  /\ nextHandlerID' = nextHandlerID + 1
  /\ frame' = [frame EXCEPT ![t].id = nextHandlerID + 1]
  /\ Goto(t, "install")
  /\ UNCHANGED <<reportHandlers, installed, netVars, cb, granted>>

\* nextHandlerID.Add(1) and the insertion under reportMu; in between, nobody but
\* this goroutine knows the id.
RegisterHandler(t) ==
  /\ pc[t] = "register"
  /\ nextHandlerID < MaxHandlerID
  /\ nextHandlerID' = nextHandlerID + 1
  /\ frame' = [frame EXCEPT ![t].id = nextHandlerID + 1]
  /\ reportHandlers' = reportHandlers \cup
       {[id |-> nextHandlerID + 1, owner |-> frame[t].client,
         rcbRef |-> frame[t].rcb]}
  /\ Goto(t, "install")
  /\ UNCHANGED <<installed, netVars, cb, granted>>

InstallCallback(t) ==
  /\ pc[t] = "install"
  /\ installGoReportHandler(frame[t].client, frame[t].rcb,
                            RptIdOf[frame[t].rcb], frame[t].id)
  /\ Goto(t, "setRCB")
  /\ UNCHANGED <<regVars, netVars, cb, frame, granted>>

\* IedConnection_setRCBValues with RptEna = true.  The server applies the
\* write and reports may arrive before its response does.
SetRCBApplied(t) ==
  /\ pc[t] = "setRCB"
  /\ conn[frame[t].client] = "connected"
  /\ rptEna' = [rptEna EXCEPT ![frame[t].client] = @ \cup {frame[t].rcb}]
  /\ Goto(t, "response")
  /\ UNCHANGED <<regVars, installed, conn, wire, cb, frame, granted>>

\* The response is positive and SubscribeReport returns nil.
SetRCBSucceeds(t) ==
  /\ pc[t] = "response"
  /\ granted' = (granted \ GrantsOf(frame[t].client, frame[t].rcb)) \cup
       {[client |-> frame[t].client, rcb |-> frame[t].rcb, id |-> frame[t].id]}
  /\ Return(t)
  /\ UNCHANGED <<regVars, installed, netVars, cb>>

\* The server rejects the write, or the request or its response times out.
SetRCBFails(t) ==
  /\ pc[t] \in {"setRCB", "response"}
  /\ Goto(t, "rollbackDelete")
  /\ UNCHANGED <<regVars, installed, netVars, cb, frame, granted>>

RollbackDelete(t) ==
  /\ pc[t] = "rollbackDelete"
  /\ reportHandlers' = {e \in reportHandlers : e.id # frame[t].id}
  /\ Goto(t, "rollbackUninstall")
  /\ UNCHANGED <<nextHandlerID, installed, netVars, cb, frame, granted>>

RollbackUninstall(t) ==
  /\ pc[t] = "rollbackUninstall"
  /\ uninstallGoReportHandler(frame[t].client, frame[t].rcb)
  /\ AttemptFails(t)
  /\ UNCHANGED <<regVars, netVars, cb, granted>>

-----------------------------------------------------------------------------
(* Unsubscribing                                                           *)

UnsubscribeReport(t, c) ==
  \E r \in Rcb :
    /\ pc[t] = "idle"
    /\ MayCall(c, {r})
    /\ Goto(t, "uGetRCB")
    /\ frame' = [frame EXCEPT ![t] = [client |-> c, rcb |-> r,
                                      id |-> NoCallback, rest |-> <<>>]]
    /\ granted' = granted \ GrantsOf(c, r)
    /\ UNCHANGED <<regVars, installed, netVars, cb>>

UnsubGetRCBValues(t) ==
  /\ pc[t] = "uGetRCB"
  /\ \/ /\ conn[frame[t].client] = "connected"
        /\ frame[t].rcb \in ServerRcb
        /\ Goto(t, "uSetRCB")
     \/ Goto(t, "uUninstall")
  /\ UNCHANGED <<regVars, installed, netVars, cb, frame, granted>>

\* RptEna = false; the result of the write is ignored.
UnsubSetRCBValues(t) ==
  /\ pc[t] = "uSetRCB"
  /\ \/ /\ conn[frame[t].client] = "connected"
        /\ rptEna' = [rptEna EXCEPT ![frame[t].client] = @ \ {frame[t].rcb}]
     \/ UNCHANGED rptEna
  /\ Goto(t, "uUninstall")
  /\ UNCHANGED <<regVars, installed, conn, wire, cb, frame, granted>>

\* Mutant: the C callback stays installed.
UnsubSkipsUninstall(t) ==
  /\ pc[t] = "uUninstall"
  /\ Goto(t, "uDelete")
  /\ UNCHANGED <<regVars, installed, netVars, cb, frame, granted>>

UnsubUninstall(t) ==
  /\ pc[t] = "uUninstall"
  /\ uninstallGoReportHandler(frame[t].client, frame[t].rcb)
  /\ Goto(t, "uDelete")
  /\ UNCHANGED <<regVars, netVars, cb, frame, granted>>

\* Mutant: the loop does not compare rcbRef.
UnsubDeletesAny(t) ==
  /\ pc[t] = "uDelete"
  /\ \/ reportHandlers = {} /\ UNCHANGED reportHandlers
     \/ \E e \in reportHandlers : reportHandlers' = reportHandlers \ {e}
  /\ Return(t)
  /\ UNCHANGED <<nextHandlerID, installed, netVars, cb, granted>>

\* The loop over the map deletes the first entry it meets with this rcbRef and
\* stops; Go leaves the order of the iteration open.
UnsubDelete(t) ==
  /\ pc[t] = "uDelete"
  /\ LET same == {e \in reportHandlers : e.rcbRef = frame[t].rcb}
     IN  \/ same = {} /\ UNCHANGED reportHandlers
         \/ \E e \in same : reportHandlers' = reportHandlers \ {e}
  /\ Return(t)
  /\ UNCHANGED <<nextHandlerID, installed, netVars, cb, granted>>

-----------------------------------------------------------------------------
(* Reports: a server sends, the receive thread of the connection calls back *)

ServerSendsReport(c) ==
  \E r \in rptEna[c] :
    /\ Len(wire[c]) < MaxWire
    /\ wire' = [wire EXCEPT ![c] = Append(@, r)]
    /\ UNCHANGED <<regVars, installed, conn, rptEna, cb, pc, frame, granted>>

\* The entry of the list that a report of r selects, if any: the first whose
\* report id is the report's.
Matching(c, r) == {k \in DOMAIN installed[c] : installed[c][k].rptId = RptIdOf[r]}
Selected(c, r) == {k \in Matching(c, r) : \A j \in Matching(c, r) : k <= j}

\* Without a selected entry, or with the NULL callback in it, the report is
\* dropped.
ReceiveReport(c) ==
  /\ wire[c] # <<>>
  /\ cb[c].at = "idle"
  /\ wire' = [wire EXCEPT ![c] = Tail(@)]
  /\ LET r == Head(wire[c])
     IN  \/ /\ \A k \in Selected(c, r) : installed[c][k].id = NoCallback
            /\ UNCHANGED cb
         \/ \E k \in Selected(c, r) :
              /\ installed[c][k].id # NoCallback
              /\ cb' = [cb EXCEPT ![c] = [IdleCallback(c) EXCEPT
                          !.at = "lookup", !.rcb = r, !.id = installed[c][k].id]]
  /\ UNCHANGED <<regVars, installed, conn, rptEna, pc, frame, granted>>

\* Mutant: the handler is looked up by the name of the RCB.
LookupByName(c) ==
  /\ cb[c].at = "lookup"
  /\ \/ \E e \in reportHandlers :
          /\ e.rcbRef = cb[c].rcb
          /\ cb' = [cb EXCEPT ![c].at = "handler", ![c].owner = e.owner,
                              ![c].rcbRef = e.rcbRef]
     \/ /\ \A e \in reportHandlers : e.rcbRef # cb[c].rcb
        /\ cb' = [cb EXCEPT ![c] = IdleCallback(c)]
  /\ UNCHANGED <<regVars, installed, netVars, pc, frame, granted>>

\* The lookup under reportMu.RLock.
LookupHandler(c) ==
  /\ cb[c].at = "lookup"
  /\ \/ \E e \in reportHandlers :
          /\ e.id = cb[c].id
          /\ cb' = [cb EXCEPT ![c].at = "handler", ![c].owner = e.owner,
                              ![c].rcbRef = e.rcbRef]
     \/ /\ \A e \in reportHandlers : e.id # cb[c].id
        /\ cb' = [cb EXCEPT ![c] = IdleCallback(c)]
  /\ UNCHANGED <<regVars, installed, netVars, pc, frame, granted>>

\* Mutant: the handler makes a request on the connection and waits for the
\* response, which its own thread would have to receive.
HandlerRequests(c) ==
  /\ cb[c].at = "handler"
  /\ conn[c] # "connected"
  /\ cb' = [cb EXCEPT ![c] = IdleCallback(c)]
  /\ UNCHANGED <<regVars, installed, netVars, pc, frame, granted>>

\* The handler returns; it makes no request on the connection, as the comment
\* on ReportHandler demands.
HandlerReturns(c) ==
  /\ cb[c].at = "handler"
  /\ cb' = [cb EXCEPT ![c] = IdleCallback(c)]
  /\ UNCHANGED <<regVars, installed, netVars, pc, frame, granted>>

-----------------------------------------------------------------------------
(* Connections                                                             *)

Connect(c) ==
  /\ conn[c] = "closed"
  /\ conn' = [conn EXCEPT ![c] = "connected"]
  /\ UNCHANGED <<regVars, installed, rptEna, wire, cb, pc, frame, granted>>

\* The peer or the network ends the association: the server drops what it had
\* enabled for this client, and a request that waits for its response fails.
\* The callbacks stay installed.
ConnectionLost(c) ==
  /\ conn[c] = "connected"
  /\ conn' = [conn EXCEPT ![c] = "closed"]
  /\ rptEna' = [rptEna EXCEPT ![c] = {}]
  /\ wire' = [wire EXCEPT ![c] = <<>>]
  /\ granted' = {g \in granted : g.client # c}
  /\ pc' = [t \in Thread |-> IF pc[t] = "response" /\ frame[t].client = c
                               THEN "rollbackDelete" ELSE pc[t]]
  /\ UNCHANGED <<regVars, installed, cb, frame>>

\* Close is called when no other call on the client is in progress; destroying
\* the connection waits for its receive thread and frees the callback list.
\* The registry is not touched.
Close(c) ==
  /\ conn[c] # "destroyed"
  /\ \A t \in Thread : pc[t] # "idle" => frame[t].client # c
  /\ cb[c].at = "idle"
  /\ conn' = [conn EXCEPT ![c] = "destroyed"]
  /\ rptEna' = [rptEna EXCEPT ![c] = {}]
  /\ wire' = [wire EXCEPT ![c] = <<>>]
  /\ installed' = [installed EXCEPT ![c] = <<>>]
  /\ granted' = {g \in granted : g.client # c}
  /\ UNCHANGED <<regVars, cb, pc, frame>>

\* Every client is closed and every call has returned.
Terminated ==
  /\ \A c \in Client : conn[c] = "destroyed"
  /\ \A t \in Thread : pc[t] = "idle"
  /\ UNCHANGED vars

-----------------------------------------------------------------------------

Init ==
  /\ nextHandlerID = 0
  /\ reportHandlers = {}
  /\ installed = [c \in Client |-> <<>>]
  /\ conn = [c \in Client |-> "closed"]
  /\ rptEna = [c \in Client |-> {}]
  /\ wire = [c \in Client |-> <<>>]
  /\ cb = [c \in Client |-> IdleCallback(c)]
  /\ pc = [t \in Thread |-> "idle"]
  /\ frame = [t \in Thread |-> IdleFrame]
  /\ granted = {}

SubscribeStep(t) ==
  \/ GetRCBValues(t)
  \/ RegisterHandler(t)
  \/ InstallCallback(t)
  \/ SetRCBApplied(t)
  \/ SetRCBSucceeds(t)
  \/ SetRCBFails(t)
  \/ RollbackDelete(t)
  \/ RollbackUninstall(t)

UnsubscribeStep(t) ==
  \/ UnsubGetRCBValues(t)
  \/ UnsubSetRCBValues(t)
  \/ UnsubUninstall(t)
  \/ UnsubDelete(t)

ReceiveStep(c) ==
  \/ ReceiveReport(c)
  \/ LookupHandler(c)
  \/ HandlerReturns(c)

Next ==
  \/ \E t \in Thread, c \in Client :
       \/ SubscribeReport(t, c)
       \/ SubscribeReportWithCandidates(t, c)
       \/ UnsubscribeReport(t, c)
  \/ \E t \in Thread : SubscribeStep(t) \/ UnsubscribeStep(t)
  \/ \E c \in Client :
       \/ ServerSendsReport(c)
       \/ ReceiveStep(c)
       \/ Connect(c)
       \/ ConnectionLost(c)
       \/ Close(c)
  \/ Terminated

Spec == Init /\ [][Next]_vars

\* A goroutine that can go on does, and gets the report handler mutex in the
\* end: the receive thread releases it before it reads the next message from
\* the socket.  The receive thread takes its steps.  Nothing is assumed of the
\* application's calls, of the servers or of the network.
Fairness ==
  /\ \A t \in Thread :
       /\ WF_vars(SubscribeStep(t) \/ UnsubscribeStep(t))
       /\ SF_vars(InstallCallback(t) \/ RollbackUninstall(t) \/ UnsubUninstall(t))
  /\ \A c \in Client : WF_vars(ReceiveStep(c))

FairSpec == Spec /\ Fairness

-----------------------------------------------------------------------------
(* Safety, whatever the application does                                   *)

\* Handler ids are never reused, however calls, roll-backs and reconnects
\* overlap: no two registry entries share one, and neither do two slots with a
\* callback, on one connection or on two.
HandlerIdsUnique ==
  /\ \A e1, e2 \in reportHandlers : e1.id = e2.id => e1 = e2
  /\ \A c1, c2 \in Client :
       \A k1 \in DOMAIN installed[c1], k2 \in DOMAIN installed[c2] :
         /\ installed[c1][k1].id = installed[c2][k2].id
         /\ installed[c1][k1].id # NoCallback
         => c1 = c2 /\ k1 = k2

\* goReportCallback calls a handler only for a report with the report id of
\* the RCB the handler was registered for, on the connection it was given to,
\* although one registry serves all connections.
HandlerGetsOwnReports ==
  \A c \in Client : cb[c].at = "handler" =>
    /\ cb[c].owner = c
    /\ RptIdOf[cb[c].rcb] = RptIdOf[cb[c].rcbRef]

-----------------------------------------------------------------------------
(* Safety for an application that gives each rcbRef to one client, does    *)
(* not overlap the calls on it and unsubscribes before it subscribes       *)
(* again, with RCBs that have report ids of their own                      *)

Disciplined ==
  /\ SerialCalls /\ NoResubscribe
  /\ \A u, v \in Uses : u[2] = v[2] => u[1] = v[1]
  /\ \A r, s \in Rcb : RptIdOf[r] = RptIdOf[s] \/ RptIdOf[r] = DefaultRptId[s] => r = s

\* No call in progress names r.
Quiet(r) == \A t \in Thread : r \notin Named(t)

\* While an application holds a subscription (SubscribeReport returned nil, and
\* neither UnsubscribeReport was called nor the connection lost since), a
\* report of the RCB selects the callback of that subscription, and the
\* registry still maps its id to the handler.
GrantedDelivers ==
  \A g \in granted : Quiet(g.rcb) =>
    /\ g.rcb \in rptEna[g.client]
    /\ \E k \in Selected(g.client, g.rcb) : installed[g.client][k].id = g.id
    /\ [id |-> g.id, owner |-> g.client, rcbRef |-> g.rcb] \in reportHandlers

\* Registering before installing leaves no window in which a callback runs and
\* finds no handler; the only callback that may is the one of an attempt that
\* is being rolled back.
NoUnhandledReport ==
  \A c \in Client : cb[c].at = "lookup" =>
    \/ \E e \in reportHandlers : e.id = cb[c].id
    \/ \E t \in Thread : pc[t] = "rollbackUninstall" /\ frame[t].id = cb[c].id

-----------------------------------------------------------------------------
(* Liveness                                                                *)

\* Every SubscribeReport, SubscribeReportWithCandidates and UnsubscribeReport
\* call returns, although it waits for callbacks that are running.
CallsReturn == \A t \in Thread : (pc[t] # "idle") ~> (pc[t] = "idle")

\* A report that arrives for a subscription the application holds reaches a
\* handler registered for that RCB, or the application loses the subscription.
GrantedReportHandled ==
  \A c \in Client, r \in Rcb :
    (r \in Range(wire[c]) /\ GrantsOf(c, r) # {})
      ~> \/ cb[c].at = "handler" /\ cb[c].rcbRef = r
         \/ GrantsOf(c, r) = {}

-----------------------------------------------------------------------------
(* The service that the disciplined application is given                   *)

\* The callbacks as the application sees them.
Upcalls == [c \in Client |->
              IF cb[c].at = "idle" THEN {}
              ELSE {[id |-> cb[c].id,
                     handler |-> IF cb[c].at = "handler" THEN {cb[c].rcbRef} ELSE {}]}]

Service == INSTANCE ReportService WITH
             HandlerId <- Id, held <- granted, queue <- wire, upcall <- Upcalls

\* Subscriptions with their registry, callback lists and calls that fail half-way
\* look to the application like subscriptions that are held or not: a report of
\* one that is held comes to its handler and to no other.
ServesSubscriptions == Service!Spec

\* Moreover, every report on its way is taken and every callback ends.
ImplementsService == Service!FairSpec

-----------------------------------------------------------------------------
(* What the comment on UnsubscribeReport says of it                        *)

Unsubscribed(t) == pc[t] = "uDelete" /\ pc'[t] = "idle"

\* "It is safe to call even if SubscribeReport was never called for rcbRef":
\* UnsubscribeReport on one client takes no handler away from another client.
UnsubscribeIsLocal ==
  [][\A t \in Thread : Unsubscribed(t) =>
       \A e \in reportHandlers \ reportHandlers' : e.owner = frame[t].client]_vars

=============================================================================
