------------------------ MODULE ReportDisciplineProofs ------------------------
(***************************************************************************)
(* What an application that keeps to the discipline of ReportSubscription  *)
(* can rely on, for any number of clients, RCBs, goroutines and handlers:  *)
(* a subscription that it holds delivers, and no callback is without a     *)
(* handler but in a roll-back.                                             *)
(***************************************************************************)
EXTENDS ReportSubscriptionProofs

HasSlot(c, r, i) == \E k \in DOMAIN installed[c] :
                      installed[c][k].rcbRef = r /\ installed[c][k].id = i
HasEntry(c, r, i) == [id |-> i, owner |-> c, rcbRef |-> r] \in reportHandlers

\* Calls, subscriptions and handlers are for references that the application
\* uses, no two calls name the same, and none names one that is held.
UseInv ==
  /\ \A t \in Thread : \A r \in Named(t) : <<frame[t].client, r>> \in Uses
  /\ \A g \in granted : <<g.client, g.rcb>> \in Uses
  /\ \A e \in reportHandlers : <<e.owner, e.rcbRef>> \in Uses
SerialInv == \A t, u \in Thread : t # u => Named(t) \cap Named(u) = {}
GrantQuiet == \A g \in granted : Quiet(g.rcb)

\* A connection has one slot for a reference, with one of its report ids.
OneSlot ==
  \A c \in Client : \A j, k \in DOMAIN installed[c] :
    installed[c][j].rcbRef = installed[c][k].rcbRef => j = k
SlotIds ==
  \A c \in Client : \A k \in DOMAIN installed[c] :
    installed[c][k].rptId \in {RptIdOf[installed[c][k].rcbRef], DefaultRptId[installed[c][k].rcbRef]}

\* What is in place for a subscription that is held.
GrantInv ==
  \A g \in granted :
    /\ g.id # NoCallback
    /\ g.rcb \in rptEna[g.client]
    /\ HasSlot(g.client, g.rcb, g.id)
    /\ HasEntry(g.client, g.rcb, g.id)

\* What is in place for a call, by the step it has reached.
CallEntry ==
  \A t \in Thread : pc[t] \in {"install", "setRCB", "response", "rollbackDelete"} =>
    HasEntry(frame[t].client, frame[t].rcb, frame[t].id)
CallSlot ==
  \A t \in Thread : pc[t] \in {"setRCB", "response", "rollbackDelete", "rollbackUninstall"} =>
    HasSlot(frame[t].client, frame[t].rcb, frame[t].id)
CallEnabled ==
  \A t \in Thread : pc[t] = "response" => frame[t].rcb \in rptEna[frame[t].client]
CallUninstalled ==
  \A t \in Thread : pc[t] = "uDelete" =>
    \A i : HasSlot(frame[t].client, frame[t].rcb, i) => i = NoCallback

\* A callback that is installed has its handler, unless it is being rolled back.
SlotBacked ==
  \A c \in Client : \A r, i : HasSlot(c, r, i) /\ i # NoCallback =>
    \/ HasEntry(c, r, i)
    \/ \E t \in Thread : /\ pc[t] = "rollbackUninstall"
                         /\ frame[t].client = c /\ frame[t].rcb = r /\ frame[t].id = i

DCalls == UseInv /\ SerialInv /\ GrantQuiet
DSlots == OneSlot /\ SlotIds
DHold == GrantInv /\ CallEntry /\ CallSlot /\ CallEnabled /\ CallUninstalled /\ SlotBacked
DInv == IInv /\ DCalls /\ DSlots /\ DHold

-----------------------------------------------------------------------------
(* Who names what                                                          *)

\* A call names the reference it works on.
LEMMA NamesOwn ==
  ASSUME NEW t \in Thread, pc[t] # "idle" PROVE frame[t].rcb \in Named(t)
  BY DEF Named

\* The rest of a list, with or without its head, has nothing that the list has not.
LEMMA RangeTail ==
  ASSUME NEW s \in Seq(Rcb), s # <<>>
  PROVE  {Head(s)} \cup Range(Tail(s)) \subseteq Range(s)
<1>1. Len(s) \in Nat /\ Len(s) > 0 /\ Head(s) = s[1] /\ DOMAIN s = 1..Len(s) /\ 1 \in DOMAIN s
  OBVIOUS
<1>2. \A x \in DOMAIN Tail(s) : Tail(s)[x] = s[x + 1] /\ x + 1 \in DOMAIN s
  OBVIOUS
<1> QED
  BY <1>1, <1>2 DEF Range

\* A step in which calls go on, fail or return and nothing is granted or registered
\* preserves the invariant on names.
LEMMA CallsGoOn ==
  ASSUME DCalls, granted' \subseteq granted, reportHandlers' \subseteq reportHandlers,
         \A u \in Thread : Named(u)' \subseteq Named(u)
                           /\ (Named(u)' # {} => frame'[u].client = frame[u].client)
  PROVE  DCalls'
<1>1. UseInv'
  BY DEF DCalls, UseInv
<1>2. SerialInv'
  BY DEF DCalls, SerialInv
<1>3. GrantQuiet'
  BY DEF DCalls, GrantQuiet, Quiet
<1> QED
  BY <1>1, <1>2, <1>3 DEF DCalls

\* A failed attempt leaves the references that are yet to be tried.
LEMMA AttemptFailsNamed ==
  ASSUME TypeOK, NEW t \in Thread, pc[t] # "idle", AttemptFails(t)
  PROVE  \A u \in Thread : Named(u)' \subseteq Named(u)
                           /\ (Named(u)' # {} => frame'[u].client = frame[u].client)
<1>1. \A u \in Thread : u # t => pc'[u] = pc[u] /\ frame'[u] = frame[u]
  BY DEF AttemptFails, Return, Goto, TypeOK
<1>2. CASE frame[t].rest = <<>>
  <2>1. pc'[t] = "idle"
    BY <1>2 DEF AttemptFails, Return, Goto, TypeOK
  <2> QED
    BY <1>1, <2>1 DEF Named
<1>3. CASE frame[t].rest # <<>>
  <2>1. frame[t] \in Frame
    BY DEF TypeOK
  <2>2. frame[t].rest \in Seq(Rcb)
    BY <2>1 DEF Frame
  <2>3. /\ frame'[t].client = frame[t].client
        /\ frame'[t].rcb = Head(frame[t].rest) /\ frame'[t].rest = Tail(frame[t].rest)
    BY <1>3 DEF AttemptFails, TypeOK
  <2>4. Named(t)' \subseteq Named(t)
    BY <1>3, <2>2, <2>3, RangeTail DEF Named
  <2> QED
    BY <1>1, <2>3, <2>4 DEF Named
<1> QED
  BY <1>2, <1>3

\* A call that begins names references of its own.
LEMMA BeginCalls ==
  ASSUME TypeOK, DCalls, SerialCalls, NEW t \in Thread, NEW c \in Client, NEW refs,
         MayCall(c, refs), pc[t] = "idle",
         granted' \subseteq granted, \A g \in granted' : g.rcb \notin refs,
         reportHandlers' = reportHandlers,
         \A u \in Thread : u # t => pc'[u] = pc[u] /\ frame'[u] = frame[u],
         frame'[t].client = c, Named(t)' \subseteq refs
  PROVE  DCalls'
<1>1. \A u \in Thread : u # t => Named(u)' = Named(u)
  BY DEF Named
<1>2. UseInv'
  BY <1>1 DEF DCalls, UseInv, MayCall
<1>3. SerialInv'
  BY <1>1 DEF DCalls, SerialInv, MayCall
<1>4. GrantQuiet'
  BY <1>1 DEF DCalls, GrantQuiet, Quiet
<1> QED
  BY <1>2, <1>3, <1>4 DEF DCalls

\* A Subscribe call names nothing that is held.
LEMMA BeginSubscribeCalls ==
  ASSUME Disciplined, TypeOK, DCalls, NEW t \in Thread, NEW c \in Client,
         NEW refs \in Seq(Rcb), refs # <<>>, BeginSubscribe(t, c, refs)
  PROVE  DCalls'
<1>1. SerialCalls /\ NoResubscribe /\ \A u, v \in Uses : u[2] = v[2] => u[1] = v[1]
  BY DEF Disciplined
<1>2. /\ MayCall(c, Range(refs)) /\ pc[t] = "idle"
      /\ \A r \in Range(refs) : GrantsOf(c, r) = {}
      /\ granted' = granted /\ reportHandlers' = reportHandlers
      /\ \A u \in Thread : u # t => pc'[u] = pc[u] /\ frame'[u] = frame[u]
      /\ frame'[t].client = c /\ frame'[t].rcb = Head(refs) /\ frame'[t].rest = Tail(refs)
      /\ pc'[t] = "getRCB"
  BY <1>1 DEF BeginSubscribe, Goto, regVars, TypeOK
<1>3. Named(t)' \subseteq Range(refs)
  BY <1>2, RangeTail DEF Named
<1>4. ASSUME NEW g \in granted', g.rcb \in Range(refs) PROVE FALSE
  <2>1. <<g.client, g.rcb>> \in Uses /\ <<c, g.rcb>> \in Uses
    BY <1>2, <1>4 DEF DCalls, UseInv, MayCall
  <2>2. g.client = c
    BY <1>1, <2>1
  <2> QED
    BY <1>2, <1>4, <2>2 DEF GrantsOf
<1> QED
  BY <1>1, <1>2, <1>3, <1>4, BeginCalls

\* UnsubscribeReport gives up what it names.
LEMMA UnsubscribeCalls ==
  ASSUME Disciplined, TypeOK, DCalls, NEW t \in Thread, NEW c \in Client, UnsubscribeReport(t, c)
  PROVE  DCalls'
<1>1. SerialCalls /\ \A u, v \in Uses : u[2] = v[2] => u[1] = v[1]
  BY DEF Disciplined
<1>2. PICK r \in Rcb :
        /\ MayCall(c, {r}) /\ pc[t] = "idle"
        /\ pc' = [pc EXCEPT ![t] = "uGetRCB"]
        /\ frame' = [frame EXCEPT ![t] = [client |-> c, rcb |-> r, id |-> NoCallback, rest |-> <<>>]]
        /\ granted' = granted \ GrantsOf(c, r) /\ reportHandlers' = reportHandlers
  BY DEF UnsubscribeReport, Goto, regVars
<1>3. /\ \A u \in Thread : u # t => pc'[u] = pc[u] /\ frame'[u] = frame[u]
      /\ frame'[t].client = c /\ frame'[t].rcb = r /\ frame'[t].rest = <<>>
  BY <1>2 DEF TypeOK
<1>4. Range(<<>>) = {}
  BY DEF Range
<1>5. Named(t)' \subseteq {r}
  BY <1>3, <1>4 DEF Named
<1>6. ASSUME NEW g \in granted', g.rcb \in {r} PROVE FALSE
  <2>1. <<g.client, g.rcb>> \in Uses /\ <<c, g.rcb>> \in Uses /\ g \in granted /\ g \notin GrantsOf(c, r)
    BY <1>2, <1>6 DEF DCalls, UseInv, MayCall
  <2> QED
    BY <1>1, <1>6, <2>1 DEF GrantsOf
<1>7. granted' \subseteq granted
  BY <1>2
<1> QED
  BY <1>1, <1>2, <1>3, <1>5, <1>6, <1>7, BeginCalls

\* Every step preserves the invariant on names.
LEMMA NextCalls == ASSUME Disciplined PROVE TypeOK /\ DCalls /\ [Next]_vars => DCalls'
<1> SUFFICES ASSUME TypeOK, DCalls, [Next]_vars PROVE DCalls'
  OBVIOUS
<1> USE DEF Goto, regVars, netVars
<1>1. ASSUME granted' \subseteq granted, reportHandlers' \subseteq reportHandlers, frame' = frame,
             \A u \in Thread : pc'[u] = "idle" \/ pc[u] # "idle"
      PROVE  DCalls'
  <2>1. \A u \in Thread : Named(u)' \subseteq Named(u)
    BY <1>1 DEF Named
  <2> QED
    BY <1>1, <2>1, CallsGoOn
<1>2. ASSUME granted' \subseteq granted, reportHandlers' \subseteq reportHandlers,
             NEW t \in Thread, Return(t)
      PROVE  DCalls'
  <2>1. pc'[t] = "idle" /\ \A u \in Thread : u # t => pc'[u] = pc[u] /\ frame'[u] = frame[u]
    BY <1>2 DEF Return, TypeOK
  <2>2. \A u \in Thread : Named(u)' \subseteq Named(u)
                          /\ (Named(u)' # {} => frame'[u].client = frame[u].client)
    BY <2>1 DEF Named
  <2> QED
    BY <1>2, <2>2, CallsGoOn
<1>3. ASSUME NEW t \in Thread, NEW c \in Client, SubscribeReport(t, c) PROVE DCalls'
  <2>1. PICK r \in Rcb : BeginSubscribe(t, c, <<r>>)
    BY <1>3 DEF SubscribeReport
  <2>2. <<r>> \in Seq(Rcb) /\ <<r>> # <<>>
    OBVIOUS
  <2> QED
    BY <2>1, <2>2, BeginSubscribeCalls
<1>4. ASSUME NEW t \in Thread, NEW c \in Client, SubscribeReportWithCandidates(t, c) PROVE DCalls'
  BY <1>4, ExpandType, BeginSubscribeCalls DEF SubscribeReportWithCandidates
<1>5. ASSUME NEW t \in Thread, NEW c \in Client, UnsubscribeReport(t, c) PROVE DCalls'
  BY <1>5, UnsubscribeCalls
<1>6. ASSUME NEW t \in Thread, GetRCBValues(t) PROVE DCalls'
  <2>1. CASE AttemptFails(t)
    BY <1>6, <2>1, AttemptFailsNamed, CallsGoOn DEF GetRCBValues
  <2>2. CASE Goto(t, "register") /\ UNCHANGED frame
    BY <1>1, <1>6, <2>2 DEF GetRCBValues, TypeOK
  <2> QED
    BY <1>6, <2>1, <2>2 DEF GetRCBValues
<1>7. ASSUME NEW t \in Thread, RegisterHandler(t) PROVE DCalls'
  <2>1. frame[t] \in Frame /\ pc[t] # "idle"
    BY <1>7 DEF TypeOK, RegisterHandler
  <2>2. /\ frame'[t].client = frame[t].client /\ frame'[t].rcb = frame[t].rcb
        /\ frame'[t].rest = frame[t].rest /\ pc'[t] # "idle"
        /\ \A u \in Thread : u # t => pc'[u] = pc[u] /\ frame'[u] = frame[u]
    BY <1>7, <2>1 DEF RegisterHandler, TypeOK, Frame
  <2>3. granted' = granted
    BY <1>7 DEF RegisterHandler
  <2>4. \A u \in Thread : Named(u)' = Named(u) /\ frame'[u].client = frame[u].client
    BY <2>1, <2>2 DEF Named
  <2>5. <<frame[t].client, frame[t].rcb>> \in Uses
    BY <2>1, NamesOwn DEF DCalls, UseInv
  <2>6. reportHandlers' = reportHandlers \cup
          {[id |-> nextHandlerID + 1, owner |-> frame[t].client, rcbRef |-> frame[t].rcb]}
    BY <1>7 DEF RegisterHandler
  <2>7. UseInv'
    BY <2>3, <2>4, <2>5, <2>6 DEF DCalls, UseInv
  <2>8. SerialInv' /\ GrantQuiet'
    BY <2>3, <2>4 DEF DCalls, SerialInv, GrantQuiet, Quiet
  <2> QED
    BY <2>7, <2>8 DEF DCalls
<1>8. ASSUME NEW t \in Thread,
             \/ InstallCallback(t) \/ SetRCBApplied(t) \/ SetRCBFails(t) \/ RollbackDelete(t)
             \/ UnsubGetRCBValues(t) \/ UnsubSetRCBValues(t) \/ UnsubUninstall(t)
      PROVE  DCalls'
  BY <1>1, <1>8 DEF InstallCallback, SetRCBApplied, SetRCBFails, RollbackDelete,
                    UnsubGetRCBValues, UnsubSetRCBValues, UnsubUninstall, TypeOK
<1>9. ASSUME NEW t \in Thread, SetRCBSucceeds(t) PROVE DCalls'
  <2> DEFINE new == [client |-> frame[t].client, rcb |-> frame[t].rcb, id |-> frame[t].id]
  <2>1. pc[t] # "idle" /\ granted' \subseteq granted \cup {new} /\ reportHandlers' = reportHandlers
    BY <1>9 DEF SetRCBSucceeds
  <2>2. pc'[t] = "idle" /\ \A u \in Thread : u # t => pc'[u] = pc[u] /\ frame'[u] = frame[u]
    BY <1>9 DEF SetRCBSucceeds, Return, TypeOK
  <2>3. Named(t)' = {} /\ \A u \in Thread : u # t => Named(u)' = Named(u)
    BY <2>2 DEF Named
  <2>4. frame[t].rcb \in Named(t) /\ <<frame[t].client, frame[t].rcb>> \in Uses
    BY <2>1, NamesOwn DEF DCalls, UseInv
  <2>5. UseInv'
    BY <2>1, <2>2, <2>3, <2>4 DEF DCalls, UseInv
  <2>6. SerialInv'
    BY <2>3 DEF DCalls, SerialInv
  <2>7. GrantQuiet'
    BY <2>1, <2>3, <2>4 DEF DCalls, SerialInv, GrantQuiet, Quiet
  <2> QED
    BY <2>5, <2>6, <2>7 DEF DCalls
<1>10. ASSUME NEW t \in Thread, RollbackUninstall(t) PROVE DCalls'
  BY <1>10, AttemptFailsNamed, CallsGoOn DEF RollbackUninstall
<1>11. ASSUME NEW t \in Thread, UnsubDelete(t) PROVE DCalls'
  BY <1>2, <1>11 DEF UnsubDelete
<1>12. ASSUME NEW c \in Client, ServerSendsReport(c) \/ ReceiveStep(c) \/ Connect(c) \/ Close(c)
       PROVE DCalls'
  BY <1>1, <1>12 DEF ServerSendsReport, ReceiveStep, ReceiveReport, LookupHandler,
                     HandlerReturns, Connect, Close
<1>13. ASSUME NEW c \in Client, ConnectionLost(c) PROVE DCalls'
  BY <1>1, <1>13 DEF ConnectionLost
<1>14. CASE Terminated \/ UNCHANGED vars
  BY <1>1, <1>14 DEF Terminated, vars
<1> QED
  BY <1>3, <1>4, <1>5, <1>6, <1>7, <1>8, <1>9, <1>10, <1>11, <1>12, <1>13, <1>14
     DEF Next, SubscribeStep, UnsubscribeStep

-----------------------------------------------------------------------------
(* Slots                                                                   *)

\* (Un)installing a callback keeps one slot per reference.  The slot of the
\* reference is the new one and the slots of others are as they were.
LEMMA ReinstallSlots ==
  ASSUME TypeOK, DSlots, NEW c \in Client, NEW r \in Rcb, NEW p \in {RptIdOf[r], DefaultRptId[r]},
         NEW i \in Id \cup {NoCallback}, installed' = Reinstall(c, r, p, i)
  PROVE  /\ DSlots'
         /\ \A j : HasSlot(c, r, j)' <=> j = i
         /\ \A d \in Client : \A q, j : d # c \/ q # r => (HasSlot(d, q, j)' <=> HasSlot(d, q, j))
<1> DEFINE old == installed[c]
           s == installed'[c]
           L == Len(s)
<1>1. installed \in [Client -> Seq(Slot)] /\ p \in RptId
  BY ConstantsAssumption DEF TypeOK
<1>2. /\ \A d \in Client : d # c => installed'[d] = installed[d]
      /\ L \in DOMAIN s /\ s[L] = [rcbRef |-> r, rptId |-> p, id |-> i]
      /\ \A k \in DOMAIN s : k # L => \E j \in DOMAIN old : s[k] = old[j]
      /\ \A k \in DOMAIN old : old[k].rcbRef # r => \E j \in DOMAIN s : j # L /\ s[j] = old[k]
      /\ \A k1, k2 \in DOMAIN s : k1 # k2 /\ k1 # L /\ k2 # L =>
           \E j1, j2 \in DOMAIN old : j1 # j2 /\ s[k1] = old[j1] /\ s[k2] = old[j2]
      /\ \A k \in DOMAIN s : k # L => s[k].rcbRef # r
  <2>1. \A j1, j2 \in SlotsOf(c, r) : j1 = j2
    BY DEF DSlots, OneSlot, SlotsOf
  <2> QED
    BY <1>1, <2>1, InstalledStep, InstalledOthers DEF KeepsOthers, LastOnly
<1>3. s[L].rcbRef = r /\ s[L].rptId = p /\ s[L].id = i
  BY <1>2
<1> HIDE DEF L
<1>4. OneSlot'
  <2>1. SUFFICES ASSUME NEW d \in Client, NEW j \in DOMAIN installed'[d], NEW k \in DOMAIN installed'[d],
                        installed'[d][j].rcbRef = installed'[d][k].rcbRef, j # k
                 PROVE  FALSE
    BY DEF OneSlot
  <2>2. CASE d # c
    BY <1>2, <2>1, <2>2 DEF DSlots, OneSlot
  <2>3. CASE d = c /\ (j = L \/ k = L)
    BY <1>2, <1>3, <2>1, <2>3
  <2>4. CASE d = c /\ j # L /\ k # L
    <3>1. PICK j1 \in DOMAIN old, j2 \in DOMAIN old : j1 # j2 /\ s[j] = old[j1] /\ s[k] = old[j2]
      BY <1>2, <2>1, <2>4
    <3> QED
      BY <2>1, <2>4, <3>1 DEF DSlots, OneSlot
  <2> QED
    BY <2>2, <2>3, <2>4
<1>5. SlotIds'
  <2>1. SUFFICES ASSUME NEW d \in Client, NEW k \in DOMAIN installed'[d]
                 PROVE  installed'[d][k].rptId \in
                          {RptIdOf[installed'[d][k].rcbRef], DefaultRptId[installed'[d][k].rcbRef]}
    BY DEF SlotIds
  <2>2. CASE d = c /\ k = L
    BY <1>3, <2>2
  <2>3. CASE ~(d = c /\ k = L)
    <3>1. \E j \in DOMAIN installed[d] : installed'[d][k] = installed[d][j]
      BY <1>2, <2>1, <2>3
    <3> QED
      BY <3>1 DEF DSlots, SlotIds
  <2> QED
    BY <2>2, <2>3
<1>6. \A j : HasSlot(c, r, j)' <=> j = i
  BY <1>2, <1>3 DEF HasSlot
<1>7. ASSUME NEW d \in Client, NEW q, NEW j, d # c \/ q # r
      PROVE  HasSlot(d, q, j)' <=> HasSlot(d, q, j)
  <2>1. CASE d # c
    BY <1>2, <2>1 DEF HasSlot
  <2>2. CASE d = c /\ q # r
    <3>1. HasSlot(d, q, j)' => HasSlot(d, q, j)
      BY <1>2, <1>3, <2>2 DEF HasSlot
    <3>2. HasSlot(d, q, j) => HasSlot(d, q, j)'
      BY <1>2, <2>2 DEF HasSlot
    <3> QED
      BY <3>1, <3>2
  <2> QED
    BY <1>7, <2>1, <2>2
<1> QED
  BY <1>4, <1>5, <1>6, <1>7 DEF DSlots

\* Every step preserves the invariant on slots.
LEMMA NextSlots == TypeOK /\ DSlots /\ [Next]_vars => DSlots'
<1> SUFFICES ASSUME TypeOK, DSlots, [Next]_vars PROVE DSlots'
  OBVIOUS
<1>1. ASSUME installed' = installed PROVE DSlots'
  BY <1>1 DEF DSlots, OneSlot, SlotIds
<1>2. ASSUME NEW t \in Thread, InstallCallback(t) \/ RollbackUninstall(t) \/ UnsubUninstall(t)
      PROVE  DSlots'
  <2>1. /\ frame[t].client \in Client /\ frame[t].rcb \in Rcb
        /\ frame[t].id \in Id \cup {NoCallback} /\ NoCallback \in Id \cup {NoCallback}
    BY DEF TypeOK, Frame
  <2>2. CASE InstallCallback(t)
    BY <2>1, <2>2, ReinstallSlots DEF InstallCallback, installGoReportHandler
  <2>3. CASE RollbackUninstall(t) \/ UnsubUninstall(t)
    BY <2>1, <2>3, ReinstallSlots DEF RollbackUninstall, UnsubUninstall, uninstallGoReportHandler
  <2> QED
    BY <1>2, <2>2, <2>3
<1>3. ASSUME NEW c \in Client, Close(c) PROVE DSlots'
  <2>1. installed'[c] = <<>> /\ \A d \in Client : d # c => installed'[d] = installed[d]
    BY <1>3 DEF Close, TypeOK
  <2>2. DOMAIN installed'[c] = {}
    BY <2>1
  <2> QED
    BY <2>1, <2>2 DEF DSlots, OneSlot, SlotIds
<1> QED
  BY <1>1, <1>2, <1>3
     DEF Next, SubscribeStep, UnsubscribeStep, ReceiveStep, SubscribeReport,
         SubscribeReportWithCandidates, BeginSubscribe, UnsubscribeReport, GetRCBValues,
         RegisterHandler, SetRCBApplied, SetRCBSucceeds, SetRCBFails, RollbackDelete,
         UnsubGetRCBValues, UnsubSetRCBValues, UnsubDelete, ServerSendsReport, ReceiveReport,
         LookupHandler, HandlerReturns, Connect, ConnectionLost, Terminated, vars

\* With one slot per reference and ids of their own, a report selects the slot of
\* its RCB.
LEMMA SelectsOwn ==
  ASSUME Disciplined, TypeOK, DSlots, SlotMeaning, NEW c \in Client, NEW r \in Rcb, NEW i,
         i # NoCallback, HasSlot(c, r, i)
  PROVE  Selected(c, r) # {} /\ \A k \in Selected(c, r) : installed[c][k].id = i
<1>1. PICK k \in DOMAIN installed[c] : installed[c][k].rcbRef = r /\ installed[c][k].id = i
  BY DEF HasSlot
<1>2. k \in Matching(c, r)
  BY <1>1 DEF SlotMeaning, Matching
<1>3. ASSUME NEW j \in Matching(c, r) PROVE j = k
  <2>1. j \in DOMAIN installed[c] /\ installed[c][j].rptId = RptIdOf[r] /\ installed[c][j].rcbRef \in Rcb
    BY <1>3, SlotType DEF Matching
  <2>2. installed[c][j].rcbRef = r
    BY <2>1 DEF DSlots, SlotIds, Disciplined
  <2> QED
    BY <1>1, <2>1, <2>2 DEF DSlots, OneSlot
<1>4. k <= k
  <2>1. installed[c] \in Seq(Slot)
    BY DEF TypeOK
  <2> QED
    BY <1>1, <2>1
<1> QED
  BY <1>1, <1>2, <1>3, <1>4 DEF Selected

-----------------------------------------------------------------------------
(* What is in place for subscriptions and calls                            *)

\* Two calls work on different references, and on none that is held.
LEMMA Apart ==
  ASSUME DCalls, NEW t \in Thread, pc[t] # "idle"
  PROVE  /\ \A u \in Thread : u # t /\ pc[u] # "idle" => frame[u].rcb # frame[t].rcb
         /\ \A g \in granted : g.rcb # frame[t].rcb
  BY NamesOwn DEF DCalls, SerialInv, GrantQuiet, Quiet

\* A step that leaves slots, handlers and enabled RCBs alone, gives no subscription
\* and lets calls only go on to a step that asks for less.
LEMMA NothingTaken ==
  ASSUME DHold, installed' = installed, reportHandlers' = reportHandlers, rptEna' = rptEna,
         granted' \subseteq granted,
         \A u \in Thread :
           \/ pc'[u] = pc[u] /\ frame'[u] = frame[u]
           \/ pc[u] # "rollbackUninstall" /\ pc'[u] \in {"idle", "getRCB", "register", "uGetRCB", "uSetRCB", "uUninstall"}
           \/ pc[u] \in {"setRCB", "response"} /\ pc'[u] = "rollbackDelete" /\ frame'[u] = frame[u]
  PROVE  DHold'
<1>1. \A c, r, i : (HasSlot(c, r, i)' <=> HasSlot(c, r, i)) /\ (HasEntry(c, r, i)' <=> HasEntry(c, r, i))
  BY DEF HasSlot, HasEntry
<1>2. GrantInv'
  BY <1>1 DEF DHold, GrantInv
<1>3. CallEntry' /\ CallSlot' /\ CallEnabled' /\ CallUninstalled'
  BY <1>1 DEF DHold, CallEntry, CallSlot, CallEnabled, CallUninstalled
<1>4. SlotBacked'
  BY <1>1 DEF DHold, SlotBacked
<1> QED
  BY <1>2, <1>3, <1>4 DEF DHold

\* RegisterHandler adds the entry that its call needs from then on.
LEMMA RegisterHold ==
  ASSUME TypeOK, DHold, NEW t \in Thread, RegisterHandler(t)
  PROVE  DHold'
<1>1. frame[t] \in Frame
  BY DEF TypeOK
<1>2. /\ installed' = installed /\ rptEna' = rptEna /\ granted' = granted
      /\ reportHandlers' = reportHandlers \cup
           {[id |-> nextHandlerID + 1, owner |-> frame[t].client, rcbRef |-> frame[t].rcb]}
      /\ pc[t] = "register" /\ pc'[t] = "install"
      /\ frame'[t].id = nextHandlerID + 1
      /\ frame'[t].client = frame[t].client /\ frame'[t].rcb = frame[t].rcb
      /\ \A u \in Thread : u # t => pc'[u] = pc[u] /\ frame'[u] = frame[u]
  BY <1>1 DEF RegisterHandler, Goto, netVars, TypeOK, Frame
<1>3. \A c, r, i : (HasSlot(c, r, i)' <=> HasSlot(c, r, i)) /\ (HasEntry(c, r, i) => HasEntry(c, r, i)')
  BY <1>2 DEF HasSlot, HasEntry
<1>4. HasEntry(frame[t].client, frame[t].rcb, frame[t].id)'
  BY <1>2 DEF HasEntry
<1>5. GrantInv'
  BY <1>2, <1>3 DEF DHold, GrantInv
<1>6. CallEntry'
  BY <1>2, <1>3, <1>4 DEF DHold, CallEntry
<1>7. CallSlot' /\ CallEnabled' /\ CallUninstalled'
  BY <1>2, <1>3 DEF DHold, CallSlot, CallEnabled, CallUninstalled
<1>8. SlotBacked'
  BY <1>2, <1>3 DEF DHold, SlotBacked
<1> QED
  BY <1>5, <1>6, <1>7, <1>8 DEF DHold

\* Installing the callback replaces the slot of the call's own reference.
LEMMA InstallHold ==
  ASSUME TypeOK, IdInv, DCalls, DSlots, DHold, NEW t \in Thread, InstallCallback(t)
  PROVE  DHold'
<1>1. PICK c \in Client, r \in Rcb, i \in Id \cup {NoCallback} :
        c = frame[t].client /\ r = frame[t].rcb /\ i = frame[t].id
  BY DEF TypeOK, Frame
<1>2. /\ pc[t] = "install" /\ pc'[t] = "setRCB" /\ frame' = frame
      /\ installed' = Reinstall(c, r, RptIdOf[r], i)
      /\ reportHandlers' = reportHandlers /\ rptEna' = rptEna /\ granted' = granted
      /\ \A u \in Thread : u # t => pc'[u] = pc[u]
  BY <1>1 DEF InstallCallback, installGoReportHandler, Goto, regVars, netVars, TypeOK
<1>3. /\ \A j : HasSlot(c, r, j)' <=> j = i
      /\ \A d \in Client : \A q, j : d # c \/ q # r => (HasSlot(d, q, j)' <=> HasSlot(d, q, j))
  BY <1>2, ReinstallSlots
<1>4. \A d, q, j : HasEntry(d, q, j)' <=> HasEntry(d, q, j)
  BY <1>2 DEF HasEntry
<1>5. /\ \A u \in Thread : u # t /\ pc[u] # "idle" => frame[u].rcb # r
      /\ \A g \in granted : g.rcb # r
  BY <1>1, <1>2, Apart
<1>6. /\ \A u \in Thread : frame[u].client \in Client
      /\ \A g \in granted : g.client \in Client
  BY DEF TypeOK, Frame, Grant
<1>7. HasEntry(c, r, i)
  BY <1>1, <1>2 DEF DHold, CallEntry
<1>8. GrantInv'
  BY <1>1, <1>2, <1>3, <1>4, <1>5, <1>6 DEF DHold, GrantInv
<1>9. CallEntry' /\ CallEnabled'
  BY <1>2, <1>4 DEF DHold, CallEntry, CallEnabled
<1>10. CallSlot'
  BY <1>1, <1>2, <1>3, <1>5, <1>6 DEF DHold, CallSlot
<1>11. CallUninstalled'
  BY <1>1, <1>2, <1>3, <1>5, <1>6 DEF DHold, CallUninstalled
<1>12. SlotBacked'
  BY <1>1, <1>2, <1>3, <1>4, <1>7 DEF DHold, SlotBacked
<1> QED
  BY <1>8, <1>9, <1>10, <1>11, <1>12 DEF DHold

\* Uninstalling leaves the NULL callback in the slot of the call's own reference.
LEMMA UninstallHold ==
  ASSUME TypeOK, IdInv, DCalls, DSlots, DHold, NEW t \in Thread,
         RollbackUninstall(t) \/ UnsubUninstall(t)
  PROVE  DHold'
<1>1. PICK c \in Client, r \in Rcb : c = frame[t].client /\ r = frame[t].rcb
  BY DEF TypeOK, Frame
<1>2. /\ pc[t] \in {"rollbackUninstall", "uUninstall"}
      /\ \/ pc[t] = "rollbackUninstall" /\ pc'[t] \in {"idle", "getRCB"}
         \/ pc[t] = "uUninstall" /\ pc'[t] = "uDelete" /\ frame'[t] = frame[t]
      /\ installed' = Reinstall(c, r, DefaultRptId[r], NoCallback)
      /\ reportHandlers' = reportHandlers /\ rptEna' = rptEna /\ granted' = granted
      /\ \A u \in Thread : u # t => pc'[u] = pc[u] /\ frame'[u] = frame[u]
  BY <1>1 DEF RollbackUninstall, UnsubUninstall, uninstallGoReportHandler, AttemptFails, Return, Goto,
         regVars, netVars, TypeOK
<1>3. /\ \A j : HasSlot(c, r, j)' <=> j = NoCallback
      /\ \A d \in Client : \A q, j : d # c \/ q # r => (HasSlot(d, q, j)' <=> HasSlot(d, q, j))
  <2>1. NoCallback \in Id \cup {NoCallback}
    OBVIOUS
  <2> QED
    BY <1>2, <2>1, ReinstallSlots
<1>4. \A d, q, j : HasEntry(d, q, j)' <=> HasEntry(d, q, j)
  BY <1>2 DEF HasEntry
<1>5. /\ \A u \in Thread : u # t /\ pc[u] # "idle" => frame[u].rcb # r
      /\ \A g \in granted : g.rcb # r
  BY <1>1, <1>2, Apart
<1>6. /\ \A u \in Thread : frame[u].client \in Client
      /\ \A g \in granted : g.client \in Client
  BY DEF TypeOK, Frame, Grant
<1>7. GrantInv'
  BY <1>1, <1>2, <1>3, <1>4, <1>5, <1>6 DEF DHold, GrantInv
<1>8. CallEntry' /\ CallEnabled'
  BY <1>2, <1>4 DEF DHold, CallEntry, CallEnabled
<1>9. CallSlot'
  BY <1>1, <1>2, <1>3, <1>5, <1>6 DEF DHold, CallSlot
<1>10. CallUninstalled'
  BY <1>1, <1>2, <1>3, <1>5, <1>6 DEF DHold, CallUninstalled
<1>11. SlotBacked'
  BY <1>1, <1>2, <1>3, <1>4 DEF DHold, SlotBacked
<1> QED
  BY <1>7, <1>8, <1>9, <1>10, <1>11 DEF DHold

\* The roll-back removes the handler of its own call.
LEMMA RollbackDeleteHold ==
  ASSUME TypeOK, IdInv, DCalls, DHold, NEW t \in Thread, RollbackDelete(t)
  PROVE  DHold'
<1>1. /\ pc[t] = "rollbackDelete" /\ pc'[t] = "rollbackUninstall" /\ frame' = frame
      /\ installed' = installed /\ rptEna' = rptEna /\ granted' = granted
      /\ reportHandlers' = {e \in reportHandlers : e.id # frame[t].id}
      /\ \A u \in Thread : u # t => pc'[u] = pc[u]
  BY DEF RollbackDelete, Goto, netVars, TypeOK
<1>2. \A c, r, i : HasSlot(c, r, i)' <=> HasSlot(c, r, i)
  BY <1>1 DEF HasSlot
<1>3. \A c, r, i : HasEntry(c, r, i) /\ i # frame[t].id => HasEntry(c, r, i)'
  BY <1>1 DEF HasEntry
<1>4. \A c, r, i : HasEntry(c, r, i) /\ i = frame[t].id => c = frame[t].client /\ r = frame[t].rcb
  BY <1>1 DEF HasEntry, IdInv, FrameMeaning, HasId
<1>5. GrantInv'
  <2>1. \A g \in granted : g.rcb # frame[t].rcb
    BY <1>1, Apart
  <2> QED
    BY <1>1, <1>2, <1>3, <1>4, <2>1 DEF DHold, GrantInv
<1>6. CallEntry'
  <2>1. \A u \in Thread : u # t /\ pc[u] \in HasId => frame[u].id # frame[t].id
    BY <1>1 DEF IdInv, UniqueFrames, HasId
  <2> QED
    BY <1>1, <1>3, <2>1 DEF DHold, CallEntry, HasId
<1>7. CallSlot' /\ CallEnabled' /\ CallUninstalled'
  BY <1>1, <1>2 DEF DHold, CallSlot, CallEnabled, CallUninstalled
<1>8. SlotBacked'
  <2>1. SUFFICES ASSUME NEW c \in Client, NEW r, NEW i, HasSlot(c, r, i), i # NoCallback, ~HasEntry(c, r, i)'
                 PROVE  \E u \in Thread : /\ pc'[u] = "rollbackUninstall"
                                          /\ frame'[u].client = c /\ frame'[u].rcb = r /\ frame'[u].id = i
    BY <1>2 DEF SlotBacked
  <2>2. CASE HasEntry(c, r, i)
    BY <1>1, <1>3, <1>4, <2>1, <2>2
  <2>3. CASE ~HasEntry(c, r, i)
    BY <1>1, <2>1, <2>3 DEF DHold, SlotBacked
  <2> QED
    BY <2>2, <2>3
<1> QED
  BY <1>5, <1>6, <1>7, <1>8 DEF DHold

\* UnsubscribeReport deletes a handler of its reference, which by then no callback
\* has: whichever entry of the reference the loop meets first.
LEMMA UnsubDeleteHold ==
  ASSUME Disciplined, TypeOK, DCalls, DHold, NEW t \in Thread, UnsubDelete(t)
  PROVE  DHold'
<1>1. /\ pc[t] = "uDelete" /\ pc'[t] = "idle"
      /\ installed' = installed /\ rptEna' = rptEna /\ granted' = granted
      /\ reportHandlers' \subseteq reportHandlers
      /\ \A e \in reportHandlers : e.rcbRef # frame[t].rcb => e \in reportHandlers'
      /\ \A u \in Thread : u # t => pc'[u] = pc[u] /\ frame'[u] = frame[u]
  BY DEF UnsubDelete, Return, Goto, netVars, TypeOK
<1>2. \A c, r, i : HasSlot(c, r, i)' <=> HasSlot(c, r, i)
  BY <1>1 DEF HasSlot
<1>3. \A c, r, i : HasEntry(c, r, i) /\ r # frame[t].rcb => HasEntry(c, r, i)'
  BY <1>1 DEF HasEntry
<1>4. /\ \A u \in Thread : u # t /\ pc[u] # "idle" => frame[u].rcb # frame[t].rcb
      /\ \A g \in granted : g.rcb # frame[t].rcb
  BY <1>1, Apart
<1>5. GrantInv'
  BY <1>1, <1>2, <1>3, <1>4 DEF DHold, GrantInv
<1>6. CallEntry'
  BY <1>1, <1>3, <1>4 DEF DHold, CallEntry
<1>7. CallSlot' /\ CallEnabled' /\ CallUninstalled'
  BY <1>1, <1>2 DEF DHold, CallSlot, CallEnabled, CallUninstalled
<1>8. SlotBacked'
  <2>1. SUFFICES ASSUME NEW c \in Client, NEW r, NEW i, HasSlot(c, r, i), i # NoCallback, ~HasEntry(c, r, i)'
                 PROVE  \E u \in Thread : /\ pc'[u] = "rollbackUninstall"
                                          /\ frame'[u].client = c /\ frame'[u].rcb = r /\ frame'[u].id = i
    BY <1>2 DEF SlotBacked
  <2>2. CASE HasEntry(c, r, i)
    <3>1. r = frame[t].rcb
      BY <1>3, <2>1, <2>2
    <3>2. <<c, r>> \in Uses
      <4> DEFINE e == [id |-> i, owner |-> c, rcbRef |-> r]
      <4>1. e \in reportHandlers /\ e.owner = c /\ e.rcbRef = r
        BY <2>2 DEF HasEntry
      <4> QED
        BY <4>1 DEF DCalls, UseInv
    <3>3. <<frame[t].client, r>> \in Uses
      BY <1>1, <3>1, NamesOwn DEF DCalls, UseInv
    <3>4. c = frame[t].client
      BY <3>2, <3>3 DEF Disciplined
    <3> QED
      BY <1>1, <2>1, <3>1, <3>4 DEF DHold, CallUninstalled
  <2>3. CASE ~HasEntry(c, r, i)
    BY <1>1, <2>1, <2>3 DEF DHold, SlotBacked
  <2> QED
    BY <2>2, <2>3
<1> QED
  BY <1>5, <1>6, <1>7, <1>8 DEF DHold

\* The two writes of RptEna are on the call's own reference.
LEMMA WriteHold ==
  ASSUME TypeOK, DCalls, DHold, NEW t \in Thread, SetRCBApplied(t) \/ UnsubSetRCBValues(t)
  PROVE  DHold'
<1>1. /\ pc[t] # "idle" /\ frame' = frame
      /\ \/ pc[t] = "setRCB" /\ pc'[t] = "response" /\ frame[t].rcb \in rptEna'[frame[t].client]
         \/ pc[t] = "uSetRCB" /\ pc'[t] = "uUninstall"
      /\ installed' = installed /\ reportHandlers' = reportHandlers /\ granted' = granted
      /\ \A c \in Client : \A r : r # frame[t].rcb => (r \in rptEna'[c] <=> r \in rptEna[c])
      /\ \A u \in Thread : u # t => pc'[u] = pc[u]
  <2>1. frame[t].client \in Client
    BY DEF TypeOK, Frame
  <2>2. CASE SetRCBApplied(t)
    BY <2>1, <2>2 DEF SetRCBApplied, Goto, regVars, TypeOK
  <2>3. CASE UnsubSetRCBValues(t)
    BY <2>1, <2>3 DEF UnsubSetRCBValues, Goto, regVars, TypeOK
  <2> QED
    BY <2>2, <2>3
<1>2. \A c, r, i : (HasSlot(c, r, i)' <=> HasSlot(c, r, i)) /\ (HasEntry(c, r, i)' <=> HasEntry(c, r, i))
  BY <1>1 DEF HasSlot, HasEntry
<1>3. /\ \A u \in Thread : u # t /\ pc[u] # "idle" => frame[u].rcb # frame[t].rcb
      /\ \A g \in granted : g.rcb # frame[t].rcb
  BY <1>1, Apart
<1>4. /\ \A u \in Thread : frame[u].client \in Client
      /\ \A g \in granted : g.client \in Client
  BY DEF TypeOK, Frame, Grant
<1>5. GrantInv'
  BY <1>1, <1>2, <1>3, <1>4 DEF DHold, GrantInv
<1>6. CallEntry' /\ CallSlot' /\ CallUninstalled'
  BY <1>1, <1>2 DEF DHold, CallEntry, CallSlot, CallUninstalled
<1>7. CallEnabled'
  BY <1>1, <1>3, <1>4 DEF DHold, CallEnabled
<1>8. SlotBacked'
  BY <1>1, <1>2 DEF DHold, SlotBacked
<1> QED
  BY <1>5, <1>6, <1>7, <1>8 DEF DHold

\* When SubscribeReport returns nil, all that a subscription needs is in place.
LEMMA SucceedHold ==
  ASSUME TypeOK, IdInv, DHold, NEW t \in Thread, SetRCBSucceeds(t)
  PROVE  DHold'
<1> DEFINE new == [client |-> frame[t].client, rcb |-> frame[t].rcb, id |-> frame[t].id]
<1>1. /\ pc[t] = "response" /\ pc'[t] = "idle" /\ granted' \subseteq granted \cup {new}
      /\ installed' = installed /\ reportHandlers' = reportHandlers /\ rptEna' = rptEna
      /\ \A u \in Thread : u # t => pc'[u] = pc[u] /\ frame'[u] = frame[u]
  BY DEF SetRCBSucceeds, Return, Goto, regVars, netVars, TypeOK
<1>2. \A c, r, i : (HasSlot(c, r, i)' <=> HasSlot(c, r, i)) /\ (HasEntry(c, r, i)' <=> HasEntry(c, r, i))
  BY <1>1 DEF HasSlot, HasEntry
<1>3. GrantInv'
  <2>1. /\ frame[t].id # NoCallback
        /\ frame[t].rcb \in rptEna[frame[t].client]
        /\ HasSlot(frame[t].client, frame[t].rcb, frame[t].id)
        /\ HasEntry(frame[t].client, frame[t].rcb, frame[t].id)
    BY <1>1 DEF DHold, CallEntry, CallSlot, CallEnabled, IdInv, DrawnIds, HasId
  <2> SUFFICES ASSUME NEW g \in granted'
               PROVE  /\ g.id # NoCallback
                      /\ g.rcb \in rptEna[g.client]
                      /\ HasSlot(g.client, g.rcb, g.id)
                      /\ HasEntry(g.client, g.rcb, g.id)
    BY <1>1, <1>2 DEF GrantInv
  <2>2. CASE g \in granted
    BY <2>2 DEF DHold, GrantInv
  <2>3. CASE g = new
    BY <2>1, <2>3
  <2> QED
    BY <1>1, <2>2, <2>3
<1>4. CallEntry' /\ CallSlot' /\ CallEnabled' /\ CallUninstalled'
  BY <1>1, <1>2 DEF DHold, CallEntry, CallSlot, CallEnabled, CallUninstalled
<1>5. SlotBacked'
  BY <1>1, <1>2 DEF DHold, SlotBacked
<1> QED
  BY <1>3, <1>4, <1>5 DEF DHold

\* With the connection go the subscriptions held on it, and a call that waits for
\* the response goes on to its roll-back; nothing else relies on the server.
LEMMA LostHold ==
  ASSUME TypeOK, DHold, NEW c \in Client, ConnectionLost(c)
  PROVE  DHold'
<1>1. /\ installed' = installed /\ reportHandlers' = reportHandlers /\ frame' = frame
      /\ granted' = {g \in granted : g.client # c}
      /\ \A d \in Client : d # c => rptEna'[d] = rptEna[d]
      /\ \A u \in Thread :
           \/ pc'[u] = pc[u] /\ (pc[u] = "response" => frame[u].client # c)
           \/ pc[u] = "response" /\ pc'[u] = "rollbackDelete"
  BY DEF ConnectionLost, regVars, TypeOK
<1>2. \A d, r, i : (HasSlot(d, r, i)' <=> HasSlot(d, r, i)) /\ (HasEntry(d, r, i)' <=> HasEntry(d, r, i))
  BY <1>1 DEF HasSlot, HasEntry
<1>3. /\ \A u \in Thread : frame[u].client \in Client
      /\ \A g \in granted : g.client \in Client
  BY DEF TypeOK, Frame, Grant
<1>4. GrantInv'
  BY <1>1, <1>2, <1>3 DEF DHold, GrantInv
<1>5. CallEntry' /\ CallSlot' /\ CallUninstalled'
  BY <1>1, <1>2 DEF DHold, CallEntry, CallSlot, CallUninstalled
<1>6. CallEnabled'
  BY <1>1, <1>3 DEF DHold, CallEnabled
<1>7. SlotBacked'
  BY <1>1, <1>2 DEF DHold, SlotBacked
<1> QED
  BY <1>4, <1>5, <1>6, <1>7 DEF DHold

\* Close takes the whole list of a connection that no call uses.
LEMMA CloseHold ==
  ASSUME TypeOK, DHold, NEW c \in Client, Close(c)
  PROVE  DHold'
<1>1. /\ reportHandlers' = reportHandlers /\ frame' = frame /\ pc' = pc
      /\ granted' = {g \in granted : g.client # c}
      /\ \A d \in Client : d # c => rptEna'[d] = rptEna[d] /\ installed'[d] = installed[d]
      /\ installed'[c] = <<>>
      /\ \A u \in Thread : pc[u] # "idle" => frame[u].client # c
  BY DEF Close, regVars, TypeOK
<1>2. /\ \A d, r, i : HasEntry(d, r, i)' <=> HasEntry(d, r, i)
      /\ \A d \in Client : \A r, i : d # c => (HasSlot(d, r, i)' <=> HasSlot(d, r, i))
      /\ \A r, i : ~HasSlot(c, r, i)'
  <2>1. DOMAIN installed'[c] = {}
    BY <1>1
  <2> QED
    BY <1>1, <2>1 DEF HasSlot, HasEntry
<1>3. /\ \A u \in Thread : frame[u].client \in Client
      /\ \A g \in granted : g.client \in Client
  BY DEF TypeOK, Frame, Grant
<1>4. GrantInv'
  BY <1>1, <1>2, <1>3 DEF DHold, GrantInv
<1>5. CallEntry' /\ CallSlot' /\ CallUninstalled' /\ CallEnabled'
  BY <1>1, <1>2, <1>3 DEF DHold, CallEntry, CallSlot, CallUninstalled, CallEnabled
<1>6. SlotBacked'
  BY <1>1, <1>2 DEF DHold, SlotBacked
<1> QED
  BY <1>4, <1>5, <1>6 DEF DHold

\* Every step preserves what is in place for subscriptions and calls.
LEMMA NextHold ==
  ASSUME Disciplined PROVE IInv /\ DCalls /\ DSlots /\ DHold /\ [Next]_vars => DHold'
<1> SUFFICES ASSUME IInv, DCalls, DSlots, DHold, [Next]_vars PROVE DHold'
  OBVIOUS
<1> USE DEF Goto, regVars, netVars
<1>1. TypeOK /\ IdInv
  BY DEF IInv
<1>2. ASSUME NEW t \in Thread, NEW c \in Client,
             SubscribeReport(t, c) \/ SubscribeReportWithCandidates(t, c) \/ UnsubscribeReport(t, c)
      PROVE  DHold'
  <2>1. /\ installed' = installed /\ reportHandlers' = reportHandlers /\ rptEna' = rptEna
        /\ granted' \subseteq granted
        /\ pc[t] = "idle" /\ pc'[t] \in {"getRCB", "uGetRCB"}
        /\ \A u \in Thread : u # t => pc'[u] = pc[u] /\ frame'[u] = frame[u]
    <3>1. CASE UnsubscribeReport(t, c)
      BY <1>1, <3>1 DEF UnsubscribeReport, TypeOK
    <3>2. ASSUME NEW refs, BeginSubscribe(t, c, refs)
          PROVE  /\ installed' = installed /\ reportHandlers' = reportHandlers /\ rptEna' = rptEna
                 /\ granted' \subseteq granted
                 /\ pc[t] = "idle" /\ pc'[t] \in {"getRCB", "uGetRCB"}
                 /\ \A u \in Thread : u # t => pc'[u] = pc[u] /\ frame'[u] = frame[u]
      BY <1>1, <3>2 DEF BeginSubscribe, TypeOK
    <3> QED
      BY <1>2, <3>1, <3>2 DEF SubscribeReport, SubscribeReportWithCandidates
  <2> QED
    BY <2>1, NothingTaken
<1>3. ASSUME NEW t \in Thread, GetRCBValues(t) \/ SetRCBFails(t) \/ UnsubGetRCBValues(t)
      PROVE  DHold'
  <2>1. /\ installed' = installed /\ reportHandlers' = reportHandlers /\ rptEna' = rptEna
        /\ granted' = granted
        /\ \A u \in Thread : u # t => pc'[u] = pc[u] /\ frame'[u] = frame[u]
    BY <1>1, <1>3 DEF GetRCBValues, SetRCBFails, UnsubGetRCBValues, AttemptFails, Return, TypeOK
  <2>2. CASE GetRCBValues(t)
    <3>1. pc[t] = "getRCB" /\ pc'[t] \in {"idle", "getRCB", "register"}
      BY <1>1, <2>2 DEF GetRCBValues, AttemptFails, Return, TypeOK
    <3> QED
      BY <2>1, <3>1, NothingTaken
  <2>3. CASE SetRCBFails(t)
    <3>1. pc[t] \in {"setRCB", "response"} /\ pc'[t] = "rollbackDelete" /\ frame'[t] = frame[t]
      BY <1>1, <2>3 DEF SetRCBFails, TypeOK
    <3> QED
      BY <2>1, <3>1, NothingTaken
  <2>4. CASE UnsubGetRCBValues(t)
    <3>1. pc[t] = "uGetRCB" /\ pc'[t] \in {"uSetRCB", "uUninstall"}
      BY <1>1, <2>4 DEF UnsubGetRCBValues, TypeOK
    <3> QED
      BY <2>1, <3>1, NothingTaken
  <2> QED
    BY <1>3, <2>2, <2>3, <2>4
<1>4. ASSUME NEW c \in Client, ServerSendsReport(c) \/ ReceiveStep(c) \/ Connect(c)
      PROVE  DHold'
  BY <1>4, NothingTaken DEF ServerSendsReport, ReceiveStep, ReceiveReport, LookupHandler,
                            HandlerReturns, Connect
<1>5. CASE Terminated \/ UNCHANGED vars
  BY <1>5, NothingTaken DEF Terminated, vars
<1> QED
  BY <1>1, <1>2, <1>3, <1>4, <1>5, RegisterHold, InstallHold, UninstallHold, RollbackDeleteHold,
     UnsubDeleteHold, WriteHold, SucceedHold, LostHold, CloseHold
     DEF Next, SubscribeStep, UnsubscribeStep

-----------------------------------------------------------------------------
(* Theorems                                                                *)

\* Nothing is held, registered, installed or called at first.
LEMMA InitDInv == Init => DInv
<1> SUFFICES ASSUME Init PROVE DInv
  OBVIOUS
<1>1. /\ reportHandlers = {} /\ granted = {}
      /\ \A c \in Client : DOMAIN installed[c] = {}
      /\ \A t \in Thread : pc[t] = "idle"
  BY DEF Init
<1>2. \A t \in Thread : Named(t) = {}
  BY <1>1 DEF Named
<1>3. DCalls
  BY <1>1, <1>2 DEF DCalls, UseInv, SerialInv, GrantQuiet
<1>4. DSlots
  BY <1>1 DEF DSlots, OneSlot, SlotIds
<1>5. DHold
  BY <1>1 DEF DHold, GrantInv, CallEntry, CallSlot, CallEnabled, CallUninstalled, SlotBacked, HasSlot
<1> QED
  BY <1>3, <1>4, <1>5, InitIInv DEF DInv

\* The inductive invariant of the disciplined application: who names which
\* reference, and what is in place for a subscription or a call at each step.
THEOREM DisciplineInvariant == ASSUME Disciplined PROVE Spec => []DInv
<1>1. DInv /\ [Next]_vars => DInv'
  <2> SUFFICES ASSUME DInv, [Next]_vars PROVE DInv'
    OBVIOUS
  <2>1. IInv /\ TypeOK /\ IdInv /\ CallbackInv
    BY DEF DInv, IInv
  <2>2. IInv'
    BY <2>1, NextTypeOK, NextIdInv, NextCallbackInv DEF IInv
  <2> QED
    BY <2>1, <2>2, NextCalls, NextSlots, NextHold DEF DInv
<1> QED
  BY <1>1, InitDInv, PTL DEF Spec

\* A subscription for which SubscribeReport returned nil delivers to its handler
\* until the application gives it up or the connection is lost, whatever other
\* subscriptions are made, fail half-way or are given up in the meantime.
THEOREM DisciplinedGrantedDelivers == ASSUME Disciplined PROVE Spec => []GrantedDelivers
<1>1. ASSUME DInv PROVE GrantedDelivers
  <2> SUFFICES ASSUME NEW g \in granted
               PROVE  /\ g.rcb \in rptEna[g.client]
                      /\ \E k \in Selected(g.client, g.rcb) : installed[g.client][k].id = g.id
                      /\ [id |-> g.id, owner |-> g.client, rcbRef |-> g.rcb] \in reportHandlers
    BY DEF GrantedDelivers
  <2>1. TypeOK /\ DSlots /\ SlotMeaning /\ g.client \in Client /\ g.rcb \in Rcb
    BY <1>1 DEF DInv, IInv, IdInv, TypeOK, Grant
  <2>2. /\ g.id # NoCallback /\ g.rcb \in rptEna[g.client]
        /\ HasSlot(g.client, g.rcb, g.id) /\ HasEntry(g.client, g.rcb, g.id)
    BY <1>1 DEF DInv, DHold, GrantInv
  <2>3. \E k \in Selected(g.client, g.rcb) : installed[g.client][k].id = g.id
    BY <2>1, <2>2, SelectsOwn
  <2> QED
    BY <2>2, <2>3 DEF HasEntry
<1> QED
  BY <1>1, DisciplineInvariant, PTL

\* goReportCallback finds a handler for every callback it is called for, except for
\* one whose subscription is being rolled back.
THEOREM DisciplinedNoUnhandledReport == ASSUME Disciplined PROVE Spec => []NoUnhandledReport
<1>1. ASSUME DInv PROVE NoUnhandledReport
  <2> SUFFICES ASSUME NEW c \in Client, cb[c].at = "lookup"
               PROVE  \/ \E e \in reportHandlers : e.id = cb[c].id
                      \/ \E t \in Thread : pc[t] = "rollbackUninstall" /\ frame[t].id = cb[c].id
    BY DEF NoUnhandledReport
  <2>1. PICK k \in DOMAIN installed[c] :
          installed[c][k].id = cb[c].id /\ installed[c][k].id # NoCallback
    BY <1>1 DEF DInv, IInv, CallbackInv
  <2>2. HasSlot(c, installed[c][k].rcbRef, cb[c].id) /\ cb[c].id # NoCallback
    BY <2>1 DEF HasSlot
  <2>3. CASE HasEntry(c, installed[c][k].rcbRef, cb[c].id)
    BY <2>3 DEF HasEntry
  <2>4. CASE \E t \in Thread : pc[t] = "rollbackUninstall" /\ frame[t].id = cb[c].id
    BY <2>4
  <2> QED
    BY <1>1, <2>2, <2>3, <2>4 DEF DInv, DHold, SlotBacked
<1> QED
  BY <1>1, DisciplineInvariant, PTL

-----------------------------------------------------------------------------
(* The service                                                             *)

\* The subscriptions that the service has for a client, or for one of its RCBs.
LEMMA ServiceHeld ==
  \A c, r : /\ Service!HeldBy(c) = {g \in granted : g.client = c}
            /\ Service!Held(c, r) = GrantsOf(c, r)
  BY DEF Service!HeldBy, Service!Held, GrantsOf

\* A report that arrives is taken by the callback of the subscription, if it is held.
LEMMA ReceiveRefines ==
  ASSUME Disciplined, DInv, NEW c \in Client, ReceiveReport(c) PROVE Service!Take(c)
<1> DEFINE r == Head(wire[c])
<1>1. TypeOK /\ DSlots /\ SlotMeaning /\ GrantInv
  BY DEF DInv, DHold, IInv, IdInv
<1>2. /\ wire[c] # <<>> /\ cb[c].at = "idle" /\ granted' = granted
      /\ wire' = [wire EXCEPT ![c] = Tail(@)]
  BY DEF ReceiveReport
<1>3. r \in Rcb
  BY <1>1, <1>2 DEF TypeOK
<1>4. Upcalls[c] = {}
  BY <1>2 DEF Upcalls
<1>5. ASSUME NEW g \in GrantsOf(c, r)
      PROVE  Selected(c, r) # {} /\ \A k \in Selected(c, r) : installed[c][k].id = g.id /\ g.id # NoCallback
  <2>1. g.id # NoCallback /\ HasSlot(c, r, g.id)
    BY <1>1, <1>5 DEF GrantInv, GrantsOf
  <2> HIDE DEF r
  <2> QED
    BY <1>1, <1>3, <2>1, SelectsOwn
<1>6. CASE /\ \A k \in Selected(c, r) : installed[c][k].id = NoCallback
           /\ UNCHANGED cb
  <2>1. GrantsOf(c, r) = {}
    BY <1>5, <1>6
  <2>2. Upcalls' = Upcalls
    BY <1>6 DEF Upcalls
  <2> QED
    BY <1>2, <1>4, <2>1, <2>2, ServiceHeld DEF Service!Take
<1>7. ASSUME NEW k \in Selected(c, r), installed[c][k].id # NoCallback,
             cb' = [cb EXCEPT ![c] = [IdleCallback(c) EXCEPT
                      !.at = "lookup", !.rcb = r, !.id = installed[c][k].id]]
      PROVE  Service!Take(c)
  <2>1. cb'[c].at = "lookup" /\ cb'[c].id = installed[c][k].id /\ \A d \in Client : d # c => cb'[d] = cb[d]
    BY <1>1, <1>7 DEF TypeOK, IdleCallback
  <2>2. installed[c][k].id \in Id
    BY <1>1, <1>7, SlotType DEF Selected, Matching
  <2>3. Upcalls' = [Upcalls EXCEPT ![c] = {[id |-> installed[c][k].id, handler |-> {}]}]
    BY <2>1 DEF Upcalls
  <2>4. \A g \in Service!Held(c, r) : installed[c][k].id = g.id
    BY <1>5, <1>7, ServiceHeld
  <2> QED
    BY <1>2, <1>4, <2>2, <2>3, <2>4 DEF Service!Take
<1> QED
  BY <1>6, <1>7 DEF ReceiveReport

\* The lookup comes to the handler of the subscription, or the subscription is gone.
LEMMA LookupRefines ==
  ASSUME DInv, NEW c \in Client, LookupHandler(c)
  PROVE  Service!Ignore(c) \/ \E r \in Rcb : Service!Invoke(c, r)
<1>1. TypeOK /\ UniqueEntries /\ GrantInv
  BY DEF DInv, DHold, IInv, IdInv
<1>2. cb[c].at = "lookup" /\ granted' = granted /\ wire' = wire
  BY DEF LookupHandler, netVars
<1>3. Upcalls[c] = {[id |-> cb[c].id, handler |-> {}]}
  BY <1>2 DEF Upcalls
<1>4. \A g \in Service!HeldBy(c) : \E e \in reportHandlers : e.id = g.id /\ e.rcbRef = g.rcb
  <2> SUFFICES ASSUME NEW g \in granted PROVE \E e \in reportHandlers : e.id = g.id /\ e.rcbRef = g.rcb
    BY ServiceHeld
  <2> DEFINE e == [id |-> g.id, owner |-> g.client, rcbRef |-> g.rcb]
  <2>1. e \in reportHandlers /\ e.id = g.id /\ e.rcbRef = g.rcb
    BY <1>1 DEF GrantInv, HasEntry
  <2> QED
    BY <2>1
<1>5. ASSUME NEW e \in reportHandlers, e.id = cb[c].id,
             cb' = [cb EXCEPT ![c].at = "handler", ![c].owner = e.owner, ![c].rcbRef = e.rcbRef]
      PROVE  \E r \in Rcb : Service!Invoke(c, r)
  <2>1. cb[c] \in Callback /\ e.rcbRef \in Rcb
    BY <1>1 DEF TypeOK, Entry
  <2>2. /\ cb'[c].at = "handler" /\ cb'[c].id = cb[c].id /\ cb'[c].rcbRef = e.rcbRef
        /\ \A d \in Client : d # c => cb'[d] = cb[d]
    BY <1>1, <1>5, <2>1 DEF TypeOK, Callback
  <2>3. Upcalls' = [Upcalls EXCEPT ![c] = {[id |-> cb[c].id, handler |-> {e.rcbRef}]}]
    BY <2>2 DEF Upcalls
  <2>4. \A g \in Service!HeldBy(c) : g.id = cb[c].id => g.rcb = e.rcbRef
    BY <1>1, <1>4, <1>5 DEF UniqueEntries
  <2>5. Service!Invoke(c, e.rcbRef)
    <3> DEFINE u == [id |-> cb[c].id, handler |-> {}]
    <3>1. u \in Upcalls[c] /\ u.id = cb[c].id /\ u.handler = {}
      BY <1>3
    <3> HIDE DEF u
    <3> QED
      BY <1>2, <2>3, <2>4, <3>1 DEF Service!Invoke
  <2> QED
    BY <2>1, <2>5
<1>6. CASE /\ \A e \in reportHandlers : e.id # cb[c].id
           /\ cb' = [cb EXCEPT ![c] = IdleCallback(c)]
  <2>1. cb'[c].at = "idle" /\ \A d \in Client : d # c => cb'[d] = cb[d]
    BY <1>1, <1>6 DEF TypeOK, IdleCallback
  <2>2. Upcalls' = [Upcalls EXCEPT ![c] = {}]
    BY <2>1 DEF Upcalls
  <2>3. \A g \in Service!HeldBy(c) : g.id # cb[c].id
    BY <1>4, <1>6
  <2> QED
    BY <1>2, <1>3, <2>2, <2>3 DEF Service!Ignore
<1> QED
  BY <1>5, <1>6 DEF LookupHandler

\* Every step is a step of the service or invisible to it.
LEMMA NextServes ==
  ASSUME Disciplined, DInv, [Next]_vars
  PROVE  [Service!Next]_<<granted, wire, Upcalls>>
<1> USE DEF regVars, netVars
<1>1. TypeOK /\ IdInv
  BY DEF DInv, IInv
<1>2. UNCHANGED cb => UNCHANGED Upcalls
  BY DEF Upcalls
<1>3. ASSUME UNCHANGED <<granted, wire, cb>> PROVE UNCHANGED <<granted, wire, Upcalls>>
  BY <1>2, <1>3
<1>4. ASSUME NEW t \in Thread, SetRCBSucceeds(t) PROVE Service!Next
  <2>1. frame[t].client \in Client /\ frame[t].rcb \in Rcb /\ frame[t].id \in Id
    <3>1. frame[t].id # NoCallback
      BY <1>1, <1>4 DEF SetRCBSucceeds, IdInv, DrawnIds, HasId
    <3> QED
      BY <1>1, <3>1 DEF TypeOK, Frame
  <2>2. Service!Obtain(frame[t].client, frame[t].rcb, frame[t].id)
    BY <1>2, <1>4, ServiceHeld DEF SetRCBSucceeds, Service!Obtain
  <2> QED
    BY <2>1, <2>2 DEF Service!Next
<1>5. ASSUME NEW t \in Thread, NEW c \in Client, UnsubscribeReport(t, c) PROVE Service!Next
  <2>1. PICK r \in Rcb : granted' = granted \ GrantsOf(c, r) /\ UNCHANGED <<wire, cb>>
    BY <1>5 DEF UnsubscribeReport
  <2>2. Service!GiveUp(c, r)
    BY <1>2, <2>1, ServiceHeld DEF Service!GiveUp
  <2> QED
    BY <2>2 DEF Service!Next
<1>6. ASSUME NEW c \in Client, ServerSendsReport(c) PROVE Service!Next
  <2>1. PICK r \in rptEna[c] : wire' = [wire EXCEPT ![c] = Append(@, r)] /\ UNCHANGED <<granted, cb>>
    BY <1>6 DEF ServerSendsReport
  <2>2. r \in Rcb /\ Service!Send(c, r)
    BY <1>1, <1>2, <2>1 DEF TypeOK, Service!Send
  <2> QED
    BY <2>2 DEF Service!Next
<1>7. ASSUME NEW c \in Client, ConnectionLost(c) \/ Close(c) PROVE Service!Next
  <2>1. granted' = {g \in granted : g.client # c} /\ wire' = [wire EXCEPT ![c] = <<>>] /\ UNCHANGED cb
    BY <1>7 DEF ConnectionLost, Close
  <2>2. Service!Lose(c)
    BY <1>2, <2>1, ServiceHeld DEF Service!Lose
  <2> QED
    BY <2>2 DEF Service!Next
<1>8. ASSUME NEW c \in Client, HandlerReturns(c) PROVE Service!Next
  <2>1. cb[c].at = "handler" /\ cb'[c].at = "idle" /\ \A d \in Client : d # c => cb'[d] = cb[d]
    BY <1>1, <1>8 DEF HandlerReturns, TypeOK, IdleCallback
  <2>2. Upcalls' = [Upcalls EXCEPT ![c] = {}]
    BY <2>1 DEF Upcalls
  <2>3. Upcalls[c] = {[id |-> cb[c].id, handler |-> {cb[c].rcbRef}]}
    BY <2>1 DEF Upcalls
  <2>4. Service!Return(c)
    BY <1>8, <2>2, <2>3 DEF HandlerReturns, Service!Return
  <2> QED
    BY <2>4 DEF Service!Next
<1>9. ASSUME NEW c \in Client, ReceiveReport(c) \/ LookupHandler(c) PROVE Service!Next
  BY <1>9, ReceiveRefines, LookupRefines DEF Service!Next
<1>10. ASSUME NEW t \in Thread, SubscribeStep(t), ~SetRCBSucceeds(t)
       PROVE  UNCHANGED <<granted, wire, cb>>
  BY <1>10 DEF SubscribeStep, GetRCBValues, RegisterHandler, InstallCallback, SetRCBApplied,
               SetRCBFails, RollbackDelete, RollbackUninstall
<1>11. ASSUME NEW t \in Thread, UnsubscribeStep(t) PROVE UNCHANGED <<granted, wire, cb>>
  BY <1>11 DEF UnsubscribeStep, UnsubGetRCBValues, UnsubSetRCBValues, UnsubUninstall, UnsubDelete
<1>12. ASSUME NEW t \in Thread, NEW c \in Client,
              SubscribeReport(t, c) \/ SubscribeReportWithCandidates(t, c)
       PROVE  UNCHANGED <<granted, wire, cb>>
  BY <1>12 DEF SubscribeReport, SubscribeReportWithCandidates, BeginSubscribe
<1>13. ASSUME Terminated \/ UNCHANGED vars \/ \E c \in Client : Connect(c)
       PROVE  UNCHANGED <<granted, wire, cb>>
  BY <1>13 DEF Terminated, vars, Connect
<1> QED
  BY <1>3, <1>4, <1>5, <1>6, <1>7, <1>8, <1>9, <1>10, <1>11, <1>12, <1>13 DEF Next, ReceiveStep

\* The registry, the callback lists and the calls of any number of goroutines, of
\* which any may fail half-way, implement subscriptions that are held or not: a
\* report of one that is held comes to its handler and to no other.
THEOREM DisciplinedImplementsService == ASSUME Disciplined PROVE Spec => ServesSubscriptions
<1>1. Init => Service!Init
  BY DEF Init, Service!Init, Upcalls, IdleCallback
<1>2. DInv /\ [Next]_vars => [Service!Next]_<<granted, wire, Upcalls>>
  BY NextServes
<1> QED
  BY <1>1, <1>2, DisciplineInvariant, PTL DEF Spec, ServesSubscriptions, Service!Spec, Service!vars

===============================================================================
