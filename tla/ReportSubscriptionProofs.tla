----------------------- MODULE ReportSubscriptionProofs -----------------------
(***************************************************************************)
(* Proofs about ReportSubscription for any number of clients, report       *)
(* control blocks, goroutines and handlers.                                *)
(***************************************************************************)
EXTENDS ReportSubscription, SequenceTheorems, TLAPS

-----------------------------------------------------------------------------
(* Lists of callbacks                                                      *)

\* Removing the d-th element of a list shifts the later ones down by one.
LEMMA RemoveAtProperties ==
  ASSUME NEW S, NEW s \in Seq(S), NEW d \in DOMAIN s
  PROVE  /\ RemoveAt(s, d) \in Seq(S)
         /\ Len(RemoveAt(s, d)) = Len(s) - 1
         /\ \A k \in 1..(Len(s) - 1) :
              RemoveAt(s, d)[k] = IF k < d THEN s[k] ELSE s[k + 1]
<1> DEFINE a == SubSeq(s, 1, d - 1)
           b == SubSeq(s, d + 1, Len(s))
<1>1. d \in 1..Len(s) /\ Len(s) \in Nat
  OBVIOUS
<1>2. RemoveAt(s, d) = a \o b
  BY DEF RemoveAt
<1>3. /\ a \in Seq(S)
      /\ Len(a) = d - 1
      /\ \A i \in 1..(d - 1) : a[i] = s[i]
  <2>1. \A i \in 1..(d - 1) : s[i] \in S
    BY <1>1
  <2>2. /\ a \in Seq(S)
        /\ Len(a) = IF 1 <= d - 1 THEN (d - 1) - 1 + 1 ELSE 0
        /\ \A i \in 1..((d - 1) - 1 + 1) : a[i] = s[1 + i - 1]
    BY <1>1, <2>1, SubSeqProperties
  <2> QED
    BY <1>1, <2>2
<1>4. /\ b \in Seq(S)
      /\ Len(b) = Len(s) - d
      /\ \A i \in 1..(Len(s) - d) : b[i] = s[d + i]
  <2>1. \A i \in (d + 1)..Len(s) : s[i] \in S
    BY <1>1
  <2>2. /\ b \in Seq(S)
        /\ Len(b) = IF d + 1 <= Len(s) THEN Len(s) - (d + 1) + 1 ELSE 0
        /\ \A i \in 1..(Len(s) - (d + 1) + 1) : b[i] = s[(d + 1) + i - 1]
    BY <1>1, <2>1, SubSeqProperties
  <2> QED
    BY <1>1, <2>2
<1> DEFINE m == Len(s)
           ab == a \o b
<1>5. /\ ab \in Seq(S)
      /\ Len(ab) = Len(a) + Len(b)
      /\ \A i \in 1..(Len(a) + Len(b)) : ab[i] = IF i <= Len(a) THEN a[i] ELSE b[i - Len(a)]
  <2> HIDE DEF a, b
  <2> QED
    BY <1>3, <1>4, ConcatProperties
<1>6. /\ d \in Int /\ m \in Int /\ 1 <= d /\ d <= m
      /\ \A i \in Int : 1 <= i /\ i <= d - 1 => a[i] = s[i]
      /\ \A i \in Int : 1 <= i /\ i <= m - d => b[i] = s[d + i]
      /\ \A i \in Int : 1 <= i /\ i <= m - 1 => ab[i] = IF i <= d - 1 THEN a[i] ELSE b[i - (d - 1)]
      /\ Len(ab) = m - 1
  <2>1. d \in Int /\ m \in Int /\ 1 <= d /\ d <= m
    BY <1>1
  <2> HIDE DEF a, b, ab
  <2>2. Len(a) = d - 1 /\ Len(b) = m - d
    BY <1>3, <1>4
  <2>3. Len(ab) = m - 1 /\ Len(a) + Len(b) = m - 1
    BY <1>5, <2>1, <2>2
  <2> HIDE DEF m
  <2>4. \A i \in Int : 1 <= i /\ i <= d - 1 => a[i] = s[i]
    BY <1>3, <2>1
  <2>5. \A i \in Int : 1 <= i /\ i <= m - d => b[i] = s[d + i]
    BY <1>4, <2>1 DEF m
  <2>6. \A i \in Int : 1 <= i /\ i <= m - 1 => ab[i] = IF i <= d - 1 THEN a[i] ELSE b[i - (d - 1)]
    <3>1. \A i \in 1..(m - 1) : ab[i] = IF i <= d - 1 THEN a[i] ELSE b[i - (d - 1)]
      BY <1>5, <2>2, <2>3
    <3> QED
      BY <2>1, <3>1
  <2> QED
    BY <2>1, <2>3, <2>4, <2>5, <2>6
<1> HIDE DEF a, b, ab, m
<1>7. ASSUME NEW k \in Int, 1 <= k, k <= m - 1
      PROVE  ab[k] = IF k < d THEN s[k] ELSE s[k + 1]
  <2>1. CASE k < d
    BY <1>6, <1>7, <2>1
  <2>2. CASE ~(k < d)
    <3>1. ab[k] = b[k - (d - 1)]
      BY <1>6, <1>7, <2>2
    <3>2. k - (d - 1) \in Int /\ 1 <= k - (d - 1) /\ k - (d - 1) <= m - d /\ d + (k - (d - 1)) = k + 1
      BY <1>6, <1>7, <2>2
    <3>3. b[k - (d - 1)] = s[d + (k - (d - 1))]
      BY <1>6, <3>2
    <3> QED
      BY <2>2, <3>1, <3>2, <3>3
  <2> QED
    BY <2>1, <2>2
<1> QED
  BY <1>2, <1>5, <1>6, <1>7 DEF ab, m

\* Slots of other references than r stay, at some place before the last.
KeepsOthers(old, s, r) ==
  \A k \in DOMAIN old : old[k].rcbRef # r => \E j \in DOMAIN s : j # Len(s) /\ s[j] = old[k]

\* At most the last slot is of reference r.
LastOnly(s, r) == \A k \in DOMAIN s : k # Len(s) => s[k].rcbRef # r

\* What installing or uninstalling does to a connection's list: the last
\* element is the new one, the others are old ones, each once, and an old one
\* of another reference stays.
LEMMA ReinstallProperties ==
  ASSUME installed \in [Client -> Seq(Slot)],
         NEW c \in Client, NEW r \in Rcb, NEW p \in RptId, NEW i \in Id \cup {NoCallback}
  PROVE  LET s == Reinstall(c, r, p, i)[c]
             new == [rcbRef |-> r, rptId |-> p, id |-> i]
         IN  /\ Reinstall(c, r, p, i) \in [Client -> Seq(Slot)]
             /\ \A d \in Client : d # c => Reinstall(c, r, p, i)[d] = installed[d]
             /\ Len(s) \in DOMAIN s /\ s[Len(s)] = new
             /\ \A k \in DOMAIN s : k # Len(s) =>
                  \E j \in DOMAIN installed[c] : s[k] = installed[c][j]
             /\ KeepsOthers(installed[c], s, r)
             /\ \A k1, k2 \in DOMAIN s : k1 # k2 /\ k1 # Len(s) /\ k2 # Len(s) =>
                  \E j1, j2 \in DOMAIN installed[c] :
                    j1 # j2 /\ s[k1] = installed[c][j1] /\ s[k2] = installed[c][j2]
             /\ (\A j1, j2 \in SlotsOf(c, r) : j1 = j2) => LastOnly(s, r)
<1> DEFINE old == installed[c]
           new == [rcbRef |-> r, rptId |-> p, id |-> i]
           has == SlotsOf(c, r) # {}
           d == CHOOSE k \in SlotsOf(c, r) : TRUE
           rest == IF SlotsOf(c, r) = {} THEN old ELSE RemoveAt(old, d)
           s == Append(rest, new)
           n == Len(old)
           m == Len(rest)
           at(k) == IF has /\ k >= d THEN k + 1 ELSE k
<1>1. new \in Slot
  BY DEF Slot
<1>2. old \in Seq(Slot) /\ n \in Nat /\ \A k : k \in DOMAIN old <=> k \in Int /\ 1 <= k /\ k <= n
  OBVIOUS
<1>3. has => d \in SlotsOf(c, r)
  OBVIOUS
<1>4. has => d \in DOMAIN old /\ old[d].rcbRef = r
  BY <1>3 DEF SlotsOf
<1>5. Reinstall(c, r, p, i) = [installed EXCEPT ![c] = s]
  BY DEF Reinstall
<1> HIDE DEF d, old, new
\* Every element of the shortened list is one of the old list, each at its
\* own place, and is not the removed one.
<1>6. /\ rest \in Seq(Slot)
      /\ m = IF has THEN n - 1 ELSE n
      /\ \A k \in Int : 1 <= k /\ k <= m => rest[k] = old[at(k)]
  <2>1. CASE ~has
    BY <1>2, <2>1
  <2>2. CASE has
    <3>1. rest = RemoveAt(old, d) /\ d \in DOMAIN old
      BY <1>4, <2>2
    <3>2. /\ RemoveAt(old, d) \in Seq(Slot)
          /\ Len(RemoveAt(old, d)) = Len(old) - 1
          /\ \A k \in 1..(Len(old) - 1) :
               RemoveAt(old, d)[k] = IF k < d THEN old[k] ELSE old[k + 1]
      BY <1>2, <3>1, RemoveAtProperties
    <3> HIDE DEF rest
    <3>3. rest \in Seq(Slot) /\ m = n - 1
      BY <3>1, <3>2
    <3>4. \A k \in 1..(n - 1) : rest[k] = IF k < d THEN old[k] ELSE old[k + 1]
      BY <3>1, <3>2
    <3> HIDE DEF n, m, has
    <3>5. d \in Int
      BY <1>2, <3>1
    <3> QED
      BY <1>2, <2>2, <3>3, <3>4, <3>5
  <2> QED
    BY <2>1, <2>2
<1> HIDE DEF has, rest, n
<1>7. has => d \in Int /\ 1 <= d /\ d <= n
  BY <1>2, <1>4
<1>8. /\ s \in Seq(Slot)
      /\ Len(s) = m + 1
      /\ \A k : k \in DOMAIN s <=> k \in Int /\ 1 <= k /\ k <= m + 1
      /\ s[m + 1] = new
      /\ \A k \in Int : 1 <= k /\ k <= m => s[k] = rest[k]
  BY <1>1, <1>6
<1>9. m \in Nat
  BY <1>6
<1> HIDE DEF s, m
<1>10. \A k \in Int : 1 <= k /\ k <= m =>
         at(k) \in DOMAIN old /\ s[k] = old[at(k)] /\ (has => at(k) # d)
  BY <1>2, <1>6, <1>7, <1>8, <1>9
<1>11. \A k1, k2 \in Int : 1 <= k1 /\ k1 <= m /\ 1 <= k2 /\ k2 <= m /\ k1 # k2 => at(k1) # at(k2)
  BY <1>7
<1>12. Len(s) \in DOMAIN s /\ s[Len(s)] = new
       /\ \A k \in DOMAIN s : k # Len(s) => k \in Int /\ 1 <= k /\ k <= m
  BY <1>8, <1>9
<1>13. \A k \in DOMAIN s : k # Len(s) => \E j \in DOMAIN old : s[k] = old[j]
  BY <1>10, <1>12
<1>14. ASSUME NEW k \in DOMAIN old, old[k].rcbRef # r
       PROVE  \E j \in DOMAIN s : j # Len(s) /\ s[j] = old[k]
  <2> DEFINE j == IF has /\ k > d THEN k - 1 ELSE k
  <2>1. k \in Int /\ 1 <= k /\ k <= n /\ (has => k # d)
    BY <1>2, <1>4, <1>14
  <2>2. j \in Int /\ 1 <= j /\ j <= m /\ at(j) = k
    BY <1>2, <1>6, <1>7, <2>1
  <2> HIDE DEF j, at
  <2>3. j \in DOMAIN s /\ j # Len(s) /\ s[j] = old[k]
    BY <1>8, <1>9, <1>10, <2>2
  <2> QED
    BY <2>3
<1>15. \A k1, k2 \in DOMAIN s : k1 # k2 /\ k1 # Len(s) /\ k2 # Len(s) =>
         \E j1, j2 \in DOMAIN old : j1 # j2 /\ s[k1] = old[j1] /\ s[k2] = old[j2]
  <2> HIDE DEF at
  <2> QED
    BY <1>10, <1>11, <1>12
<1>16. ASSUME \A j1, j2 \in SlotsOf(c, r) : j1 = j2
       PROVE  \A k \in DOMAIN s : k # Len(s) => s[k].rcbRef # r
  <2>1. SUFFICES ASSUME NEW k \in DOMAIN s, k # Len(s), s[k].rcbRef = r PROVE FALSE
    OBVIOUS
  <2>2. at(k) \in DOMAIN old /\ s[k] = old[at(k)] /\ (has => at(k) # d)
    BY <1>10, <1>12, <2>1
  <2> HIDE DEF at
  <2>3. at(k) \in SlotsOf(c, r)
    BY <2>1, <2>2 DEF SlotsOf, old
  <2>4. d \in SlotsOf(c, r) /\ has
    BY <1>3, <2>3 DEF has
  <2> QED
    BY <1>16, <2>2, <2>3, <2>4
<1>17. /\ Reinstall(c, r, p, i) \in [Client -> Seq(Slot)]
       /\ Reinstall(c, r, p, i)[c] = s
       /\ \A e \in Client : e # c => Reinstall(c, r, p, i)[e] = installed[e]
  BY <1>5, <1>8
<1> QED
  BY <1>12, <1>13, <1>14, <1>15, <1>16, <1>17 DEF old, new, KeepsOthers, LastOnly

\* In particular the list stays a list of slots.
LEMMA ReinstallType ==
  ASSUME installed \in [Client -> Seq(Slot)],
         NEW c \in Client, NEW r \in Rcb, NEW p \in RptId, NEW i \in Id \cup {NoCallback}
  PROVE  Reinstall(c, r, p, i) \in [Client -> Seq(Slot)]
  BY ReinstallProperties

-----------------------------------------------------------------------------
(* Types                                                                   *)

\* The values of unused fields have the types of the fields.
LEMMA IdleTypes ==
  SomeClient \in Client /\ SomeRcb \in Rcb /\ IdleFrame \in Frame
  /\ \A c \in Client : IdleCallback(c) \in Callback
<1>1. SomeClient \in Client /\ SomeRcb \in Rcb
  BY ConstantsAssumption DEF SomeClient, SomeRcb
<1>2. << >> \in Seq(Rcb)
  OBVIOUS
<1> QED
  BY <1>1, <1>2 DEF IdleFrame, Frame, IdleCallback, Callback, NoCallback

\* The elements of a callback list are slots.
LEMMA SlotType ==
  ASSUME TypeOK, NEW c \in Client, NEW k \in DOMAIN installed[c]
  PROVE  /\ installed[c][k] \in Slot
         /\ installed[c][k].id \in Id \cup {NoCallback}
         /\ installed[c][k].rcbRef \in Rcb
         /\ installed[c][k].rptId \in RptId
<1>1. installed[c] \in Seq(Slot)
  BY DEF TypeOK
<1>2. installed[c][k] \in Slot
  BY <1>1
<1> QED
  BY <1>2 DEF Slot

\* A candidate list expands to references.
LEMMA ExpandType ==
  ASSUME NEW bases \in CandidateLists
  PROVE  Expand(bases) \in Seq(Rcb) /\ Expand(bases) # <<>>
<1> DEFINE n == Len(bases)
<1>1. bases \in Seq(Base) /\ n \in Nat /\ n # 0
  BY ConstantsAssumption
<1>2. ASSUME NEW k \in 1..(2 * n), k % 2 = 1 PROVE (k + 1) \div 2 \in 1..n
  BY <1>1, <1>2, Z3
<1>3. ASSUME NEW k \in 1..(2 * n), k % 2 # 1 PROVE k \div 2 \in 1..n
  BY <1>1, <1>3, Z3
<1>4. \A k \in 1..n : bases[k] \in Base /\ bases[k] \in Rcb /\ Alt01[bases[k]] \in Rcb
  BY <1>1, ConstantsAssumption
<1>5. \A k \in 1..(2 * n) :
        (IF k % 2 = 1 THEN bases[(k + 1) \div 2] ELSE Alt01[bases[k \div 2]]) \in Rcb
  BY <1>2, <1>3, <1>4
<1>6. Expand(bases) = [k \in 1..(2 * n) |->
        IF k % 2 = 1 THEN bases[(k + 1) \div 2] ELSE Alt01[bases[k \div 2]]]
  BY DEF Expand
<1>7. 2 * n \in Nat /\ 2 * n # 0
  BY <1>1
<1> HIDE DEF n
<1>8. Expand(bases) \in [1..(2 * n) -> Rcb]
  BY <1>5, <1>6
<1> QED
  BY <1>7, <1>8

\* Trying the next candidate, or returning, keeps the types.
LEMMA AttemptFailsType ==
  ASSUME TypeOK, NEW t \in Thread, AttemptFails(t)
  PROVE  pc' \in [Thread -> PC] /\ frame' \in [Thread -> Frame]
<1>1. frame[t] \in Frame
  BY DEF TypeOK
<1>2. CASE frame[t].rest = <<>>
  BY <1>2, IdleTypes DEF AttemptFails, Return, Goto, TypeOK, PC
<1>3. CASE frame[t].rest # <<>>
  <2>1. Head(frame[t].rest) \in Rcb /\ Tail(frame[t].rest) \in Seq(Rcb)
    BY <1>1, <1>3 DEF Frame
  <2>2. [client |-> frame[t].client, rcb |-> Head(frame[t].rest), id |-> NoCallback,
         rest |-> Tail(frame[t].rest)] \in Frame
    BY <1>1, <2>1 DEF Frame
  <2> QED
    BY <1>3, <2>2 DEF AttemptFails, Goto, TypeOK, PC, SubscribePC
<1> QED
  BY <1>2, <1>3

\* The initial state has the right types.
LEMMA InitTypeOK == Init => TypeOK
<1> SUFFICES ASSUME Init PROVE TypeOK
  OBVIOUS
<1>1. << >> \in Seq(Slot) /\ << >> \in Seq(Rcb)
  OBVIOUS
<1> QED
  BY <1>1, IdleTypes, ConstantsAssumption DEF Init, TypeOK, PC

\* Every step preserves the types.
LEMMA NextTypeOK == TypeOK /\ [Next]_vars => TypeOK'
<1> SUFFICES ASSUME TypeOK, [Next]_vars PROVE TypeOK'
  OBVIOUS
<1> USE ConstantsAssumption DEF Goto, regVars, netVars
<1>1. ASSUME NEW t \in Thread, NEW c \in Client, NEW refs \in Seq(Rcb), refs # <<>>,
             BeginSubscribe(t, c, refs)
      PROVE TypeOK'
  <2>1. [client |-> c, rcb |-> Head(refs), id |-> NoCallback, rest |-> Tail(refs)] \in Frame
    BY <1>1 DEF Frame
  <2> QED
    BY <1>1, <2>1 DEF BeginSubscribe, TypeOK, PC, SubscribePC
<1>2. ASSUME NEW t \in Thread, NEW c \in Client, SubscribeReport(t, c) PROVE TypeOK'
  <2>1. PICK r \in Rcb : BeginSubscribe(t, c, <<r>>)
    BY <1>2 DEF SubscribeReport
  <2>2. <<r>> \in Seq(Rcb) /\ <<r>> # <<>>
    OBVIOUS
  <2> QED
    BY <1>1, <2>1, <2>2
<1>3. ASSUME NEW t \in Thread, NEW c \in Client, SubscribeReportWithCandidates(t, c) PROVE TypeOK'
  BY <1>1, <1>3, ExpandType DEF SubscribeReportWithCandidates
<1>4. ASSUME NEW t \in Thread, GetRCBValues(t) PROVE TypeOK'
  <2>1. CASE AttemptFails(t)
    BY <1>4, <2>1, AttemptFailsType DEF GetRCBValues, TypeOK
  <2>2. CASE Goto(t, "register") /\ UNCHANGED frame
    BY <1>4, <2>2 DEF GetRCBValues, TypeOK, PC, SubscribePC
  <2> QED
    BY <1>4, <2>1, <2>2 DEF GetRCBValues
<1>5. ASSUME NEW t \in Thread, RegisterHandler(t) PROVE TypeOK'
  <2>1. nextHandlerID + 1 \in Id /\ nextHandlerID + 1 \in 0..MaxHandlerID
    BY <1>5 DEF RegisterHandler, TypeOK, Id
  <2>2. frame[t] \in Frame
    BY DEF TypeOK
  <2>3. [id |-> nextHandlerID + 1, owner |-> frame[t].client, rcbRef |-> frame[t].rcb] \in Entry
    BY <2>1, <2>2 DEF Entry, Frame
  <2>4. [frame[t] EXCEPT !.id = nextHandlerID + 1] \in Frame
    BY <2>1, <2>2 DEF Frame
  <2>5. frame' = [frame EXCEPT ![t] = [frame[t] EXCEPT !.id = nextHandlerID + 1]]
    BY <1>5 DEF RegisterHandler, TypeOK
  <2> QED
    BY <1>5, <2>1, <2>3, <2>4, <2>5 DEF RegisterHandler, TypeOK, PC, SubscribePC
<1>6. ASSUME NEW t \in Thread, InstallCallback(t) PROVE TypeOK'
  <2>1. frame[t].client \in Client /\ frame[t].rcb \in Rcb /\ frame[t].id \in Id \cup {NoCallback}
    BY DEF TypeOK, Frame
  <2>2. installed' \in [Client -> Seq(Slot)]
    BY <1>6, <2>1, ReinstallType DEF InstallCallback, installGoReportHandler, TypeOK
  <2> QED
    BY <1>6, <2>2 DEF InstallCallback, TypeOK, PC, SubscribePC
<1>7. ASSUME NEW t \in Thread, SetRCBApplied(t) PROVE TypeOK'
  <2>1. frame[t] \in Frame
    BY DEF TypeOK
  <2>2. frame[t].client \in Client /\ frame[t].rcb \in Rcb
    BY <2>1 DEF Frame
  <2>3. rptEna' \in [Client -> SUBSET Rcb]
    BY <1>7, <2>2 DEF SetRCBApplied, TypeOK
  <2> QED
    BY <1>7, <2>3 DEF SetRCBApplied, TypeOK, PC, SubscribePC
<1>8. ASSUME NEW t \in Thread, SetRCBSucceeds(t) PROVE TypeOK'
  <2>1. frame[t] \in Frame
    BY DEF TypeOK
  <2>2. [client |-> frame[t].client, rcb |-> frame[t].rcb, id |-> frame[t].id] \in Grant
    BY <2>1 DEF Frame, Grant
  <2> QED
    BY <1>8, <2>2, IdleTypes DEF SetRCBSucceeds, Return, TypeOK, PC
<1>9. ASSUME NEW t \in Thread, SetRCBFails(t) PROVE TypeOK'
  BY <1>9 DEF SetRCBFails, TypeOK, PC, SubscribePC
<1>10. ASSUME NEW t \in Thread, RollbackDelete(t) PROVE TypeOK'
  BY <1>10 DEF RollbackDelete, TypeOK, PC, SubscribePC
<1>11. ASSUME NEW t \in Thread, NEW c \in Client, NEW r \in Rcb, uninstallGoReportHandler(c, r)
       PROVE installed' \in [Client -> Seq(Slot)]
  BY <1>11, ReinstallType DEF uninstallGoReportHandler, TypeOK, NoCallback
<1>12. ASSUME NEW t \in Thread, RollbackUninstall(t) PROVE TypeOK'
  BY <1>11, <1>12, AttemptFailsType DEF RollbackUninstall, TypeOK, Frame
<1>13. ASSUME NEW t \in Thread, NEW c \in Client, UnsubscribeReport(t, c) PROVE TypeOK'
  <2>1. PICK r \in Rcb :
          /\ frame' = [frame EXCEPT ![t] = [client |-> c, rcb |-> r, id |-> NoCallback, rest |-> <<>>]]
          /\ pc' = [pc EXCEPT ![t] = "uGetRCB"]
          /\ granted' = granted \ GrantsOf(c, r)
          /\ UNCHANGED <<regVars, installed, netVars, cb>>
    BY <1>13 DEF UnsubscribeReport
  <2>2. << >> \in Seq(Rcb)
    OBVIOUS
  <2>3. [client |-> c, rcb |-> r, id |-> NoCallback, rest |-> <<>>] \in Frame
    BY <2>2 DEF Frame
  <2> QED
    BY <2>1, <2>3 DEF TypeOK, PC, UnsubscribePC
<1>14. ASSUME NEW t \in Thread, UnsubGetRCBValues(t) \/ UnsubSetRCBValues(t) PROVE TypeOK'
  <2>1. CASE UnsubGetRCBValues(t)
    BY <2>1 DEF UnsubGetRCBValues, TypeOK, PC, UnsubscribePC
  <2>2. CASE UnsubSetRCBValues(t)
    <3>1. frame[t].client \in Client
      BY DEF TypeOK, Frame
    <3>2. rptEna' \in [Client -> SUBSET Rcb]
      <4>1. CASE UNCHANGED rptEna
        BY <4>1 DEF TypeOK
      <4>2. CASE rptEna' = [rptEna EXCEPT ![frame[t].client] = @ \ {frame[t].rcb}]
        <5>1. rptEna[frame[t].client] \ {frame[t].rcb} \in SUBSET Rcb
          BY <3>1 DEF TypeOK
        <5> QED
          BY <4>2, <5>1 DEF TypeOK
      <4> QED
        BY <2>2, <4>1, <4>2 DEF UnsubSetRCBValues
    <3> QED
      BY <2>2, <3>2 DEF UnsubSetRCBValues, TypeOK, PC, UnsubscribePC
  <2> QED
    BY <1>14, <2>1, <2>2
<1>15. ASSUME NEW t \in Thread, UnsubUninstall(t) PROVE TypeOK'
  BY <1>11, <1>15 DEF UnsubUninstall, TypeOK, PC, UnsubscribePC, Frame
<1>16. ASSUME NEW t \in Thread, UnsubDelete(t) PROVE TypeOK'
  BY <1>16, IdleTypes DEF UnsubDelete, Return, TypeOK, PC
<1>17. ASSUME NEW c \in Client, ServerSendsReport(c) PROVE TypeOK'
  BY <1>17 DEF ServerSendsReport, TypeOK
<1>18. ASSUME NEW c \in Client, ReceiveReport(c) PROVE TypeOK'
  <2>1. wire[c] \in Seq(Rcb) /\ wire[c] # <<>>
    BY <1>18 DEF ReceiveReport, TypeOK
  <2>2. Head(wire[c]) \in Rcb /\ Tail(wire[c]) \in Seq(Rcb)
    BY <2>1
  <2>3. wire' \in [Client -> Seq(Rcb)]
    BY <1>18, <2>2 DEF ReceiveReport, TypeOK
  <2>4. cb' \in [Client -> Callback]
    <3>1. CASE UNCHANGED cb
      BY <3>1 DEF TypeOK
    <3>2. ASSUME NEW k \in Selected(c, Head(wire[c])),
                 cb' = [cb EXCEPT ![c] = [IdleCallback(c) EXCEPT
                          !.at = "lookup", !.rcb = Head(wire[c]), !.id = installed[c][k].id]]
          PROVE cb' \in [Client -> Callback]
      <4>1. installed[c][k].id \in Id \cup {NoCallback}
        <5>1. k \in DOMAIN installed[c]
          BY <3>2 DEF Selected, Matching
        <5> QED
          BY <5>1, SlotType
      <4>2. [IdleCallback(c) EXCEPT !.at = "lookup", !.rcb = Head(wire[c]),
                                    !.id = installed[c][k].id] \in Callback
        BY <2>2, <4>1, IdleTypes DEF IdleCallback, Callback
      <4> QED
        BY <3>2, <4>2 DEF TypeOK
    <3> QED
      BY <1>18, <3>1, <3>2 DEF ReceiveReport
  <2> QED
    BY <1>18, <2>3, <2>4 DEF ReceiveReport, TypeOK
<1>19. ASSUME NEW c \in Client, LookupHandler(c) PROVE TypeOK'
  <2>1. cb' \in [Client -> Callback]
    <3>1. cb[c] \in Callback
      BY DEF TypeOK
    <3>2. ASSUME NEW e \in reportHandlers,
                 cb' = [cb EXCEPT ![c].at = "handler", ![c].owner = e.owner, ![c].rcbRef = e.rcbRef]
          PROVE cb' \in [Client -> Callback]
      <4>1. e.owner \in Client /\ e.rcbRef \in Rcb
        BY DEF TypeOK, Entry
      <4>2. [cb[c] EXCEPT !.at = "handler", !.owner = e.owner, !.rcbRef = e.rcbRef] \in Callback
        BY <3>1, <4>1 DEF Callback
      <4>3. cb' = [cb EXCEPT ![c] = [cb[c] EXCEPT !.at = "handler", !.owner = e.owner, !.rcbRef = e.rcbRef]]
        BY <3>2 DEF TypeOK
      <4> QED
        BY <4>2, <4>3 DEF TypeOK
    <3> QED
      BY <1>19, <3>2, IdleTypes DEF LookupHandler, TypeOK
  <2> QED
    BY <1>19, <2>1 DEF LookupHandler, TypeOK
<1>20. ASSUME NEW c \in Client, HandlerReturns(c) PROVE TypeOK'
  BY <1>20, IdleTypes DEF HandlerReturns, TypeOK
<1>21. ASSUME NEW c \in Client, Connect(c) PROVE TypeOK'
  BY <1>21 DEF Connect, TypeOK
<1>22. ASSUME NEW c \in Client, ConnectionLost(c) PROVE TypeOK'
  <2>1. pc' \in [Thread -> PC]
    BY <1>22 DEF ConnectionLost, TypeOK, PC, SubscribePC
  <2>2. << >> \in Seq(Rcb)
    OBVIOUS
  <2> QED
    BY <1>22, <2>1, <2>2 DEF ConnectionLost, TypeOK
<1>23. ASSUME NEW c \in Client, Close(c) PROVE TypeOK'
  <2>1. << >> \in Seq(Rcb) /\ << >> \in Seq(Slot)
    OBVIOUS
  <2> QED
    BY <1>23, <2>1 DEF Close, TypeOK
<1>24. CASE Terminated \/ UNCHANGED vars
  BY <1>24 DEF Terminated, vars, TypeOK
<1> QED
  BY <1>2, <1>3, <1>4, <1>5, <1>6, <1>7, <1>8, <1>9, <1>10, <1>12, <1>13, <1>14, <1>15,
     <1>16, <1>17, <1>18, <1>19, <1>20, <1>21, <1>22, <1>23, <1>24
     DEF Next, SubscribeStep, UnsubscribeStep, ReceiveStep

\* The registry, the callback lists and the calls in progress keep their types.
THEOREM SubscriptionTypeOK == Spec => []TypeOK
  BY InitTypeOK, NextTypeOK, PTL DEF Spec

-----------------------------------------------------------------------------
(* Handler ids, whatever the application does                              *)

\* The places of a SubscribeReport call at which it owns a handler id.
HasId == {"install", "setRCB", "response", "rollbackDelete", "rollbackUninstall"}

\* All ids in use were drawn from nextHandlerID.
DrawnIds ==
  /\ \A e \in reportHandlers : e.id <= nextHandlerID
  /\ \A c \in Client : \A k \in DOMAIN installed[c] : installed[c][k].id <= nextHandlerID
  /\ \A t \in Thread : pc[t] \in HasId => frame[t].id # NoCallback /\ frame[t].id <= nextHandlerID

UniqueEntries == \A e1, e2 \in reportHandlers : e1.id = e2.id => e1 = e2

UniqueSlots ==
  \A c1, c2 \in Client :
    \A k1 \in DOMAIN installed[c1], k2 \in DOMAIN installed[c2] :
      /\ installed[c1][k1].id = installed[c2][k2].id
      /\ installed[c1][k1].id # NoCallback
      => c1 = c2 /\ k1 = k2

UniqueFrames ==
  \A t, u \in Thread :
    pc[t] \in HasId /\ pc[u] \in HasId /\ frame[t].id = frame[u].id => t = u

\* The id of a call that is about to install its callback is in no list yet.
FreshFrames ==
  \A t \in Thread : pc[t] = "install" =>
    \A c \in Client : \A k \in DOMAIN installed[c] : installed[c][k].id # frame[t].id

\* An id means the same in a call, in a callback list and in the registry.
FrameMeaning ==
  \A t \in Thread : pc[t] \in HasId =>
    \A e \in reportHandlers :
      e.id = frame[t].id => e.owner = frame[t].client /\ e.rcbRef = frame[t].rcb

SlotMeaning ==
  \A c \in Client : \A k \in DOMAIN installed[c] : installed[c][k].id # NoCallback =>
    /\ installed[c][k].rptId = RptIdOf[installed[c][k].rcbRef]
    /\ \A e \in reportHandlers : e.id = installed[c][k].id =>
         e.owner = c /\ e.rcbRef = installed[c][k].rcbRef

IdInv == DrawnIds /\ UniqueEntries /\ UniqueSlots /\ UniqueFrames /\ FreshFrames
         /\ FrameMeaning /\ SlotMeaning

\* A running callback is that of an installed slot.
CallbackInv ==
  \A c \in Client : cb[c].at # "idle" =>
    \E k \in DOMAIN installed[c] :
      /\ installed[c][k].id = cb[c].id
      /\ installed[c][k].id # NoCallback
      /\ installed[c][k].rptId = RptIdOf[cb[c].rcb]
      /\ cb[c].at = "handler" => cb[c].owner = c /\ cb[c].rcbRef = installed[c][k].rcbRef

IInv == TypeOK /\ IdInv /\ CallbackInv

\* The non-NULL slots of the new lists are slots of the old lists, each at a
\* place of its own.
SlotsShrink ==
  \A c \in Client :
    /\ \A k \in DOMAIN installed'[c] : installed'[c][k].id # NoCallback =>
         \E j \in DOMAIN installed[c] : installed'[c][k] = installed[c][j]
    /\ \A k1, k2 \in DOMAIN installed'[c] :
         k1 # k2 /\ installed'[c][k1].id # NoCallback /\ installed'[c][k2].id # NoCallback =>
           \E j1, j2 \in DOMAIN installed[c] :
             /\ j1 # j2
             /\ installed'[c][k1] = installed[c][j1]
             /\ installed'[c][k2] = installed[c][j2]

\* A step that draws no id, adds neither a handler nor a callback and lets no
\* call acquire an id preserves the invariant on ids.
LEMMA ShrinkIdInv ==
  ASSUME TypeOK, IdInv, SlotsShrink,
         nextHandlerID' = nextHandlerID,
         reportHandlers' \subseteq reportHandlers,
         \A u \in Thread : pc'[u] \in HasId =>
           pc[u] \in HasId /\ frame'[u] = frame[u] /\ (pc'[u] = "install" => pc[u] = "install")
  PROVE  IdInv'
<1> USE DEF IdInv
<1>1. \A c \in Client : \A k \in DOMAIN installed'[c] :
        installed'[c][k].id = NoCallback
        \/ \E j \in DOMAIN installed[c] : installed'[c][k] = installed[c][j]
  BY DEF SlotsShrink
<1>2. DrawnIds'
  <2>1. NoCallback <= nextHandlerID
    BY ConstantsAssumption DEF NoCallback, TypeOK
  <2> QED
    BY <1>1, <2>1 DEF DrawnIds
<1>3. UniqueEntries'
  BY DEF UniqueEntries
<1>4. UniqueSlots'
  <2>1. SUFFICES ASSUME NEW c1 \in Client, NEW c2 \in Client,
                        NEW k1 \in DOMAIN installed'[c1], NEW k2 \in DOMAIN installed'[c2],
                        installed'[c1][k1].id = installed'[c2][k2].id,
                        installed'[c1][k1].id # NoCallback
                 PROVE  c1 = c2 /\ k1 = k2
    BY DEF UniqueSlots
  <2>2. PICK j1 \in DOMAIN installed[c1] : installed'[c1][k1] = installed[c1][j1]
    BY <1>1, <2>1
  <2>3. PICK j2 \in DOMAIN installed[c2] : installed'[c2][k2] = installed[c2][j2]
    BY <1>1, <2>1
  <2>4. c1 = c2
    BY <2>1, <2>2, <2>3 DEF UniqueSlots
  <2>5. CASE k1 # k2
    <3>1. PICK i1 \in DOMAIN installed[c1], i2 \in DOMAIN installed[c1] :
            i1 # i2 /\ installed'[c1][k1] = installed[c1][i1] /\ installed'[c1][k2] = installed[c1][i2]
      BY <2>1, <2>4, <2>5 DEF SlotsShrink
    <3> QED
      BY <2>1, <2>4, <3>1 DEF UniqueSlots
  <2> QED
    BY <2>4, <2>5
<1>5. UniqueFrames'
  BY DEF UniqueFrames
<1>6. FreshFrames'
  <2>1. SUFFICES ASSUME NEW t \in Thread, pc'[t] = "install",
                        NEW c \in Client, NEW k \in DOMAIN installed'[c]
                 PROVE  installed'[c][k].id # frame'[t].id
    BY DEF FreshFrames
  <2>2. pc[t] = "install" /\ frame'[t] = frame[t] /\ frame[t].id # NoCallback
    BY <2>1 DEF HasId, DrawnIds
  <2> QED
    BY <1>1, <2>2 DEF FreshFrames
<1>7. FrameMeaning'
  BY DEF FrameMeaning
<1>8. SlotMeaning'
  BY <1>1 DEF SlotMeaning
<1> QED
  BY <1>2, <1>3, <1>4, <1>5, <1>6, <1>7, <1>8

\* Leaving the lists alone, and uninstalling, shrink them.
LEMMA UnchangedShrinks == ASSUME UNCHANGED installed PROVE SlotsShrink
  BY DEF SlotsShrink

\* What a call of the library that (un)installs a callback on c does to the lists.
LEMMA InstalledStep ==
  ASSUME TypeOK, NEW c \in Client, NEW r \in Rcb, NEW p \in RptId,
         NEW i \in Id \cup {NoCallback}, installed' = Reinstall(c, r, p, i)
  PROVE  LET s == installed'[c]
         IN  /\ \A d \in Client : d # c => installed'[d] = installed[d]
             /\ Len(s) \in DOMAIN s
             /\ s[Len(s)] = [rcbRef |-> r, rptId |-> p, id |-> i]
             /\ \A k \in DOMAIN s : k # Len(s) =>
                  \E j \in DOMAIN installed[c] : s[k] = installed[c][j]
             /\ \A k1, k2 \in DOMAIN s : k1 # k2 /\ k1 # Len(s) /\ k2 # Len(s) =>
                  \E j1, j2 \in DOMAIN installed[c] :
                    j1 # j2 /\ s[k1] = installed[c][j1] /\ s[k2] = installed[c][j2]
<1> DEFINE new == Reinstall(c, r, p, i)
<1>1. /\ \A d \in Client : d # c => new[d] = installed[d]
      /\ Len(new[c]) \in DOMAIN new[c]
      /\ new[c][Len(new[c])] = [rcbRef |-> r, rptId |-> p, id |-> i]
      /\ \A k \in DOMAIN new[c] : k # Len(new[c]) =>
           \E j \in DOMAIN installed[c] : new[c][k] = installed[c][j]
      /\ \A k1, k2 \in DOMAIN new[c] : k1 # k2 /\ k1 # Len(new[c]) /\ k2 # Len(new[c]) =>
           \E j1, j2 \in DOMAIN installed[c] :
             j1 # j2 /\ new[c][k1] = installed[c][j1] /\ new[c][k2] = installed[c][j2]
  <2>1. installed \in [Client -> Seq(Slot)]
    BY DEF TypeOK
  <2> QED
    BY <2>1, ReinstallProperties
<1>2. installed' = new
  OBVIOUS
<1> HIDE DEF new
<1> QED
  BY <1>1, <1>2

\* Slots of other references stay, and if the reference had one slot, none of it
\* but the new one is left.
LEMMA InstalledOthers ==
  ASSUME TypeOK, NEW c \in Client, NEW r \in Rcb, NEW p \in RptId,
         NEW i \in Id \cup {NoCallback}, installed' = Reinstall(c, r, p, i),
         \A j1, j2 \in SlotsOf(c, r) : j1 = j2
  PROVE  KeepsOthers(installed[c], installed'[c], r) /\ LastOnly(installed'[c], r)
<1> DEFINE new == Reinstall(c, r, p, i)
<1>1. KeepsOthers(installed[c], new[c], r) /\ LastOnly(new[c], r)
  <2>1. installed \in [Client -> Seq(Slot)]
    BY DEF TypeOK
  <2> QED
    BY <2>1, ReinstallProperties
<1>2. installed' = new
  OBVIOUS
<1> HIDE DEF new
<1> QED
  BY <1>1, <1>2

\* Uninstalling a callback shrinks the lists.
LEMMA UninstallShrinks ==
  ASSUME TypeOK, NEW c \in Client, NEW r \in Rcb, uninstallGoReportHandler(c, r)
  PROVE  SlotsShrink
<1> DEFINE s == installed'[c]
<1>1. DefaultRptId[r] \in RptId /\ installed' = Reinstall(c, r, DefaultRptId[r], NoCallback)
  BY ConstantsAssumption DEF uninstallGoReportHandler
<1>2. NoCallback \in Id \cup {NoCallback}
  OBVIOUS
<1>3. /\ \A d \in Client : d # c => installed'[d] = installed[d]
      /\ s[Len(s)] = [rcbRef |-> r, rptId |-> DefaultRptId[r], id |-> NoCallback]
      /\ \A k \in DOMAIN s : k # Len(s) => \E j \in DOMAIN installed[c] : s[k] = installed[c][j]
      /\ \A k1, k2 \in DOMAIN s : k1 # k2 /\ k1 # Len(s) /\ k2 # Len(s) =>
           \E j1, j2 \in DOMAIN installed[c] :
             j1 # j2 /\ s[k1] = installed[c][j1] /\ s[k2] = installed[c][j2]
  BY <1>1, <1>2, InstalledStep
<1>4. s[Len(s)].id = NoCallback
  BY <1>3
<1> QED
  BY <1>3, <1>4 DEF SlotsShrink

\* The step that draws a handler id keeps the ids unique and their meaning.
LEMMA RegisterIdInv ==
  ASSUME TypeOK, IdInv, NEW t \in Thread, RegisterHandler(t)
  PROVE  IdInv'
<1> DEFINE new == nextHandlerID + 1
<1>1. /\ new \in Nat /\ new # NoCallback /\ nextHandlerID \in Nat
      /\ nextHandlerID' = new
      /\ installed' = installed
      /\ frame[t] \in Frame
  BY ConstantsAssumption DEF RegisterHandler, TypeOK, NoCallback
<1>2. /\ frame'[t].id = new /\ frame'[t].client = frame[t].client /\ frame'[t].rcb = frame[t].rcb
      /\ pc'[t] = "install"
      /\ \A u \in Thread : u # t => pc'[u] = pc[u] /\ frame'[u] = frame[u]
  BY <1>1 DEF RegisterHandler, Goto, TypeOK, Frame
<1>3. reportHandlers' = reportHandlers \cup
        {[id |-> new, owner |-> frame[t].client, rcbRef |-> frame[t].rcb]}
  BY DEF RegisterHandler
<1>4. /\ \A e \in reportHandlers : e.id \in Nat /\ e.id <= nextHandlerID
      /\ \A c \in Client : \A k \in DOMAIN installed[c] :
           installed[c][k].id \in Nat /\ installed[c][k].id <= nextHandlerID
      /\ \A u \in Thread : pc[u] \in HasId =>
           frame[u].id \in Nat /\ frame[u].id # NoCallback /\ frame[u].id <= nextHandlerID
  <2>1. \A e \in reportHandlers : e.id \in Nat
    BY DEF TypeOK, Entry, Id
  <2>2. \A c \in Client : \A k \in DOMAIN installed[c] : installed[c][k].id \in Nat
    BY SlotType DEF Id, NoCallback
  <2>3. \A u \in Thread : frame[u].id \in Nat
    BY DEF TypeOK, Frame, Id, NoCallback
  <2> QED
    BY <2>1, <2>2, <2>3 DEF IdInv, DrawnIds
<1>5. \A x \in Nat : x <= nextHandlerID => x <= new /\ x # new
  BY <1>1
<1>6. new <= new
  BY <1>1
<1> HIDE DEF new
<1>7. DrawnIds'
  BY <1>1, <1>2, <1>3, <1>4, <1>5, <1>6 DEF DrawnIds, HasId
<1>8. UniqueEntries'
  BY <1>3, <1>4, <1>5 DEF IdInv, UniqueEntries
<1>9. UniqueSlots'
  BY <1>1 DEF IdInv, UniqueSlots
<1>10. UniqueFrames'
  BY <1>2, <1>4, <1>5 DEF IdInv, UniqueFrames
<1>11. FreshFrames'
  BY <1>1, <1>2, <1>4, <1>5 DEF IdInv, FreshFrames
<1>12. FrameMeaning'
  BY <1>2, <1>3, <1>4, <1>5 DEF IdInv, FrameMeaning
<1>13. SlotMeaning'
  BY <1>1, <1>3, <1>4, <1>5 DEF IdInv, SlotMeaning
<1> QED
  BY <1>7, <1>8, <1>9, <1>10, <1>11, <1>12, <1>13 DEF IdInv

\* The step that installs the callback puts a fresh id into one list.
LEMMA InstallIdInv ==
  ASSUME TypeOK, IdInv, NEW t \in Thread, InstallCallback(t)
  PROVE  IdInv'
<1> DEFINE c == frame[t].client
           r == frame[t].rcb
           i == frame[t].id
           s == installed'[c]
           L == Len(s)
<1>1. /\ pc[t] = "install"
      /\ c \in Client /\ r \in Rcb /\ i \in Id \cup {NoCallback} /\ RptIdOf[r] \in RptId
      /\ installed' = Reinstall(c, r, RptIdOf[r], i)
  BY ConstantsAssumption DEF InstallCallback, installGoReportHandler, TypeOK, Frame
<1>2. /\ nextHandlerID' = nextHandlerID /\ reportHandlers' = reportHandlers /\ frame' = frame
      /\ pc'[t] = "setRCB"
      /\ \A u \in Thread : u # t => pc'[u] = pc[u]
  BY DEF InstallCallback, Goto, regVars, TypeOK
<1>3. /\ i # NoCallback /\ i <= nextHandlerID
      /\ \A d \in Client : \A k \in DOMAIN installed[d] : installed[d][k].id # i
      /\ \A u \in Thread : pc[u] = "install" /\ u # t => frame[u].id # i
      /\ \A e \in reportHandlers : e.id = i => e.owner = c /\ e.rcbRef = r
  BY <1>1 DEF IdInv, DrawnIds, FreshFrames, UniqueFrames, FrameMeaning, HasId
<1>4. /\ \A d \in Client : d # c => installed'[d] = installed[d]
      /\ L \in DOMAIN s
      /\ s[L] = [rcbRef |-> r, rptId |-> RptIdOf[r], id |-> i]
      /\ \A k \in DOMAIN s : k # L => \E j \in DOMAIN installed[c] : s[k] = installed[c][j]
      /\ \A k1, k2 \in DOMAIN s : k1 # k2 /\ k1 # L /\ k2 # L =>
           \E j1, j2 \in DOMAIN installed[c] :
             j1 # j2 /\ s[k1] = installed[c][j1] /\ s[k2] = installed[c][j2]
  <2> HIDE DEF c, r, i
  <2> QED
    BY <1>1, InstalledStep
<1>5. s[L].rcbRef = r /\ s[L].rptId = RptIdOf[r] /\ s[L].id = i
  BY <1>4
<1> HIDE DEF c, r, i, L, s
<1>6. \A d \in Client : \A k \in DOMAIN installed'[d] :
        \/ d = c /\ k = L
        \/ \E j \in DOMAIN installed[d] : installed'[d][k] = installed[d][j]
  BY <1>4 DEF s
<1>7. installed'[c][L].rcbRef = r /\ installed'[c][L].rptId = RptIdOf[r] /\ installed'[c][L].id = i
  BY <1>5 DEF s
<1>8. \A u \in Thread : pc'[u] \in HasId => pc[u] \in HasId
  BY <1>1, <1>2 DEF HasId
<1>9. DrawnIds'
  BY <1>2, <1>3, <1>6, <1>7, <1>8 DEF IdInv, DrawnIds
<1>10. UniqueEntries'
  BY <1>2 DEF IdInv, UniqueEntries
<1>11. UniqueSlots'
  <2>1. SUFFICES ASSUME NEW c1 \in Client, NEW c2 \in Client,
                        NEW k1 \in DOMAIN installed'[c1], NEW k2 \in DOMAIN installed'[c2],
                        installed'[c1][k1].id = installed'[c2][k2].id,
                        installed'[c1][k1].id # NoCallback
                 PROVE  c1 = c2 /\ k1 = k2
    BY DEF UniqueSlots
  <2>2. CASE (c1 = c /\ k1 = L) \/ (c2 = c /\ k2 = L)
    BY <1>3, <1>6, <1>7, <2>1, <2>2
  <2>3. CASE ~((c1 = c /\ k1 = L) \/ (c2 = c /\ k2 = L))
    <3>1. PICK j1 \in DOMAIN installed[c1] : installed'[c1][k1] = installed[c1][j1]
      BY <1>6, <2>3
    <3>2. PICK j2 \in DOMAIN installed[c2] : installed'[c2][k2] = installed[c2][j2]
      BY <1>6, <2>3
    <3>3. c1 = c2
      BY <2>1, <3>1, <3>2 DEF IdInv, UniqueSlots
    <3>4. CASE c1 # c
      BY <1>4, <2>1, <3>3, <3>4 DEF IdInv, UniqueSlots
    <3>5. CASE c1 = c /\ k1 # k2
      <4>1. PICK i1 \in DOMAIN installed[c], i2 \in DOMAIN installed[c] :
              i1 # i2 /\ installed'[c][k1] = installed[c][i1] /\ installed'[c][k2] = installed[c][i2]
        BY <1>4, <2>3, <3>3, <3>5 DEF s
      <4> QED
        BY <1>1, <2>1, <3>3, <3>5, <4>1 DEF IdInv, UniqueSlots
    <3> QED
      BY <3>3, <3>4, <3>5
  <2> QED
    BY <2>2, <2>3
<1>12. UniqueFrames'
  BY <1>2, <1>8 DEF IdInv, UniqueFrames
<1>13. FreshFrames'
  <2>1. SUFFICES ASSUME NEW u \in Thread, pc'[u] = "install",
                        NEW d \in Client, NEW k \in DOMAIN installed'[d]
                 PROVE  installed'[d][k].id # frame'[u].id
    BY DEF FreshFrames
  <2>2. u # t /\ pc[u] = "install" /\ frame'[u] = frame[u]
    BY <1>2, <2>1
  <2> QED
    BY <1>3, <1>6, <1>7, <2>2 DEF IdInv, FreshFrames
<1>14. FrameMeaning'
  BY <1>2, <1>8 DEF IdInv, FrameMeaning
<1>15. SlotMeaning'
  BY <1>2, <1>3, <1>6, <1>7 DEF IdInv, SlotMeaning
<1> QED
  BY <1>9, <1>10, <1>11, <1>12, <1>13, <1>14, <1>15 DEF IdInv

\* A failed attempt leaves the call without an id.
LEMMA AttemptFailsIds ==
  ASSUME TypeOK, NEW t \in Thread, AttemptFails(t)
  PROVE  /\ pc'[t] \notin HasId
         /\ \A u \in Thread : u # t => pc'[u] = pc[u] /\ frame'[u] = frame[u]
  BY DEF AttemptFails, Return, Goto, HasId, TypeOK

\* Every step preserves the invariant on ids.
LEMMA NextIdInv == TypeOK /\ IdInv /\ [Next]_vars => IdInv'
<1> SUFFICES ASSUME TypeOK, IdInv, [Next]_vars PROVE IdInv'
  OBVIOUS
<1> USE DEF Goto, regVars, netVars, HasId
<1>1. ASSUME NEW t \in Thread, NEW c \in Client, NEW refs, BeginSubscribe(t, c, refs) PROVE IdInv'
  BY <1>1, UnchangedShrinks, ShrinkIdInv DEF BeginSubscribe, TypeOK
<1>2. ASSUME NEW t \in Thread, NEW c \in Client, SubscribeReport(t, c) PROVE IdInv'
  BY <1>1, <1>2 DEF SubscribeReport
<1>3. ASSUME NEW t \in Thread, NEW c \in Client, SubscribeReportWithCandidates(t, c) PROVE IdInv'
  BY <1>1, <1>3 DEF SubscribeReportWithCandidates
<1>4. ASSUME NEW t \in Thread, NEW c \in Client, UnsubscribeReport(t, c) PROVE IdInv'
  BY <1>4, UnchangedShrinks, ShrinkIdInv DEF UnsubscribeReport, TypeOK
<1>5. ASSUME NEW t \in Thread, GetRCBValues(t) PROVE IdInv'
  BY <1>5, UnchangedShrinks, ShrinkIdInv, AttemptFailsIds DEF GetRCBValues, TypeOK
<1>6. ASSUME NEW t \in Thread, RegisterHandler(t) PROVE IdInv'
  BY <1>6, RegisterIdInv
<1>7. ASSUME NEW t \in Thread, InstallCallback(t) PROVE IdInv'
  BY <1>7, InstallIdInv
<1>8. ASSUME NEW t \in Thread, SetRCBApplied(t) PROVE IdInv'
  BY <1>8, UnchangedShrinks, ShrinkIdInv DEF SetRCBApplied, TypeOK
<1>9. ASSUME NEW t \in Thread, SetRCBSucceeds(t) PROVE IdInv'
  BY <1>9, UnchangedShrinks, ShrinkIdInv DEF SetRCBSucceeds, Return, TypeOK
<1>10. ASSUME NEW t \in Thread, SetRCBFails(t) PROVE IdInv'
  BY <1>10, UnchangedShrinks, ShrinkIdInv DEF SetRCBFails, TypeOK
<1>11. ASSUME NEW t \in Thread, RollbackDelete(t) PROVE IdInv'
  BY <1>11, UnchangedShrinks, ShrinkIdInv DEF RollbackDelete, TypeOK
<1>12. ASSUME NEW t \in Thread, RollbackUninstall(t) PROVE IdInv'
  <2>1. frame[t].client \in Client /\ frame[t].rcb \in Rcb
    BY DEF TypeOK, Frame
  <2>2. SlotsShrink
    BY <1>12, <2>1, UninstallShrinks DEF RollbackUninstall
  <2> QED
    BY <1>12, <2>2, ShrinkIdInv, AttemptFailsIds DEF RollbackUninstall, TypeOK
<1>13. ASSUME NEW t \in Thread, UnsubUninstall(t) PROVE IdInv'
  <2>1. frame[t].client \in Client /\ frame[t].rcb \in Rcb
    BY DEF TypeOK, Frame
  <2>2. SlotsShrink
    BY <1>13, <2>1, UninstallShrinks DEF UnsubUninstall
  <2> QED
    BY <1>13, <2>2, ShrinkIdInv, AttemptFailsIds DEF UnsubUninstall, TypeOK
<1>14. ASSUME NEW t \in Thread, UnsubGetRCBValues(t) PROVE IdInv'
  BY <1>14, UnchangedShrinks, ShrinkIdInv DEF UnsubGetRCBValues, TypeOK
<1>15. ASSUME NEW t \in Thread, UnsubSetRCBValues(t) PROVE IdInv'
  BY <1>15, UnchangedShrinks, ShrinkIdInv DEF UnsubSetRCBValues, TypeOK
<1>16. ASSUME NEW t \in Thread, UnsubDelete(t) PROVE IdInv'
  BY <1>16, UnchangedShrinks, ShrinkIdInv DEF UnsubDelete, Return, TypeOK
<1>17. ASSUME NEW c \in Client, ServerSendsReport(c) PROVE IdInv'
  BY <1>17, UnchangedShrinks, ShrinkIdInv DEF ServerSendsReport
<1>18. ASSUME NEW c \in Client, ReceiveReport(c) PROVE IdInv'
  BY <1>18, UnchangedShrinks, ShrinkIdInv DEF ReceiveReport
<1>19. ASSUME NEW c \in Client, LookupHandler(c) PROVE IdInv'
  BY <1>19, UnchangedShrinks, ShrinkIdInv DEF LookupHandler
<1>20. ASSUME NEW c \in Client, HandlerReturns(c) PROVE IdInv'
  BY <1>20, UnchangedShrinks, ShrinkIdInv DEF HandlerReturns
<1>21. ASSUME NEW c \in Client, Connect(c) PROVE IdInv'
  BY <1>21, UnchangedShrinks, ShrinkIdInv DEF Connect
<1>22. ASSUME NEW c \in Client, ConnectionLost(c) PROVE IdInv'
  BY <1>22, UnchangedShrinks, ShrinkIdInv DEF ConnectionLost, TypeOK
<1>23. ASSUME NEW c \in Client, Close(c) PROVE IdInv'
  <2>1. SlotsShrink
    <3>1. \A d \in Client : d # c => installed'[d] = installed[d]
      BY <1>23 DEF Close, TypeOK
    <3>2. installed'[c] = << >>
      BY <1>23 DEF Close, TypeOK
    <3>3. DOMAIN installed'[c] = {}
      BY <3>2
    <3> QED
      BY <3>1, <3>3 DEF SlotsShrink
  <2> QED
    BY <1>23, <2>1, ShrinkIdInv DEF Close
<1>24. CASE Terminated \/ UNCHANGED vars
  BY <1>24, UnchangedShrinks, ShrinkIdInv DEF Terminated, vars
<1> QED
  BY <1>2, <1>3, <1>4, <1>5, <1>6, <1>7, <1>8, <1>9, <1>10, <1>11, <1>12, <1>13,
     <1>14, <1>15, <1>16, <1>17, <1>18, <1>19, <1>20, <1>21, <1>22, <1>23, <1>24
     DEF Next, SubscribeStep, UnsubscribeStep, ReceiveStep

\* The lists of other connections, and of a connection whose receive thread is
\* outside goReportCallback, may change without disturbing a running callback.
LEMMA CallbackStable ==
  ASSUME CallbackInv, cb' = cb,
         \A d \in Client : cb[d].at = "idle" \/ installed'[d] = installed[d]
  PROVE  CallbackInv'
  BY DEF CallbackInv

\* Installing and uninstalling wait for the receive thread of their connection.
LEMMA InstallWaits ==
  ASSUME TypeOK, NEW c \in Client, NEW r, NEW p, NEW i,
         cb[c].at = "idle", installed' = Reinstall(c, r, p, i)
  PROVE  \A d \in Client : cb[d].at = "idle" \/ installed'[d] = installed[d]
  BY DEF Reinstall, TypeOK

\* The receive thread enters goReportCallback with the id of a selected slot.
LEMMA ReceiveCallbackInv ==
  ASSUME TypeOK, CallbackInv, NEW c \in Client, ReceiveReport(c)
  PROVE  CallbackInv'
<1> DEFINE r == Head(wire[c])
<1>1. installed' = installed
  BY DEF ReceiveReport
<1>2. CASE cb' = cb
  BY <1>1, <1>2, CallbackStable
<1>3. ASSUME NEW k \in Selected(c, r), installed[c][k].id # NoCallback,
             cb' = [cb EXCEPT ![c] = [IdleCallback(c) EXCEPT
                      !.at = "lookup", !.rcb = r, !.id = installed[c][k].id]]
      PROVE  CallbackInv'
  <2>1. k \in DOMAIN installed[c] /\ installed[c][k].rptId = RptIdOf[r]
    BY <1>3 DEF Selected, Matching
  <2>2. cb'[c].at = "lookup" /\ cb'[c].rcb = r /\ cb'[c].id = installed[c][k].id
    BY <1>3 DEF TypeOK, IdleCallback
  <2>3. \A d \in Client : d # c => cb'[d] = cb[d]
    BY <1>3 DEF TypeOK
  <2> HIDE DEF r
  <2> QED
    BY <1>1, <1>3, <2>1, <2>2, <2>3 DEF CallbackInv
<1> QED
  BY <1>2, <1>3 DEF ReceiveReport

\* The registry entry that goReportCallback finds is the one the slot was
\* installed for.
LEMMA LookupCallbackInv ==
  ASSUME TypeOK, IdInv, CallbackInv, NEW c \in Client, LookupHandler(c)
  PROVE  CallbackInv'
<1>1. installed' = installed /\ \A d \in Client : d # c => cb'[d] = cb[d]
  BY DEF LookupHandler, TypeOK
<1>2. PICK k \in DOMAIN installed[c] :
        /\ installed[c][k].id = cb[c].id
        /\ installed[c][k].id # NoCallback
        /\ installed[c][k].rptId = RptIdOf[cb[c].rcb]
  BY DEF LookupHandler, CallbackInv
<1>3. ASSUME NEW e \in reportHandlers, e.id = cb[c].id,
             cb' = [cb EXCEPT ![c].at = "handler", ![c].owner = e.owner, ![c].rcbRef = e.rcbRef]
      PROVE  CallbackInv'
  <2>1. cb[c] \in Callback
    BY DEF TypeOK
  <2>2. /\ cb'[c].rcb = cb[c].rcb /\ cb'[c].id = cb[c].id
        /\ cb'[c].owner = e.owner /\ cb'[c].rcbRef = e.rcbRef
    BY <1>3, <2>1 DEF TypeOK, Callback
  <2>3. e.owner = c /\ e.rcbRef = installed[c][k].rcbRef
    BY <1>2, <1>3 DEF IdInv, SlotMeaning
  <2> QED
    BY <1>1, <1>2, <2>2, <2>3 DEF CallbackInv
<1>4. CASE cb' = [cb EXCEPT ![c] = IdleCallback(c)]
  <2>1. cb'[c].at = "idle"
    BY <1>4 DEF TypeOK, IdleCallback
  <2> QED
    BY <1>1, <2>1 DEF CallbackInv
<1> QED
  BY <1>3, <1>4 DEF LookupHandler

\* Every step preserves the invariant on running callbacks.
LEMMA NextCallbackInv == TypeOK /\ IdInv /\ CallbackInv /\ [Next]_vars => CallbackInv'
<1> SUFFICES ASSUME TypeOK, IdInv, CallbackInv, [Next]_vars PROVE CallbackInv'
  OBVIOUS
<1> USE DEF regVars, netVars
<1>1. ASSUME UNCHANGED <<installed, cb>> PROVE CallbackInv'
  BY <1>1, CallbackStable
<1>2. ASSUME NEW t \in Thread, NEW c \in Client,
             SubscribeReport(t, c) \/ SubscribeReportWithCandidates(t, c) \/ UnsubscribeReport(t, c)
      PROVE  CallbackInv'
  BY <1>1, <1>2 DEF SubscribeReport, SubscribeReportWithCandidates, BeginSubscribe, UnsubscribeReport
<1>3. ASSUME NEW t \in Thread, InstallCallback(t) \/ RollbackUninstall(t) \/ UnsubUninstall(t)
      PROVE  CallbackInv'
  <2>1. frame[t].client \in Client
    BY DEF TypeOK, Frame
  <2>2. cb' = cb /\ cb[frame[t].client].at = "idle"
        /\ \E p, i : installed' = Reinstall(frame[t].client, frame[t].rcb, p, i)
    BY <1>3 DEF InstallCallback, RollbackUninstall, UnsubUninstall,
                installGoReportHandler, uninstallGoReportHandler
  <2> QED
    BY <2>1, <2>2, InstallWaits, CallbackStable
<1>4. ASSUME NEW t \in Thread, SubscribeStep(t) PROVE CallbackInv'
  BY <1>1, <1>3, <1>4 DEF SubscribeStep, GetRCBValues, RegisterHandler, SetRCBApplied,
                          SetRCBSucceeds, SetRCBFails, RollbackDelete
<1>5. ASSUME NEW t \in Thread, UnsubscribeStep(t) PROVE CallbackInv'
  BY <1>1, <1>3, <1>5 DEF UnsubscribeStep, UnsubGetRCBValues, UnsubSetRCBValues, UnsubDelete
<1>6. ASSUME NEW c \in Client, ServerSendsReport(c) \/ Connect(c) \/ ConnectionLost(c)
      PROVE  CallbackInv'
  BY <1>1, <1>6 DEF ServerSendsReport, Connect, ConnectionLost
<1>7. ASSUME NEW c \in Client, Close(c) PROVE CallbackInv'
  <2>1. cb' = cb /\ \A d \in Client : cb[d].at = "idle" \/ installed'[d] = installed[d]
    BY <1>7 DEF Close, TypeOK
  <2> QED
    BY <2>1, CallbackStable
<1>8. ASSUME NEW c \in Client, HandlerReturns(c) PROVE CallbackInv'
  <2>1. cb'[c].at = "idle" /\ installed' = installed /\ \A d \in Client : d # c => cb'[d] = cb[d]
    BY <1>8 DEF HandlerReturns, TypeOK, IdleCallback
  <2> QED
    BY <2>1 DEF CallbackInv
<1>9. CASE Terminated \/ UNCHANGED vars
  BY <1>1, <1>9 DEF Terminated, vars
<1> QED
  BY <1>2, <1>4, <1>5, <1>6, <1>7, <1>8, <1>9, ReceiveCallbackInv, LookupCallbackInv
     DEF Next, ReceiveStep

\* The invariant holds initially.
LEMMA InitIInv == Init => IInv
<1> SUFFICES ASSUME Init PROVE IInv
  OBVIOUS
<1>1. TypeOK
  BY InitTypeOK
<1>2. /\ reportHandlers = {}
      /\ \A c \in Client : DOMAIN installed[c] = {} /\ cb[c].at = "idle"
      /\ \A t \in Thread : pc[t] \notin HasId /\ pc[t] # "install"
  BY DEF Init, HasId, IdleCallback
<1>3. IdInv
  BY <1>2 DEF IdInv, DrawnIds, UniqueEntries, UniqueSlots, UniqueFrames, FreshFrames,
              FrameMeaning, SlotMeaning
<1>4. CallbackInv
  BY <1>2 DEF CallbackInv
<1> QED
  BY <1>1, <1>3, <1>4 DEF IInv

\* The inductive invariant: the types, what an id stands for wherever it is
\* stored, and which slot a running callback was entered through.
THEOREM SubscriptionInvariant == Spec => []IInv
<1>1. IInv /\ [Next]_vars => IInv'
  BY NextTypeOK, NextIdInv, NextCallbackInv DEF IInv
<1> QED
  BY <1>1, InitIInv, PTL DEF Spec

\* No handler id is ever shared by two registry entries or by two installed
\* callbacks, of whatever connection: nextHandlerID.Add(1) and the order of
\* registering and installing are enough, without a lock around both.
THEOREM SubscriptionIdsUnique == Spec => []HandlerIdsUnique
<1>1. IInv => HandlerIdsUnique
  BY DEF IInv, IdInv, UniqueEntries, UniqueSlots, HandlerIdsUnique
<1> QED
  BY <1>1, SubscriptionInvariant, PTL

\* A handler is called only for reports that carry the report id of its own
\* RCB, and only from the connection it was registered on.
THEOREM SubscriptionOwnReports == Spec => []HandlerGetsOwnReports
<1>1. IInv => HandlerGetsOwnReports
  <2> SUFFICES ASSUME IInv, NEW c \in Client, cb[c].at = "handler"
               PROVE  cb[c].owner = c /\ RptIdOf[cb[c].rcb] = RptIdOf[cb[c].rcbRef]
    BY DEF HandlerGetsOwnReports
  <2>1. PICK k \in DOMAIN installed[c] :
          /\ installed[c][k].id # NoCallback
          /\ installed[c][k].rptId = RptIdOf[cb[c].rcb]
          /\ cb[c].owner = c /\ cb[c].rcbRef = installed[c][k].rcbRef
    BY DEF IInv, CallbackInv
  <2>2. installed[c][k].rptId = RptIdOf[installed[c][k].rcbRef]
    BY <2>1 DEF IInv, IdInv, SlotMeaning
  <2> QED
    BY <2>1, <2>2
<1> QED
  BY <1>1, SubscriptionInvariant, PTL

=============================================================================
