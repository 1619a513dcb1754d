------------------------- MODULE ServerReportsProofs -------------------------
(***************************************************************************)
(* Proofs about ServerReports for any data set, trigger options, report    *)
(* configurations and bounds.  Reports on changes carry a part of the data *)
(* set, and are merged at the client with interrogations that carry all of *)
(* it.  The argument that the result is no mixture: the reports in flight  *)
(* lead from the client's view through states that were all committed to   *)
(* the one committed last, and what the open section has changed since is  *)
(* pending.                                                                *)
(***************************************************************************)
EXTENDS ServerReports, SequenceTheorems, FiniteSetTheorems, TLAPS

\* The states that the server's application has committed.
Committed == {past[i] : i \in DOMAIN past}

Latest == past[Len(past)]

\* The reports in w lead from the view v through states of P to s: view and report
\* together determine the state after a report has arrived.
Chain(v, w, P, s) ==
  \E g \in [0..Len(w) -> P] :
    /\ \A a \in Attr : v[a] # Null => v[a] = g[0][a]
    /\ \A k \in 1..Len(w) : \A a \in Attr :
         g[k][a] = IF a \in DOMAIN w[k].vals THEN w[k].vals[a] ELSE g[k - 1][a]
    /\ g[Len(w)] = s

\* A subscription lives on a connection to a running server, with the RCB enabled.
HeldEnabled ==
  /\ conn => phase = "running"
  /\ held # {} => conn /\ rcb.enabled

\* Between sections nothing is pending and the values are those committed last.
\* A section is only opened below the bound.
Sections ==
  /\ ~locked => rcb.pending = {} /\ value = Latest
  /\ locked => Len(past) <= MaxSection

\* If all changes trigger, the reports in flight lead to the state committed last,
\* and what the open section has changed is pending.
Following ==
  held # {} /\ (\A a \in Attr : Triggers(a)) =>
    /\ Chain(view, wire, Committed, Latest)
    /\ \A a \in Attr \ rcb.pending : value[a] = Latest[a]

\* If no change triggers, nothing is ever pending, and the reports in flight lead
\* through committed states.
Sampling ==
  held # {} /\ (\A a \in Attr : ~Triggers(a)) =>
    /\ rcb.pending = {}
    /\ \E s \in Committed : Chain(view, wire, Committed, s)

IInv == TypeOK /\ HeldEnabled /\ Sections /\ Following /\ Sampling

-----------------------------------------------------------------------------
(* Chains                                                                  *)

\* Without reports in flight the view itself is what is led to.
LEMMA ChainNil ==
  ASSUME NEW v, NEW P, NEW s \in P, \A a \in Attr : v[a] # Null => v[a] = s[a]
  PROVE  Chain(v, <<>>, P, s)
<1> DEFINE g == [k \in 0..Len(<<>>) |-> s]
<1>1. Len(<<>>) = 0
  OBVIOUS
<1>2. g \in [0..Len(<<>>) -> P] /\ g[0] = s /\ g[Len(<<>>)] = s
  BY <1>1
<1> HIDE DEF g
<1> QED
  BY <1>1, <1>2 DEF Chain

\* States that are committed later do not matter.
LEMMA ChainMono ==
  ASSUME NEW v, NEW w, NEW P, NEW Q, P \subseteq Q, NEW s, Chain(v, w, P, s)
  PROVE  Chain(v, w, Q, s)
<1>1. \A g \in [0..Len(w) -> P] : g \in [0..Len(w) -> Q]
  OBVIOUS
<1> QED
  BY <1>1 DEF Chain

\* One more report leads on to the state it makes.
LEMMA ChainAppend ==
  ASSUME NEW v, NEW w \in Seq(Report), NEW P, NEW s, NEW t \in P, Chain(v, w, P, s),
         NEW m \in Report,
         \A a \in Attr : t[a] = IF a \in DOMAIN m.vals THEN m.vals[a] ELSE s[a]
  PROVE  Chain(v, w \o <<m>>, P, t)
<1> DEFINE n == Len(w)
           u == w \o <<m>>
<1>1. PICK g \in [0..n -> P] :
        /\ \A a \in Attr : v[a] # Null => v[a] = g[0][a]
        /\ \A k \in 1..n : \A a \in Attr :
             g[k][a] = IF a \in DOMAIN w[k].vals THEN w[k].vals[a] ELSE g[k - 1][a]
        /\ g[n] = s
  BY DEF Chain
<1>2. /\ n \in Nat /\ Len(u) = n + 1
      /\ \A k \in 1..n : u[k] = w[k]
      /\ u[n + 1] = m
  <2>1. Append(w, m) = u
    BY AppendIsConcat
  <2> QED
    BY <2>1, AppendProperties, LenProperties
<1> DEFINE h == [k \in 0..(n + 1) |-> IF k = n + 1 THEN t ELSE g[k]]
<1>3. /\ h \in [0..Len(u) -> P]
      /\ h[n + 1] = t
      /\ \A k \in 0..n : h[k] = g[k]
  BY <1>2
<1> HIDE DEF h, n, u
<1>4. \A a \in Attr : v[a] # Null => v[a] = h[0][a]
  BY <1>1, <1>2, <1>3
<1>5. ASSUME NEW k \in 1..Len(u), NEW a \in Attr
      PROVE  h[k][a] = IF a \in DOMAIN u[k].vals THEN u[k].vals[a] ELSE h[k - 1][a]
  <2>1. CASE k = n + 1
    <3>1. h[k] = t /\ u[k] = m /\ h[k - 1] = s
      BY <1>1, <1>2, <1>3, <2>1
    <3> QED
      BY <3>1
  <2>2. CASE k # n + 1
    <3>1. k \in 1..n /\ k \in 0..n /\ k - 1 \in 0..n
      BY <1>2, <2>2
    <3>2. h[k] = g[k] /\ u[k] = w[k] /\ h[k - 1] = g[k - 1]
      BY <1>2, <1>3, <3>1
    <3> QED
      BY <1>1, <3>1, <3>2
  <2> QED
    BY <2>1, <2>2
<1>6. h[Len(u)] = t
  BY <1>2, <1>3
<1>7. Chain(v, u, P, t)
  BY <1>3, <1>4, <1>5, <1>6 DEF Chain
<1> QED
  BY <1>7 DEF u

\* A report that carries all elements makes the state it carries.
LEMMA ChainAppendFull ==
  ASSUME NEW v, NEW w \in Seq(Report), NEW P, NEW s, NEW t \in P, Chain(v, w, P, s),
         NEW m \in Report, m.vals = t, DOMAIN t = Attr
  PROVE  Chain(v, w \o <<m>>, P, t)
BY ChainAppend

\* The arrival of the first report leaves the rest of the chain.
LEMMA ChainTail ==
  ASSUME NEW v, NEW w \in Seq(Report), w # <<>>, NEW P, NEW s, Chain(v, w, P, s),
         NEW u, \A a \in Attr : u[a] = IF a \in DOMAIN Head(w).vals
                                       THEN Head(w).vals[a] ELSE v[a]
  PROVE  Chain(u, Tail(w), P, s)
<1> DEFINE n == Len(w)
           x == Tail(w)
<1>1. PICK g \in [0..n -> P] :
        /\ \A a \in Attr : v[a] # Null => v[a] = g[0][a]
        /\ \A k \in 1..n : \A a \in Attr :
             g[k][a] = IF a \in DOMAIN w[k].vals THEN w[k].vals[a] ELSE g[k - 1][a]
        /\ g[n] = s
  BY DEF Chain
<1>2. /\ n \in Nat \ {0} /\ Len(x) = n - 1
      /\ \A k \in 1..(n - 1) : x[k] = w[k + 1]
      /\ Head(w) = w[1]
  BY HeadTailProperties, EmptySeq, LenProperties
<1> DEFINE h == [k \in 0..(n - 1) |-> g[k + 1]]
<1>3. /\ h \in [0..Len(x) -> P]
      /\ \A k \in 0..(n - 1) : h[k] = g[k + 1]
  BY <1>2
<1> HIDE DEF h, n, x
<1>4. ASSUME NEW a \in Attr, u[a] # Null PROVE u[a] = h[0][a]
  <2>1. h[0] = g[1] /\ 1 \in 1..n
    BY <1>2, <1>3
  <2>2. g[1][a] = IF a \in DOMAIN w[1].vals THEN w[1].vals[a] ELSE g[0][a]
    <3>1. g[1][a] = IF a \in DOMAIN w[1].vals THEN w[1].vals[a] ELSE g[1 - 1][a]
      BY <1>1, <2>1
    <3> QED
      BY <3>1
  <2> QED
    BY <1>1, <1>2, <1>4, <2>1, <2>2
<1>5. ASSUME NEW k \in 1..Len(x), NEW a \in Attr
      PROVE  h[k][a] = IF a \in DOMAIN x[k].vals THEN x[k].vals[a] ELSE h[k - 1][a]
  <2>1. k + 1 \in 1..n /\ k \in 0..(n - 1) /\ k - 1 \in 0..(n - 1) /\ k \in 1..(n - 1)
    BY <1>2
  <2>2. h[k] = g[k + 1] /\ x[k] = w[k + 1] /\ h[k - 1] = g[k]
    <3>1. (k - 1) + 1 = k
      OBVIOUS
    <3> QED
      BY <1>2, <1>3, <2>1, <3>1
  <2>3. (k + 1) - 1 = k
    OBVIOUS
  <2>4. g[k + 1][a] = IF a \in DOMAIN w[k + 1].vals THEN w[k + 1].vals[a] ELSE g[(k + 1) - 1][a]
    BY <1>1, <2>1
  <2> QED
    BY <2>2, <2>3, <2>4
<1>6. h[Len(x)] = s
  <2>1. Len(x) \in 0..(n - 1) /\ Len(x) + 1 = n
    BY <1>2
  <2> QED
    BY <1>1, <1>3, <2>1
<1>7. Chain(u, x, P, s)
  BY <1>3, <1>4, <1>5, <1>6 DEF Chain
<1> QED
  BY <1>7 DEF x

\* A view without gaps is itself a state of the chain.
LEMMA ChainShown ==
  ASSUME NEW v \in [Attr -> Value \cup {Null}], NEW w \in Seq(Report), NEW s,
         NEW P \in SUBSET State, Chain(v, w, P, s), \A a \in Attr : v[a] # Null
  PROVE  v \in P
<1>1. PICK g \in [0..Len(w) -> P] : \A a \in Attr : v[a] # Null => v[a] = g[0][a]
  BY DEF Chain
<1>2. g[0] \in P /\ g[0] \in [Attr -> Value]
  BY <1>1, LenProperties DEF State
<1>3. v = g[0]
  BY <1>1, <1>2
<1> QED
  BY <1>2, <1>3

-----------------------------------------------------------------------------
(* Sending                                                                 *)

\* The two kinds of reports that the server makes of its values.
LEMMA ReportTypes ==
  ASSUME TypeOK
  PROVE  /\ \A S \in SUBSET Attr :
              [reason |-> "change", vals |-> [a \in S |-> value[a]]] \in Report
         /\ \A r \in Reason : [reason |-> r, vals |-> value] \in Report
<1>1. value \in [Attr -> Value] /\ Attr \in SUBSET Attr
  BY DEF TypeOK, State
<1>2. \A S \in SUBSET Attr : [a \in S |-> value[a]] \in [S -> Value]
  BY <1>1
<1>3. \A S \in SUBSET Attr : [S -> Value] \subseteq UNION {[T -> Value] : T \in SUBSET Attr}
  OBVIOUS
<1> QED
  BY <1>1, <1>2, <1>3 DEF Report, Reason

\* What is sent are reports.
LEMMA DueType ==
  ASSUME TypeOK, NEW integrity \in BOOLEAN
  PROVE  Due(integrity, rcb.pending) \in Seq(Report)
<1> DEFINE A == IF rcb.pending # {}
                THEN <<[reason |-> "change", vals |-> [a \in rcb.pending |-> value[a]]]>> ELSE <<>>
           B == IF Interrogate THEN <<[reason |-> "gi", vals |-> value]>> ELSE <<>>
           C == IF integrity THEN <<[reason |-> "integrity", vals |-> value]>> ELSE <<>>
<1>1. \A m \in Report : <<m>> \in Seq(Report)
  OBVIOUS
<1>2. A \in Seq(Report) /\ B \in Seq(Report) /\ C \in Seq(Report)
  <2>1. rcb.pending \in SUBSET Attr
    BY DEF TypeOK
  <2> QED
    BY <1>1, <2>1, ReportTypes, EmptySeq DEF Reason
<1>3. Due(integrity, rcb.pending) = (A \o B) \o C
  BY DEF Due
<1> HIDE DEF A, B, C
<1> QED
  BY <1>2, <1>3, ConcatProperties

\* Sending leads on to the current values, if anything is sent.
LEMMA ChainSend ==
  ASSUME TypeOK, NEW integrity \in BOOLEAN, NEW P, NEW s \in P, value \in P,
         Chain(view, wire, P, s),
         rcb.pending # {} => \A a \in Attr \ rcb.pending : value[a] = s[a]
  PROVE  \E t \in {s, value} :
           /\ Chain(view, wire \o Due(integrity, rcb.pending), P, t)
           /\ rcb.pending # {} => t = value
<1> DEFINE A == IF rcb.pending # {}
                THEN <<[reason |-> "change", vals |-> [a \in rcb.pending |-> value[a]]]>> ELSE <<>>
           B == IF Interrogate THEN <<[reason |-> "gi", vals |-> value]>> ELSE <<>>
           C == IF integrity THEN <<[reason |-> "integrity", vals |-> value]>> ELSE <<>>
<1>1. DOMAIN value = Attr /\ wire \in Seq(Report) /\ rcb.pending \in SUBSET Attr
  BY DEF TypeOK, State
<1>2. \A m \in Report : <<m>> \in Seq(Report)
  OBVIOUS
<1>3. A \in Seq(Report) /\ B \in Seq(Report) /\ C \in Seq(Report)
  BY <1>1, <1>2, ReportTypes, EmptySeq DEF Reason
<1>4. wire \o Due(integrity, rcb.pending) = ((wire \o A) \o B) \o C
  <2>1. Due(integrity, rcb.pending) = (A \o B) \o C
    BY DEF Due
  <2> HIDE DEF A, B, C
  <2>2. A \o B \in Seq(Report)
    BY <1>3, ConcatProperties
  <2>3. wire \o ((A \o B) \o C) = (wire \o (A \o B)) \o C
    BY <1>1, <1>3, <2>2, ConcatAssociative
  <2>4. wire \o (A \o B) = (wire \o A) \o B
    BY <1>1, <1>3, ConcatAssociative
  <2> QED
    BY <2>1, <2>3, <2>4
<1>5. wire \o A \in Seq(Report) /\ (wire \o A) \o B \in Seq(Report)
  <2> HIDE DEF A, B
  <2> QED
    BY <1>1, <1>3, ConcatProperties
<1>6. \E t \in {s, value} : Chain(view, wire \o A, P, t) /\ (rcb.pending # {} => t = value)
  <2>1. CASE rcb.pending # {}
    <3> DEFINE m == [reason |-> "change", vals |-> [a \in rcb.pending |-> value[a]]]
    <3>1. m \in Report /\ DOMAIN m.vals = rcb.pending
      BY <1>1, ReportTypes
    <3>2. \A a \in Attr : value[a] = IF a \in DOMAIN m.vals THEN m.vals[a] ELSE s[a]
      BY <2>1
    <3>3. A = <<m>>
      BY <2>1
    <3> HIDE DEF m, A
    <3>4. Chain(view, wire \o A, P, value)
      BY <1>1, <3>1, <3>2, <3>3, ChainAppend
    <3> QED
      BY <3>4
  <2>2. CASE rcb.pending = {}
    BY <1>1, <2>2, ConcatEmptySeq
  <2> QED
    BY <2>1, <2>2
<1>7. ASSUME NEW w \in Seq(Report), NEW r \in Reason, NEW cond \in BOOLEAN,
             \E t \in {s, value} : Chain(view, w, P, t) /\ (rcb.pending # {} => t = value)
      PROVE  \E t \in {s, value} :
               /\ Chain(view, w \o (IF cond THEN <<[reason |-> r, vals |-> value]>> ELSE <<>>), P, t)
               /\ rcb.pending # {} => t = value
  <2>1. CASE cond
    <3> DEFINE m == [reason |-> r, vals |-> value]
    <3>1. m \in Report /\ m.vals = value
      BY ReportTypes
    <3> HIDE DEF m
    <3>2. Chain(view, w \o <<m>>, P, value)
      BY <1>1, <1>7, <3>1, ChainAppendFull
    <3> QED
      BY <2>1, <3>2 DEF m
  <2>2. CASE ~cond
    BY <1>7, <2>2, ConcatEmptySeq
  <2> QED
    BY <2>1, <2>2
<1>8. \E t \in {s, value} : Chain(view, (wire \o A) \o B, P, t) /\ (rcb.pending # {} => t = value)
  <2>1. Interrogate \in BOOLEAN /\ "gi" \in Reason
    BY DEF TypeOK, Interrogate, Reason
  <2> HIDE DEF A
  <2> QED
    BY <1>5, <1>6, <1>7, <2>1
<1>9. \E t \in {s, value} : Chain(view, ((wire \o A) \o B) \o C, P, t)
                             /\ (rcb.pending # {} => t = value)
  <2>1. "integrity" \in Reason
    BY DEF Reason
  <2> HIDE DEF A, B
  <2> QED
    BY <1>5, <1>7, <1>8, <2>1
<1> QED
  BY <1>4, <1>9

-----------------------------------------------------------------------------
(* Types                                                                   *)

\* The initial state satisfies the inductive invariant.
LEMMA InitIInv == Init => IInv
<1> SUFFICES ASSUME Init PROVE IInv
  OBVIOUS
<1>1. [a \in Attr |-> 0] \in State /\ [a \in Attr |-> Null] \in [Attr -> Value \cup {Null}]
  BY ServerAssumption DEF State, Value
<1>2. past \in Seq(State) /\ past # <<>> /\ Len(past) = 1 /\ past[1] = value
  BY <1>1 DEF Init
<1>3. TypeOK
  <2>1. wire \in Seq(Report) /\ held \subseteq Configs /\ Cardinality(held) <= 1
    BY EmptySeq, FS_EmptySet DEF Init
  <2> QED
    BY <1>1, <1>2, <2>1, ServerAssumption DEF Init, TypeOK
<1>4. HeldEnabled /\ Sections /\ Following /\ Sampling
  BY <1>2 DEF Init, HeldEnabled, Sections, Following, Sampling, Latest
<1> QED
  BY <1>3, <1>4 DEF IInv

\* Every step preserves the types; the values stay in range because a section is
\* only opened below the bound.
LEMMA NextTypeOK == TypeOK /\ Sections /\ [Next]_vars => TypeOK'
<1> SUFFICES ASSUME TypeOK, Sections, [Next]_vars PROVE TypeOK'
  OBVIOUS
<1> DEFINE Rcb == [enabled: BOOLEAN, trgOps: SUBSET TrgOpt, intgPd: Nat,
                   gi: BOOLEAN, pending: SUBSET Attr]
<1> USE ServerAssumption DEF TypeOK
<1>d. Disabled(rcb) \in Rcb /\ ~Disabled(rcb).enabled /\ ~Disabled(rcb).gi
      /\ Disabled(rcb).pending = {}
  BY DEF Disabled
<1>e. {} \subseteq Configs /\ Cardinality({}) <= 1 /\ <<>> \in Seq(Report)
  BY FS_EmptySet, EmptySeq
<1>s. ASSUME NEW integrity \in BOOLEAN, SendReports(integrity)
      PROVE  /\ wire' \in Seq(Report) /\ rcb' \in Rcb /\ rcb'.enabled = rcb.enabled
             /\ ~rcb'.gi /\ rcb'.pending = {}
  <2>1. wire' \in Seq(Report)
    BY <1>s, DueType, ConcatProperties DEF SendReports
  <2> QED
    BY <1>s, <2>1 DEF SendReports
<1>1. ASSUME NEW a \in Attr, SetTriggerOptions(a) PROVE TypeOK'
  <2>1. AttrOps[a] \in SUBSET TrgOpt
    BY DEF TrgOpt
  <2> QED
    BY <1>1, <2>1 DEF SetTriggerOptions, clientVars
<1>2. CASE NewIedServer
  BY <1>2 DEF NewIedServer, clientVars
<1>3. CASE Start
  BY <1>3 DEF Start, clientVars
<1>4. CASE Destroy
  BY <1>4 DEF Destroy, clientVars
<1>5. CASE LockDataModel
  BY <1>5 DEF LockDataModel, clientVars
<1>6. ASSUME NEW a \in Attr, NEW changed \in BOOLEAN, UpdateAttributeValue(a, changed)
      PROVE  TypeOK'
  <2>1. Len(past) \in Value
    BY <1>6, LenProperties DEF UpdateAttributeValue, Sections, Value
  <2>2. value' \in State
    BY <1>6, <2>1 DEF UpdateAttributeValue, State
  <2>3. rcb' \in Rcb /\ (~rcb'.enabled => ~rcb'.gi /\ rcb'.pending = {})
    BY <1>6 DEF UpdateAttributeValue
  <2>4. touched' \subseteq Attr
    BY <1>6 DEF UpdateAttributeValue
  <2> QED
    BY <1>6, <2>2, <2>3, <2>4 DEF UpdateAttributeValue, clientVars
<1>7. ASSUME NEW integrity \in BOOLEAN, UnlockDataModel(integrity) PROVE TypeOK'
  <2>1. past' \in Seq(State) /\ past' # <<>>
    BY <1>7, AppendProperties DEF UnlockDataModel
  <2>2. wire' \in Seq(Report) /\ rcb' \in Rcb /\ (~rcb'.enabled => ~rcb'.gi /\ rcb'.pending = {})
    BY <1>7, <1>s DEF UnlockDataModel
  <2> QED
    BY <1>7, <2>1, <2>2 DEF UnlockDataModel, clientVars
<1>8. ASSUME NEW integrity \in BOOLEAN, EventThread(integrity) PROVE TypeOK'
  BY <1>8, <1>s DEF EventThread, serverVars, clientVars
<1>9. CASE Connect
  BY <1>9 DEF Connect, serverVars, clientVars
<1>10. CASE ConnectionLost
  BY <1>10, <1>d, <1>e DEF ConnectionLost, Disconnect, serverVars
<1>11. CASE Stop
  BY <1>11, <1>d, <1>e DEF Stop, Disconnect
<1>12. ASSUME NEW cfg \in Configs, WriteRCB(cfg)
       PROVE  /\ rcb' \in Rcb /\ rcb'.enabled
              /\ view' \in [Attr -> Value \cup {Null}] /\ got' \subseteq Reason
  <2>1. cfg \in ReportConfig
    OBVIOUS
  <2>2. Written(rcb, Mask(cfg), cfg) \in Rcb /\ Written(rcb, Mask(cfg), cfg).enabled
    BY <2>1 DEF Written, ReportConfig
  <2> QED
    BY <1>12, <2>2 DEF WriteRCB
<1>13. ASSUME NEW cfg \in Configs, SubscribeReport(cfg) PROVE TypeOK'
  <2>1. Cardinality({cfg}) = 1
    BY ONLY FS_Singleton
  <2>2. {cfg} \subseteq Configs /\ Cardinality({cfg}) <= 1
    BY <2>1
  <2> QED
    BY <1>12, <1>13, <2>2 DEF SubscribeReport, serverVars
<1>14. ASSUME NEW cfg \in Configs, SubscribeTimesOut(cfg) PROVE TypeOK'
  BY <1>12, <1>14 DEF SubscribeTimesOut, serverVars
<1>15. CASE UnsubscribeReport
  BY <1>15, <1>d, <1>e DEF UnsubscribeReport, serverVars
<1>16. CASE UnsubscribeUnheard
  BY <1>16, <1>e DEF UnsubscribeUnheard, serverVars
<1>17. CASE DeliverReport
  <2>1. Head(wire) \in Report /\ wire' \in Seq(Report)
    BY <1>17, HeadTailProperties DEF DeliverReport
  <2>2. PICK S \in SUBSET Attr : Head(wire).vals \in [S -> Value]
    <3>1. Head(wire).vals \in UNION {[T -> Value] : T \in SUBSET Attr}
      BY <2>1 DEF Report
    <3> QED
      BY ONLY <3>1
  <2>3. view' \in [Attr -> Value \cup {Null}] /\ got' \subseteq Reason
    BY <1>17, <2>1, <2>2 DEF DeliverReport, Report
  <2> QED
    BY <1>17, <2>1, <2>3 DEF DeliverReport, serverVars
<1>18. CASE Terminated \/ UNCHANGED vars
  BY <1>18 DEF Terminated, vars, serverVars, clientVars
<1> QED
  BY <1>1, <1>2, <1>3, <1>4, <1>5, <1>6, <1>7, <1>8, <1>9, <1>10, <1>11, <1>13, <1>14,
     <1>15, <1>16, <1>17, <1>18 DEF Next, IntegrityElapses

-----------------------------------------------------------------------------
(* Steps                                                                   *)

\* The state committed last is one of those committed.
LEMMA LatestCommitted == TypeOK => Latest \in Committed /\ Committed \in SUBSET State
<1> SUFFICES ASSUME TypeOK PROVE Latest \in Committed /\ Committed \in SUBSET State
  OBVIOUS
<1>1. /\ Len(past) \in Nat \ {0} /\ DOMAIN past = 1..Len(past)
      /\ \A i \in 1..Len(past) : past[i] \in State
  BY EmptySeq, LenProperties, ElementOfSeq DEF TypeOK
<1>2. Len(past) \in 1..Len(past)
  BY <1>1
<1> QED
  BY <1>1, <1>2 DEF Committed, Latest

\* UnlockDataModel commits the values.
LEMMA UnlockCommits ==
  ASSUME TypeOK, past' = Append(past, value)
  PROVE  Committed \subseteq Committed' /\ value \in Committed' /\ Latest' = value
<1>1. /\ Len(past) \in Nat /\ DOMAIN past = 1..Len(past)
      /\ Len(past') = Len(past) + 1 /\ DOMAIN past' = 1..(Len(past) + 1)
      /\ \A i \in 1..Len(past) : past'[i] = past[i]
      /\ past'[Len(past) + 1] = value
  BY AppendProperties, LenProperties DEF TypeOK
<1>2. \A i \in 1..Len(past) : i \in 1..(Len(past) + 1)
  BY <1>1
<1>3. Len(past) + 1 \in 1..(Len(past) + 1)
  BY <1>1
<1> QED
  BY <1>1, <1>2, <1>3 DEF Committed, Latest

\* No step leaves a subscription without connection or without its RCB enabled.
LEMMA NextHeldEnabled == TypeOK /\ HeldEnabled /\ [Next]_vars => HeldEnabled'
<1> SUFFICES ASSUME TypeOK, HeldEnabled, [Next]_vars PROVE HeldEnabled'
  OBVIOUS
<1> USE DEF HeldEnabled
<1>s. ASSUME NEW integrity \in BOOLEAN, SendReports(integrity) PROVE rcb'.enabled = rcb.enabled
  BY <1>s DEF SendReports, TypeOK
<1>1. ASSUME NEW a \in Attr, SetTriggerOptions(a) PROVE HeldEnabled'
  BY <1>1 DEF SetTriggerOptions, clientVars
<1>2. CASE NewIedServer \/ Start \/ Destroy \/ LockDataModel
  BY <1>2 DEF NewIedServer, Start, Destroy, LockDataModel, clientVars
<1>3. ASSUME NEW a \in Attr, NEW changed \in BOOLEAN, UpdateAttributeValue(a, changed)
      PROVE  HeldEnabled'
  <2>1. rcb'.enabled = rcb.enabled
    BY <1>3 DEF UpdateAttributeValue, TypeOK
  <2> QED
    BY <1>3, <2>1 DEF UpdateAttributeValue, clientVars
<1>4. ASSUME NEW integrity \in BOOLEAN, UnlockDataModel(integrity) PROVE HeldEnabled'
  BY <1>4, <1>s DEF UnlockDataModel, clientVars
<1>5. ASSUME NEW integrity \in BOOLEAN, EventThread(integrity) PROVE HeldEnabled'
  BY <1>5, <1>s DEF EventThread, serverVars, clientVars
<1>6. CASE Connect
  BY <1>6 DEF Connect, serverVars, clientVars
<1>7. CASE ConnectionLost \/ Stop
  BY <1>7 DEF ConnectionLost, Stop, Disconnect, serverVars
<1>8. ASSUME NEW cfg \in Configs, SubscribeReport(cfg) \/ SubscribeTimesOut(cfg)
      PROVE  HeldEnabled'
  BY <1>8 DEF SubscribeReport, SubscribeTimesOut, WriteRCB, Written, serverVars
<1>9. CASE UnsubscribeReport \/ UnsubscribeUnheard
  BY <1>9 DEF UnsubscribeReport, UnsubscribeUnheard, serverVars
<1>10. CASE DeliverReport
  BY <1>10 DEF DeliverReport, serverVars
<1>11. CASE Terminated \/ UNCHANGED vars
  BY <1>11 DEF Terminated, vars, serverVars, clientVars
<1> QED
  BY <1>1, <1>2, <1>3, <1>4, <1>5, <1>6, <1>7, <1>8, <1>9, <1>10, <1>11
     DEF Next, IntegrityElapses

\* Only the open section has values that are not committed, or pending.
LEMMA NextSections == TypeOK /\ Sections /\ [Next]_vars => Sections'
<1> SUFFICES ASSUME TypeOK, Sections, [Next]_vars PROVE Sections'
  OBVIOUS
<1> USE DEF Sections, Latest
<1>s. ASSUME NEW integrity \in BOOLEAN, SendReports(integrity) PROVE rcb'.pending = {}
  BY <1>s DEF SendReports, TypeOK
<1>d. Disabled(rcb).pending = {}
  BY DEF Disabled, TypeOK
<1>1. ASSUME NEW a \in Attr, SetTriggerOptions(a) PROVE Sections'
  BY <1>1 DEF SetTriggerOptions
<1>2. CASE NewIedServer \/ Start \/ Destroy \/ LockDataModel
  BY <1>2 DEF NewIedServer, Start, Destroy, LockDataModel
<1>3. ASSUME NEW a \in Attr, NEW changed \in BOOLEAN, UpdateAttributeValue(a, changed)
      PROVE  Sections'
  BY <1>3 DEF UpdateAttributeValue
<1>4. ASSUME NEW integrity \in BOOLEAN, UnlockDataModel(integrity) PROVE Sections'
  <2>1. Latest' = value /\ value' = value /\ locked' = FALSE
    BY <1>4, UnlockCommits DEF UnlockDataModel
  <2>2. rcb'.pending = {}
    BY <1>4, <1>s DEF UnlockDataModel
  <2> QED
    BY <2>1, <2>2
<1>5. ASSUME NEW integrity \in BOOLEAN, EventThread(integrity) PROVE Sections'
  BY <1>5, <1>s DEF EventThread, serverVars
<1>6. CASE Connect \/ DeliverReport
  BY <1>6 DEF Connect, DeliverReport, serverVars
<1>7. CASE ConnectionLost \/ Stop
  BY <1>7, <1>d DEF ConnectionLost, Stop, Disconnect, serverVars
<1>8. ASSUME NEW cfg \in Configs, SubscribeReport(cfg) \/ SubscribeTimesOut(cfg)
      PROVE  Sections'
  BY <1>8 DEF SubscribeReport, SubscribeTimesOut, WriteRCB, Written, serverVars
<1>9. CASE UnsubscribeReport \/ UnsubscribeUnheard
  BY <1>9, <1>d DEF UnsubscribeReport, UnsubscribeUnheard, serverVars
<1>11. CASE Terminated \/ UNCHANGED vars
  BY <1>11 DEF Terminated, vars, serverVars
<1> QED
  BY <1>1, <1>2, <1>3, <1>4, <1>5, <1>6, <1>7, <1>8, <1>9, <1>11
     DEF Next, IntegrityElapses

\* What the open section changes, it makes pending if all changes trigger, and
\* nothing becomes pending if none does.
LEMMA UpdatePends ==
  ASSUME TypeOK, NEW a \in Attr, NEW changed \in BOOLEAN, UpdateAttributeValue(a, changed),
         rcb.enabled
  PROVE  /\ rcb'.trgOps = rcb.trgOps
         /\ Triggers(a) => /\ rcb.pending \subseteq rcb'.pending
                           /\ \A b \in Attr \ rcb'.pending : value'[b] = value[b]
         /\ ~Triggers(a) => rcb'.pending = rcb.pending
<1> DEFINE event == {"dupd"} \cup {e \in {"dchg"} : changed}
<1>1. rcb' = IF event \cap trg[a] \cap rcb.trgOps # {}
             THEN [rcb EXCEPT !.pending = @ \cup {a}] ELSE rcb
  BY DEF UpdateAttributeValue
<1>2. rcb'.trgOps = rcb.trgOps /\ rcb'.pending = IF event \cap trg[a] \cap rcb.trgOps # {}
             THEN rcb.pending \cup {a} ELSE rcb.pending
  BY <1>1 DEF TypeOK
<1>3. ~Triggers(a) => event \cap trg[a] \cap rcb.trgOps = {}
  BY DEF Triggers
<1>4. Triggers(a) /\ changed => event \cap trg[a] \cap rcb.trgOps # {}
  BY DEF Triggers
<1>5. \A b \in Attr : b # a \/ ~changed => value'[b] = value[b]
  BY DEF UpdateAttributeValue, TypeOK, State
<1> HIDE DEF event
<1> QED
  BY <1>2, <1>3, <1>4, <1>5

\* The steps that matter to a subscription that is held before and after: all
\* others leave alone what it depends on.
LEMMA HeldStep ==
  ASSUME TypeOK, HeldEnabled, [Next]_vars, held' # {}
  PROVE  \/ held = {} /\ \E cfg \in Configs : SubscribeReport(cfg)
         \/ /\ held # {} /\ rcb.enabled
            /\ \A a \in Attr : Triggers(a)' <=> Triggers(a)
            /\ \/ UNCHANGED <<value, past, rcb, wire, view>>
               \/ \E a \in Attr, changed \in BOOLEAN : UpdateAttributeValue(a, changed)
               \/ \E integrity \in BOOLEAN : UnlockDataModel(integrity) \/ EventThread(integrity)
               \/ DeliverReport
<1> USE DEF HeldEnabled
<1>s. ASSUME NEW integrity \in BOOLEAN, SendReports(integrity) PROVE rcb'.trgOps = rcb.trgOps
  BY <1>s DEF SendReports, TypeOK
<1>t. ASSUME trg' = trg, rcb'.trgOps = rcb.trgOps PROVE \A a \in Attr : Triggers(a)' <=> Triggers(a)
  BY <1>t DEF Triggers
<1>1. ASSUME NEW a \in Attr, SetTriggerOptions(a) PROVE FALSE
  BY <1>1 DEF SetTriggerOptions, clientVars
<1>2. CASE NewIedServer \/ Start \/ Destroy \/ Connect
  BY <1>2 DEF NewIedServer, Start, Destroy, Connect, clientVars
<1>3. CASE LockDataModel
  BY <1>3, <1>t DEF LockDataModel, clientVars
<1>4. ASSUME NEW a \in Attr, NEW changed \in BOOLEAN, UpdateAttributeValue(a, changed)
      PROVE  held # {} /\ trg' = trg /\ rcb'.trgOps = rcb.trgOps
  BY <1>4 DEF UpdateAttributeValue, clientVars, TypeOK
<1>5. ASSUME NEW integrity \in BOOLEAN, UnlockDataModel(integrity) \/ EventThread(integrity)
      PROVE  held # {} /\ trg' = trg /\ rcb'.trgOps = rcb.trgOps
  BY <1>5, <1>s DEF UnlockDataModel, EventThread, serverVars, clientVars
<1>7. CASE ConnectionLost \/ Stop
  BY <1>7 DEF ConnectionLost, Stop, Disconnect
<1>8. ASSUME NEW cfg \in Configs, SubscribeReport(cfg) \/ SubscribeTimesOut(cfg)
      PROVE  held = {} /\ SubscribeReport(cfg)
  BY <1>8 DEF SubscribeReport, SubscribeTimesOut, WriteRCB
<1>9. CASE UnsubscribeReport \/ UnsubscribeUnheard
  BY <1>9 DEF UnsubscribeReport, UnsubscribeUnheard
<1>10. CASE DeliverReport
  BY <1>10, <1>t DEF DeliverReport, serverVars
<1>11. CASE Terminated \/ UNCHANGED vars
  BY <1>11, <1>t DEF Terminated, vars, serverVars, clientVars
<1> QED
  BY <1>1, <1>2, <1>3, <1>4, <1>5, <1>7, <1>8, <1>9, <1>10, <1>11, <1>t
     DEF Next, IntegrityElapses

\* A new subscription shows nothing, and nothing is in flight.
LEMMA SubscribeChain ==
  ASSUME TypeOK, Sections, NEW cfg \in Configs, SubscribeReport(cfg)
  PROVE  /\ Chain(view', wire', Committed', Latest')
         /\ Latest' \in Committed'
         /\ rcb'.pending = {} /\ value' = Latest'
<1>1. /\ view' = [a \in Attr |-> Null] /\ wire' = <<>> /\ past' = past /\ value' = value
      /\ ~locked /\ rcb'.pending = {}
  BY DEF SubscribeReport, WriteRCB, Written, serverVars
<1>2. Committed' = Committed /\ Latest' = Latest /\ Latest \in Committed
  BY <1>1, LatestCommitted DEF Committed, Latest
<1>3. Chain(view', <<>>, Committed, Latest)
  BY <1>1, <1>2, ChainNil
<1> QED
  BY <1>1, <1>2, <1>3 DEF Sections

\* A report that arrives leaves the rest of the chain, and changes nothing else.
LEMMA DeliverChain ==
  ASSUME TypeOK, DeliverReport, held # {}, NEW P, NEW s, Chain(view, wire, P, s)
  PROVE  Chain(view', wire', P, s)
<1>1. /\ wire \in Seq(Report) /\ wire # <<>> /\ wire' = Tail(wire)
      /\ \A a \in Attr : view'[a] = IF a \in DOMAIN Head(wire).vals
                                    THEN Head(wire).vals[a] ELSE view[a]
  BY DEF DeliverReport, TypeOK
<1> QED
  BY <1>1, ChainTail

\* Every step preserves the chain of a subscription that all changes trigger.
LEMMA NextFollowing == IInv /\ [Next]_vars => Following'
<1> SUFFICES ASSUME IInv, [Next]_vars, held' # {}, \A a \in Attr : Triggers(a)'
             PROVE  /\ Chain(view', wire', Committed', Latest')
                    /\ \A a \in Attr \ rcb'.pending : value'[a] = Latest'[a]
  BY DEF Following
<1> USE DEF IInv
<1>1. ASSUME NEW cfg \in Configs, SubscribeReport(cfg)
      PROVE  /\ Chain(view', wire', Committed', Latest')
             /\ \A a \in Attr \ rcb'.pending : value'[a] = Latest'[a]
  BY <1>1, SubscribeChain
<1>2. SUFFICES ASSUME held # {}, rcb.enabled, \A a \in Attr : Triggers(a),
                      \/ UNCHANGED <<value, past, rcb, wire, view>>
                      \/ \E a \in Attr, changed \in BOOLEAN : UpdateAttributeValue(a, changed)
                      \/ \E integrity \in BOOLEAN :
                           UnlockDataModel(integrity) \/ EventThread(integrity)
                      \/ DeliverReport
               PROVE  /\ Chain(view', wire', Committed', Latest')
                      /\ \A a \in Attr \ rcb'.pending : value'[a] = Latest'[a]
  BY <1>1, HeldStep
<1>3. /\ Chain(view, wire, Committed, Latest)
      /\ \A a \in Attr \ rcb.pending : value[a] = Latest[a]
  BY <1>2 DEF Following
<1>4. past' = past => Committed' = Committed /\ Latest' = Latest
  BY DEF Committed, Latest
<1>5. CASE UNCHANGED <<value, past, rcb, wire, view>>
  BY <1>3, <1>4, <1>5
<1>6. ASSUME NEW a \in Attr, NEW changed \in BOOLEAN, UpdateAttributeValue(a, changed)
      PROVE  /\ Chain(view', wire', Committed', Latest')
             /\ \A b \in Attr \ rcb'.pending : value'[b] = Latest'[b]
  <2>1. past' = past /\ wire' = wire /\ view' = view
    BY <1>6 DEF UpdateAttributeValue, clientVars
  <2>2. /\ rcb.pending \subseteq rcb'.pending
        /\ \A b \in Attr \ rcb'.pending : value'[b] = value[b]
    BY <1>2, <1>6, UpdatePends
  <2> QED
    BY <1>3, <1>4, <2>1, <2>2
<1>7. ASSUME NEW P, Latest \in P, value \in P, Chain(view, wire, P, Latest), NEW integrity \in BOOLEAN
      PROVE  Chain(view, wire \o Due(integrity, rcb.pending), P, value)
  <2>1. PICK t \in {Latest, value} :
          /\ Chain(view, wire \o Due(integrity, rcb.pending), P, t)
          /\ rcb.pending # {} => t = value
    BY <1>3, <1>7, ChainSend
  <2>2. rcb.pending = {} => Latest = value
    <3>1. Latest \in State /\ value \in State
      BY LatestCommitted DEF TypeOK
    <3> QED
      BY <1>3, <3>1 DEF State
  <2> QED
    BY <2>1, <2>2
<1>8. ASSUME NEW integrity \in BOOLEAN, UnlockDataModel(integrity)
      PROVE  /\ Chain(view', wire', Committed', Latest')
             /\ \A a \in Attr \ rcb'.pending : value'[a] = Latest'[a]
  <2>1. view' = view /\ value' = value /\ past' = Append(past, value)
    BY <1>8 DEF UnlockDataModel, clientVars
  <2>2. Committed \subseteq Committed' /\ value \in Committed' /\ Latest' = value
        /\ Latest \in Committed'
    BY <2>1, UnlockCommits, LatestCommitted
  <2>3. Chain(view, wire, Committed', Latest)
    BY <1>3, <2>2, ChainMono
  <2>4. CASE rcb.pending # {}
    <3>1. wire' = wire \o Due(integrity, rcb.pending)
      BY <1>8, <2>4 DEF UnlockDataModel, SendReports
    <3> QED
      BY <1>7, <2>1, <2>2, <2>3, <3>1
  <2>5. CASE rcb.pending = {}
    <3>1. wire' = wire
      BY <1>8, <2>5 DEF UnlockDataModel
    <3>2. Latest = value
      <4>1. Latest \in State /\ value \in State
        BY LatestCommitted DEF TypeOK
      <4> QED
        BY <1>3, <2>5, <4>1 DEF State
    <3> QED
      BY <2>1, <2>2, <2>3, <3>1, <3>2
  <2> QED
    BY <2>4, <2>5
<1>9. ASSUME NEW integrity \in BOOLEAN, EventThread(integrity)
      PROVE  /\ Chain(view', wire', Committed', Latest')
             /\ \A a \in Attr \ rcb'.pending : value'[a] = Latest'[a]
  <2>1. /\ view' = view /\ value' = value /\ past' = past
        /\ wire' = wire \o Due(integrity, rcb.pending)
        /\ value = Latest
    BY <1>9 DEF EventThread, SendReports, serverVars, clientVars, Sections
  <2> QED
    BY <1>3, <1>4, <1>7, <2>1, LatestCommitted
<1>10. CASE DeliverReport
  <2>1. rcb' = rcb /\ value' = value /\ past' = past
    BY <1>10 DEF DeliverReport, serverVars
  <2>2. Chain(view', wire', Committed, Latest)
    BY <1>2, <1>3, <1>10, DeliverChain
  <2> QED
    BY <1>3, <1>4, <2>1, <2>2
<1> QED
  BY <1>2, <1>5, <1>6, <1>8, <1>9, <1>10

\* Every step preserves the chain of a subscription that no change triggers.
LEMMA NextSampling == IInv /\ [Next]_vars => Sampling'
<1> DEFINE Sampled == rcb'.pending = {} /\ \E s \in Committed' : Chain(view', wire', Committed', s)
<1> SUFFICES ASSUME IInv, [Next]_vars, held' # {}, \A a \in Attr : ~Triggers(a)'
             PROVE  Sampled
  BY DEF Sampling
<1> USE DEF IInv
<1>1. ASSUME NEW cfg \in Configs, SubscribeReport(cfg) PROVE Sampled
  BY <1>1, SubscribeChain
<1>2. SUFFICES ASSUME held # {}, rcb.enabled, \A a \in Attr : ~Triggers(a),
                      \/ UNCHANGED <<value, past, rcb, wire, view>>
                      \/ \E a \in Attr, changed \in BOOLEAN : UpdateAttributeValue(a, changed)
                      \/ \E integrity \in BOOLEAN :
                           UnlockDataModel(integrity) \/ EventThread(integrity)
                      \/ DeliverReport
               PROVE  Sampled
  <2> HIDE DEF Sampled
  <2> QED
    BY <1>1, HeldStep
<1>3. PICK s \in Committed : Chain(view, wire, Committed, s)
  BY <1>2 DEF Sampling
<1>4. rcb.pending = {}
  BY <1>2 DEF Sampling
<1>5. past' = past => Committed' = Committed
  BY DEF Committed
<1>6. CASE UNCHANGED <<value, past, rcb, wire, view>>
  BY <1>3, <1>4, <1>5, <1>6
<1>7. ASSUME NEW a \in Attr, NEW changed \in BOOLEAN, UpdateAttributeValue(a, changed)
      PROVE  Sampled
  <2>1. past' = past /\ wire' = wire /\ view' = view
    BY <1>7 DEF UpdateAttributeValue, clientVars
  <2>2. rcb'.pending = rcb.pending
    BY <1>2, <1>7, UpdatePends
  <2> QED
    BY <1>3, <1>4, <1>5, <2>1, <2>2
<1>8. ASSUME NEW integrity \in BOOLEAN, UnlockDataModel(integrity) PROVE Sampled
  <2>1. view' = view /\ rcb' = rcb /\ wire' = wire /\ past' = Append(past, value)
    BY <1>4, <1>8 DEF UnlockDataModel, clientVars
  <2>2. Committed \subseteq Committed'
    BY <2>1, UnlockCommits
  <2>3. Chain(view, wire, Committed', s)
    BY <1>3, <2>2, ChainMono
  <2> QED
    BY <1>4, <2>1, <2>2, <2>3
<1>9. ASSUME NEW integrity \in BOOLEAN, EventThread(integrity) PROVE Sampled
  <2>1. /\ view' = view /\ past' = past /\ rcb'.pending = {}
        /\ wire' = wire \o Due(integrity, rcb.pending)
        /\ value = Latest
    BY <1>9 DEF EventThread, SendReports, serverVars, clientVars, Sections, TypeOK
  <2>2. value \in Committed
    BY <2>1, LatestCommitted
  <2>3. PICK t \in {s, value} : Chain(view, wire \o Due(integrity, rcb.pending), Committed, t)
    BY <1>3, <1>4, <2>2, ChainSend
  <2> QED
    BY <1>5, <2>1, <2>2, <2>3
<1>10. CASE DeliverReport
  <2>1. rcb' = rcb /\ past' = past
    BY <1>10 DEF DeliverReport, serverVars
  <2>2. Chain(view', wire', Committed, s)
    BY <1>2, <1>3, <1>10, DeliverChain
  <2> QED
    BY <1>4, <1>5, <2>1, <2>2
<1> HIDE DEF Sampled
<1> QED
  BY <1>2, <1>6, <1>7, <1>8, <1>9, <1>10

-----------------------------------------------------------------------------
(* Theorems                                                                *)

\* The inductive invariant: types, the section discipline of LockDataModel and
\* UnlockDataModel, and the chains of committed states on the wire.
THEOREM Invariant == Spec => []IInv
<1>1. IInv /\ [Next]_vars => IInv'
  BY NextTypeOK, NextHeldEnabled, NextSections, NextFollowing, NextSampling DEF IInv
<1> QED
  BY InitIInv, <1>1, PTL DEF Spec

\* The values of the server, its report control block, the reports on the wire and
\* the ClientReport keep their types.
THEOREM TypeCorrect == Spec => []TypeOK
<1>1. IInv => TypeOK
  BY DEF IInv
<1> QED
  BY Invariant, <1>1, PTL

\* What a handler sees once all elements have arrived is a state that the server's
\* application committed with UnlockDataModel, whatever mixture of reports on
\* changes, interrogations and integrity reports it was put together from.
THEOREM ShowsCommitted == Spec => []ShownIsCommitted
<1>1. IInv => ShownIsCommitted
  <2> SUFFICES ASSUME IInv, held # {}, \A a \in Attr : view[a] # Null,
                      \/ \A a \in Attr : Triggers(a)
                      \/ \A a \in Attr : ~Triggers(a)
               PROVE  \E i \in DOMAIN past : view = past[i]
    BY DEF ShownIsCommitted
  <2>1. \E s : Chain(view, wire, Committed, s)
    BY DEF IInv, Following, Sampling
  <2>2. Committed \in SUBSET State
    BY LatestCommitted DEF IInv
  <2>3. view \in Committed
    BY <2>1, <2>2, ChainShown DEF IInv, TypeOK
  <2> QED
    BY <2>3 DEF Committed
<1> QED
  BY Invariant, <1>1, PTL

=============================================================================
