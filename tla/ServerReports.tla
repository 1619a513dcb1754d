---------------------------- MODULE ServerReports ----------------------------
(***************************************************************************)
(* A server built with model.go and iec61850_server.go, and what a client  *)
(* of iec61850_report.go sees of its data through one unbuffered report    *)
(* control block.  The application of the server updates attributes in     *)
(* sections between LockDataModel and UnlockDataModel; the event thread of *)
(* the library sends general interrogation and integrity reports; the      *)
(* client subscribes with a ReportConfig, unsubscribes, and loses the      *)
(* connection.  The steps inside SubscribeReport and UnsubscribeReport are *)
(* the subject of ReportSubscription; here each is one action.             *)
(***************************************************************************)
EXTENDS Integers, Sequences, FiniteSets

CONSTANTS
  NAttr,       \* attributes of the model; the data set lists them in order
  AttrOps,     \* trigger options the application gives an attribute, if it does
  RcbTrgOps,   \* trigger options and integrity period that
  RcbIntgPd,   \* CreateReportControlBlock was called with
  Configs,     \* the ReportConfigs of the client
  MaxSection,  \* bound on the sections of updates
  MaxWire      \* bound on the reports in flight

\* TRG_OPT_DATA_CHANGED, TRG_OPT_DATA_UPDATE, TRG_OPT_INTEGRITY and TRG_OPT_GI.
\* Nothing here sets TRG_OPT_QUALITY_CHANGED off.
TrgOpt == {"dchg", "dupd", "integrity", "gi"}

Attr == 1..NAttr

\* BufTm is 0; the zero values of TrgOps and IntgPd leave the server's settings.
ReportConfig == [TrgOps: SUBSET TrgOpt, IntgPd: Nat, GI: BOOLEAN]

ASSUME ServerAssumption ==
  /\ NAttr \in Nat \ {0}
  /\ AttrOps \in [Attr -> SUBSET {"dchg", "dupd"}]
  /\ RcbTrgOps \subseteq TrgOpt
  /\ RcbIntgPd \in Nat
  /\ Configs \subseteq ReportConfig
  /\ MaxSection \in Nat
  /\ MaxWire \in Nat

VARIABLES
  phase,    \* life of the server
  trg,      \* triggerOptions of the attributes
  locked,   \* the data model is locked: a section is open
  touched,  \* attributes updated in the open section
  value,    \* values of the attributes: the number of the section that wrote them
  past,     \* history: the values after each section, oldest first
  rcb,      \* the report control block at the server
  conn,     \* the client is connected
  wire,     \* reports on their way to the client
  held,     \* the ReportConfig of the client's subscription, if it holds one
  view,     \* the ClientReport of the subscription
  got       \* reasons of the reports that the handler was given

serverVars == <<phase, trg, locked, touched, value, past>>
clientVars == <<held, view, got>>
vars == <<serverVars, rcb, conn, wire, clientVars>>

-----------------------------------------------------------------------------

Value == 0..MaxSection
Null == -1   \* an element of a ClientReport that no report has included yet

State == [Attr -> Value]
Reason == {"change", "gi", "integrity"}

\* A report has values for some of the data set.
Report == [reason: Reason, vals: UNION {[S -> Value] : S \in SUBSET Attr}]

HasServer == phase \in {"created", "running", "stopped"}

Interrogate == rcb.gi /\ "gi" \in rcb.trgOps

\* processEventsForReport: what is pending goes out before a full report does.
Due(integrity, pending) ==
     (IF pending # {} THEN <<[reason |-> "change", vals |-> [a \in pending |-> value[a]]]>>
                      ELSE <<>>)
  \o (IF Interrogate THEN <<[reason |-> "gi", vals |-> value]>> ELSE <<>>)
  \o (IF integrity THEN <<[reason |-> "integrity", vals |-> value]>> ELSE <<>>)

SendReports(integrity) ==
  /\ wire' = wire \o Due(integrity, rcb.pending)
  /\ Len(wire') <= MaxWire
  /\ rcb' = [rcb EXCEPT !.gi = FALSE, !.pending = {}]

-----------------------------------------------------------------------------
(* The application of the server                                           *)

\* "Must be called BEFORE starting the server."
SetTriggerOptions(a) ==
  /\ phase \in {"setup", "created"}
  /\ trg' = [trg EXCEPT ![a] = AttrOps[a]]
  /\ UNCHANGED <<phase, locked, touched, value, past, rcb, conn, wire, clientVars>>

NewIedServer ==
  /\ phase = "setup"
  /\ phase' = "created"
  /\ UNCHANGED <<trg, locked, touched, value, past, rcb, conn, wire, clientVars>>

Start ==
  /\ phase \in {"created", "stopped"}
  /\ phase' = "running"
  /\ UNCHANGED <<trg, locked, touched, value, past, rcb, conn, wire, clientVars>>

LockDataModel ==
  /\ HasServer
  /\ ~locked
  /\ Len(past) <= MaxSection
  /\ locked' = TRUE
  /\ touched' = {}
  /\ UNCHANGED <<phase, trg, value, past, rcb, conn, wire, clientVars>>

\* The four Update...AttributeValue calls, in a section, once per attribute: with
\* a new value or with the old one.  An event that the attribute and the RCB both
\* have among their options makes the attribute pending.
UpdateAttributeValue(a, changed) ==
  LET event == {"dupd"} \cup {e \in {"dchg"} : changed}
  IN  /\ HasServer
      /\ locked
      /\ a \notin touched
      /\ touched' = touched \cup {a}
      /\ value' = IF changed THEN [value EXCEPT ![a] = Len(past)] ELSE value
      /\ rcb' = IF rcb.enabled /\ event \cap trg[a] \cap rcb.trgOps # {}
                THEN [rcb EXCEPT !.pending = @ \cup {a}] ELSE rcb
      /\ UNCHANGED <<phase, trg, locked, past, conn, wire, clientVars>>

\* The values of the pending attributes are copied and sent before others can
\* take the lock; the integrity period may have elapsed meanwhile.
UnlockDataModel(integrity) ==
  /\ HasServer
  /\ locked
  /\ locked' = FALSE
  /\ past' = Append(past, value)
  /\ IF rcb.pending # {}
     THEN SendReports(integrity)
     ELSE ~integrity /\ UNCHANGED <<rcb, wire>>
  /\ UNCHANGED <<phase, trg, touched, value, conn, clientVars>>

-----------------------------------------------------------------------------
(* The report control block at the server                                  *)

IntegrityActive == rcb.enabled /\ "integrity" \in rcb.trgOps /\ rcb.intgPd # 0

\* Mutant: reports are sent while the data model is locked.
EventThreadIgnoresLock(integrity) ==
  /\ phase = "running"
  /\ rcb.enabled
  /\ Interrogate \/ integrity
  /\ SendReports(integrity)
  /\ UNCHANGED <<serverVars, conn, clientVars>>

\* The event thread finds an interrogation requested or the period elapsed.
EventThread(integrity) ==
  /\ phase = "running"
  /\ ~locked
  /\ rcb.enabled
  /\ Interrogate \/ integrity
  /\ SendReports(integrity)
  /\ UNCHANGED <<serverVars, conn, clientVars>>

\* Mutant: what was pending stays so.
DisabledKeepsPending(r) == [r EXCEPT !.enabled = FALSE, !.gi = FALSE]

\* RptEna is written FALSE, or the connection that has the RCB is gone.
Disabled(r) == [r EXCEPT !.enabled = FALSE, !.gi = FALSE, !.pending = {}]

-----------------------------------------------------------------------------
(* The client                                                              *)

\* Mutants: an element is not written.
MaskWithoutGI(cfg) ==
  {"RPT_ENA"} \cup (IF cfg.TrgOps # {} THEN {"TRG_OPS"} ELSE {})
              \cup (IF cfg.IntgPd # 0 THEN {"INTG_PD"} ELSE {})

MaskWithoutTrgOps(cfg) ==
  {"RPT_ENA"} \cup (IF cfg.IntgPd # 0 THEN {"INTG_PD"} ELSE {})
              \cup (IF cfg.GI THEN {"GI"} ELSE {})

\* The elements that SubscribeReport writes.
Mask(cfg) ==
  {"RPT_ENA"} \cup (IF cfg.TrgOps # {} THEN {"TRG_OPS"} ELSE {})
              \cup (IF cfg.IntgPd # 0 THEN {"INTG_PD"} ELSE {})
              \cup (IF cfg.GI THEN {"GI"} ELSE {})

\* The server takes the elements in this order: settings, RptEna, then GI, which
\* it ignores unless TRG_OPT_GI is set.  The settings stay with the RCB.
Written(r, mask, cfg) ==
  LET trgOps == IF "TRG_OPS" \in mask THEN cfg.TrgOps ELSE r.trgOps
      intgPd == IF "INTG_PD" \in mask THEN cfg.IntgPd ELSE r.intgPd
  IN  [enabled |-> TRUE, trgOps |-> trgOps, intgPd |-> intgPd,
       gi |-> "GI" \in mask /\ "gi" \in trgOps, pending |-> {}]

Connect ==
  /\ phase = "running"
  /\ ~conn
  /\ conn' = TRUE
  /\ UNCHANGED <<serverVars, rcb, wire, clientVars>>

\* Requests wait for the data model, and the response to getRCBValues comes after
\* the reports sent before it.  If the RCB is enabled the server refuses and the
\* call changes nothing.
WriteRCB(cfg) ==
  /\ conn
  /\ ~locked
  /\ wire = <<>>
  /\ held = {}
  /\ ~rcb.enabled
  /\ rcb' = Written(rcb, Mask(cfg), cfg)
  /\ view' = [a \in Attr |-> Null]
  /\ got' = {}

SubscribeReport(cfg) ==
  /\ WriteRCB(cfg)
  /\ held' = {cfg}
  /\ UNCHANGED <<serverVars, conn, wire>>

\* The response to setRCBValues does not come in time: the call is rolled back,
\* the RCB stays enabled.
SubscribeTimesOut(cfg) ==
  /\ WriteRCB(cfg)
  /\ UNCHANGED <<serverVars, conn, wire, held>>

\* Reports that the server sent earlier arrive before the response.
UnsubscribeReport ==
  /\ conn
  /\ ~locked
  /\ wire = <<>>
  /\ held # {}
  /\ rcb' = Disabled(rcb)
  /\ held' = {}
  /\ UNCHANGED <<serverVars, conn, wire, view, got>>

\* The requests fail, which UnsubscribeReport ignores: the RCB stays enabled.
UnsubscribeUnheard ==
  /\ conn
  /\ held # {}
  /\ held' = {}
  /\ UNCHANGED <<serverVars, rcb, conn, wire, view, got>>

\* The ClientReport keeps what a report does not include.
DeliverReport ==
  /\ wire # <<>>
  /\ wire' = Tail(wire)
  /\ IF held # {}
     THEN LET m == Head(wire)
          IN  /\ view' = [a \in Attr |-> IF a \in DOMAIN m.vals THEN m.vals[a] ELSE view[a]]
              /\ got' = got \cup {m.reason}
     ELSE UNCHANGED <<view, got>>
  /\ UNCHANGED <<serverVars, rcb, conn, held>>

Disconnect ==
  /\ conn' = FALSE
  /\ wire' = <<>>
  /\ held' = {}
  /\ rcb' = Disabled(rcb)
  /\ UNCHANGED <<view, got>>

\* The connection breaks, or the client calls Close.
ConnectionLost ==
  /\ conn
  /\ Disconnect
  /\ UNCHANGED serverVars

\* Stop closes the connections of the server.
Stop ==
  /\ phase = "running"
  /\ phase' = "stopped"
  /\ Disconnect
  /\ UNCHANGED <<trg, locked, touched, value, past>>

\* The application has stopped updating by now.
Destroy ==
  /\ phase \in {"created", "stopped"}
  /\ ~locked
  /\ phase' = "destroyed"
  /\ UNCHANGED <<trg, locked, touched, value, past, rcb, conn, wire, clientVars>>

Terminated == phase = "destroyed" /\ UNCHANGED vars

-----------------------------------------------------------------------------

\* A model made with CreateDataObjectCDC_SAV, whose attributes trigger nothing, a
\* data set and a report control block.
Init ==
  /\ phase = "setup"
  /\ trg = [a \in Attr |-> {}]
  /\ locked = FALSE /\ touched = {}
  /\ value = [a \in Attr |-> 0]
  /\ past = <<value>>
  /\ rcb = [enabled |-> FALSE, trgOps |-> RcbTrgOps, intgPd |-> RcbIntgPd,
            gi |-> FALSE, pending |-> {}]
  /\ conn = FALSE
  /\ wire = <<>>
  /\ held = {}
  /\ view = [a \in Attr |-> Null]
  /\ got = {}

IntegrityElapses == IntegrityActive /\ (EventThread(TRUE) \/ UnlockDataModel(TRUE))

Next ==
  \/ \E a \in Attr : SetTriggerOptions(a)
  \/ NewIedServer \/ Start \/ Stop \/ Destroy
  \/ LockDataModel
  \/ \E a \in Attr, changed \in BOOLEAN : UpdateAttributeValue(a, changed)
  \/ UnlockDataModel(FALSE)
  \/ EventThread(FALSE)
  \/ IntegrityElapses
  \/ Connect \/ ConnectionLost
  \/ \E cfg \in Configs : SubscribeReport(cfg) \/ SubscribeTimesOut(cfg)
  \/ UnsubscribeReport \/ UnsubscribeUnheard
  \/ DeliverReport
  \/ Terminated

Spec == Init /\ [][Next]_vars

\* The threads of the library run, time passes, and the connection delivers.
\* Nothing is assumed of the two applications.
Fairness ==
  /\ WF_vars(EventThread(FALSE))
  /\ WF_vars(IntegrityActive /\ EventThread(TRUE))
  /\ WF_vars(DeliverReport)

FairSpec == Spec /\ Fairness

-----------------------------------------------------------------------------
(* Properties                                                              *)

TypeOK ==
  /\ phase \in {"setup", "created", "running", "stopped", "destroyed"}
  /\ trg \in [Attr -> SUBSET TrgOpt]
  /\ locked \in BOOLEAN
  /\ touched \subseteq Attr
  /\ value \in State
  /\ past \in Seq(State) /\ past # <<>>
  /\ rcb \in [enabled: BOOLEAN, trgOps: SUBSET TrgOpt, intgPd: Nat,
              gi: BOOLEAN, pending: SUBSET Attr]
  /\ ~rcb.enabled => ~rcb.gi /\ rcb.pending = {}
  /\ conn \in BOOLEAN
  /\ wire \in Seq(Report)
  /\ held \subseteq Configs /\ Cardinality(held) <= 1
  /\ view \in [Attr -> Value \cup {Null}]
  /\ got \subseteq Reason

\* A change of the attribute makes the RCB send a report.
Triggers(a) == {"dchg", "dupd"} \cap trg[a] \cap rcb.trgOps # {}

\* Once a subscription has received all elements, what its handler sees is a state
\* that the server's application committed with UnlockDataModel, never half of a
\* section, although reports on changes, interrogations and the integrity period
\* are merged in one ClientReport.  Either all changes trigger, or none.
ShownIsCommitted ==
  held # {} /\ (\A a \in Attr : view[a] # Null)
    /\ (\/ \A a \in Attr : Triggers(a)
        \/ \A a \in Attr : ~Triggers(a))
  => \E i \in DOMAIN past : view = past[i]

\* "GI triggers a General Interrogation immediately after enabling reporting", says
\* ReportConfig: the handler of a subscription with GI is given its report, unless
\* the subscription ends or the data model is locked.
InterrogationDelivered ==
  (\E cfg \in held : cfg.GI) ~> ("gi" \in got \/ held = {} \/ locked)

\* The settings that apply to a subscription: those it asks for, and those of the RCB
\* where it has zero values.
TrgOpsOf(cfg) == IF cfg.TrgOps # {} THEN cfg.TrgOps ELSE rcb.trgOps
IntgPdOf(cfg) == IF cfg.IntgPd # 0 THEN cfg.IntgPd ELSE rcb.intgPd

\* They give reports that are enough to follow the data.
Follows(cfg) ==
  \/ cfg.GI /\ "gi" \in TrgOpsOf(cfg)
            /\ \A a \in Attr : {"dchg", "dupd"} \cap trg[a] \cap TrgOpsOf(cfg) # {}
  \/ "integrity" \in TrgOpsOf(cfg) /\ IntgPdOf(cfg) # 0

\* A subscription with settings that are enough shows, sooner or later, the state that
\* the server's application has committed last, whatever changed while the client was
\* subscribing, and whether it asked for them itself or ("Zero values leave the
\* server's current RCB settings unchanged") an earlier subscription has left them.
HeldCatchesUp ==
  \A cfg \in Configs :
    (cfg \in held /\ Follows(cfg)) ~> (view = past[Len(past)] \/ cfg \notin held \/ locked)

=============================================================================
