------------------------- MODULE MCReportSubscription -------------------------
(***************************************************************************)
(* Small instances of ReportSubscription for TLC.  "ev" and "ev01" are the *)
(* plain and the indexed name of an RCB, as SubscribeReportWithCandidates  *)
(* tries them; a client's server may know one of them, or both.            *)
(***************************************************************************)
EXTENDS ReportSubscription, TLC

MCBoth == {"ev", "ev01"}
MCOnly == {"ev"}

MCAlt01 == [b \in {"ev"} |-> "ev01"]
MCNoAlt01 == [b \in {} |-> "ev"]
MCCandidateLists == {<<"ev">>}

\* Every RCB has a report id of its own.
MCRptId == {"id_ev", "id_ev01"}
MCDefaultRptId ==
  [r \in Rcb |-> IF r = "ev" THEN "id_ev" ELSE "id_ev01"]

\* Every client uses every RCB.
MCUsesAll == Client \X Rcb

Symmetry == Permutations(Thread)

=============================================================================
