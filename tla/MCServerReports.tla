--------------------------- MODULE MCServerReports ---------------------------
(***************************************************************************)
(* Small instances of ServerReports: a data set of two attributes, one of  *)
(* which reports changes and the other updates.                            *)
(***************************************************************************)
EXTENDS ServerReports

MCAttrOps == <<{"dchg"}, {"dupd"}>>

\* Interrogation and triggers; integrity reports only; the settings that the
\* subscription before has left.
MCConfigs == {
  [TrgOps |-> {"dchg", "dupd", "gi"}, IntgPd |-> 0, GI |-> TRUE],
  [TrgOps |-> {"integrity"}, IntgPd |-> 5, GI |-> FALSE],
  [TrgOps |-> {}, IntgPd |-> 0, GI |-> FALSE]}

\* The ReportConfig of the report demo.
MCDemoConfigs == {[TrgOps |-> {"dchg", "integrity"}, IntgPd |-> 5, GI |-> TRUE]}

=============================================================================
