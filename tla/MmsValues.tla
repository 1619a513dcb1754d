------------------------------- MODULE MmsValues -------------------------------
(***************************************************************************)
(* MMS values as libiec61850 hands them to the Go code.  A leaf is         *)
(* [typ, val]; a structure or an array is [typ, sub] with the sequence of  *)
(* its elements.                                                           *)
(***************************************************************************)
EXTENDS Naturals, Sequences, SequencesExt

CONSTANTS
  NULL,     \* the C null pointer, and Go's nil
  Values    \* MmsValues by nesting: those of Values[n] consist of values before n

Complex == {"STRUCTURE", "ARRAY"}
IntegerCoded == {"BOOLEAN", "INTEGER", "UNSIGNED", "BIT_STRING", "UTC_TIME"}
Strings == {"STRING", "VISIBLE_STRING", "OCTET_STRING"}
OtherSimple == {"GENERALIZED_TIME", "BINARY_TIME", "BCD", "OBJ_ID", "DATA_ACCESS_ERROR"}
Simple == IntegerCoded \cup {"FLOAT"} \cup Strings \cup OtherSimple

Value == UNION {Values[n] : n \in DOMAIN Values}

ASSUME ValuesAssumption ==
  /\ Values \in Seq(SUBSET Value)
  /\ NULL \notin Value
  /\ \A n \in DOMAIN Values : \A v \in Values[n] :
       \/ v.typ \in Complex /\ v.sub \in Seq(UNION {Values[k] : k \in 1..(n - 1)})
       \/ v.typ \in Simple /\ v.val # NULL

\* The library has no C string for an octet string.
MmsValue_toString(v) == IF v.typ = "OCTET_STRING" THEN NULL ELSE v.val

\* Element i (from 1) of a structure or an array; NULL if there is none.
MmsValue_getElement(v, i) ==
  IF v.typ \in Complex /\ i \in DOMAIN v.sub THEN v.sub[i] ELSE NULL

=============================================================================
