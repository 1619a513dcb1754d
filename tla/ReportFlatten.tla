----------------------------- MODULE ReportFlatten -----------------------------
(***************************************************************************)
(* What a handler gets to see of a report: the library's ClientReport, the *)
(* C code that flattens its data set values into one array of tokens       *)
(* (report_bridge.c) and the Go code that builds the Report from that      *)
(* array (buildReport, extractFlatValue).                                  *)
(*                                                                         *)
(* A ClientReport keeps the values of all data set elements from one       *)
(* report to the next.  A report replaces those of the elements it         *)
(* includes; an element that no report has included yet is NULL.           *)
(*                                                                         *)
(* The values are trees that the code goes through three times, each time  *)
(* by recursion: to count the tokens, to write them and to read them.  A   *)
(* step here is one value, one end of a structure or one token, and the    *)
(* recursion is the stack of calls that are in progress.                   *)
(***************************************************************************)
EXTENDS MmsValues

CONSTANTS
  DataSets,  \* data sets: per element, the set of MmsValues it may take
  Reasons    \* reasons for inclusion that servers give, as bit masks

REASON_NOT_INCLUDED == 0
REASON_UNKNOWN == 32

ASSUME ReasonAssumption == Reasons \subseteq 1..31
ASSUME DataSetsAssumption == DataSets \subseteq Seq(SUBSET Value)

VARIABLES
  dataSet,   \* the data set of the RCB
  values,    \* ClientReport: data set values, NULL until first received
  reasons,   \* ClientReport: reason for inclusion of each element
  hasReason, \* ClientReport: the report carries reasons for inclusion
  included,  \* history: the elements that the last report includes
  phase,     \* what the callback is at: "waiting" for a report, "counting",
             \* "flattening", "building", "built", or "noMemory" for the tokens
  calls,     \* the calls in progress, outermost first
  count,     \* the tokens counted
  arr,       \* the tokens written; their number is *index
  pos,       \* the next token that Go reads
  open,      \* the Go slices under construction, outermost first
  entries    \* Report.Entries

report == <<dataSet, values, reasons, hasReason, included>>
vars == <<report, phase, calls, count, arr, pos, open, entries>>

-----------------------------------------------------------------------------
(* The recursion over values                                               *)

\* A call has a value with elements, and the number of those it has dealt with.
Call(v) == [of |-> v, done |-> 0]

\* The outermost loop is over the values of the data set.
Start == <<Call([typ |-> "ARRAY", sub |-> values])>>

\* Mutant: the outermost loop leaves out the last element.
ElementButLast(c) ==
  IF Len(c) = 1 /\ Last(c).done + 1 = Len(Last(c).of.sub) THEN NULL
  ELSE MmsValue_getElement(Last(c).of, Last(c).done + 1)

\* The element that is next in the innermost call; NULL if there is none.
Element(c) == MmsValue_getElement(Last(c).of, Last(c).done + 1)

Finished(c) == Len(c) = 1 /\ Element(c) = NULL

\* The calls after the next element: done with, or called for; and after a return.
Past(c) == [c EXCEPT ![Len(c)].done = @ + 1]
Entered(c) == Append(c, Call(Element(c)))
Returned(c) == Past(Front(c))

Continued(c) ==
  IF Element(c) = NULL THEN Returned(c)
  ELSE IF Element(c).typ \in Complex THEN Entered(c) ELSE Past(c)

-----------------------------------------------------------------------------
(* report_bridge.c                                                         *)

\* Mutant: only the start token of a structure is counted.
CountedWithoutEnd(v) == IF v = NULL THEN 0 ELSE 1

\* What the call for an element adds by itself.
Counted(v) == IF v = NULL THEN 0 ELSE IF v.typ \in Complex THEN 2 ELSE 1

count_mms_elements ==
  /\ phase = "counting"
  /\ ~Finished(calls)
  /\ calls' = Continued(calls)
  /\ count' = count + Counted(Element(calls))
  /\ UNCHANGED <<report, phase, arr, pos, open, entries>>

\* The array is allocated as counted.  Without tokens, or without memory for them,
\* the Report has no entries.
flattenReportDataSet ==
  /\ phase = "counting"
  /\ Finished(calls)
  /\ \/ count = 0 /\ phase' = "built" /\ calls' = <<>>
     \/ count > 0 /\ phase' = "flattening" /\ calls' = Start
     \/ count > 0 /\ phase' = "noMemory" /\ calls' = <<>>
  /\ UNCHANGED <<report, count, arr, pos, open, entries>>

\* A token is allocated uninitialised and written field by field.
Token(t) == [typ |-> t, ival |-> "garbage", dval |-> "garbage", sval |-> "garbage"]

LeafToken(v) ==
  CASE v.typ \in IntegerCoded -> [Token(v.typ) EXCEPT !.ival = v.val]
    [] v.typ = "FLOAT"        -> [Token(v.typ) EXCEPT !.dval = v.val]
    [] v.typ \in Strings      -> [Token(v.typ) EXCEPT !.sval = MmsValue_toString(v)]
    [] OTHER                  -> Token(v.typ)

StartToken(v) == Token(IF v.typ = "STRUCTURE" THEN "STRUCT_START" ELSE "ARRAY_START")
EndToken(v) == Token(IF v.typ = "STRUCTURE" THEN "STRUCT_END" ELSE "ARRAY_END")

\* What is written at the next element, or behind the last one.
TokenAt(c) ==
  LET v == Element(c)
  IN  IF v = NULL THEN EndToken(Last(c).of)
      ELSE IF v.typ \in Complex THEN StartToken(v) ELSE LeafToken(v)

\* No token is written once *index has come to max_len, and calls then return.
flatten_mms_value ==
  /\ phase = "flattening"
  /\ ~Finished(calls)
  /\ LET full == Len(arr) >= count
     IN  /\ calls' = IF full /\ Element(calls) # NULL THEN Past(calls) ELSE Continued(calls)
         /\ arr' = IF full THEN arr ELSE Append(arr, TokenAt(calls))
  /\ UNCHANGED <<report, phase, count, pos, open, entries>>

Flattened ==
  /\ phase = "flattening"
  /\ Finished(calls)
  /\ phase' = "building"
  /\ calls' = <<>>
  /\ UNCHANGED <<report, count, arr, pos, open, entries>>

-----------------------------------------------------------------------------
(* iec61850_report.go                                                      *)

GoValue(token) ==
  CASE token.typ = "BOOLEAN"                   -> [go |-> "bool", val |-> token.ival]
    [] token.typ = "FLOAT"                     -> [go |-> "float64", val |-> token.dval]
    [] token.typ \in {"INTEGER", "UNSIGNED"}   -> [go |-> "int64", val |-> token.ival]
    [] token.typ \in Strings                   ->
         [go |-> "string", val |-> IF token.sval = NULL THEN "" ELSE token.sval]
    [] token.typ \in {"BIT_STRING", "UTC_TIME"} -> [go |-> "uint32", val |-> token.ival]
    [] OTHER                                   -> NULL

\* Without reasons in the report, Reason keeps its zero value.
EntryReason(i) == IF hasReason /\ i \in DOMAIN reasons THEN reasons[i] ELSE REASON_NOT_INCLUDED

\* extractFlatValue returns val to the call for the slice that is last in slices,
\* or to buildReport, which makes it an entry.
ReturnValue(val, slices) ==
  IF slices = <<>>
  THEN /\ entries' = Append(entries, [value |-> val, reason |-> EntryReason(Len(entries) + 1)])
       /\ open' = slices
  ELSE /\ open' = [slices EXCEPT ![Len(slices)] = Append(@, val)]
       /\ UNCHANGED entries

\* The tokens are used up inside a structure, or its end token is next.
AtEnd == open # <<>> /\ (pos > Len(arr) \/ arr[pos].typ \in {"STRUCT_END", "ARRAY_END"})

\* Mutant: the end token of a structure is left for the caller.
PosAfterEndKept == pos

PosAfterEnd == IF pos > Len(arr) THEN pos ELSE pos + 1

extractFlatValue ==
  /\ phase = "building"
  /\ \/ /\ AtEnd
        /\ pos' = PosAfterEnd
        /\ ReturnValue([list |-> Last(open)], Front(open))
     \/ /\ ~AtEnd /\ pos <= Len(arr)
        /\ arr[pos].typ \in {"STRUCT_START", "ARRAY_START"}
        /\ pos' = pos + 1
        /\ open' = Append(open, <<>>)
        /\ UNCHANGED entries
     \/ /\ ~AtEnd /\ pos <= Len(arr)
        /\ arr[pos].typ \notin {"STRUCT_START", "ARRAY_START"}
        /\ pos' = pos + 1
        /\ ReturnValue(GoValue(arr[pos]), open)
  /\ UNCHANGED <<report, phase, calls, count, arr>>

\* buildReport is done with the tokens and frees them.
buildReport ==
  /\ phase = "building"
  /\ open = <<>> /\ pos > Len(arr)
  /\ phase' = "built"
  /\ count' = 0 /\ arr' = <<>> /\ pos' = 1
  /\ UNCHANGED <<report, calls, open, entries>>

-----------------------------------------------------------------------------
(* Reports                                                                 *)

Elements == DOMAIN dataSet
Idle == phase \in {"waiting", "built", "noMemory"}

Init ==
  /\ dataSet \in DataSets
  /\ values = [i \in Elements |-> NULL]
  /\ reasons = [i \in Elements |-> REASON_NOT_INCLUDED]
  /\ hasReason = FALSE
  /\ included = {}
  /\ phase = "waiting"
  /\ calls = <<>> /\ count = 0 /\ arr = <<>> /\ pos = 1 /\ open = <<>>
  /\ entries = <<>>

\* The library takes the values and reasons of the included elements from the
\* message, and calls back.
ReportReceived(incl, withReason) ==
  /\ Idle
  /\ \E new \in [incl -> UNION {dataSet[i] : i \in incl}] :
       /\ \A i \in incl : new[i] \in dataSet[i]
       /\ values' = [i \in Elements |-> IF i \in incl THEN new[i] ELSE values[i]]
  /\ \E why \in Reasons :
       reasons' = [i \in Elements |-> CASE i \notin incl -> REASON_NOT_INCLUDED
                                        [] i \in incl /\ withReason -> why
                                        [] OTHER -> REASON_UNKNOWN]
  /\ hasReason' = withReason
  /\ included' = incl
  /\ phase' = "counting"
  /\ calls' = Start'
  /\ count' = 0
  /\ entries' = <<>>
  /\ UNCHANGED <<dataSet, arr, pos, open>>

\* Installing the callback again starts with an empty ClientReport.
Reinstalled ==
  /\ Idle
  /\ values' = [i \in Elements |-> NULL]
  /\ reasons' = [i \in Elements |-> REASON_NOT_INCLUDED]
  /\ hasReason' = FALSE
  /\ included' = {}
  /\ phase' = "waiting"
  /\ entries' = <<>>
  /\ UNCHANGED <<dataSet, calls, count, arr, pos, open>>

Next ==
  \/ \E incl \in SUBSET Elements \ {{}}, withReason \in BOOLEAN :
       ReportReceived(incl, withReason)
  \/ count_mms_elements \/ flattenReportDataSet
  \/ flatten_mms_value \/ Flattened
  \/ extractFlatValue \/ buildReport
  \/ Reinstalled

Spec == Init /\ [][Next]_vars

-----------------------------------------------------------------------------
(* Properties                                                              *)

\* What an MMS value is in Go, without the detour through tokens.
Converted[v \in Value] ==
  CASE v.typ \in Complex -> [list |-> [i \in DOMAIN v.sub |-> Converted[v.sub[i]]]]
    [] v.typ = "BOOLEAN" -> [go |-> "bool", val |-> v.val]
    [] v.typ = "FLOAT" -> [go |-> "float64", val |-> v.val]
    [] v.typ \in {"INTEGER", "UNSIGNED"} -> [go |-> "int64", val |-> v.val]
    [] v.typ \in {"BIT_STRING", "UTC_TIME"} -> [go |-> "uint32", val |-> v.val]
    [] v.typ \in {"STRING", "VISIBLE_STRING"} -> [go |-> "string", val |-> v.val]
    [] v.typ = "OCTET_STRING" -> [go |-> "string", val |-> ""]
    [] OTHER -> NULL

\* count_mms_elements and flatten_mms_value agree: the array that
\* flattenReportDataSet allocates has room for every token that is due, so that
\* max_len cuts no value off, and in the end no token of it is left unwritten.
CountIsExact ==
  /\ phase = "flattening" /\ ~Finished(calls) => Len(arr) < count
  /\ phase = "building" => Len(arr) = count

\* Flattening and rebuilding lose nothing: entry i of the Report is the i-th
\* data set element with its nesting, and carries the reason of that element.
EntriesMatchElements ==
  phase = "built" =>
    \A i \in DOMAIN entries :
      /\ i \in Elements /\ values[i] # NULL
      /\ entries[i].value = Converted[values[i]]
      /\ hasReason => entries[i].reason = reasons[i]

\* Once every data set element has been received (a general interrogation),
\* each report yields one entry per element, and with reasons for inclusion in
\* it the entries that are marked as included are those of this report.
CompleteOnceInterrogated ==
  (phase = "built" /\ \A i \in Elements : values[i] # NULL) =>
    /\ DOMAIN entries = Elements
    /\ hasReason => included = {i \in Elements : entries[i].reason # REASON_NOT_INCLUDED}

=============================================================================
