--------------------------- MODULE MCReportFlatten ---------------------------
(***************************************************************************)
(* Data sets of three elements for ReportFlatten: leaves of every type     *)
(* that flatten_mms_value tells apart, and structures and arrays that are  *)
(* empty, nested or hold one another.                                      *)
(***************************************************************************)
EXTENDS ReportFlatten

Leaf(t, v) == [typ |-> t, val |-> v]
Struct(s) == [typ |-> "STRUCTURE", sub |-> s]
Array(s) == [typ |-> "ARRAY", sub |-> s]

Float == {Leaf("FLOAT", "f1"), Leaf("FLOAT", "f2")}
Bool == {Leaf("BOOLEAN", "off"), Leaf("BOOLEAN", "on")}
Plain == {Leaf("UNSIGNED", "u"), Leaf("STRING", "s"), Leaf("BINARY_TIME", "b")}
Part == {Leaf("BIT_STRING", "good"), Leaf("UTC_TIME", "now"), Leaf("INTEGER", "i"),
         Leaf("OCTET_STRING", "o"), Leaf("VISIBLE_STRING", "s")}

Magnitude == {Struct(<<f>>) : f \in Float}
Pair == {Struct(<<Leaf("INTEGER", "i"), b>>) : b \in Bool}

\* A measured value: instMag, q and t.
Measured == {Struct(<<m, Leaf("BIT_STRING", "good"), Leaf("UTC_TIME", "now")>>) : m \in Magnitude}

\* Structures without elements, in an array, and behind one another.
Odd == {Array(<<Struct(<<>>), p>>) : p \in Pair}
Odder == {Struct(<<Array(<<>>), Leaf("OCTET_STRING", "o"), Array(<<Struct(<<>>)>>)>>),
          Struct(<<Leaf("VISIBLE_STRING", "s"), Leaf("BINARY_TIME", "b")>>)}

MCValues ==
  <<Float \cup Bool \cup Plain \cup Part,
    Magnitude \cup Pair \cup {Struct(<<>>), Array(<<>>)},
    Measured \cup Odd \cup {Array(<<Struct(<<>>)>>)},
    Odder>>

MCDataSets == {<<Float, Measured, Bool>>, <<Odd, Plain, Odder>>, <<Odder, Odd, Measured>>}

=============================================================================
