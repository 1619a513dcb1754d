--------------------------- MODULE MCDataSetSchema ---------------------------
(***************************************************************************)
(* Data sets and type templates for DataSetSchema.                         *)
(***************************************************************************)
EXTENDS DataSetSchema

\* Values per version: leaves, and structures and arrays of what is listed.
Lf(typ, n) == [v \in Version |-> Leaf(typ, <<n, v>>)]
St(subs) == [v \in Version |-> Struct([k \in DOMAIN subs |-> subs[k][v]])]
Ar(subs) == [v \in Version |-> [typ |-> "ARRAY", sub |-> [k \in DOMAIN subs |-> subs[k][v]]]]

DAof(n, fc, val) == [name |-> n, sdo |-> FALSE, val |-> fc :> val]
SDOof(n, val) == [name |-> n, sdo |-> TRUE, val |-> val]

Magnitude(n) == St(<<Lf("FLOAT", n)>>)
Quality == DAof("q", "MX", Lf("BIT_STRING", "q"))
Time == DAof("t", "MX", Lf("UTC_TIME", "t"))

Entry(ln, class, do, fc, type) ==
  [base |-> <<ln, do>>, lnId |-> class, lnClass |-> class, do |-> do, da |-> << >>, fc |-> fc,
   lnType |-> type, val |-> << >>]

-----------------------------------------------------------------------------
(* Entries on DA level, one of them a structure, and one on DO level whose *)
(* type mixes functional constraints and has attributes of every shape.    *)

MCFCDA ==
  <<[Entry("LD0/STMP1", "STMP", "Tmp", "MX", "STMP_1")
       EXCEPT !.da = <<"instMag", "f">>, !.val = Lf("FLOAT", "tmp")],
    [Entry("LD0/STMP1", "STMP", "Max", "MX", "STMP_1")
       EXCEPT !.da = <<"instMag">>, !.val = Magnitude("max")],
    Entry("LD0/MMXU1", "MMXU", "A", "MX", "MMXU_1")>>

MCLNodeType ==
  <<[id |-> "STMP_1", lnClass |-> "STMP", do |-> <<[name |-> "Tmp", type |-> "SAV"]>>],
    [id |-> "MMXU_1", lnClass |-> "MMXU",
     do |-> <<[name |-> "Hz", type |-> "SAV"], [name |-> "A", type |-> "MV"]>>],
    [id |-> "MMXU_2", lnClass |-> "MMXU", do |-> <<[name |-> "A", type |-> "MVplain"]>>]>>

Measured ==
  <<DAof("instMag", "MX", Magnitude("inst")),
    DAof("db", "CF", Lf("UNSIGNED", "db")),
    DAof("mag", "MX", St(<<Lf("INTEGER", "i"), Lf("FLOAT", "f")>>)),
    Quality,
    SDOof("ref", "CF" :> St(<<Lf("VISIBLE_STRING", "ref")>>)),
    DAof("raw", "MX", Lf("OCTET_STRING", "raw")),
    DAof("instCVal", "MX", St(<<Magnitude("imag")>>)),
    DAof("cVal", "MX", St(<<Magnitude("cmag"), Magnitude("cang")>>)),
    DAof("har", "MX", Ar(<<Lf("FLOAT", "h1")>>)),
    Time>>

MCDOType ==
  <<[id |-> "SAV", sub |-> <<DAof("instMag", "MX", Magnitude("sav"))>>],
    [id |-> "MV", sub |-> Measured],
    [id |-> "MVplain", sub |-> <<Quality, DAof("instMag", "MX", Magnitude("plain")), Time>>],
    [id |-> "SEQ", sub |-> <<SDOof("c1", "MX" :> St(<<Magnitude("c1")>>)),
                             DAof("seqT", "MX", Lf("INTEGER", "seqT"))>>]>>

-----------------------------------------------------------------------------
(* A data set that does not meet the conditions.                           *)

\* Sequence components: the data object has a sub data object.
SeqFCDA == <<Entry("LD0/MSQI1", "MSQI", "SeqA", "MX", "MSQI_1")>>
SeqLNodeType ==
  <<[id |-> "MSQI_1", lnClass |-> "MSQI", do |-> <<[name |-> "SeqA", type |-> "SEQ"]>>]>>

-----------------------------------------------------------------------------

\* The values of the data set and their elements, by nesting.
Sent == {ValueOf(i, v) : i \in DOMAIN FCDA, v \in Version \cup {"error"}}
WithElements(S) == S \cup UNION {ToSet(v.sub) : v \in {w \in S : w.typ \in Complex}}
AllValues == WithElements(WithElements(WithElements(Sent)))
Over(S) == {v \in AllValues : v.typ \in Complex => ToSet(v.sub) \subseteq S}
MCValues == <<Over({}), Over(Over({})), Over(Over(Over({}))), Over(Over(Over(Over({}))))>>

\* The first of the data sets meets the conditions of NamedAreCurrent.
ASSUME SclDescribes == FCDA = MCFCDA => Described /\ Distinct

=============================================================================
