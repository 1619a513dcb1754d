----------------------------- MODULE DataSetSchema -----------------------------
(***************************************************************************)
(* Data sets read as named values: BuildDataSetSchema, ApplySchema         *)
(* (iec61850_schema.go), ReadDataSetValues, ReadDataSetFlat,               *)
(* ExplainDataSetValues (iec61850_client.go) and the type lookup they rest *)
(* on, GetDOType (scl.go).  An application builds a schema once, reads     *)
(* again and again, and may reuse the map the values are put into.         *)
(*                                                                         *)
(* A path is the sequence of its parts, which the code joins to one        *)
(* string.  Indices count from 1, and the DAIdx of an FCDA that names an   *)
(* attribute is 0.                                                         *)
(***************************************************************************)
EXTENDS MmsValues

CONSTANTS
  FCDA,       \* the data set: a sequence of
              \*   [base, lnId, lnClass, do, da, fc, lnType, val]; base is the path of
              \*   the data object, lnId prefix + lnClass, da the path from there to
              \*   the attribute, << >> for an entry on DO level, lnType the type of
              \*   the logical node on the server, val[v] the value of an entry on DA
              \*   level in version v
  LNodeType,  \* DataTypeTemplates: sequence of [id, lnClass, do]
  DOType,     \* DataTypeTemplates: sequence of [id, sub], sub the DAs and SDOs in the
              \*   order of the SCL: [name, sdo, val], val[fc][v] the value in version
              \*   v of what has functional constraint fc in it
  Version     \* versions of the values on the server

VARIABLES
  server,            \* per FCDA, the version of its value, or "error"
  withoutTimestamps, \* option of the client
  doTypes,           \* DataSetDetail.DOTypes, the cache of GetDOType
  schema,            \* the leaves of the schema, or NULL until it is built
  values,            \* result of the last ReadDataSetValues, or NULL
  seen,              \* history: the server when values was read
  out,               \* the application's map from paths to values
  read               \* history: the server as the last read into out saw it

vars == <<server, withoutTimestamps, doTypes, schema, values, seen, out, read>>

-----------------------------------------------------------------------------
(* The server                                                              *)

\* The first of the indices in I; 0 if there is none.
FirstOf(I) == IF I = {} THEN 0 ELSE CHOOSE i \in I : \A j \in I : i <= j

\* The elements of s with an index in I, in order.
Filter(s, I) ==
  LET kept[k \in 0..Len(s)] ==
        IF k = 0 THEN <<>> ELSE IF k \in I THEN Append(kept[k - 1], s[k]) ELSE kept[k - 1]
  IN  kept[Len(s)]

\* The components with one of the functional constraints.
WithFC(subs, fcs) == Filter(subs, {k \in DOMAIN subs : DOMAIN subs[k].val \cap fcs # {}})

OnDALevel(f) == f.da # << >>

\* The type of the data object that the logical node has on the server.
ServerType(f) ==
  LET ln == LNodeType[FirstOf({k \in DOMAIN LNodeType : LNodeType[k].id = f.lnType})]
      do == ln.do[FirstOf({k \in DOMAIN ln.do : ln.do[k].name = f.do})]
  IN  FirstOf({j \in DOMAIN DOType : DOType[j].id = do.type})

\* What each FCDA on DO level selects of it, sub data objects included.
Selected ==
  [i \in DOMAIN FCDA |->
     IF OnDALevel(FCDA[i]) THEN << >>
     ELSE WithFC(DOType[ServerType(FCDA[i])].sub, {FCDA[i].fc})]

Leaf(t, v) == [typ |-> t, val |-> v]
Struct(s) == [typ |-> "STRUCTURE", sub |-> s]

\* The value of FCDA i in a version; it may also be an access error.
ValueOf(i, v) ==
  CASE v = "error" -> Leaf("DATA_ACCESS_ERROR", "error")
    [] v # "error" /\ OnDALevel(FCDA[i]) -> FCDA[i].val[v]
    [] OTHER -> Struct([k \in DOMAIN Selected[i] |-> Selected[i][k].val[FCDA[i].fc][v]])

\* The element of the data set that the server returns for FCDA i.
ServerValue(i, srv) == ValueOf(i, srv[i])

-----------------------------------------------------------------------------
(* scl.go                                                                  *)

Key(f) == <<f.lnId, f.do>>

\* The type that GetDOType looks up, 0 for none: in the first LNodeType whose id is
\* prefix + lnClass or whose class is lnClass, that of the DO of this name.
FindDOType(f) ==
  LET k == FirstOf({x \in DOMAIN LNodeType :
                      LNodeType[x].id = f.lnId \/ LNodeType[x].lnClass = f.lnClass})
      d == IF k = 0 THEN 0
           ELSE FirstOf({x \in DOMAIN LNodeType[k].do : LNodeType[k].do[x].name = f.do})
  IN  IF d = 0 THEN 0
      ELSE FirstOf({x \in DOMAIN DOType : DOType[x].id = LNodeType[k].do[d].type})

GetDOType(f) == IF Key(f) \in DOMAIN doTypes THEN doTypes[Key(f)] ELSE FindDOType(f)

\* DOType.DA: unmarshalling puts the sub data objects into a list of their own.
DAs(j) ==
  IF j = 0 THEN << >>
  ELSE Filter(DOType[j].sub, {k \in DOMAIN DOType[j].sub : ~DOType[j].sub[k].sdo})

\* The cache after lookups for the FCDAs in I; a miss is not cached.
CacheAfter(I) ==
  LET found == {i \in I : FindDOType(FCDA[i]) # 0}
  IN  [k \in DOMAIN doTypes \cup {Key(FCDA[i]) : i \in found} |->
         IF k \in DOMAIN doTypes THEN doTypes[k]
         ELSE FindDOType(FCDA[CHOOSE i \in found : Key(FCDA[i]) = k])]

OnDOLevel == {i \in DOMAIN FCDA : ~OnDALevel(FCDA[i])}

Component == UNION {{DOType[j].sub[k] : k \in DOMAIN DOType[j].sub} : j \in DOMAIN DOType}

ASSUME SclAssumption ==
  /\ FCDA \in Seq({FCDA[i] : i \in DOMAIN FCDA})
  /\ DOType \in Seq({DOType[j] : j \in DOMAIN DOType})
  /\ \A j \in DOMAIN DOType : DOType[j].sub \in Seq(Component)
  \* An attribute has one functional constraint, a sub data object those of its own.
  /\ \A c \in Component : ~c.sdo => \E fc \in DOMAIN c.val : DOMAIN c.val = {fc}
  \* The server has the types of the entries on DO level, and returns MMS values.
  /\ \A i \in DOMAIN FCDA :
       /\ ~OnDALevel(FCDA[i]) => ServerType(FCDA[i]) \in DOMAIN DOType
       /\ \A v \in Version \cup {"error"} : ValueOf(i, v) \in Value
  \* The classes of logical nodes have names of one length, so lnId tells them apart.
  /\ \A i, j \in DOMAIN FCDA :
       FCDA[i].lnId = FCDA[j].lnId => FCDA[i].lnClass = FCDA[j].lnClass

-----------------------------------------------------------------------------
(* iec61850_schema.go                                                      *)

WholeLeaf(i) == [path |-> FCDA[i].base \o FCDA[i].da, fcda |-> i, da |-> 0]
LeafOf(i, da, k) == [path |-> Append(FCDA[i].base, da.name), fcda |-> i, da |-> k]

\* Mutant: DAIdx counts all attributes of the DO.
LeavesUnfiltered(i) ==
  LET f == FCDA[i]
      das == DAs(GetDOType(f))
  IN  IF OnDALevel(f) THEN {WholeLeaf(i)}
      ELSE {LeafOf(i, das[k], k) : k \in {j \in DOMAIN das : f.fc \in DOMAIN das[j].val}}

LeavesOf(i) ==
  LET f == FCDA[i]
      das == WithFC(DAs(GetDOType(f)), {f.fc})
  IN  IF OnDALevel(f) THEN {WholeLeaf(i)} ELSE {LeafOf(i, das[k], k) : k \in DOMAIN das}

BuiltSchema == UNION {LeavesOf(i) : i \in DOMAIN FCDA}

\* The order of the leaves in the schema.
Before(x, y) == x.fcda < y.fcda \/ (x.fcda = y.fcda /\ x.da < y.da)

\* The last of the leaves with this path.
LastLeaf(leaves, path) ==
  CHOOSE x \in leaves : x.path = path /\ \A y \in leaves : y.path = path => ~Before(x, y)

\* m after an assignment to it for each of the leaves in order; Val(leaf) is the value.
Assign(m, leaves, Val(_)) ==
  LET paths == {leaf.path : leaf \in leaves}
  IN  [p \in DOMAIN m \cup paths |-> IF p \in paths THEN Val(LastLeaf(leaves, p)) ELSE m[p]]

IsList(g) == "list" \in DOMAIN g

\* Mutant: nothing is unwrapped.
AppliedAsIs(vals, leaf) == IF leaf.da = 0 THEN vals[leaf.fcda] ELSE vals[leaf.fcda].list[leaf.da]

\* What ApplySchema stores for a leaf that vals has a value for.
Applied(vals, leaf) ==
  LET top == vals[leaf.fcda]
      sub == top.list[leaf.da]
  IN  IF leaf.da = 0 THEN top
      ELSE IF IsList(sub) /\ DOMAIN sub.list = {1} THEN sub.list[1] ELSE sub

\* The leaves that vals has no value for are skipped.
HasValue(vals, leaf) ==
  /\ leaf.fcda \in DOMAIN vals
  /\ leaf.da # 0 => IsList(vals[leaf.fcda]) /\ leaf.da \in DOMAIN vals[leaf.fcda].list

AppliedTo(m, leaves, vals) ==
  Assign(m, {leaf \in leaves : HasValue(vals, leaf)}, LAMBDA leaf : Applied(vals, leaf))

-----------------------------------------------------------------------------
(* iec61850_client.go                                                      *)

GoValue(t, v) == [go |-> t, val |-> v]
nil == GoValue("nil", NULL)

\* resolveValueInline, and digIntoStructureOptimized, which calls it for the elements
\* of a structure; resolve is what these calls give.  An array gives an empty list,
\* a type that the code does not know no value.
resolveValueInline(v, resolve, without) ==
  CASE v.typ = "BOOLEAN" -> GoValue("bool", v.val)
    [] v.typ = "FLOAT" -> GoValue("float64", v.val)
    [] v.typ \in {"INTEGER", "UNSIGNED"} -> GoValue("int64", v.val)
    [] v.typ \in {"STRING", "VISIBLE_STRING"} -> GoValue("string", v.val)
    [] v.typ \in {"BIT_STRING", "UTC_TIME"} ->
         IF without THEN GoValue("int", <<"0">>) ELSE GoValue("uint32", v.val)
    [] v.typ = "STRUCTURE" -> [list |-> [i \in DOMAIN v.sub |-> resolve[v.sub[i]]]]
    [] v.typ = "ARRAY" -> [list |-> << >>]
    [] OTHER -> nil

Resolved(value, without) ==
  LET resolve[v \in Value] == resolveValueInline(v, resolve, without) IN resolve[value]

extractPrimitive(v) ==
  CASE v.typ = "BOOLEAN" -> GoValue("bool", v.val)
    [] v.typ = "FLOAT" -> GoValue("float64", v.val)
    [] v.typ \in {"INTEGER", "UNSIGNED"} -> GoValue("int64", v.val)
    [] v.typ \in {"STRING", "VISIBLE_STRING"} -> GoValue("string", v.val)
    [] v.typ \in {"BIT_STRING", "UTC_TIME"} ->
         GoValue("uint32", IF withoutTimestamps THEN <<"0">> ELSE v.val)
    [] OTHER -> nil

ValuesRead(srv) == [i \in DOMAIN FCDA |-> Resolved(ServerValue(i, srv), withoutTimestamps)]

\* The MmsValue that ReadDataSetFlat extracts for a leaf; NULL: it is skipped.
FlatTarget(leaf, srv) ==
  LET top == ServerValue(leaf.fcda, srv)
      sub == MmsValue_getElement(top, leaf.da)
  IN  IF leaf.da = 0 THEN top
      ELSE IF sub # NULL /\ sub.typ = "STRUCTURE" /\ MmsValue_getElement(sub, 1) # NULL
           THEN MmsValue_getElement(sub, 1) ELSE sub

FlatReadTo(m, leaves, srv) ==
  Assign(m, {leaf \in leaves : FlatTarget(leaf, srv) # NULL},
         LAMBDA leaf : extractPrimitive(FlatTarget(leaf, srv)))

-----------------------------------------------------------------------------
(* Actions                                                                 *)

Init ==
  /\ server \in [DOMAIN FCDA -> Version]
  /\ withoutTimestamps \in BOOLEAN
  /\ doTypes = << >>
  /\ schema = NULL
  /\ values = NULL
  /\ seen = NULL
  /\ out = << >>
  /\ read = NULL

ServerChanges(i) ==
  \E v \in (Version \cup {"error"}) \ {server[i]} :
    /\ server' = [server EXCEPT ![i] = v]
    /\ UNCHANGED <<withoutTimestamps, doTypes, schema, values, seen, out, read>>

BuildDataSetSchema ==
  /\ schema = NULL
  /\ schema' = BuiltSchema
  /\ doTypes' = CacheAfter(OnDOLevel)
  /\ UNCHANGED <<server, withoutTimestamps, values, seen, out, read>>

\* A read that fails returns an error and changes nothing.
ReadDataSetValues ==
  /\ values' = ValuesRead(server)
  /\ seen' = server
  /\ UNCHANGED <<server, withoutTimestamps, doTypes, schema, out, read>>

ApplySchema ==
  /\ schema # NULL /\ values # NULL
  /\ out' = AppliedTo(out, schema, values)
  /\ read' = seen
  /\ UNCHANGED <<server, withoutTimestamps, doTypes, schema, values, seen>>

ReadDataSetFlat ==
  /\ schema # NULL
  /\ out' = FlatReadTo(out, schema, server)
  /\ read' = server
  /\ UNCHANGED <<server, withoutTimestamps, doTypes, schema, values, seen>>

\* The application clears its map.
ClearOut ==
  /\ out # << >>
  /\ out' = << >>
  /\ read' = NULL
  /\ UNCHANGED <<server, withoutTimestamps, doTypes, schema, values, seen>>

\* Explaining looks up the types of the entries that are lists.  What it lists goes to
\* the application and is left out.
ExplainDataSetValues ==
  /\ values # NULL
  /\ doTypes' = CacheAfter({i \in OnDOLevel : IsList(values[i])})
  /\ UNCHANGED <<server, withoutTimestamps, schema, values, seen, out, read>>

Next ==
  \/ \E i \in DOMAIN FCDA : ServerChanges(i)
  \/ BuildDataSetSchema
  \/ ReadDataSetValues
  \/ ApplySchema
  \/ ReadDataSetFlat
  \/ ClearOut
  \/ ExplainDataSetValues

Spec == Init /\ [][Next]_vars

-----------------------------------------------------------------------------
(* Properties                                                              *)

\* The SCL describes the server: what the server returns for an entry on DO level are
\* the DAs, with the entry's FC, of the type that GetDOType finds.
Described ==
  \A i \in DOMAIN FCDA : ~OnDALevel(FCDA[i]) =>
    WithFC(DAs(FindDOType(FCDA[i])), {FCDA[i].fc}) = Selected[i]

\* The components that FCDA i stands for on the server: 0 is itself, other numbers
\* are those of the components that it selects.
Positions(i) == IF OnDALevel(FCDA[i]) THEN {0} ELSE DOMAIN Selected[i]
PathOf(i, k) ==
  IF k = 0 THEN FCDA[i].base \o FCDA[i].da
  ELSE Append(FCDA[i].base, Selected[i][k].name)

\* The data set has no attribute twice.
Distinct ==
  \A i, j \in DOMAIN FCDA : \A k \in Positions(i), l \in Positions(j) :
    PathOf(i, k) = PathOf(j, l) => i = j /\ k = l

\* A structure of one element stands for that element.
OnlyElement(v) == IF v.typ = "STRUCTURE" /\ DOMAIN v.sub = {1} THEN v.sub[1] ELSE v

\* The attributes of the data set by path with what a read of srv should find there,
\* without those that gave an access error.
Named(srv) ==
  LET Attr(i, k) ==
        [path |-> PathOf(i, k),
         v |-> IF k = 0 THEN ServerValue(i, srv) ELSE OnlyElement(ServerValue(i, srv).sub[k])]
      Attributes(i) == {k \in Positions(i) : k # 0 => ~Selected[i][k].sdo}
  IN  UNION {{Attr(i, k) : k \in Attributes(i)} : i \in {j \in DOMAIN FCDA : srv[j] # "error"}}

\* The content of a Go value, its numeric type aside.
Content(g) == IF IsList(g) THEN g.list ELSE g.val

\* The content of the Go value that a leaf should be read as: zero for quality and
\* time if the client was created without them, none for types the code does not know.
ContentOf(v) ==
  CASE v.typ \in {"OCTET_STRING"} \cup OtherSimple -> NULL
    [] v.typ \in {"BIT_STRING", "UTC_TIME"} /\ withoutTimestamps -> <<"0">>
    [] OTHER -> v.val

\* What is found for an attribute: the value of a leaf, or, where a list is found, the
\* whole structure.
FoundAs(g, v) ==
  IF v.typ \in Simple THEN Content(g) = ContentOf(v)
  ELSE IsList(g) => g = Resolved(v, withoutTimestamps)

\* After a read into the map, reused or not, every attribute that the server returned
\* is found under its own path as it was in that read.
NamedValuesCurrent ==
  read # NULL => \A a \in Named(read) : a.path \in DOMAIN out /\ FoundAs(out[a.path], a.v)

\* Where ApplySchema stores a list, ReadDataSetFlat stores nil or the first of several
\* elements; else their values have one content.
Alike(flat, applied) ==
  IF ~IsList(applied) THEN Content(flat) = Content(applied)
  ELSE \/ flat = nil
       \/ /\ DOMAIN applied.list \notin {{}, {1}}
          /\ ~IsList(applied.list[1])
          /\ Content(flat) = Content(applied.list[1])

\* ReadDataSetFlat, which works on the C values, and ApplySchema, which works on the
\* Go values of ReadDataSetValues, fill a map under the same paths, and alike but for
\* attributes that stay structures or arrays.
FlatDiffersOnLists ==
  schema # NULL =>
    LET flat == FlatReadTo(<< >>, schema, server)
        applied == AppliedTo(<< >>, schema, ValuesRead(server))
    IN  /\ DOMAIN flat = DOMAIN applied
        /\ \A p \in DOMAIN flat : Alike(flat[p], applied[p])

=============================================================================
