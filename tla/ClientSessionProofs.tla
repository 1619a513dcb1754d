------------------------- MODULE ClientSessionProofs -------------------------
(***************************************************************************)
(* Proofs about ClientSession for any devices, models of any depth, any    *)
(* options and any width of a C.uint.  A browse is a recursion over the    *)
(* device model; the argument is an invariant of its calls: every path of  *)
(* the one model that the library holds is listed already or lies at or    *)
(* below a call that is yet to be executed.                                *)
(***************************************************************************)
EXTENDS ClientSession, SequenceTheorems, TLAPS

\* Len, as an operator that the provers do not look into.
Size(s) == Len(s)

\* p is q or lies above it.
Above(p, q) == Len(p) <= Len(q) /\ SubSeq(q, 1, Len(p)) = p

\* The function called for a path is the one for its level.
Placed(q) ==
  /\ q.fn = "device" <=> Size(q.path) = 1
  /\ q.fn = "node" <=> Size(q.path) = 2
  /\ q.fn = "BrowseSDISCL" => Size(q.path) >= 4
  /\ q.fn = "BrowseDataAttributes" => browse.kind = "print"

\* What BrowseModelToSCL lists a path as: data objects as DOIs, below them DAIs.
Tagged(x) ==
  /\ Size(x.path) = 1 => x.tags = <<"LDevice">>
  /\ Size(x.path) = 2 => x.tags = <<"LN">>
  /\ Size(x.path) >= 3 => Size(x.tags) = Size(x.path) - 2 /\ x.tags[1] = "DOI"
  /\ Size(x.path) >= 4 => x.tags[2] = "DAI"

TagsInv == browse.kind = "scl" => \A x \in browse.todo \cup browse.result : Tagged(x)

\* The browse walks the tree m.
Walk(m) ==
  /\ \A q \in browse.todo : q.path \in m /\ Placed(q)
  /\ Listed \subseteq m
  /\ \A q \in browse.todo : Size(q.path) >= 3 => q.path \in Listed
  /\ \A p \in m : p \in Listed \/ \E q \in browse.todo : Above(q.path, p)

\* The model that is walked is the one the library holds, from the first question
\* of the browse to its end.
WalkInv == browse.pc = "browsing" => \E m \in Models : buffer = {m} /\ Walk(m)

\* A browse that has ended lists that model, which the library keeps until Close.
DoneInv ==
  browse.pc = "idle" =>
    /\ browse.todo = {}
    /\ browse.result # {} => Listed \in Models /\ buffer \subseteq {Listed}

IInv == TypeOK /\ TagsInv /\ WalkInv /\ DoneInv /\ WalksNoNullList

-----------------------------------------------------------------------------
(* Timeouts                                                                *)

\* Go's division and the conversion to a C.uint are exact in the range of both.
LEMMA MillisExact ==
  ASSUME NEW d \in Int, d >= NanosPerMilli, d < NanosPerMilli * UintSize
  PROVE  /\ Millis(d) > 0
         /\ Millis(d) * NanosPerMilli <= d
         /\ d < (Millis(d) + 1) * NanosPerMilli
<1> DEFINE N == NanosPerMilli
           q == d \div N
<1>1. N \in Nat \ {0} /\ UintSize \in Nat \ {0}
  BY SessionAssumption
<1>2. q \in Int /\ q * N <= d /\ d < (q + 1) * N
  BY <1>1
<1>3. q > 0
  <2> SUFFICES ASSUME q <= 0 PROVE FALSE
    BY <1>2
  <2>1. (q + 1) * N <= N
    BY <1>1, <1>2
  <2> QED
    BY <1>1, <1>2, <2>1
<1>4. q < UintSize
  <2> SUFFICES ASSUME q >= UintSize PROVE FALSE
    BY <1>1, <1>2
  <2>1. q * N >= UintSize * N
    BY <1>1, <1>2
  <2> QED
    BY <1>1, <1>2, <2>1
<1>5. Millis(d) = q
  <2>1. Quotient(d) = q
    BY <1>1 DEF Quotient
  <2> HIDE DEF q
  <2>2. q % UintSize = q
    BY <1>1, <1>2, <1>3, <1>4
  <2> QED
    BY <2>1, <2>2 DEF Millis, CUint
<1> QED
  BY <1>2, <1>3, <1>5

\* A conversion to a C.uint is one.
LEMMA MillisType == ASSUME NEW d \in Int PROVE Millis(d) \in 0..(UintSize - 1)
<1>1. Quotient(d) \in Int
  BY SessionAssumption DEF Quotient
<1> QED
  BY <1>1, SessionAssumption DEF Millis, CUint

\* NewIedClient sets the timeouts it was asked to set.
LEMMA NewIedClientHonours ==
  ASSUME NEW options \in OptionLists, NewIedClient(options), TypeOK
  PROVE  /\ timeout' \in [Kind -> 0..(UintSize - 1) \cup {5000, 10000}]
         /\ asked' \in [Kind -> SUBSET Int]
         /\ TimeoutsHonoured'
<1>1. /\ options \in Seq([kind: Kind, d: Int]) /\ DOMAIN options = 1..Len(options)
      /\ \A i \in DOMAIN options : options[i].d \in Int
  <2>1. options \in Seq([kind: Kind, d: Int])
    BY SessionAssumption
  <2>2. DOMAIN options = 1..Len(options)
    BY <2>1, LenProperties
  <2>3. \A i \in 1..Len(options) : options[i] \in [kind: Kind, d: Int]
    BY <2>1, ElementOfSeq
  <2> QED
    BY <2>1, <2>2, <2>3
<1>2. ASSUME NEW k, NEW i \in LastOption(options, k), NEW j \in LastOption(options, k) PROVE i = j
  BY <1>1 DEF LastOption
<1>3. \A k : LastOption(options, k) # {} =>
        (CHOOSE i \in LastOption(options, k) : TRUE) \in LastOption(options, k)
  OBVIOUS
<1>4. \A k : LastOption(options, k) \subseteq DOMAIN options
  BY DEF LastOption
<1>5. timeout' \in [Kind -> 0..(UintSize - 1) \cup {5000, 10000}]
  <2>1. ASSUME NEW k \in Kind
        PROVE  (IF LastOption(options, k) = {} THEN timeout[k]
                ELSE Millis(options[CHOOSE i \in LastOption(options, k) : TRUE].d))
                 \in 0..(UintSize - 1) \cup {5000, 10000}
    <3>1. CASE LastOption(options, k) = {}
      BY <3>1 DEF TypeOK
    <3>2. CASE LastOption(options, k) # {}
      <4> DEFINE i == CHOOSE i \in LastOption(options, k) : TRUE
      <4>1. options[i].d \in Int
        BY <1>1, <1>3, <1>4, <3>2
      <4>2. Millis(options[i].d) \in 0..(UintSize - 1)
        BY <4>1, MillisType
      <4> QED
        BY <3>2, <4>2
    <3> QED
      BY <3>1, <3>2
  <2> QED
    BY <2>1 DEF NewIedClient
<1>6. asked' \in [Kind -> SUBSET Int]
  BY <1>1, <1>4 DEF NewIedClient
<1>7. ASSUME NEW k \in Kind, NEW d \in asked'[k] PROVE d \in Int /\ timeout'[k] = Millis(d)
  <2>1. PICK i \in LastOption(options, k) : d = options[i].d
    BY <1>7 DEF NewIedClient
  <2>2. (CHOOSE j \in LastOption(options, k) : TRUE) = i
    BY <1>2, <1>3, <2>1
  <2>3. timeout'[k] = Millis(options[i].d)
    BY <2>1, <2>2 DEF NewIedClient
  <2> QED
    BY <1>1, <1>4, <2>1, <2>3
<1>8. DOMAIN asked' = Kind
  BY DEF NewIedClient
<1> QED
  BY <1>5, <1>6, <1>7, <1>8, MillisExact DEF TimeoutsHonoured

-----------------------------------------------------------------------------
(* Trees                                                                   *)

\* The paths of a model.
LEMMA PathType ==
  ASSUME NEW m \in Models, NEW p \in m
  PROVE  p \in Seq(STRING) /\ Len(p) \in Nat \ {0} /\ \A n \in 1..Len(p) : SubSeq(p, 1, n) \in m
BY SessionAssumption, EmptySeq

\* The children of a path are one longer.
LEMMA ChildType ==
  ASSUME NEW m \in Models, NEW p, NEW c \in Children(m, p)
  PROVE  c \in m /\ c \in Seq(STRING) /\ Len(c) = Len(p) + 1
BY PathType DEF Children

\* What lies below a path lies at or below one of its children.
LEMMA ChildAbove ==
  ASSUME NEW m \in Models, NEW q \in m, NEW p \in Seq(STRING), Above(p, q), p # q
  PROVE  \E c \in Children(m, p) : Above(c, q)
<1> DEFINE n == Len(p)
           c == SubSeq(q, 1, n + 1)
<1>1. n \in Nat /\ q \in Seq(STRING) /\ Len(q) \in Nat /\ n <= Len(q)
  BY PathType, LenProperties DEF Above
<1>2. n # Len(q)
  BY <1>1, SubSeqFull DEF Above
<1>3. c \in m
  BY <1>1, <1>2, PathType
<1>4. \A i \in 1..(n + 1) : q[i] \in STRING
  BY <1>1, <1>2, ElementOfSeq
<1>5. c \in Seq(STRING) /\ Len(c) = n + 1 /\ \A i \in 1..(n + 1) : c[i] = q[i]
  <2>1. /\ c \in Seq(STRING)
        /\ Len(c) = IF 1 <= n + 1 THEN (n + 1) - 1 + 1 ELSE 0
        /\ \A i \in 1..((n + 1) - 1 + 1) : c[i] = q[1 + i - 1]
    BY <1>1, <1>4, SubSeqProperties
  <2>2. (n + 1) - 1 + 1 = n + 1 /\ 1 <= n + 1
    BY <1>1
  <2>3. \A i \in 1..(n + 1) : 1 + i - 1 = i
    OBVIOUS
  <2> QED
    BY <2>1, <2>2, <2>3
<1>6. SubSeq(c, 1, n) = p
  <2> HIDE DEF c
  <2>1. \A i \in 1..n : c[i] = q[i] /\ i \in 1..Len(c) /\ q[i] \in STRING
    BY <1>1, <1>4, <1>5
  <2>2. /\ SubSeq(c, 1, n) \in Seq(STRING)
        /\ Len(SubSeq(c, 1, n)) = n
        /\ \A i \in 1..n : SubSeq(c, 1, n)[i] = q[i]
    <3>1. /\ SubSeq(c, 1, n) \in Seq(STRING)
          /\ Len(SubSeq(c, 1, n)) = IF 1 <= n THEN n - 1 + 1 ELSE 0
          /\ \A i \in 1..(n - 1 + 1) : SubSeq(c, 1, n)[i] = c[1 + i - 1]
      BY <1>1, <2>1, SubSeqProperties
    <3>2. n - 1 + 1 = n /\ \A i \in 1..n : 1 + i - 1 = i
      BY <1>1
    <3>3. Len(SubSeq(c, 1, n)) = n
      BY <1>1, <3>1
    <3> QED
      BY <2>1, <3>1, <3>2, <3>3
  <2>3. \A i \in 1..n : p[i] = q[i]
    <3>1. SubSeq(q, 1, n) = p
      BY DEF Above
    <3>2. \A i \in 1..n : q[i] \in STRING
      BY <2>1
    <3>3. \A i \in 1..(n - 1 + 1) : SubSeq(q, 1, n)[i] = q[1 + i - 1]
      BY <1>1, <3>2, SubSeqProperties
    <3>4. n - 1 + 1 = n /\ \A i \in 1..n : 1 + i - 1 = i
      BY <1>1
    <3> QED
      BY <3>1, <3>3, <3>4
  <2> QED
    BY <2>2, <2>3, SeqEqual
<1>7. c \in Children(m, p)
  BY <1>3, <1>5, <1>6 DEF Children
<1>8. Above(c, q)
  BY <1>1, <1>2, <1>5 DEF Above
<1> QED
  BY <1>7, <1>8

\* Every path of a model lies at or below a logical device.
LEMMA RootAbove ==
  ASSUME NEW m \in Models, NEW q \in m
  PROVE  \E c \in Children(m, <<>>) : Above(c, q)
<1>1. q \in Seq(STRING) /\ q # <<>> /\ Len(q) \in Nat
  BY PathType, EmptySeq
<1>2. SubSeq(q, 1, 0) = <<>> /\ Len(<<>>) = 0 /\ <<>> \in Seq(STRING)
  BY <1>1, SubSeqEmpty, EmptySeq
<1>3. Above(<<>>, q)
  BY <1>1, <1>2 DEF Above
<1> QED
  BY <1>1, <1>2, <1>3, ChildAbove

-----------------------------------------------------------------------------
(* Steps of a browse                                                       *)

CallSet == [fn: Fn, path: Seq(STRING), tags: Seq(Tag)]
ElementSet == [path: Seq(STRING), tags: Seq(Tag)]
Browse == [pc: {"idle", "browsing"}, kind: {"print", "scl"},
           todo: SUBSET CallSet, result: SUBSET ElementSet]

BrowseOK == browse \in Browse

\* What is in a set of elements, and of calls.
LEMMA ElementsOf ==
  ASSUME NEW paths, NEW tags
  PROVE  /\ \A e \in Elements(paths, tags) : e.path \in paths /\ e.tags = tags
         /\ \A p \in paths : \E e \in Elements(paths, tags) : e.path = p
         /\ paths \subseteq Seq(STRING) /\ tags \in Seq(Tag) =>
              Elements(paths, tags) \subseteq ElementSet
<1>1. \A e : e \in Elements(paths, tags) <=> \E p \in paths : e = [path |-> p, tags |-> tags]
  BY DEF Elements
<1>2. ASSUME NEW p \in paths PROVE \E e \in Elements(paths, tags) : e.path = p
  <2>1. [path |-> p, tags |-> tags] \in Elements(paths, tags)
    BY <1>1
  <2> QED
    BY <2>1
<1> QED
  BY <1>1, <1>2 DEF ElementSet

LEMMA CallsOf ==
  ASSUME NEW fns, NEW paths, NEW tags
  PROVE  /\ \A c \in Calls(fns, paths, tags) : c.fn \in fns /\ c.path \in paths /\ c.tags = tags
         /\ fns # {} => \A p \in paths : \E c \in Calls(fns, paths, tags) : c.path = p
         /\ fns \subseteq Fn /\ paths \subseteq Seq(STRING) /\ tags \in Seq(Tag) =>
              Calls(fns, paths, tags) \subseteq CallSet
<1>1. \A c : c \in Calls(fns, paths, tags) <=>
               \E fn \in fns, p \in paths : c = [fn |-> fn, path |-> p, tags |-> tags]
  BY DEF Calls
<1>2. ASSUME NEW fn \in fns, NEW p \in paths
      PROVE  \E c \in Calls(fns, paths, tags) : c.path = p
  <2>1. [fn |-> fn, path |-> p, tags |-> tags] \in Calls(fns, paths, tags)
    BY <1>1
  <2> QED
    BY <2>1
<1> QED
  BY <1>1, <1>2 DEF CallSet

\* A library that holds a model is not asked for another.
LEMMA AskOnce ==
  ASSUME NEW m \in Models, buffer = {m}
  PROVE  Retrieved = {{m}} /\ \A p : Listing({m}, p) = Children(m, p)
BY DEF Retrieved, Listing

\* The fields of the browse after a call.
LEMMA AfterFields ==
  ASSUME BrowseOK, NEW q, NEW listed, NEW calls, browse' = After(q, listed, calls)
  PROVE  /\ browse'.pc = browse.pc
         /\ browse'.kind = browse.kind
         /\ browse'.todo = (browse.todo \ {q}) \cup calls
         /\ browse'.result = browse.result \cup listed
         /\ listed \subseteq ElementSet /\ calls \subseteq CallSet => BrowseOK'
BY DEF After, Browse, BrowseOK

\* A call that lists its path, and makes a call for each of the children, keeps
\* every path of the model listed or ahead.
LEMMA WalkStep ==
  ASSUME BrowseOK, NEW m \in Models, Walk(m), NEW q \in browse.todo,
         NEW listed, NEW calls, browse' = After(q, listed, calls),
         \A e \in listed : e.path \in m,
         \A c \in calls : c.path \in m /\ Placed(c),
         \A c \in calls : Size(c.path) >= 3 => \E e \in listed : e.path = c.path,
         Size(q.path) < 3 => \E e \in listed : e.path = q.path,
         \A p \in Children(m, q.path) : \E c \in calls : c.path = p
  PROVE  Walk(m)'
<1>1. /\ browse'.kind = browse.kind
      /\ browse'.todo = (browse.todo \ {q}) \cup calls
      /\ browse'.result = browse.result \cup listed
  BY AfterFields
<1>2. Listed' = Listed \cup {e.path : e \in listed}
  BY <1>1 DEF Listed
<1>3. \A c \in browse'.todo : c.path \in m /\ Placed(c)'
  BY <1>1 DEF Walk, Placed
<1>4. Listed' \subseteq m
  BY <1>2 DEF Walk
<1>5. \A c \in browse'.todo : Size(c.path) >= 3 => c.path \in Listed'
  BY <1>1, <1>2 DEF Walk
<1>6. ASSUME NEW p \in m PROVE p \in Listed' \/ \E c \in browse'.todo : Above(c.path, p)
  <2>1. CASE p \in Listed
    BY <1>2, <2>1
  <2>2. CASE \E c \in browse.todo \ {q} : Above(c.path, p)
    BY <1>1, <2>2
  <2>3. CASE Above(q.path, p)
    <3>1. q.path \in m /\ q.path \in Seq(STRING) /\ (Size(q.path) < 3 \/ Size(q.path) >= 3)
      BY PathType DEF Walk, Size
    <3>2. CASE p = q.path
      BY <1>2, <3>1, <3>2 DEF Walk
    <3>3. CASE p # q.path
      <4>1. PICK c \in Children(m, q.path) : Above(c, p)
        BY <2>3, <3>1, <3>3, ChildAbove
      <4> QED
        BY <1>1, <4>1
    <3> QED
      BY <3>2, <3>3
  <2> QED
    BY <2>1, <2>2, <2>3 DEF Walk
<1> QED
  BY <1>3, <1>4, <1>5, <1>6 DEF Walk

\* What a call finds.
LEMMA CallFacts ==
  ASSUME BrowseOK, NEW m \in Models, Walk(m), NEW q \in browse.todo
  PROVE  /\ q \in CallSet /\ q.path \in m /\ q.path \in Seq(STRING) /\ q.tags \in Seq(Tag)
         /\ Size(q.path) \in Nat \ {0} /\ Placed(q)
         /\ \A p \in Children(m, q.path) :
              p \in m /\ p \in Seq(STRING) /\ Size(p) = Size(q.path) + 1
<1>1. q \in CallSet /\ q.path \in m /\ Placed(q)
  BY DEF Browse, BrowseOK, Walk
<1>2. q.path \in Seq(STRING) /\ q.tags \in Seq(Tag) /\ Size(q.path) \in Nat \ {0}
  BY <1>1, PathType DEF CallSet, Size
<1>3. \A p \in Children(m, q.path) :
        p \in m /\ p \in Seq(STRING) /\ Size(p) = Size(q.path) + 1
  BY ChildType DEF Size
<1> QED
  BY <1>1, <1>2, <1>3

\* The calls for a logical device, a logical node and data.
LEMMA DeviceStep ==
  ASSUME BrowseOK, NEW m \in Models, buffer = {m}, Walk(m), TagsInv,
         NEW q \in browse.todo, BrowseDevice(q)
  PROVE  /\ BrowseOK' /\ browse'.pc = browse.pc /\ buffer' = {m} /\ crashed' = crashed
         /\ Walk(m)' /\ TagsInv'
<1> DEFINE listed == Elements({q.path}, q.tags)
           names == Children(m, q.path)
           calls == Calls({"node"}, names, <<"LN">>)
<1>1. q.fn = "device" /\ crashed' = crashed
  BY DEF BrowseDevice
<1>2. /\ q.path \in m /\ q.path \in Seq(STRING) /\ q.tags \in Seq(Tag) /\ Size(q.path) = 1
      /\ \A p \in names : p \in m /\ p \in Seq(STRING) /\ Size(p) = 2
  <2>1. Size(q.path) = 1
    BY <1>1, CallFacts DEF Placed
  <2> QED
    BY <2>1, CallFacts
<1>3. buffer' = {m} /\ browse' = After(q, listed, calls)
  <2>1. PICK b \in Retrieved :
          /\ buffer' = b
          /\ (\E x \in b : q.path \in x) =>
               browse' = After(q, Elements({q.path}, q.tags),
                               Calls({"node"}, Listing(b, q.path), <<"LN">>))
    BY DEF BrowseDevice
  <2>2. b = {m} /\ Listing(b, q.path) = names
    BY AskOnce
  <2> QED
    BY <1>2, <2>1, <2>2
<1>4. /\ listed \subseteq ElementSet
      /\ \A e \in listed : e.path = q.path /\ e.tags = q.tags
      /\ \E e \in listed : e.path = q.path
  <2> DEFINE self == {q.path}
             tags == q.tags
  <2>1. self \subseteq Seq(STRING) /\ tags \in Seq(Tag) /\ \A p : p \in self <=> p = q.path
    BY <1>2
  <2> HIDE DEF self, tags
  <2>2. /\ Elements(self, tags) \subseteq ElementSet
        /\ \A e \in Elements(self, tags) : e.path \in self /\ e.tags = tags
        /\ \A p \in self : \E e \in Elements(self, tags) : e.path = p
    BY <2>1, ElementsOf
  <2> QED
    BY <2>1, <2>2 DEF self, tags
<1>5. /\ calls \subseteq CallSet
      /\ \A c \in calls : c.fn = "node" /\ c.path \in names /\ c.tags = <<"LN">>
      /\ \A p \in names : \E c \in calls : c.path = p
  <2> DEFINE fns == {"node"}
             tags == <<"LN">>
  <2>1. /\ fns \subseteq Fn /\ fns # {} /\ names \subseteq Seq(STRING) /\ tags \in Seq(Tag)
        /\ \A f \in fns : f = "node"
    BY <1>2 DEF Fn, Tag
  <2> HIDE DEF fns, tags
  <2>2. /\ Calls(fns, names, tags) \subseteq CallSet
        /\ \A c \in Calls(fns, names, tags) : c.fn \in fns /\ c.path \in names /\ c.tags = tags
        /\ \A p \in names : \E c \in Calls(fns, names, tags) : c.path = p
    BY <2>1, CallsOf
  <2> QED
    BY <2>1, <2>2 DEF fns, tags
<1> HIDE DEF listed, calls
<1>6. /\ BrowseOK' /\ browse'.pc = browse.pc /\ browse'.kind = browse.kind
      /\ browse'.todo = (browse.todo \ {q}) \cup calls
      /\ browse'.result = browse.result \cup listed
  BY <1>3, <1>4, <1>5, AfterFields
<1>7. \A c \in calls : c.path \in m /\ Size(c.path) = 2
  BY <1>2, <1>5
<1>8. \A c \in calls : Placed(c)
  BY <1>5, <1>7 DEF Placed
<1>9. Walk(m)'
  <2>1. \A e \in listed : e.path \in m
    BY <1>2, <1>4
  <2>2. \A c \in calls : ~(Size(c.path) >= 3)
    BY <1>7
  <2> QED
    BY <1>3, <1>4, <1>5, <1>7, <1>8, <2>1, <2>2, WalkStep
<1>10. TagsInv'
  <2> SUFFICES ASSUME browse.kind = "scl",
                      NEW x \in (browse.todo \ {q}) \cup calls \cup browse.result \cup listed
               PROVE  Tagged(x)
    BY <1>6 DEF TagsInv
  <2>1. \A c \in calls : Tagged(c)
    BY <1>5, <1>7 DEF Tagged
  <2>2. \A e \in listed : Tagged(e)
    BY <1>4 DEF Tagged, TagsInv
  <2> QED
    BY <2>1, <2>2 DEF TagsInv
<1> QED
  BY <1>1, <1>3, <1>6, <1>9, <1>10

LEMMA NodeStep ==
  ASSUME BrowseOK, NEW m \in Models, buffer = {m}, Walk(m), TagsInv,
         NEW q \in browse.todo, BrowseNode(q)
  PROVE  /\ BrowseOK' /\ browse'.pc = browse.pc /\ buffer' = {m} /\ crashed' = FALSE
         /\ Walk(m)' /\ TagsInv'
<1> DEFINE fn == IF browse.kind = "print" THEN "BrowseDataAttributes" ELSE "BrowseDataAttributesSCL"
           names == Children(m, q.path)
           own == Elements({q.path}, q.tags)
           fns == {fn}
           tags == <<"DOI">>
           objects == Elements(names, tags)
           calls == Calls(fns, names, tags)
<1>1. q.fn = "node"
  BY DEF BrowseNode
<1>2. /\ q.path \in m /\ q.path \in Seq(STRING) /\ q.tags \in Seq(Tag) /\ Size(q.path) = 2
      /\ \A p \in names : p \in m /\ p \in Seq(STRING) /\ Size(p) = 3
  <2>1. Size(q.path) = 2
    BY <1>1, CallFacts DEF Placed
  <2> QED
    BY <2>1, CallFacts
<1>3. buffer' = {m} /\ crashed' = FALSE /\ browse' = After(q, own \cup objects, calls)
  <2>1. PICK b \in Retrieved :
          /\ buffer' = b
          /\ crashed' = ~\E x \in b : q.path \in x
          /\ ~crashed' =>
               browse' = After(q, Elements({q.path}, q.tags)
                                    \cup Elements(Listing(b, q.path), <<"DOI">>),
                               Calls({fn}, Listing(b, q.path), <<"DOI">>))
    BY DEF BrowseNode, tags, fns
  <2>2. b = {m} /\ Listing(b, q.path) = names
    BY AskOnce
  <2>3. crashed' = FALSE
    BY <1>2, <2>1, <2>2
  <2> QED
    BY <2>1, <2>2, <2>3
<1>4. /\ own \subseteq ElementSet
      /\ \A e \in own : e.path = q.path /\ e.tags = q.tags
      /\ \E e \in own : e.path = q.path
  <2> DEFINE self == {q.path}
             qtags == q.tags
  <2>1. self \subseteq Seq(STRING) /\ qtags \in Seq(Tag) /\ \A p : p \in self <=> p = q.path
    BY <1>2
  <2> HIDE DEF self, qtags
  <2>2. /\ Elements(self, qtags) \subseteq ElementSet
        /\ \A e \in Elements(self, qtags) : e.path \in self /\ e.tags = qtags
        /\ \A p \in self : \E e \in Elements(self, qtags) : e.path = p
    BY <2>1, ElementsOf
  <2> QED
    BY <2>1, <2>2 DEF self, qtags
<1>5. /\ names \subseteq Seq(STRING) /\ tags \in Seq(Tag) /\ Size(tags) = 1 /\ tags[1] = "DOI"
      /\ fns \subseteq Fn /\ fns # {} /\ \A f \in fns : f = fn
  BY <1>2 DEF Tag, Fn, Size
<1> HIDE DEF tags, fns
<1>6. /\ objects \subseteq ElementSet
      /\ \A e \in objects : e.path \in names /\ e.tags = tags
      /\ \A p \in names : \E e \in objects : e.path = p
  BY <1>5, ElementsOf
<1>7. /\ calls \subseteq CallSet
      /\ \A c \in calls : c.fn = fn /\ c.path \in names /\ c.tags = tags
      /\ \A p \in names : \E c \in calls : c.path = p
  BY <1>5, CallsOf
<1> HIDE DEF own, objects, calls
<1> DEFINE listed == own \cup objects
<1>8. listed \subseteq ElementSet
  BY <1>4, <1>6
<1>9. /\ \A e \in listed : \/ e.path = q.path /\ e.tags = q.tags
                           \/ e.path \in names /\ e.tags = tags
      /\ \E e \in listed : e.path = q.path
      /\ \A p \in names : \E e \in listed : e.path = p
  BY <1>4, <1>6
<1>10. browse' = After(q, listed, calls)
  BY <1>3
<1> HIDE DEF listed
<1>11. /\ BrowseOK' /\ browse'.pc = browse.pc /\ browse'.kind = browse.kind
       /\ browse'.todo = (browse.todo \ {q}) \cup calls
       /\ browse'.result = browse.result \cup listed
  BY <1>7, <1>8, <1>10, AfterFields
<1>12. \A c \in calls : c.path \in m /\ Size(c.path) = 3
  BY <1>2, <1>7
<1>13. \A c \in calls : Placed(c)
  BY <1>7, <1>12 DEF Placed
<1>14. Walk(m)'
  <2>1. \A e \in listed : e.path \in m
    BY <1>2, <1>9
  <2>2. \A c \in calls : \E e \in listed : e.path = c.path
    BY <1>7, <1>9
  <2> QED
    BY <1>7, <1>9, <1>10, <1>12, <1>13, <2>1, <2>2, WalkStep
<1>15. TagsInv'
  <2> SUFFICES ASSUME browse.kind = "scl",
                      NEW x \in (browse.todo \ {q}) \cup calls \cup browse.result \cup listed
               PROVE  Tagged(x)
    BY <1>11 DEF TagsInv
  <2>2. \A y : y.path \in names /\ y.tags = tags => Tagged(y)
    BY <1>2, <1>5 DEF Tagged
  <2>3. \A y : y.path = q.path /\ y.tags = q.tags => Tagged(y)
    BY DEF Tagged, TagsInv
  <2> QED
    BY <1>7, <1>9, <2>2, <2>3 DEF TagsInv
<1> QED
  BY <1>3, <1>11, <1>14, <1>15

\* The functions for attributes differ in what they list and call.
LEMMA DataStep ==
  ASSUME BrowseOK, NEW m \in Models, buffer = {m}, Walk(m), TagsInv, NEW q \in browse.todo,
         NEW tag \in Tag, NEW fns, fns \subseteq Fn, BrowseData(q, tag, fns),
         q.fn # "device", q.fn # "node",
         fns # {}, "device" \notin fns, "node" \notin fns,
         "BrowseDataAttributes" \in fns => browse.kind = "print",
         browse.kind = "scl" /\ Size(q.path) = 3 => tag = "DAI"
  PROVE  /\ BrowseOK' /\ browse'.pc = browse.pc /\ buffer' = {m} /\ crashed' = crashed
         /\ Walk(m)' /\ TagsInv'
<1> DEFINE tags == Append(q.tags, tag)
           names == Children(m, q.path)
           listed == Elements(names, tags)
           calls == Calls(fns, names, tags)
<1>1. /\ q.path \in m /\ q.path \in Seq(STRING) /\ q.tags \in Seq(Tag)
      /\ Size(q.path) \in Nat /\ Size(q.path) >= 3
      /\ \A p \in names : p \in m /\ p \in Seq(STRING) /\ Size(p) = Size(q.path) + 1
  <2>1. Size(q.path) # 1 /\ Size(q.path) # 2 /\ Size(q.path) \in Nat \ {0}
    BY CallFacts DEF Placed
  <2>2. Size(q.path) \in Nat /\ Size(q.path) >= 3
    BY <2>1
  <2> QED
    BY <2>2, CallFacts
<1>2. /\ tags \in Seq(Tag) /\ Size(tags) = Size(q.tags) + 1
      /\ \A i \in 1..Size(q.tags) : tags[i] = q.tags[i]
      /\ tags[Size(q.tags) + 1] = tag
  BY <1>1, AppendProperties DEF Size
<1>3. buffer' = {m} /\ crashed' = crashed /\ browse' = After(q, listed, calls)
  <2>1. PICK b \in Retrieved :
          /\ buffer' = b
          /\ browse' = After(q, Elements(Listing(b, q.path), Append(q.tags, tag)),
                             Calls(fns, Listing(b, q.path), Append(q.tags, tag)))
    BY DEF BrowseData
  <2>2. b = {m} /\ Listing(b, q.path) = names
    BY AskOnce
  <2>3. crashed' = crashed
    BY DEF BrowseData
  <2> QED
    BY <2>1, <2>2, <2>3
<1> HIDE DEF tags
<1>4. names \subseteq Seq(STRING)
  BY <1>1
<1>5. /\ listed \subseteq ElementSet
      /\ \A e \in listed : e.path \in names /\ e.tags = tags
      /\ \A p \in names : \E e \in listed : e.path = p
  BY <1>2, <1>4, ElementsOf
<1>6. /\ calls \subseteq CallSet
      /\ \A c \in calls : c.fn \in fns /\ c.path \in names /\ c.tags = tags
      /\ \A p \in names : \E c \in calls : c.path = p
  BY <1>2, <1>4, CallsOf
<1> HIDE DEF listed, calls
<1>7. /\ BrowseOK' /\ browse'.pc = browse.pc /\ browse'.kind = browse.kind
      /\ browse'.todo = (browse.todo \ {q}) \cup calls
      /\ browse'.result = browse.result \cup listed
  BY <1>3, <1>5, <1>6, AfterFields
<1>8. \A p \in names : Size(p) >= 4 /\ Size(p) # 1 /\ Size(p) # 2 /\ Size(p) = Size(q.path) + 1
  BY <1>1
<1>9. \A c \in calls : c.path \in m /\ Placed(c)
  BY <1>1, <1>6, <1>8 DEF Placed
<1>10. Walk(m)'
  <2>1. \A e \in listed : e.path \in m
    BY <1>1, <1>5
  <2>2. \A c \in calls : \E e \in listed : e.path = c.path
    BY <1>5, <1>6
  <2>3. ~(Size(q.path) < 3)
    BY <1>1
  <2> QED
    BY <1>3, <1>6, <1>9, <2>1, <2>2, <2>3, WalkStep
<1>11. TagsInv'
  <2> SUFFICES ASSUME browse.kind = "scl",
                      NEW x \in (browse.todo \ {q}) \cup calls \cup browse.result \cup listed
               PROVE  Tagged(x)
    BY <1>7 DEF TagsInv
  <2>1. /\ Size(q.tags) = Size(q.path) - 2 /\ q.tags[1] = "DOI"
        /\ Size(q.path) >= 4 => q.tags[2] = "DAI"
    <3>1. Tagged(q)
      BY DEF TagsInv
    <3>2. Size(q.path) >= 3
      BY <1>1
    <3> QED
      BY <3>1, <3>2 DEF Tagged
  <2>2. Size(tags) = Size(q.path) - 1 /\ tags[1] = "DOI" /\ tags[2] = "DAI"
    <3>1. CASE Size(q.path) = 3
      BY <1>2, <2>1, <3>1
    <3>2. CASE Size(q.path) # 3
      <4>1. Size(q.path) >= 4 /\ 1 \in 1..Size(q.tags) /\ 2 \in 1..Size(q.tags)
        BY <1>1, <2>1, <3>2
      <4> QED
        BY <1>1, <1>2, <2>1, <4>1
    <3> QED
      BY <3>1, <3>2
  <2>3. ASSUME NEW y, y.path \in names, y.tags = tags PROVE Tagged(y)
    <3>1. Size(y.path) = Size(q.path) + 1 /\ Size(y.path) >= 4
      BY <1>8, <2>3
    <3> QED
      BY <1>1, <2>2, <2>3, <3>1 DEF Tagged
  <2> QED
    BY <1>5, <1>6, <2>3 DEF TagsInv
<1> QED
  BY <1>3, <1>7, <1>10, <1>11

\* One call of a browse, whichever.
LEMMA CallStep ==
  ASSUME BrowseOK, NEW m \in Models, buffer = {m}, Walk(m), TagsInv, crashed = FALSE, BrowseStep
  PROVE  /\ BrowseOK' /\ browse'.pc = browse.pc /\ buffer' = {m} /\ crashed' = FALSE
         /\ Walk(m)' /\ TagsInv'
<1>1. PICK q \in browse.todo :
        \/ BrowseDevice(q) \/ BrowseNode(q)
        \/ BrowseDataAttributes(q) \/ BrowseDataAttributesSCL(q) \/ BrowseSDISCL(q)
  BY DEF BrowseStep
<1>2. Size(q.path) \in Nat /\ Placed(q)
  BY CallFacts
<1>3. CASE BrowseDevice(q)
  BY <1>3, DeviceStep
<1>4. CASE BrowseNode(q)
  BY <1>4, NodeStep
<1>5. CASE BrowseDataAttributes(q)
  <2> DEFINE tag == "DA"
             fns == {"BrowseDataAttributes"}
  <2>1. BrowseData(q, tag, fns) /\ q.fn = "BrowseDataAttributes"
    BY <1>5 DEF BrowseDataAttributes
  <2>2. /\ tag \in Tag /\ fns \subseteq Fn /\ fns # {}
        /\ "device" \notin fns /\ "node" \notin fns
    BY DEF Fn, Tag
  <2>3. q.fn # "device" /\ q.fn # "node"
    BY <2>1
  <2>4. /\ "BrowseDataAttributes" \in fns => browse.kind = "print"
        /\ browse.kind = "scl" /\ Size(q.path) = 3 => tag = "DAI"
    BY <1>2, <2>1 DEF Placed
  <2> HIDE DEF tag, fns
  <2> QED
    BY <2>1, <2>2, <2>3, <2>4, DataStep
<1>6. CASE BrowseDataAttributesSCL(q)
  <2> DEFINE tag == "DAI"
             fns == {"BrowseSDISCL"}
  <2>1. BrowseData(q, tag, fns) /\ q.fn = "BrowseDataAttributesSCL"
    BY <1>6 DEF BrowseDataAttributesSCL
  <2>2. /\ tag \in Tag /\ fns \subseteq Fn /\ fns # {}
        /\ "device" \notin fns /\ "node" \notin fns
    BY DEF Fn, Tag
  <2>3. q.fn # "device" /\ q.fn # "node"
    BY <2>1
  <2>4. /\ "BrowseDataAttributes" \in fns => browse.kind = "print"
        /\ browse.kind = "scl" /\ Size(q.path) = 3 => tag = "DAI"
    BY <1>2, <2>1 DEF Placed
  <2> HIDE DEF tag, fns
  <2> QED
    BY <2>1, <2>2, <2>3, <2>4, DataStep
<1>7. CASE BrowseSDISCL(q)
  <2> DEFINE tag == "SDI"
             fns == {"BrowseDataAttributesSCL", "BrowseSDISCL"}
  <2>1. BrowseData(q, tag, fns) /\ q.fn = "BrowseSDISCL"
    BY <1>7 DEF BrowseSDISCL
  <2>2. /\ tag \in Tag /\ fns \subseteq Fn /\ fns # {}
        /\ "device" \notin fns /\ "node" \notin fns
    BY DEF Fn, Tag
  <2>3. q.fn # "device" /\ q.fn # "node"
    BY <2>1
  <2>4. /\ "BrowseDataAttributes" \in fns => browse.kind = "print"
        /\ browse.kind = "scl" /\ Size(q.path) = 3 => tag = "DAI"
    BY <1>2, <2>1 DEF Placed
  <2> HIDE DEF tag, fns
  <2> QED
    BY <2>1, <2>2, <2>3, <2>4, DataStep
<1> QED
  BY <1>1, <1>3, <1>4, <1>5, <1>6, <1>7

\* The library comes out of a question with no model, or with one.
LEMMA RetrievedType ==
  ASSUME TypeOK, NEW b \in Retrieved
  PROVE  b = {} \/ \E m \in Models : b = {m}
<1>1. model[host] \in Models
  BY DEF TypeOK
<1> QED
  BY <1>1 DEF Retrieved, TypeOK

\* A browse begins with all logical devices of the model ahead of it, or not at all.
LEMMA BeginStep ==
  ASSUME TypeOK, NEW kind \in {"print", "scl"}, BeginBrowse(kind)
  PROVE  /\ buffer' = {} \/ \E m \in Models : buffer' = {m}
         /\ BrowseOK' /\ TagsInv' /\ WalkInv' /\ DoneInv'
<1> DEFINE fns == {"device"}
           tags == <<"LDevice">>
<1>1. PICK b \in Retrieved :
        /\ buffer' = b
        /\ browse' = IF b = {} THEN NoBrowse
                     ELSE [pc |-> "browsing", kind |-> kind, result |-> {},
                           todo |-> Calls(fns, Listing(b, <<>>), tags)]
  BY DEF BeginBrowse
<1>2. fns \subseteq Fn /\ fns # {} /\ (\A f \in fns : f = "device") /\ tags \in Seq(Tag)
  BY DEF Fn, Tag
<1>3. tags = <<"LDevice">>
  OBVIOUS
<1> HIDE DEF fns, tags
<1>4. CASE b = {}
  <2>1. /\ browse' = NoBrowse /\ browse'.pc = "idle" /\ browse'.kind = "print"
        /\ browse'.todo = {} /\ browse'.result = {}
    BY <1>1, <1>4 DEF NoBrowse
  <2>2. BrowseOK'
    BY <2>1 DEF NoBrowse, BrowseOK, Browse
  <2> QED
    BY <1>1, <1>4, <2>1, <2>2 DEF TagsInv, WalkInv, DoneInv
<1>5. CASE b # {}
  <2>1. PICK m \in Models : b = {m}
    BY <1>5, RetrievedType
  <2> DEFINE names == Children(m, <<>>)
             calls == Calls(fns, names, tags)
  <2>2. Listing(b, <<>>) = names
    BY <2>1 DEF Listing
  <2>3. \A p \in names : p \in m /\ p \in Seq(STRING) /\ Size(p) = 1
    <3> DEFINE root == <<>>
    <3>1. Size(root) = 0
      BY DEF Size
    <3> HIDE DEF root
    <3>2. \A p \in Children(m, root) : p \in m /\ p \in Seq(STRING) /\ Size(p) = Size(root) + 1
      BY ChildType DEF Size
    <3> QED
      BY <3>1, <3>2 DEF root
  <2>4. /\ calls \subseteq CallSet
        /\ \A c \in calls : c.fn = "device" /\ c.path \in names /\ c.tags = tags
        /\ \A p \in names : \E c \in calls : c.path = p
    <3>1. names \subseteq Seq(STRING)
      BY <2>3
    <3> HIDE DEF names
    <3>2. /\ calls \subseteq CallSet
          /\ \A c \in calls : c.fn \in fns /\ c.path \in names /\ c.tags = tags
          /\ \A p \in names : \E c \in calls : c.path = p
      BY <1>2, <3>1, CallsOf
    <3> QED
      BY <1>2, <3>2
  <2>5. browse' = [pc |-> "browsing", kind |-> kind, result |-> {}, todo |-> calls]
    BY <1>1, <1>5, <2>2
  <2> HIDE DEF calls
  <2>6. /\ browse'.pc = "browsing" /\ browse'.kind = kind
        /\ browse'.todo = calls /\ browse'.result = {}
    BY <2>5
  <2>7. BrowseOK'
    BY <2>4, <2>5 DEF BrowseOK, Browse
  <2>8. TagsInv'
    BY <1>3, <2>3, <2>4, <2>6 DEF TagsInv, Tagged
  <2>9. Walk(m)'
    <3>1. \A c \in calls : c.path \in m /\ Placed(c)'
      BY <2>3, <2>4, <2>6 DEF Placed
    <3>2. Listed' = {}
      BY <2>6 DEF Listed
    <3>3. \A c \in calls : ~(Size(c.path) >= 3)
      BY <2>3, <2>4
    <3>4. \A p \in m : \E c \in calls : Above(c.path, p)
      BY <2>4, RootAbove
    <3> QED
      BY <2>6, <3>1, <3>2, <3>3, <3>4 DEF Walk
  <2> QED
    BY <1>1, <2>1, <2>6, <2>7, <2>8, <2>9 DEF WalkInv, DoneInv
<1> QED
  BY <1>4, <1>5

\* A browse without a call ahead has listed the model.
LEMMA EndStep ==
  ASSUME BrowseOK, TagsInv, WalkInv, EndBrowse
  PROVE  BrowseOK' /\ TagsInv' /\ WalkInv' /\ DoneInv'
<1>1. /\ browse.pc = "browsing" /\ browse.todo = {} /\ buffer' = buffer
      /\ browse' = [browse EXCEPT !.pc = "idle"]
  BY DEF EndBrowse
<1>2. /\ BrowseOK' /\ browse'.pc = "idle" /\ browse'.kind = browse.kind
      /\ browse'.todo = {} /\ browse'.result = browse.result
  BY <1>1 DEF BrowseOK, Browse
<1>3. PICK m \in Models : buffer = {m} /\ Walk(m)
  BY <1>1 DEF WalkInv
<1>4. Listed = m
  BY <1>1, <1>3 DEF Walk
<1>5. Listed' = Listed
  BY <1>2 DEF Listed
<1> QED
  BY <1>1, <1>2, <1>3, <1>4, <1>5 DEF TagsInv, WalkInv, DoneInv

\* What the browse has listed stays as it is while neither it nor the library's
\* model changes; Close drops that model.
LEMMA IdleStep ==
  ASSUME IInv, browse' = browse, crashed' = crashed,
         buffer' = buffer \/ (buffer' = {} /\ browse.pc = "idle")
  PROVE  BrowseOK' /\ TagsInv' /\ WalkInv' /\ DoneInv' /\ WalksNoNullList'
<1>1. BrowseOK
  BY DEF IInv, TypeOK, BrowseOK, Browse, CallSet, ElementSet
<1>2. BrowseOK' /\ TagsInv' /\ WalksNoNullList'
  BY <1>1 DEF IInv, BrowseOK, TagsInv, WalksNoNullList
<1>3. Listed' = Listed /\ \A m : Walk(m)' <=> Walk(m)
  BY DEF Listed, Walk, Placed
<1>4. WalkInv'
  BY <1>3 DEF IInv, WalkInv
<1>5. DoneInv'
  BY <1>3 DEF IInv, DoneInv
<1> QED
  BY <1>2, <1>4, <1>5

-----------------------------------------------------------------------------
(* The invariant                                                           *)

LEMMA InitIInv == Init => IInv
<1> SUFFICES ASSUME Init PROVE IInv
  OBVIOUS
<1>1. /\ browse = NoBrowse /\ browse.pc = "idle" /\ browse.kind = "print"
      /\ browse.todo = {} /\ browse.result = {}
  BY DEF Init, NoBrowse
<1>2. timeout \in [Kind -> 0..(UintSize - 1) \cup {5000, 10000}]
  BY DEF Init
<1>3. asked \in [Kind -> SUBSET Int]
  BY DEF Init
<1>4. TypeOK
  <2>1. BrowseOK
    BY <1>1 DEF BrowseOK, Browse, NoBrowse
  <2>2. /\ conn \in {"none", "closed", "connected", "destroyed"}
        /\ host \in Host /\ model \in [Host -> Models]
        /\ buffer = {} /\ crashed \in BOOLEAN
    BY DEF Init
  <2> QED
    BY <1>2, <1>3, <2>1, <2>2 DEF TypeOK, BrowseOK, Browse, CallSet, ElementSet
<1> QED
  BY <1>1, <1>4 DEF Init, IInv, TagsInv, WalkInv, DoneInv, WalksNoNullList

LEMMA NextIInv == IInv /\ [Next]_vars => IInv'
<1> SUFFICES ASSUME IInv, [Next]_vars PROVE IInv'
  OBVIOUS
<1> USE DEF IInv
<1>t. BrowseOK' => browse' \in [pc: {"idle", "browsing"}, kind: {"print", "scl"},
                 todo: SUBSET [fn: Fn, path: Seq(STRING), tags: Seq(Tag)],
                 result: SUBSET [path: Seq(STRING), tags: Seq(Tag)]]
  BY DEF BrowseOK, Browse, CallSet, ElementSet
<1>b. BrowseOK
  BY DEF TypeOK, BrowseOK, Browse, CallSet, ElementSet
<1>1. ASSUME NEW options \in OptionLists, NewIedClient(options) PROVE IInv'
  <2>1. browse' = browse /\ crashed' = crashed /\ buffer' = buffer
    BY <1>1 DEF NewIedClient
  <2>2. BrowseOK' /\ TagsInv' /\ WalkInv' /\ DoneInv' /\ WalksNoNullList'
    BY <2>1, IdleStep
  <2>3. TypeOK'
    <3>1. /\ timeout' \in [Kind -> 0..(UintSize - 1) \cup {5000, 10000}]
          /\ asked' \in [Kind -> SUBSET Int]
      BY <1>1, NewIedClientHonours
    <3>2. /\ conn' = "closed" /\ host' = host /\ model' = model
      BY <1>1 DEF NewIedClient
    <3> QED
      BY <1>t, <2>1, <2>2, <3>1, <3>2 DEF TypeOK
  <2> QED
    BY <2>2, <2>3
<1>2. ASSUME NEW h \in Host, Connect(h) PROVE IInv'
  <2>1. browse' = browse /\ crashed' = crashed /\ buffer' = buffer
    BY <1>2 DEF Connect, vars
  <2>2. BrowseOK' /\ TagsInv' /\ WalkInv' /\ DoneInv' /\ WalksNoNullList'
    BY <2>1, IdleStep
  <2>3. TypeOK'
    BY <1>2, <1>t, <2>1, <2>2 DEF Connect, vars, TypeOK
  <2> QED
    BY <2>2, <2>3
<1>3. CASE ConnectionLost
  <2>1. browse' = browse /\ crashed' = crashed /\ buffer' = buffer
    BY <1>3 DEF ConnectionLost
  <2>2. BrowseOK' /\ TagsInv' /\ WalkInv' /\ DoneInv' /\ WalksNoNullList'
    BY <2>1, IdleStep
  <2>3. TypeOK'
    BY <1>3, <1>t, <2>1, <2>2 DEF ConnectionLost, TypeOK
  <2> QED
    BY <2>2, <2>3
<1>4. ASSUME NEW h \in Host, NEW m \in Models, Reconfigure(h, m) PROVE IInv'
  <2>1. browse' = browse /\ crashed' = crashed /\ buffer' = buffer
    BY <1>4 DEF Reconfigure
  <2>2. BrowseOK' /\ TagsInv' /\ WalkInv' /\ DoneInv' /\ WalksNoNullList'
    BY <2>1, IdleStep
  <2>3. model' \in [Host -> Models]
    BY <1>4 DEF Reconfigure, TypeOK
  <2>4. TypeOK'
    BY <1>4, <1>t, <2>1, <2>2, <2>3 DEF Reconfigure, session, TypeOK
  <2> QED
    BY <2>2, <2>4
<1>5. CASE Close
  <2>1. browse' = browse /\ crashed' = crashed /\ buffer' = {} /\ browse.pc = "idle"
    BY <1>5 DEF Close
  <2>2. BrowseOK' /\ TagsInv' /\ WalkInv' /\ DoneInv' /\ WalksNoNullList'
    BY <2>1, IdleStep
  <2>3. TypeOK'
    BY <1>5, <1>t, <2>1, <2>2 DEF Close, TypeOK
  <2> QED
    BY <2>2, <2>3
<1>6. ASSUME NEW kind \in {"print", "scl"}, BeginBrowse(kind) PROVE IInv'
  <2>1. /\ buffer' = {} \/ \E m \in Models : buffer' = {m}
        /\ BrowseOK' /\ TagsInv' /\ WalkInv' /\ DoneInv'
    BY <1>6, BeginStep
  <2>2. TypeOK'
    BY <1>6, <1>t, <2>1 DEF BeginBrowse, session, TypeOK
  <2>3. WalksNoNullList'
    BY <1>6 DEF BeginBrowse, WalksNoNullList
  <2> QED
    BY <2>1, <2>2, <2>3
<1>7. CASE BrowseStep
  <2>1. browse.pc = "browsing"
    BY <1>7, <1>b DEF BrowseStep, BrowseOK, Browse, DoneInv
  <2>2. PICK m \in Models : buffer = {m} /\ Walk(m)
    BY <2>1 DEF WalkInv
  <2>3. /\ BrowseOK' /\ browse'.pc = browse.pc /\ buffer' = {m} /\ crashed' = FALSE
        /\ Walk(m)' /\ TagsInv'
    <3>1. crashed = FALSE
      BY DEF WalksNoNullList, TypeOK
    <3> QED
      BY <1>7, <1>b, <2>2, <3>1, CallStep
  <2>4. UNCHANGED <<session, model>>
    BY <1>7 DEF BrowseStep, BrowseDevice, BrowseNode, BrowseDataAttributes,
                BrowseDataAttributesSCL, BrowseSDISCL, BrowseData
  <2>5. TypeOK'
    <3>1. buffer' = {m} /\ crashed' \in BOOLEAN
      BY <2>3
    <3> QED
      BY <1>t, <2>3, <2>4, <3>1 DEF session, TypeOK
  <2>6. WalkInv' /\ DoneInv' /\ WalksNoNullList'
    BY <2>1, <2>3 DEF WalkInv, DoneInv, WalksNoNullList
  <2> QED
    BY <2>3, <2>5, <2>6
<1>8. CASE EndBrowse
  <2>1. BrowseOK' /\ TagsInv' /\ WalkInv' /\ DoneInv'
    BY <1>8, <1>b, EndStep
  <2>2. TypeOK' /\ WalksNoNullList'
    BY <1>8, <1>t, <2>1 DEF EndBrowse, session, TypeOK, WalksNoNullList
  <2> QED
    BY <2>1, <2>2
<1>9. CASE UNCHANGED vars
  <2>1. browse' = browse /\ crashed' = crashed /\ buffer' = buffer
    BY <1>9 DEF vars
  <2>2. BrowseOK' /\ TagsInv' /\ WalkInv' /\ DoneInv' /\ WalksNoNullList'
    BY <2>1, IdleStep
  <2>3. TypeOK'
    BY <1>9, <1>t, <2>1, <2>2 DEF vars, TypeOK
  <2> QED
    BY <2>2, <2>3
<1> QED
  BY <1>1, <1>2, <1>3, <1>4, <1>5, <1>6, <1>7, <1>8, <1>9
     DEF Next, Terminated, BrowseModel, BrowseModelToSCL

\* What the session keeps, for any devices, models and options.
THEOREM Invariant == Spec => []IInv
BY InitIInv, NextIInv, PTL DEF Spec

\* The types of the session: in particular the library holds no model or one, and
\* the timeouts fit a C.uint.
THEOREM TypeCorrect == Spec => []TypeOK
<1>1. IInv => TypeOK
  BY DEF IInv
<1> QED
  BY <1>1, Invariant, PTL

\* BrowseModel and BrowseModelToSCL list one complete model of one device, however
\* deep, also if the connection or the device changes on the way.
THEOREM BrowsesOneModel == Spec => []BrowseIsOneModel
<1>1. IInv => BrowseIsOneModel
  BY DEF IInv, DoneInv, BrowseIsOneModel
<1> QED
  BY <1>1, Invariant, PTL

\* The list of data objects whose error BrowseModel ignores is never NULL.
THEOREM NoNullList == Spec => []WalksNoNullList
<1>1. IInv => WalksNoNullList
  BY DEF IInv
<1> QED
  BY <1>1, Invariant, PTL

\* The SCL of BrowseModelToSCL has all attributes of every data object, at their level.
THEOREM SclComplete == Spec => []SclHoldsAttributes
<1>1. IInv => SclHoldsAttributes
  <2> SUFFICES ASSUME IInv, browse.pc = "idle", browse.kind = "scl",
                      NEW r \in browse.result, NEW m \in buffer, r.tags = <<"DOI">>
               PROVE  LET attributes == {a \in browse.result :
                            Len(a.path) > Len(r.path) /\ SubSeq(a.path, 1, Len(r.path)) = r.path}
                      IN  /\ {a.path : a \in attributes} = Below(m, r.path)
                          /\ \A a \in attributes :
                               Len(a.tags) = 1 + Len(a.path) - Len(r.path) /\ a.tags[2] = "DAI"
    BY DEF SclHoldsAttributes
  <2> DEFINE attributes == {a \in browse.result :
               Len(a.path) > Len(r.path) /\ SubSeq(a.path, 1, Len(r.path)) = r.path}
  <2>1. Listed \in Models /\ m = Listed
    BY DEF IInv, DoneInv
  <2>2. {a.path : a \in attributes} = Below(m, r.path)
    BY <2>1 DEF Below, Listed
  <2>3. \A a \in browse.result : Tagged(a) /\ Size(a.path) \in Nat \ {0}
    <3>1. \A a \in browse.result : Tagged(a) /\ a.path \in Listed
      BY DEF IInv, TagsInv, Listed
    <3> QED
      BY <2>1, <3>1, PathType DEF Size
  <2>4. Size(r.path) = 3
    <3>1. Size(r.tags) = 1 /\ r.tags[1] = "DOI"
      BY DEF Size
    <3>2. r.tags # <<"LDevice">> /\ r.tags # <<"LN">>
      OBVIOUS
    <3> QED
      BY <2>3, <3>1, <3>2 DEF Tagged
  <2>5. ASSUME NEW a \in attributes
        PROVE  Len(a.tags) = 1 + Len(a.path) - Len(r.path) /\ a.tags[2] = "DAI"
    <3>1. Size(a.path) > Size(r.path) /\ Tagged(a) /\ Size(a.path) \in Nat
      BY <2>3 DEF Size
    <3>2. Size(a.path) >= 4
      BY <2>4, <3>1
    <3>3. Size(a.tags) = 1 + Size(a.path) - Size(r.path) /\ a.tags[2] = "DAI"
      BY <2>4, <3>1, <3>2 DEF Tagged
    <3> QED
      BY <3>3 DEF Size
  <2> QED
    BY <2>2, <2>5
<1> QED
  BY <1>1, Invariant, PTL

\* NewIedClient sets the timeouts that its options ask for: to the millisecond, if
\* they are one long or longer and fit a C.uint.
THEOREM HonoursTimeouts == Spec => []TimeoutsHonoured
<1>1. Init => TimeoutsHonoured
  BY DEF Init, TimeoutsHonoured
<1>2. IInv /\ TimeoutsHonoured /\ [Next]_vars => TimeoutsHonoured'
  <2> SUFFICES ASSUME IInv, TimeoutsHonoured, [Next]_vars PROVE TimeoutsHonoured'
    OBVIOUS
  <2>1. ASSUME NEW options \in OptionLists, NewIedClient(options) PROVE TimeoutsHonoured'
    BY <2>1, NewIedClientHonours DEF IInv
  <2>2. CASE UNCHANGED <<timeout, asked>>
    BY <2>2 DEF TimeoutsHonoured
  <2> QED
    BY <2>1, <2>2 DEF Next, vars, session, Connect, ConnectionLost, Reconfigure, Close, BrowseModel,
         BrowseModelToSCL, BeginBrowse, BrowseStep, BrowseDevice, BrowseNode, BrowseDataAttributes,
         BrowseDataAttributesSCL, BrowseSDISCL, BrowseData, EndBrowse, Terminated
<1> QED
  BY <1>1, <1>2, Invariant, PTL DEF Spec

=============================================================================
