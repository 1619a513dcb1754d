------------------------- MODULE DataSetSchemaProofs -------------------------
(***************************************************************************)
(* Proofs about DataSetSchema for any data set, any type templates and any *)
(* sequence of reads, applications of the schema and changes of values.    *)
(***************************************************************************)
EXTENDS DataSetSchema, SequenceTheorems, WellFoundedInduction, TLAPS

-----------------------------------------------------------------------------
(* Numbers and sequences                                                   *)

\* A set of natural numbers that is not empty has a least element.
LEMMA LeastNat ==
  ASSUME NEW T, T \subseteq Nat, T # {}
  PROVE  \E n \in T : \A k \in T : n <= k
<1>1. PICK n \in T : \A k \in T : ~(<<k, n>> \in OpToRel(<, Nat))
  BY NatLessThanWellFounded, WFMin, Zenon
<1>2. \A k \in T : ~(k < n)
  BY <1>1, Zenon DEF OpToRel
<1> QED
  BY <1>2

\* Induction: a set that has 0, and with a number below n the one after it, has n.
LEMMA UpTo ==
  ASSUME NEW n \in Nat, NEW T, 0 \in T, \A k \in 0..(n - 1) : k \in T => k + 1 \in T
  PROVE  \A k \in 0..n : k \in T
<1> DEFINE U == {k \in 0..n : k \notin T}
<1> SUFFICES ASSUME U # {} PROVE FALSE
  OBVIOUS
<1>1. PICK m \in U : \A k \in U : m <= k
  <2>1. U \subseteq Nat
    OBVIOUS
  <2> HIDE DEF U
  <2> QED
    BY <2>1, LeastNat
<1>2. m \in 1..n /\ m \notin T
  BY <1>1
<1>3. m - 1 \in 0..(n - 1) /\ m - 1 \notin U /\ (m - 1) + 1 = m
  BY <1>1, <1>2
<1> QED
  BY <1>2, <1>3

\* A set of natural numbers up to b that is not empty has a greatest element.
LEMMA GreatestNat ==
  ASSUME NEW b \in Nat, NEW T, T \subseteq 0..b, T # {}
  PROVE  \E n \in T : \A k \in T : k <= n
<1> DEFINE U == {k \in Nat : \A n \in T : n <= k}
<1>1. b \in U
  OBVIOUS
<1>2. PICK u \in U : \A k \in U : u <= k
  <2>1. U \subseteq Nat /\ U # {}
    BY <1>1
  <2> HIDE DEF U
  <2> QED
    BY <2>1, LeastNat
<1>3. \A n \in T : n \in Nat /\ n <= u
  BY <1>2
<1>4. u \in T
  <2> SUFFICES ASSUME u \notin T PROVE FALSE
    OBVIOUS
  <2>1. u \in Nat /\ \A n \in T : n <= u - 1
    BY <1>2, <1>3
  <2>2. u - 1 \in Nat
    <3>1. PICK n \in T : n \in Nat /\ n <= u - 1
      BY <1>3, <2>1
    <3> QED
      BY <2>1, <3>1
  <2> QED
    BY <1>2, <2>1, <2>2
<1> QED
  BY <1>3, <1>4

\* FirstOf gives an index of the set.
LEMMA FirstOfIs ==
  ASSUME NEW I, I \subseteq Nat, FirstOf(I) # 0
  PROVE  FirstOf(I) \in I
<1>1. I # {}
  BY DEF FirstOf
<1>2. \E i \in I : \A j \in I : i <= j
  BY <1>1, LeastNat
<1> QED
  BY <1>1, <1>2 DEF FirstOf

\* What Filter keeps of a sequence is a sequence of its elements: by induction
\* on the length, the recursive function is defined up to it.
LEMMA FilterIsSeq ==
  ASSUME NEW S, NEW s \in Seq(S), NEW I
  PROVE  Filter(s, I) \in Seq(S)
<1> DEFINE N == Len(s)
           Body(f, k) == IF k = 0 THEN <<>>
                         ELSE IF k \in I THEN Append(f[k - 1], s[k]) ELSE f[k - 1]
           F == CHOOSE f : f = [k \in 0..N |-> Body(f, k)]
<1>1. N \in Nat /\ \A k \in 1..N : s[k] \in S
  BY LenProperties, ElementOfSeq
<1>2. Filter(s, I) = F[N]
  BY Zenon DEF Filter
<1> HIDE DEF N
<1>3. \E f : f = [k \in 0..N |-> Body(f, k)]
  <2> DEFINE T == {n \in 0..N : \E f : f = [k \in 0..n |-> Body(f, k)]}
  <2>1. 0 \in T
    <3> DEFINE f == [k \in 0..0 |-> <<>>]
    <3>1. \A k \in 0..0 : Body(f, k) = <<>>
      OBVIOUS
    <3>2. f = [k \in 0..0 |-> Body(f, k)]
      <4> HIDE DEF Body
      <4> QED
        BY <3>1
    <3> HIDE DEF f, Body
    <3> QED
      BY <1>1, <3>2
  <2>2. ASSUME NEW n \in 0..(N - 1), n \in T PROVE n + 1 \in T
    <3>1. PICK f : f = [k \in 0..n |-> Body(f, k)]
      BY <2>2
    <3> DEFINE g == [k \in 0..(n + 1) |-> Body(f, k)]
    <3>2. \A k \in 0..n : f[k] = Body(f, k)
      BY <3>1
    <3>3. \A k \in 0..(n + 1) : g[k] = Body(f, k)
      OBVIOUS
    <3>4. g = [k \in 0..(n + 1) |-> g[k]]
      OBVIOUS
    <3> HIDE DEF g
    <3>5. \A k \in 0..n : g[k] = f[k]
      <4> HIDE DEF Body
      <4> QED
        BY <1>1, <3>2, <3>3
    <3>6. ASSUME NEW k \in 0..(n + 1) PROVE Body(f, k) = Body(g, k)
      <4>1. CASE k = 0
        BY <4>1
      <4>2. CASE k # 0
        <5>1. k - 1 \in 0..n
          BY <4>2
        <5>2. g[k - 1] = f[k - 1]
          BY <3>5, <5>1
        <5> QED
          BY <5>2
      <4> QED
        BY <4>1, <4>2
    <3>7. g = [k \in 0..(n + 1) |-> Body(g, k)]
      <4> HIDE DEF Body
      <4> QED
        BY <3>3, <3>4, <3>6
    <3>8. n + 1 \in 0..N
      BY <1>1
    <3> QED
      BY <3>7, <3>8
  <2>3. \A k \in 0..N : k \in T
    <3> HIDE DEF T
    <3> QED
      BY <1>1, <2>1, <2>2, UpTo
  <2>4. N \in T
    <3> HIDE DEF T
    <3> QED
      BY <1>1, <2>3
  <2> HIDE DEF Body
  <2> QED
    BY <2>4
<1>4. F = [k \in 0..N |-> Body(F, k)]
  BY <1>3
<1> HIDE DEF F
<1>5. \A k \in 0..N : F[k] = Body(F, k)
  BY <1>4
<1>6. \A k \in 0..N : F[k] \in Seq(S)
  <2> DEFINE T == {k \in 0..N : F[k] \in Seq(S)}
  <2>1. 0 \in T
    <3>1. 0 \in 0..N
      BY <1>1
    <3>2. F[0] = <<>>
      BY <1>5, <3>1
    <3>3. <<>> \in Seq(S)
      OBVIOUS
    <3> QED
      BY <3>1, <3>2, <3>3
  <2>2. ASSUME NEW k \in 0..(N - 1), k \in T PROVE k + 1 \in T
    <3>1. k + 1 \in 0..N /\ k + 1 \in 1..N /\ k + 1 # 0 /\ (k + 1) - 1 = k
      BY <1>1
    <3>2. F[k + 1] = IF k + 1 \in I THEN Append(F[k], s[k + 1]) ELSE F[k]
      BY <1>5, <3>1
    <3>3. s[k + 1] \in S /\ F[k] \in Seq(S)
      BY <1>1, <2>2, <3>1
    <3>4. Append(F[k], s[k + 1]) \in Seq(S)
      BY <3>3, AppendProperties
    <3> QED
      BY <3>1, <3>2, <3>3, <3>4
  <2>3. \A k \in 0..N : k \in T
    <3> HIDE DEF T
    <3> QED
      BY <1>1, <2>1, <2>2, UpTo
  <2> QED
    BY <2>3
<1> QED
  BY <1>1, <1>2, <1>6

\* So is what WithFC keeps.
LEMMA WithFCIsSeq ==
  ASSUME NEW S, NEW s \in Seq(S), NEW fcs
  PROVE  WithFC(s, fcs) \in Seq(S)
BY FilterIsSeq DEF WithFC

-----------------------------------------------------------------------------
(* Components                                                              *)

\* FindDOType finds a type or none.
LEMMA FoundIsType ==
  ASSUME NEW f
  PROVE  FindDOType(f) = 0 \/ FindDOType(f) \in DOMAIN DOType
<1> DEFINE k == FirstOf({x \in DOMAIN LNodeType :
                           LNodeType[x].id = f.lnId \/ LNodeType[x].lnClass = f.lnClass})
           d == IF k = 0 THEN 0
                ELSE FirstOf({x \in DOMAIN LNodeType[k].do : LNodeType[k].do[x].name = f.do})
           J == {x \in DOMAIN DOType : DOType[x].id = LNodeType[k].do[d].type}
<1>1. FindDOType(f) = IF d = 0 THEN 0 ELSE FirstOf(J)
  BY DEF FindDOType
<1>2. J \subseteq Nat
  <2>1. DOMAIN DOType = 1..Len(DOType) /\ Len(DOType) \in Nat
    BY SclAssumption, LenProperties
  <2> HIDE DEF k, d
  <2> QED
    BY <2>1
<1>3. FirstOf(J) = 0 \/ FirstOf(J) \in J
  BY <1>2, FirstOfIs
<1> QED
  BY <1>1, <1>3

\* The DAs of what is found are a sequence of components.
LEMMA DAsAre == ASSUME NEW f PROVE DAs(FindDOType(f)) \in Seq(Component)
<1>1. <<>> \in Seq(Component)
  OBVIOUS
<1>2. \A j \in DOMAIN DOType : DAs(j) \in Seq(Component) \/ j = 0
  BY SclAssumption, FilterIsSeq DEF DAs
<1>3. DAs(0) = <<>>
  BY DEF DAs
<1> QED
  BY <1>1, <1>2, <1>3, FoundIsType

\* An FCDA on DO level selects a sequence of components.
LEMMA SelectedAre ==
  ASSUME NEW i \in DOMAIN FCDA, ~OnDALevel(FCDA[i])
  PROVE  Selected[i] \in Seq(Component)
<1> DEFINE subs == DOType[ServerType(FCDA[i])].sub
<1>1. subs \in Seq(Component)
  BY SclAssumption
<1>2. Selected[i] = WithFC(subs, {FCDA[i].fc})
  BY DEF Selected
<1> HIDE DEF subs
<1> QED
  BY <1>1, <1>2, WithFCIsSeq

\* Positions are natural numbers, and 0 stands for an FCDA on DA level.
LEMMA PositionIs ==
  ASSUME NEW i \in DOMAIN FCDA, NEW k \in Positions(i)
  PROVE  /\ k \in Nat
         /\ OnDALevel(FCDA[i]) => k = 0
         /\ ~OnDALevel(FCDA[i]) => k # 0 /\ k \in DOMAIN Selected[i]
<1>1. CASE OnDALevel(FCDA[i])
  <2>1. k = 0
    BY <1>1 DEF Positions
  <2> QED
    BY <1>1, <2>1
<1>2. CASE ~OnDALevel(FCDA[i])
  <2> DEFINE das == Selected[i]
  <2>1. k \in DOMAIN das
    BY <1>2 DEF Positions
  <2>2. das \in Seq(Component)
    BY <1>2, SelectedAre
  <2> HIDE DEF das
  <2>3. DOMAIN das = 1..Len(das) /\ Len(das) \in Nat
    BY <2>2, LenProperties
  <2>4. k \in Nat /\ k # 0
    BY <2>1, <2>3
  <2> QED
    BY <1>2, <2>1, <2>4 DEF das
<1> QED
  BY <1>1, <1>2

-----------------------------------------------------------------------------
(* Values                                                                  *)

\* The versions of the values of a data set on the server, at any time.
Servers == [DOMAIN FCDA -> Version \cup {"error"}]

\* The values that are nested n deep at most.
Below(n) == UNION {Values[k] : k \in 1..n}

\* A type is simple or not.
LEMMA SimpleIsNotComplex == \A t : ~(t \in Complex /\ t \in Simple)
BY DEF Complex, Simple, IntegerCoded, Strings, OtherSimple

\* Values are not NULL, and the elements of a value are values.
LEMMA ValueIs ==
  ASSUME NEW v \in Value
  PROVE  /\ v # NULL
         /\ v.typ \in Simple \/ v.typ \in Complex
         /\ v.typ \in Complex => v.sub \in Seq(Value)
<1>1. PICK n \in DOMAIN Values : v \in Values[n]
  BY DEF Value
<1>2. v # NULL
  BY ValuesAssumption
<1>3. \/ v.typ \in Complex /\ v.sub \in Seq(Below(n - 1))
      \/ v.typ \in Simple
  BY <1>1, ValuesAssumption DEF Below
<1>4. ASSUME v.typ \in Complex PROVE v.sub \in Seq(Value)
  <2> DEFINE B == Below(n - 1)
  <2>1. B \subseteq Value
    <3>1. ASSUME NEW x \in B PROVE x \in Value
      <4>1. PICK k \in 1..(n - 1) : x \in Values[k]
        BY DEF Below
      <4>2. Values \in Seq(SUBSET Value)
        BY ValuesAssumption
      <4>3. n \in 1..Len(Values) /\ Len(Values) \in Nat /\ DOMAIN Values = 1..Len(Values)
        BY <4>2, LenProperties
      <4>4. k \in DOMAIN Values
        BY <4>3
      <4> QED
        BY <4>1, <4>4 DEF Value
    <3> QED
      BY <3>1
  <2>2. v.sub \in Seq(B)
    BY <1>3, <1>4, SimpleIsNotComplex
  <2> HIDE DEF B
  <2> QED
    BY <2>1, <2>2, SeqMonotonic
<1> QED
  BY <1>2, <1>3, <1>4

\* An element of a value is a value.
LEMMA ElementIs ==
  ASSUME NEW v \in Value, v.typ \in Complex, NEW k \in DOMAIN v.sub
  PROVE  v.sub[k] \in Value /\ MmsValue_getElement(v, k) = v.sub[k]
<1>1. v.sub \in Seq(Value)
  BY ValueIs
<1>2. v.sub[k] \in Value
  BY <1>1, LenProperties, ElementOfSeq
<1> QED
  BY <1>2 DEF MmsValue_getElement

\* What the server sends are values.
LEMMA SentIs ==
  ASSUME NEW srv \in Servers, NEW i \in DOMAIN FCDA
  PROVE  ServerValue(i, srv) \in Value
<1>1. srv[i] \in Version \cup {"error"}
  BY DEF Servers
<1> QED
  BY <1>1, SclAssumption DEF ServerValue

\* Errors are leaves.
LEMMA ErrorSent ==
  ASSUME NEW srv \in Servers, NEW i \in DOMAIN FCDA, srv[i] = "error"
  PROVE  ServerValue(i, srv).typ \in Simple
<1>1. ServerValue(i, srv).typ = "DATA_ACCESS_ERROR"
  BY DEF ServerValue, ValueOf, Leaf
<1> QED
  BY <1>1 DEF Simple, OtherSimple

\* FCDAs on DO level are structures of the components that they select.
LEMMA StructSent ==
  ASSUME NEW srv \in Servers, NEW i \in DOMAIN FCDA, ~OnDALevel(FCDA[i]), srv[i] # "error"
  PROVE  /\ ServerValue(i, srv).typ = "STRUCTURE"
         /\ DOMAIN ServerValue(i, srv).sub = DOMAIN Selected[i]
<1> DEFINE s == [k \in DOMAIN Selected[i] |-> Selected[i][k].val[FCDA[i].fc][srv[i]]]
<1>1. ServerValue(i, srv) = Struct(s)
  BY DEF ServerValue, ValueOf
<1>2. DOMAIN s = DOMAIN Selected[i]
  OBVIOUS
<1> HIDE DEF s
<1>3. Struct(s).typ = "STRUCTURE" /\ Struct(s).sub = s
  BY DEF Struct
<1> QED
  BY <1>1, <1>2, <1>3

-----------------------------------------------------------------------------
(* The recursion of resolveValueInline                                     *)

\* Its recursive calls are for the elements of a structure.
LEMMA CallsLocal ==
  ASSUME NEW n \in DOMAIN Values, NEW v \in Values[n], NEW f, NEW g, NEW without,
         \A x \in Below(n - 1) : f[x] = g[x]
  PROVE  resolveValueInline(v, f, without) = resolveValueInline(v, g, without)
<1>1. CASE v.typ = "STRUCTURE"
  <2>1. v.typ \in Complex
    BY <1>1 DEF Complex
  <2>2. v.sub \in Seq(Below(n - 1))
    BY <2>1, SimpleIsNotComplex, ValuesAssumption DEF Below
  <2>3. \A i \in DOMAIN v.sub : f[v.sub[i]] = g[v.sub[i]]
    BY <2>2, LenProperties, ElementOfSeq
  <2>4. [i \in DOMAIN v.sub |-> f[v.sub[i]]] = [i \in DOMAIN v.sub |-> g[v.sub[i]]]
    BY <2>3
  <2> QED
    BY <1>1, <2>4 DEF resolveValueInline
<1>2. CASE v.typ # "STRUCTURE"
  BY <1>2 DEF resolveValueInline
<1> QED
  BY <1>1, <1>2

\* What the recursion gives satisfies its definition: by induction on the nesting,
\* there is a function on the values nested n deep that does.
LEMMA ResolvedIs ==
  ASSUME NEW without
  PROVE  \E r : /\ \A v : Resolved(v, without) = r[v]
                /\ \A v \in Value : r[v] = resolveValueInline(v, r, without)
<1> DEFINE r == CHOOSE f : f = [v \in Value |-> resolveValueInline(v, f, without)]
           N == Len(Values)
           P(n) == \E f : f = [v \in Below(n) |-> resolveValueInline(v, f, without)]
<1>1. \A v : Resolved(v, without) = r[v]
  BY Zenon DEF Resolved
<1>2. N \in Nat /\ DOMAIN Values = 1..N
  BY ValuesAssumption, LenProperties
<1>3. P(0)
  <2>1. Below(0) = {}
    BY DEF Below
  <2>2. [v \in Below(0) |-> 0] =
          [v \in Below(0) |-> resolveValueInline(v, [w \in Below(0) |-> 0], without)]
    BY <2>1
  <2> QED
    BY <2>2
<1>4. ASSUME NEW n \in Nat, n + 1 <= N, P(n) PROVE P(n + 1)
  <2>1. PICK f : f = [v \in Below(n) |-> resolveValueInline(v, f, without)]
    BY <1>4
  <2> DEFINE g == [v \in Below(n + 1) |-> resolveValueInline(v, f, without)]
  <2>2. \A v \in Below(n) : v \in Below(n + 1) /\ g[v] = f[v]
    <3>1. \A v \in Below(n) : v \in Below(n + 1)
      BY <1>4 DEF Below
    <3>2. \A v \in Below(n) : f[v] = resolveValueInline(v, f, without)
      BY <2>1
    <3> QED
      BY <3>1, <3>2
  <2>3. \A v \in Below(n + 1) : g[v] = resolveValueInline(v, f, without)
    OBVIOUS
  <2> HIDE DEF g
  <2>4. ASSUME NEW v \in Below(n + 1)
        PROVE  resolveValueInline(v, f, without) = resolveValueInline(v, g, without)
    <3>1. PICK k \in 1..(n + 1) : v \in Values[k]
      BY DEF Below
    <3>2. k \in DOMAIN Values
      BY <1>2, <1>4
    <3>3. \A x \in Below(k - 1) : x \in Below(n)
      BY <1>4 DEF Below
    <3>4. \A x \in Below(k - 1) : f[x] = g[x]
      BY <2>2, <3>3
    <3> QED
      BY <3>1, <3>2, <3>4, CallsLocal
  <2>5. g = [v \in Below(n + 1) |-> resolveValueInline(v, g, without)]
    BY <2>4 DEF g
  <2> QED
    BY <2>5
<1>5. P(N)
  <2> DEFINE T == {n \in Nat : n <= N /\ ~P(n)}
  <2> HIDE DEF P
  <2> SUFFICES ASSUME T # {} PROVE FALSE
    BY <1>2
  <2>1. PICK n \in T : \A k \in T : n <= k
    <3>1. T \subseteq Nat
      OBVIOUS
    <3> HIDE DEF T
    <3> QED
      BY <3>1, LeastNat
  <2>2. n \in Nat /\ n # 0 /\ n <= N /\ ~P(n)
    BY <1>3, <2>1
  <2>3. n - 1 \in Nat /\ (n - 1) + 1 = n /\ n - 1 \notin T
    BY <2>1, <2>2
  <2>4. P(n - 1)
    BY <1>2, <2>2, <2>3
  <2>5. P((n - 1) + 1)
    BY <1>4, <2>2, <2>3, <2>4
  <2> QED
    BY <2>2, <2>3, <2>5
<1>6. Below(N) = Value
  BY <1>2 DEF Below, Value
<1>7. r = [v \in Value |-> resolveValueInline(v, r, without)]
  BY <1>5, <1>6
<1> HIDE DEF r
<1>8. \A v \in Value : r[v] = resolveValueInline(v, r, without)
  BY <1>7
<1> QED
  BY <1>1, <1>8

\* What a structure and an array are resolved to.
LEMMA ListResolved ==
  ASSUME NEW v \in Value, v.typ \in Complex, NEW without
  PROVE  LET g == Resolved(v, without)
         IN  /\ IsList(g)
             /\ v.typ = "ARRAY" => DOMAIN g.list = {}
             /\ v.typ = "STRUCTURE" => /\ DOMAIN g.list = DOMAIN v.sub
                                       /\ \A k \in DOMAIN v.sub : g.list[k] = Resolved(v.sub[k], without)
<1>1. PICK r : /\ \A x : Resolved(x, without) = r[x]
               /\ \A x \in Value : r[x] = resolveValueInline(x, r, without)
  BY ResolvedIs
<1> DEFINE l == [k \in DOMAIN v.sub |-> r[v.sub[k]]]
<1>2. Resolved(v, without) = resolveValueInline(v, r, without)
  BY <1>1
<1>3. v.typ = "STRUCTURE" \/ v.typ = "ARRAY"
  BY DEF Complex
<1>4. DOMAIN l = DOMAIN v.sub /\ \A k \in DOMAIN v.sub : l[k] = Resolved(v.sub[k], without)
  BY <1>1
<1>5. \A x : IsList([list |-> x]) /\ [list |-> x].list = x
  BY DEF IsList
<1>6. CASE v.typ = "STRUCTURE"
  <2>1. resolveValueInline(v, r, without) = [list |-> l]
    BY <1>6 DEF resolveValueInline
  <2> HIDE DEF l
  <2> QED
    BY <1>2, <1>4, <1>5, <1>6, <2>1
<1>7. CASE v.typ = "ARRAY"
  <2>1. resolveValueInline(v, r, without) = [list |-> << >>]
    BY <1>7 DEF resolveValueInline
  <2>2. DOMAIN << >> = {}
    OBVIOUS
  <2> QED
    BY <1>2, <1>5, <1>7, <2>1, <2>2
<1> QED
  BY <1>3, <1>6, <1>7

\* What a leaf is resolved to is no list, and has the content of the leaf.
LEMMA LeafResolved ==
  ASSUME NEW v \in Value, v.typ \in Simple
  PROVE  /\ ~IsList(Resolved(v, withoutTimestamps))
         /\ Content(Resolved(v, withoutTimestamps)) = ContentOf(v)
         /\ Content(extractPrimitive(v)) = ContentOf(v)
<1>1. v.typ \in Simple /\ v.typ # "STRUCTURE"
  BY SimpleIsNotComplex DEF Complex
<1>2. PICK r : /\ \A x : Resolved(x, withoutTimestamps) = r[x]
               /\ \A x \in Value : r[x] = resolveValueInline(x, r, withoutTimestamps)
  BY ResolvedIs
<1>3. Resolved(v, withoutTimestamps) = resolveValueInline(v, r, withoutTimestamps)
  BY <1>1, <1>2
<1>4. \A t, x : ~IsList(GoValue(t, x)) /\ Content(GoValue(t, x)) = x
  BY DEF GoValue, IsList, Content
<1> HIDE DEF Resolved
<1>5. /\ ~IsList(resolveValueInline(v, r, withoutTimestamps))
      /\ Content(resolveValueInline(v, r, withoutTimestamps)) = ContentOf(v)
  BY <1>1, <1>4 DEF resolveValueInline, ContentOf, nil, Simple, IntegerCoded, Strings, OtherSimple
<1>6. Content(extractPrimitive(v)) = ContentOf(v)
  BY <1>1, <1>4
     DEF extractPrimitive, ContentOf, nil, Simple, IntegerCoded, Strings, OtherSimple
<1> QED
  BY <1>3, <1>5, <1>6

\* extractPrimitive never gives a list, and nothing for structures and arrays.
LEMMA PrimitiveIs ==
  ASSUME NEW v
  PROVE  /\ ~IsList(extractPrimitive(v))
         /\ v.typ \in Complex => extractPrimitive(v) = nil
<1>1. \A t, x : ~IsList(GoValue(t, x))
  BY DEF GoValue, IsList
<1>2. ~IsList(extractPrimitive(v))
  BY <1>1 DEF extractPrimitive, nil
<1>3. v.typ \in Complex => extractPrimitive(v) = nil
  BY DEF extractPrimitive, Complex
<1> QED
  BY <1>2, <1>3

-----------------------------------------------------------------------------
(* What the two ways of reading give for a leaf of the schema               *)

\* What ApplySchema makes of the Go value of a component, and ReadDataSetFlat of
\* the C value.
UnwrappedGo(g) == IF IsList(g) /\ DOMAIN g.list = {1} THEN g.list[1] ELSE g
UnwrappedC(v) ==
  IF v # NULL /\ v.typ = "STRUCTURE" /\ MmsValue_getElement(v, 1) # NULL
  THEN MmsValue_getElement(v, 1) ELSE v

\* Of a value as a whole, both give the same, or ReadDataSetFlat gives nothing.
LEMMA WholeAlike ==
  ASSUME NEW v \in Value
  PROVE  LET g == Resolved(v, withoutTimestamps)
             f == extractPrimitive(v)
         IN  /\ FoundAs(g, v) /\ FoundAs(f, v)
             /\ IF IsList(g) THEN f = nil ELSE Content(f) = Content(g)
<1>1. CASE v.typ \in Simple
  BY <1>1, LeafResolved DEF FoundAs
<1>2. CASE v.typ \in Complex
  BY <1>2, ListResolved, PrimitiveIs, SimpleIsNotComplex DEF FoundAs
<1> QED
  BY <1>1, <1>2, ValueIs

\* ApplySchema unwraps a structure of one element.
LEMMA GoUnwrapped ==
  ASSUME NEW v \in Value
  PROVE  /\ OnlyElement(v) \in Value
         /\ UnwrappedGo(Resolved(v, withoutTimestamps)) = Resolved(OnlyElement(v), withoutTimestamps)
<1> DEFINE g == Resolved(v, withoutTimestamps)
<1>1. CASE v.typ \in Simple
  <2>1. OnlyElement(v) = v
    BY <1>1, SimpleIsNotComplex DEF OnlyElement, Complex
  <2> HIDE DEF Resolved
  <2> QED
    BY <1>1, <2>1, LeafResolved DEF UnwrappedGo
<1>2. CASE v.typ = "ARRAY"
  <2>1. v.typ \in Complex
    BY <1>2 DEF Complex
  <2>2. OnlyElement(v) = v
    BY <1>2 DEF OnlyElement
  <2>3. DOMAIN g.list = {}
    BY <1>2, <2>1, ListResolved
  <2> HIDE DEF g
  <2>4. UnwrappedGo(g) = g
    BY <2>3 DEF UnwrappedGo
  <2> QED
    BY <2>2, <2>4 DEF g
<1>3. CASE v.typ = "STRUCTURE"
  <2>1. v.typ \in Complex
    BY <1>3 DEF Complex
  <2>2. /\ IsList(g) /\ DOMAIN g.list = DOMAIN v.sub
        /\ \A k \in DOMAIN v.sub : g.list[k] = Resolved(v.sub[k], withoutTimestamps)
    BY <1>3, <2>1, ListResolved
  <2>3. \A k \in DOMAIN v.sub : v.sub[k] \in Value
    BY <2>1, ElementIs
  <2> HIDE DEF g
  <2>4. CASE DOMAIN v.sub = {1}
    <3>1. 1 \in DOMAIN v.sub /\ OnlyElement(v) = v.sub[1]
      BY <1>3, <2>4 DEF OnlyElement
    <3>2. UnwrappedGo(g) = g.list[1]
      BY <2>2, <2>4 DEF UnwrappedGo
    <3> QED
      BY <2>2, <2>3, <3>1, <3>2 DEF g
  <2>5. CASE DOMAIN v.sub # {1}
    <3>1. OnlyElement(v) = v
      BY <2>5 DEF OnlyElement
    <3>2. UnwrappedGo(g) = g
      BY <2>2, <2>5 DEF UnwrappedGo
    <3> QED
      BY <3>1, <3>2 DEF g
  <2> QED
    BY <2>4, <2>5
<1>4. v.typ \in Simple \/ v.typ = "ARRAY" \/ v.typ = "STRUCTURE"
  BY ValueIs DEF Complex
<1> QED
  BY <1>1, <1>2, <1>3, <1>4

\* ReadDataSetFlat unwraps any structure that has an element; what it gives then is
\* alike and is found as it should.
LEMMA CUnwrapped ==
  ASSUME NEW v \in Value
  PROVE  /\ UnwrappedC(v) # NULL
         /\ FoundAs(extractPrimitive(UnwrappedC(v)), OnlyElement(v))
         /\ Alike(extractPrimitive(UnwrappedC(v)), UnwrappedGo(Resolved(v, withoutTimestamps)))
<1> DEFINE w == UnwrappedC(v)
           o == OnlyElement(v)
           g == Resolved(v, withoutTimestamps)
<1>1. v # NULL
  BY ValueIs
<1>2. o \in Value /\ UnwrappedGo(g) = Resolved(o, withoutTimestamps)
  BY GoUnwrapped
<1>3. ASSUME w = o PROVE w # NULL /\ FoundAs(extractPrimitive(w), o) /\ Alike(extractPrimitive(w), UnwrappedGo(g))
  <2> HIDE DEF w, o, g
  <2>1. o # NULL
    BY <1>2, ValueIs
  <2> QED
    BY <1>2, <1>3, <2>1, WholeAlike DEF Alike
<1>4. CASE v.typ # "STRUCTURE"
  <2>1. w = v /\ o = v
    BY <1>4 DEF UnwrappedC, OnlyElement
  <2> QED
    BY <1>3, <2>1
<1>5. CASE v.typ = "STRUCTURE"
  <2>1. v.typ \in Complex
    BY <1>5 DEF Complex
  <2>2. CASE DOMAIN v.sub = {1}
    <3>1. 1 \in DOMAIN v.sub /\ o = v.sub[1]
      BY <1>5, <2>2 DEF OnlyElement
    <3>2. MmsValue_getElement(v, 1) = v.sub[1] /\ v.sub[1] \in Value
      BY <2>1, <3>1, ElementIs
    <3>3. v.sub[1] # NULL
      BY <3>2, ValueIs
    <3>4. w = v.sub[1]
      BY <1>1, <1>5, <3>2, <3>3 DEF UnwrappedC
    <3> QED
      BY <1>3, <3>1, <3>4
  <2>3. CASE 1 \notin DOMAIN v.sub
    <3>1. MmsValue_getElement(v, 1) = NULL
      BY <2>3 DEF MmsValue_getElement
    <3>2. w = v
      BY <3>1 DEF UnwrappedC
    <3>3. o = v
      BY <2>3 DEF OnlyElement
    <3> QED
      BY <1>3, <3>2, <3>3
  <2>4. CASE 1 \in DOMAIN v.sub /\ DOMAIN v.sub # {1}
    <3> DEFINE e == v.sub[1]
    <3>1. MmsValue_getElement(v, 1) = e /\ e \in Value
      BY <2>1, <2>4, ElementIs
    <3>2. e # NULL
      BY <3>1, ValueIs
    <3>3. w = e
      BY <1>1, <1>5, <3>1, <3>2 DEF UnwrappedC
    <3>4. o = v
      BY <2>4 DEF OnlyElement
    <3>5. /\ IsList(g) /\ DOMAIN g.list = DOMAIN v.sub
          /\ g.list[1] = Resolved(e, withoutTimestamps)
      BY <1>5, <2>1, <2>4, ListResolved
    <3>6. UnwrappedGo(g) = g
      BY <2>4, <3>5 DEF UnwrappedGo
    <3> HIDE DEF e, g, w, o
    <3>7. IF IsList(g.list[1]) THEN extractPrimitive(w) = nil
          ELSE Content(extractPrimitive(w)) = Content(g.list[1])
      BY <3>1, <3>3, <3>5, WholeAlike
    <3>8. Alike(extractPrimitive(w), g)
      BY <2>4, <3>5, <3>7 DEF Alike
    <3>9. FoundAs(extractPrimitive(w), o)
      BY <2>1, <3>4, PrimitiveIs, SimpleIsNotComplex DEF FoundAs
    <3> QED
      BY <3>2, <3>3, <3>6, <3>8, <3>9 DEF w, o, g
  <2> QED
    BY <2>2, <2>3, <2>4
<1> QED
  BY <1>4, <1>5

\* Both ways of reading give something for x, alike, and what v should be found as.
BothRead(x, srv, v) ==
  LET g == Applied(ValuesRead(srv), x)
      f == extractPrimitive(FlatTarget(x, srv))
  IN  /\ HasValue(ValuesRead(srv), x) /\ FlatTarget(x, srv) # NULL
      /\ FoundAs(g, v) /\ FoundAs(f, v)
      /\ Alike(f, g)

\* An FCDA on DA level is read in both ways, errors included.
LEMMA WholeRead ==
  ASSUME NEW srv \in Servers, NEW x, x.fcda \in DOMAIN FCDA, x.da = 0
  PROVE  BothRead(x, srv, ServerValue(x.fcda, srv))
<1> DEFINE i == x.fcda
           v == ServerValue(i, srv)
<1>1. v \in Value
  BY SentIs
<1>2. DOMAIN ValuesRead(srv) = DOMAIN FCDA /\ ValuesRead(srv)[i] = Resolved(v, withoutTimestamps)
  BY DEF ValuesRead
<1>3. FlatTarget(x, srv) = v
  BY DEF FlatTarget
<1>4. Applied(ValuesRead(srv), x) = Resolved(v, withoutTimestamps)
  BY <1>2 DEF Applied
<1>5. v # NULL
  BY <1>1, ValueIs
<1>6. HasValue(ValuesRead(srv), x)
  BY <1>2 DEF HasValue
<1> HIDE DEF v
<1>7. Alike(extractPrimitive(v), Resolved(v, withoutTimestamps))
  BY <1>1, WholeAlike DEF Alike
<1> QED
  BY <1>1, <1>3, <1>4, <1>5, <1>6, <1>7, WholeAlike DEF BothRead, v

\* A component of an FCDA on DO level that the server sends is read in both ways.
LEMMA ComponentRead ==
  ASSUME NEW srv \in Servers, NEW x, x.fcda \in DOMAIN FCDA, x.da # 0,
         ~OnDALevel(FCDA[x.fcda]), srv[x.fcda] # "error", x.da \in DOMAIN Selected[x.fcda]
  PROVE  BothRead(x, srv, OnlyElement(ServerValue(x.fcda, srv).sub[x.da]))
<1> DEFINE i == x.fcda
           k == x.da
           top == ServerValue(i, srv)
           v == top.sub[k]
           g == Resolved(top, withoutTimestamps)
<1>1. top \in Value /\ top.typ = "STRUCTURE" /\ top.typ \in Complex /\ k \in DOMAIN top.sub
  BY SentIs, StructSent DEF Complex
<1>2. v \in Value /\ MmsValue_getElement(top, k) = v
  BY <1>1, ElementIs
<1>3. IsList(g) /\ k \in DOMAIN g.list /\ g.list[k] = Resolved(v, withoutTimestamps)
  BY <1>1, ListResolved
<1>4. i \in DOMAIN ValuesRead(srv) /\ ValuesRead(srv)[i] = g
  BY DEF ValuesRead
<1> HIDE DEF g
<1>5. HasValue(ValuesRead(srv), x)
  BY <1>3, <1>4 DEF HasValue
<1>6. Applied(ValuesRead(srv), x) = UnwrappedGo(Resolved(v, withoutTimestamps))
  BY <1>3, <1>4 DEF Applied, UnwrappedGo
<1>7. FlatTarget(x, srv) = UnwrappedC(v)
  BY <1>2 DEF FlatTarget, UnwrappedC, top
<1> HIDE DEF v
<1>8. FoundAs(UnwrappedGo(Resolved(v, withoutTimestamps)), OnlyElement(v))
  BY <1>2, GoUnwrapped, WholeAlike
<1> QED
  BY <1>2, <1>5, <1>6, <1>7, <1>8, CUnwrapped DEF BothRead, v, top

\* Neither way of reading has a value for other leaves.
LEMMA NothingRead ==
  ASSUME NEW srv \in Servers, NEW x, x.fcda \in DOMAIN FCDA, x.da # 0,
         ~OnDALevel(FCDA[x.fcda]),
         srv[x.fcda] = "error" \/ x.da \notin DOMAIN Selected[x.fcda]
  PROVE  ~HasValue(ValuesRead(srv), x) /\ FlatTarget(x, srv) = NULL
<1> DEFINE i == x.fcda
           k == x.da
           top == ServerValue(i, srv)
           g == Resolved(top, withoutTimestamps)
<1>1. DOMAIN ValuesRead(srv) = DOMAIN FCDA /\ ValuesRead(srv)[i] = g
  BY DEF ValuesRead
<1>2. top \in Value
  BY SentIs
<1>3. CASE srv[i] = "error"
  <2>1. top.typ \in Simple /\ top.typ \notin Complex
    BY <1>3, ErrorSent, SimpleIsNotComplex
  <2>2. FlatTarget(x, srv) = NULL
    BY <2>1 DEF FlatTarget, MmsValue_getElement
  <2>3. ~IsList(g)
    <3> HIDE DEF top
    <3> QED
      BY <1>2, <2>1, LeafResolved
  <2> QED
    BY <1>1, <2>2, <2>3 DEF HasValue
<1>4. CASE srv[i] # "error"
  <2>1. top.typ = "STRUCTURE" /\ top.typ \in Complex /\ k \notin DOMAIN top.sub
    BY <1>4, StructSent DEF Complex
  <2>2. FlatTarget(x, srv) = NULL
    BY <2>1 DEF FlatTarget, MmsValue_getElement
  <2>3. k \notin DOMAIN g.list
    <3> HIDE DEF top
    <3> QED
      BY <1>2, <2>1, ListResolved
  <2> HIDE DEF g
  <2> QED
    BY <1>1, <2>2, <2>3 DEF HasValue
<1> QED
  BY <1>3, <1>4

-----------------------------------------------------------------------------
(* Schemas                                                                 *)

\* The leaves of FCDA i if GetDOType looks the type up, and the whole schema.
FoundLeaves(i) ==
  LET f == FCDA[i]
      das == WithFC(DAs(FindDOType(f)), {f.fc})
  IN  IF OnDALevel(f) THEN {WholeLeaf(i)} ELSE {LeafOf(i, das[k], k) : k \in DOMAIN das}

FoundSchema == UNION {FoundLeaves(i) : i \in DOMAIN FCDA}

\* Leaves are numbered, those of an FCDA up to a bound.
LEMMA LeavesAre ==
  /\ \A x \in FoundSchema :
       /\ x.fcda \in DOMAIN FCDA
       /\ x.da \in Nat
       /\ x.da = 0 <=> OnDALevel(FCDA[x.fcda])
  /\ \A i \in DOMAIN FCDA : \E c \in Nat : \A x \in FoundSchema : x.fcda = i => x.da <= c
<1>1. ASSUME NEW i \in DOMAIN FCDA
      PROVE  \E c \in Nat : \A x \in FoundLeaves(i) :
               /\ x.fcda = i
               /\ x.da \in 0..c
               /\ x.da = 0 <=> OnDALevel(FCDA[i])
  <2>1. CASE OnDALevel(FCDA[i])
    <3>1. FoundLeaves(i) = {WholeLeaf(i)}
      BY <2>1 DEF FoundLeaves
    <3>2. WholeLeaf(i).fcda = i /\ WholeLeaf(i).da = 0
      BY DEF WholeLeaf
    <3>3. \A x \in FoundLeaves(i) : x.fcda = i /\ x.da \in 0..0 /\ x.da = 0
      BY <3>1, <3>2
    <3> QED
      BY <2>1, <3>3
  <2>2. CASE ~OnDALevel(FCDA[i])
    <3> DEFINE das == WithFC(DAs(FindDOType(FCDA[i])), {FCDA[i].fc})
               n == Len(das)
    <3>1. FoundLeaves(i) = {LeafOf(i, das[k], k) : k \in DOMAIN das}
      BY <2>2 DEF FoundLeaves
    <3>2. das \in Seq(Component)
      BY DAsAre, WithFCIsSeq
    <3> HIDE DEF das
    <3>3. DOMAIN das = 1..n /\ n \in Nat
      BY <3>2, LenProperties
    <3> HIDE DEF n
    <3>4. \A x \in FoundLeaves(i) : x.fcda = i /\ x.da \in 0..n /\ x.da # 0
      BY <3>1, <3>3 DEF LeafOf
    <3> QED
      BY <2>2, <3>3, <3>4
  <2> QED
    BY <2>1, <2>2
<1>2. ASSUME NEW x \in FoundSchema
      PROVE  /\ x.fcda \in DOMAIN FCDA /\ x \in FoundLeaves(x.fcda)
             /\ x.da \in Nat
             /\ x.da = 0 <=> OnDALevel(FCDA[x.fcda])
  <2>1. PICK i \in DOMAIN FCDA : x \in FoundLeaves(i)
    BY DEF FoundSchema
  <2>2. PICK c \in Nat : \A z \in FoundLeaves(i) :
          z.fcda = i /\ z.da \in 0..c /\ (z.da = 0 <=> OnDALevel(FCDA[i]))
    BY <1>1
  <2>3. x.fcda = i /\ x.da \in 0..c /\ (x.da = 0 <=> OnDALevel(FCDA[i]))
    BY <2>1, <2>2
  <2>4. x.da \in Nat
    <3> DEFINE k == x.da
    <3>1. k \in 0..c
      BY <2>1, <2>2
    <3> HIDE DEF k
    <3>2. k \in Nat
      BY <3>1
    <3> QED
      BY <3>2 DEF k
  <2>5. i = x.fcda
    BY <2>3
  <2> QED
    BY <2>1, <2>3, <2>4, <2>5, Zenon
<1>3. ASSUME NEW i \in DOMAIN FCDA
      PROVE  \E c \in Nat : \A x \in FoundSchema : x.fcda = i => x.da <= c
  <2>1. PICK c \in Nat : \A x \in FoundLeaves(i) : x.da \in 0..c
    BY <1>1
  <2>2. ASSUME NEW x \in FoundSchema, x.fcda = i PROVE x.da <= c
    <3>1. x \in FoundLeaves(i)
      BY <1>2, <2>2
    <3>2. x.da \in 0..c
      BY <2>1, <3>1
    <3> QED
      BY <3>2
  <2> QED
    BY <2>2
<1> QED
  BY <1>2, <1>3

\* Of the leaves with a path, one is the last.
LEMMA LastLeafIs ==
  ASSUME NEW L, L \subseteq FoundSchema, NEW y \in L
  PROVE  LastLeaf(L, y.path) \in L /\ LastLeaf(L, y.path).path = y.path
<1> DEFINE p == y.path
           b == Len(FCDA)
           T == {x.fcda : x \in {z \in L : z.path = p}}
<1>1. DOMAIN FCDA = 1..b /\ b \in Nat
  BY SclAssumption, LenProperties
<1>2. \A x \in L : x.fcda \in DOMAIN FCDA /\ x.da \in Nat
  BY LeavesAre
<1> HIDE DEF b
<1>3. PICK m \in T : \A k \in T : k <= m
  <2>1. T \subseteq 0..b /\ T # {}
    BY <1>1, <1>2
  <2> HIDE DEF T
  <2> QED
    BY <1>1, <2>1, GreatestNat
<1> DEFINE U == {x.da : x \in {z \in L : z.path = p /\ z.fcda = m}}
<1>4. m \in DOMAIN FCDA /\ U # {}
  BY <1>2, <1>3
<1>5. PICK c \in Nat : \A x \in FoundSchema : x.fcda = m => x.da <= c
  BY <1>4, LeavesAre
<1>6. PICK d \in U : \A k \in U : k <= d
  <2>1. U \subseteq 0..c
    BY <1>2, <1>5
  <2> HIDE DEF U
  <2> QED
    BY <1>4, <2>1, GreatestNat
<1>7. PICK x \in L : x.path = p /\ x.fcda = m /\ x.da = d
  BY <1>6
<1>8. ASSUME NEW z \in L, z.path = p PROVE ~Before(x, z)
  <2>1. z.fcda \in T /\ z.fcda \in Nat /\ z.da \in Nat /\ x.fcda \in Nat /\ x.da \in Nat
    BY <1>1, <1>2, <1>8
  <2>2. z.fcda <= m
    BY <1>3, <2>1
  <2>3. z.fcda = m => z.da <= d
    BY <1>6, <1>8
  <2> HIDE DEF T, U
  <2> QED
    BY <1>7, <2>1, <2>2, <2>3 DEF Before
<1>9. \E w \in L : w.path = p /\ \A z \in L : z.path = p => ~Before(w, z)
  BY <1>7, <1>8
<1> HIDE DEF p
<1>10. LastLeaf(L, p) \in L /\ LastLeaf(L, p).path = p
  BY <1>9 DEF LastLeaf
<1> QED
  BY <1>10 DEF p

\* The two ways of reading give alike for each leaf.
LEMMA LeafAlike ==
  ASSUME NEW srv \in Servers, NEW x \in FoundSchema
  PROVE  /\ HasValue(ValuesRead(srv), x) <=> FlatTarget(x, srv) # NULL
         /\ HasValue(ValuesRead(srv), x) =>
              Alike(extractPrimitive(FlatTarget(x, srv)), Applied(ValuesRead(srv), x))
<1>1. x.fcda \in DOMAIN FCDA /\ (x.da = 0 <=> OnDALevel(FCDA[x.fcda]))
  BY LeavesAre
<1>2. CASE x.da = 0
  BY <1>1, <1>2, WholeRead DEF BothRead
<1>3. CASE x.da # 0 /\ srv[x.fcda] # "error" /\ x.da \in DOMAIN Selected[x.fcda]
  BY <1>1, <1>3, ComponentRead DEF BothRead
<1>4. CASE x.da # 0 /\ (srv[x.fcda] = "error" \/ x.da \notin DOMAIN Selected[x.fcda])
  BY <1>1, <1>4, NothingRead
<1> QED
  BY <1>2, <1>3, <1>4

\* So they fill a map alike.
LEMMA MapsAlike ==
  ASSUME NEW srv \in Servers
  PROVE  LET flat == FlatReadTo(<< >>, FoundSchema, srv)
             applied == AppliedTo(<< >>, FoundSchema, ValuesRead(srv))
         IN  /\ DOMAIN flat = DOMAIN applied
             /\ \A p \in DOMAIN flat : Alike(flat[p], applied[p])
<1> DEFINE flat == FlatReadTo(<< >>, FoundSchema, srv)
           applied == AppliedTo(<< >>, FoundSchema, ValuesRead(srv))
           L == {x \in FoundSchema : HasValue(ValuesRead(srv), x)}
           M == {x \in FoundSchema : FlatTarget(x, srv) # NULL}
           P == {x.path : x \in L}
<1>1. L = M
  BY LeafAlike
<1>2. applied = [p \in P |-> Applied(ValuesRead(srv), LastLeaf(L, p))]
  BY DEF AppliedTo, Assign
<1>3. flat = [p \in P |-> extractPrimitive(FlatTarget(LastLeaf(L, p), srv))]
  <2>1. flat = [p \in {x.path : x \in M} |-> extractPrimitive(FlatTarget(LastLeaf(M, p), srv))]
    BY DEF FlatReadTo, Assign
  <2> HIDE DEF flat, L, M
  <2> QED
    BY <1>1, <2>1
<1>4. ASSUME NEW p \in P PROVE LastLeaf(L, p) \in L
  <2>1. PICK y \in L : p = y.path
    BY <1>4
  <2>2. L \subseteq FoundSchema
    OBVIOUS
  <2> HIDE DEF L
  <2> QED
    BY <2>1, <2>2, LastLeafIs
<1>5. \A x \in L : x \in FoundSchema /\ HasValue(ValuesRead(srv), x)
  OBVIOUS
<1> HIDE DEF L, P, flat, applied
<1>6. ASSUME NEW p \in P PROVE Alike(flat[p], applied[p])
  BY <1>2, <1>3, <1>4, <1>5, <1>6, LeafAlike
<1> QED
  BY <1>2, <1>3, <1>6 DEF flat, applied

-----------------------------------------------------------------------------
(* The inductive invariant                                                 *)

Types == server \in Servers /\ withoutTimestamps \in BOOLEAN

\* The cache of GetDOType gives what would be found without it.
CacheInv ==
  \A i \in DOMAIN FCDA :
    Key(FCDA[i]) \in DOMAIN doTypes => doTypes[Key(FCDA[i])] = FindDOType(FCDA[i])

SchemaInv == schema # NULL => schema = FoundSchema

ValuesInv == values # NULL => seen \in Servers /\ values = ValuesRead(seen)

ReadInv == read # NULL => read \in Servers

IInv == Types /\ CacheInv /\ SchemaInv /\ ValuesInv /\ ReadInv

\* Entries with one key have one type.
LEMMA KeyDetermines ==
  ASSUME NEW i \in DOMAIN FCDA, NEW j \in DOMAIN FCDA, Key(FCDA[i]) = Key(FCDA[j])
  PROVE  FindDOType(FCDA[i]) = FindDOType(FCDA[j])
<1>1. FCDA[i].lnId = FCDA[j].lnId /\ FCDA[i].do = FCDA[j].do
  BY DEF Key
<1>2. FCDA[i].lnClass = FCDA[j].lnClass
  BY <1>1, SclAssumption
<1> DEFINE k(a, b) == FirstOf({x \in DOMAIN LNodeType :
                                 LNodeType[x].id = a \/ LNodeType[x].lnClass = b})
           d(n, c) == IF n = 0 THEN 0
                      ELSE FirstOf({x \in DOMAIN LNodeType[n].do : LNodeType[n].do[x].name = c})
           t(n, m) == IF m = 0 THEN 0
                      ELSE FirstOf({x \in DOMAIN DOType : DOType[x].id = LNodeType[n].do[m].type})
           Found(a, b, c) == t(k(a, b), d(k(a, b), c))
<1>3. \A f : FindDOType(f) = Found(f.lnId, f.lnClass, f.do)
  BY Zenon DEF FindDOType
<1> HIDE DEF Found
<1> QED
  BY <1>1, <1>2, <1>3

\* GetDOType gives what would be found without the cache.
LEMMA GetIsFind ==
  ASSUME CacheInv, NEW i \in DOMAIN FCDA
  PROVE  GetDOType(FCDA[i]) = FindDOType(FCDA[i])
BY DEF CacheInv, GetDOType

\* Lookups leave the cache that way.
LEMMA CacheStep ==
  ASSUME NEW I \in SUBSET DOMAIN FCDA, CacheInv, doTypes' = CacheAfter(I)
  PROVE  CacheInv'
<1> SUFFICES ASSUME NEW i \in DOMAIN FCDA, Key(FCDA[i]) \in DOMAIN doTypes'
             PROVE  doTypes'[Key(FCDA[i])] = FindDOType(FCDA[i])
  BY DEF CacheInv
<1> DEFINE found == {j \in I : FindDOType(FCDA[j]) # 0}
           keys == {Key(FCDA[j]) : j \in found}
           new(k) == FindDOType(FCDA[CHOOSE j \in found : Key(FCDA[j]) = k])
           key == Key(FCDA[i])
<1>1. doTypes' = [k \in DOMAIN doTypes \cup keys |->
                    IF k \in DOMAIN doTypes THEN doTypes[k] ELSE new(k)]
  BY DEF CacheAfter
<1>2. \A k \in keys : \E j \in found : Key(FCDA[j]) = k
  OBVIOUS
<1>3. ASSUME key \in keys PROVE new(key) = FindDOType(FCDA[i])
  <2> DEFINE c == CHOOSE j \in found : Key(FCDA[j]) = key
  <2>1. c \in found /\ Key(FCDA[c]) = key
    BY <1>2, <1>3
  <2>2. new(key) = FindDOType(FCDA[c])
    OBVIOUS
  <2>3. found \subseteq DOMAIN FCDA
    OBVIOUS
  <2> HIDE DEF c, found, keys, new
  <2>4. c \in DOMAIN FCDA /\ Key(FCDA[c]) = Key(FCDA[i])
    BY <2>1, <2>3
  <2> QED
    BY <2>2, <2>4, KeyDetermines
<1> HIDE DEF found, keys, new
<1>4. CASE key \in DOMAIN doTypes
  BY <1>1, <1>4 DEF CacheInv
<1>5. CASE key \notin DOMAIN doTypes
  BY <1>1, <1>3, <1>5
<1> QED
  BY <1>4, <1>5

\* A schema is what FoundSchema says.
LEMMA SchemaIs == CacheInv => BuiltSchema = FoundSchema
<1> SUFFICES ASSUME CacheInv PROVE BuiltSchema = FoundSchema
  OBVIOUS
<1>1. \A i \in DOMAIN FCDA : LeavesOf(i) = FoundLeaves(i)
  BY GetIsFind DEF LeavesOf, FoundLeaves
<1> QED
  BY <1>1 DEF BuiltSchema, FoundSchema

\* The application starts with nothing read.
LEMMA InitIInv == Init => IInv
<1> SUFFICES ASSUME Init PROVE IInv
  OBVIOUS
<1>1. Types
  BY DEF Init, Types, Servers
<1>2. CacheInv
  BY DEF Init, CacheInv
<1>3. SchemaInv /\ ValuesInv /\ ReadInv
  BY DEF Init, SchemaInv, ValuesInv, ReadInv
<1> QED
  BY <1>1, <1>2, <1>3 DEF IInv

\* Every step keeps it.
LEMMA NextIInv == IInv /\ [Next]_vars => IInv'
<1> SUFFICES ASSUME IInv, [Next]_vars PROVE IInv'
  OBVIOUS
<1>1. UNCHANGED withoutTimestamps
  BY DEF Next, vars, ServerChanges, BuildDataSetSchema, ReadDataSetValues, ApplySchema,
         ReadDataSetFlat, ClearOut, ExplainDataSetValues
<1>2. \A srv : ValuesRead(srv)' = ValuesRead(srv)
  BY <1>1 DEF ValuesRead
<1>3. ASSUME UNCHANGED server PROVE Types'
  BY <1>1, <1>3 DEF IInv, Types
<1>4. ASSUME UNCHANGED doTypes PROVE CacheInv'
  BY <1>4 DEF IInv, CacheInv
<1>5. ASSUME UNCHANGED schema PROVE SchemaInv'
  BY <1>5 DEF IInv, SchemaInv
<1>6. ASSUME UNCHANGED <<values, seen>> PROVE ValuesInv'
  BY <1>1, <1>2, <1>6 DEF IInv, ValuesInv, ValuesRead
<1>7. ASSUME UNCHANGED read PROVE ReadInv'
  BY <1>7 DEF IInv, ReadInv
<1>8. ASSUME NEW i \in DOMAIN FCDA, ServerChanges(i) PROVE IInv'
  <2>1. PICK v \in Version \cup {"error"} : server' = [server EXCEPT ![i] = v]
    BY <1>8 DEF ServerChanges
  <2>2. Types'
    BY <1>1, <2>1 DEF IInv, Types, Servers
  <2> QED
    BY <1>4, <1>5, <1>6, <1>7, <1>8, <2>2 DEF ServerChanges, IInv
<1>9. CASE BuildDataSetSchema
  <2>1. schema' = FoundSchema
    BY <1>9, SchemaIs DEF BuildDataSetSchema, IInv
  <2>2. CacheInv'
    BY <1>9, CacheStep DEF BuildDataSetSchema, IInv, OnDOLevel
  <2>3. SchemaInv'
    BY <2>1 DEF SchemaInv
  <2> QED
    BY <1>3, <1>6, <1>7, <1>9, <2>2, <2>3 DEF BuildDataSetSchema, IInv
<1>10. CASE ReadDataSetValues
  <2>1. values' = ValuesRead(seen)' /\ seen' \in Servers
    BY <1>1, <1>2, <1>10 DEF ReadDataSetValues, ValuesRead, IInv, Types
  <2>2. ValuesInv'
    BY <2>1 DEF ValuesInv
  <2> QED
    BY <1>3, <1>4, <1>5, <1>7, <1>10, <2>2 DEF ReadDataSetValues, IInv
<1>11. CASE ApplySchema
  <2>1. ReadInv'
    BY <1>11 DEF ApplySchema, IInv, ValuesInv, ReadInv
  <2> QED
    BY <1>3, <1>4, <1>5, <1>6, <1>11, <2>1 DEF ApplySchema, IInv
<1>12. CASE ReadDataSetFlat
  <2>1. ReadInv'
    BY <1>12 DEF ReadDataSetFlat, IInv, Types, ReadInv
  <2> QED
    BY <1>3, <1>4, <1>5, <1>6, <1>12, <2>1 DEF ReadDataSetFlat, IInv
<1>13. CASE ClearOut
  <2>1. ReadInv'
    BY <1>13 DEF ClearOut, ReadInv
  <2> QED
    BY <1>3, <1>4, <1>5, <1>6, <1>13, <2>1 DEF ClearOut, IInv
<1>14. CASE ExplainDataSetValues
  <2>1. CacheInv'
    BY <1>14, CacheStep DEF ExplainDataSetValues, IInv, OnDOLevel
  <2> QED
    BY <1>3, <1>5, <1>6, <1>7, <1>14, <2>1 DEF ExplainDataSetValues, IInv
<1>15. CASE UNCHANGED vars
  BY <1>3, <1>4, <1>5, <1>6, <1>7, <1>15 DEF vars, IInv
<1> QED
  BY <1>8, <1>9, <1>10, <1>11, <1>12, <1>13, <1>14, <1>15 DEF Next

\* The cache, the schema and the values are those that the definitions say.
THEOREM Invariant == Spec => []IInv
BY InitIInv, NextIInv, PTL DEF Spec

\* For any nesting of structures, whatever is read and whenever: reading a data set at
\* once, or its values first and applying the schema to them, gives the same paths the
\* same content; only where the latter gives a list does the former give nil or, for a
\* structure of several elements, the first of them.
THEOREM WaysOfReadingDifferOnLists == Spec => []FlatDiffersOnLists
<1>1. IInv => FlatDiffersOnLists
  <2> SUFFICES ASSUME IInv, schema # NULL PROVE FlatDiffersOnLists
    BY DEF FlatDiffersOnLists
  <2>1. schema = FoundSchema /\ server \in Servers
    BY DEF IInv, SchemaInv, Types
  <2> QED
    BY <2>1, MapsAlike DEF FlatDiffersOnLists
<1> QED
  BY <1>1, Invariant, PTL

-----------------------------------------------------------------------------
(* Names                                                                   *)

\* The value of an attribute of FCDA i on the server, and its leaf in the schema.
At(i, k, srv) ==
  IF k = 0 THEN ServerValue(i, srv) ELSE OnlyElement(ServerValue(i, srv).sub[k])
LeafAt(i, k) == [path |-> PathOf(i, k), fcda |-> i, da |-> k]

\* If the SCL describes the server, the leaves are those of the attributes.
LEMMA LeavesNamed ==
  ASSUME Described
  PROVE  /\ \A i \in DOMAIN FCDA : \A k \in Positions(i) : LeafAt(i, k) \in FoundSchema
         /\ \A x \in FoundSchema : \E i \in DOMAIN FCDA : \E k \in Positions(i) : x = LeafAt(i, k)
<1>1. ASSUME NEW i \in DOMAIN FCDA
      PROVE  FoundLeaves(i) = {LeafAt(i, k) : k \in Positions(i)}
  <2>1. CASE OnDALevel(FCDA[i])
    <3>1. FoundLeaves(i) = {WholeLeaf(i)} /\ Positions(i) = {0}
      BY <2>1 DEF FoundLeaves, Positions
    <3>2. WholeLeaf(i) = LeafAt(i, 0)
      BY DEF WholeLeaf, LeafAt, PathOf
    <3> QED
      BY <3>1, <3>2
  <2>2. CASE ~OnDALevel(FCDA[i])
    <3> DEFINE das == Selected[i]
               Found(k) == LeafOf(i, das[k], k)
    <3>1. WithFC(DAs(FindDOType(FCDA[i])), {FCDA[i].fc}) = das
      BY <2>2 DEF Described
    <3>2. FoundLeaves(i) = {Found(k) : k \in DOMAIN das}
      BY <2>2, <3>1 DEF FoundLeaves
    <3>3. Positions(i) = DOMAIN das
      BY <2>2 DEF Positions
    <3>4. \A k \in Positions(i) : Found(k) = LeafAt(i, k)
      BY <2>2, PositionIs DEF LeafAt, PathOf, LeafOf
    <3> HIDE DEF Found
    <3> QED
      BY <3>2, <3>3, <3>4
  <2> QED
    BY <2>1, <2>2
<1> QED
  BY <1>1 DEF FoundSchema

\* What a read stores for an attribute that the server sends.
LEMMA AttributeStored ==
  ASSUME NEW srv \in Servers, NEW i \in DOMAIN FCDA, NEW k \in Positions(i), srv[i] # "error"
  PROVE  BothRead(LeafAt(i, k), srv, At(i, k, srv))
<1> DEFINE x == LeafAt(i, k)
<1>1. x.fcda = i /\ x.da = k
  BY DEF LeafAt
<1> HIDE DEF x
<1>2. CASE OnDALevel(FCDA[i])
  <2>1. k = 0
    BY <1>2, PositionIs
  <2> QED
    BY <1>1, <2>1, WholeRead DEF At, x
<1>3. CASE ~OnDALevel(FCDA[i])
  <2>1. k # 0 /\ k \in DOMAIN Selected[i]
    BY <1>3, PositionIs
  <2> QED
    BY <1>1, <1>3, <2>1, ComponentRead DEF At, x
<1> QED
  BY <1>2, <1>3

\* If no attribute is in the data set twice, its leaf is the last with its path.
LEMMA OnlyLeaf ==
  ASSUME Described, Distinct, NEW L, L \subseteq FoundSchema,
         NEW i \in DOMAIN FCDA, NEW k \in Positions(i), LeafAt(i, k) \in L
  PROVE  LastLeaf(L, PathOf(i, k)) = LeafAt(i, k)
<1> DEFINE x == LeafAt(i, k)
           y == LastLeaf(L, x.path)
<1>1. x.path = PathOf(i, k) /\ x \in L
  BY DEF LeafAt
<1> HIDE DEF x
<1>2. y \in L /\ y.path = x.path
  BY <1>1, LastLeafIs
<1> HIDE DEF y
<1>3. PICK j \in DOMAIN FCDA : \E l \in Positions(j) : y = LeafAt(j, l)
  BY <1>2, LeavesNamed
<1>4. PICK l \in Positions(j) : y = LeafAt(j, l)
  BY <1>3
<1>5. y.path = PathOf(j, l)
  BY <1>4 DEF LeafAt
<1>6. i = j /\ k = l
  BY <1>1, <1>2, <1>5 DEF Distinct
<1>7. y = x
  BY <1>4, <1>6 DEF x
<1> QED
  BY <1>1, <1>7 DEF x, y

\* The members of Named.
LEMMA NamedIs ==
  ASSUME NEW srv, NEW a \in Named(srv)
  PROVE  \E i \in DOMAIN FCDA : \E k \in Positions(i) :
           srv[i] # "error" /\ a.path = PathOf(i, k) /\ a.v = At(i, k, srv)
<1> DEFINE attr(i, k) ==
             [path |-> PathOf(i, k),
              v |-> IF k = 0 THEN ServerValue(i, srv)
                    ELSE OnlyElement(ServerValue(i, srv).sub[k])]
<1>1. PICK i \in DOMAIN FCDA : srv[i] # "error" /\ \E k \in Positions(i) : a = attr(i, k)
  BY DEF Named
<1>2. PICK k \in Positions(i) : a = attr(i, k)
  BY <1>1
<1>3. a.path = PathOf(i, k) /\ a.v = At(i, k, srv)
  BY <1>2 DEF At
<1> QED
  BY <1>1, <1>3

\* Either way of reading into a map leaves each attribute under its name.
LEMMA NamedRead ==
  ASSUME Described, Distinct, NEW srv \in Servers, NEW m, NEW o,
         \/ o = AppliedTo(m, FoundSchema, ValuesRead(srv))
         \/ o = FlatReadTo(m, FoundSchema, srv),
         NEW a \in Named(srv)
  PROVE  a.path \in DOMAIN o /\ FoundAs(o[a.path], a.v)
<1>1. PICK i \in DOMAIN FCDA : \E k \in Positions(i) :
        srv[i] # "error" /\ a.path = PathOf(i, k) /\ a.v = At(i, k, srv)
  BY NamedIs
<1>2. PICK k \in Positions(i) :
        srv[i] # "error" /\ a.path = PathOf(i, k) /\ a.v = At(i, k, srv)
  BY <1>1
<1> DEFINE x == LeafAt(i, k)
           p == PathOf(i, k)
<1>3. x \in FoundSchema
  BY LeavesNamed
<1>4. x.path = p
  BY DEF LeafAt
<1>5. /\ HasValue(ValuesRead(srv), x) /\ FlatTarget(x, srv) # NULL
      /\ FoundAs(Applied(ValuesRead(srv), x), At(i, k, srv))
      /\ FoundAs(extractPrimitive(FlatTarget(x, srv)), At(i, k, srv))
  BY <1>2, AttributeStored DEF BothRead
<1> HIDE DEF x, p
<1>6. CASE o = AppliedTo(m, FoundSchema, ValuesRead(srv))
  <2> DEFINE L == {y \in FoundSchema : HasValue(ValuesRead(srv), y)}
             P == {y.path : y \in L}
  <2>1. o = [q \in DOMAIN m \cup P |->
               IF q \in P THEN Applied(ValuesRead(srv), LastLeaf(L, q)) ELSE m[q]]
    BY <1>6 DEF AppliedTo, Assign
  <2>2. x \in L /\ p \in P
    BY <1>3, <1>4, <1>5
  <2>3. L \subseteq FoundSchema
    OBVIOUS
  <2> HIDE DEF L, P
  <2>4. LastLeaf(L, p) = x
    BY <2>2, <2>3, OnlyLeaf DEF x, p
  <2>5. p \in DOMAIN o /\ o[p] = Applied(ValuesRead(srv), x)
    BY <2>1, <2>2, <2>4
  <2> QED
    BY <1>2, <1>5, <2>5 DEF p
<1>7. CASE o = FlatReadTo(m, FoundSchema, srv)
  <2> DEFINE L == {y \in FoundSchema : FlatTarget(y, srv) # NULL}
             P == {y.path : y \in L}
  <2>1. o = [q \in DOMAIN m \cup P |->
               IF q \in P THEN extractPrimitive(FlatTarget(LastLeaf(L, q), srv)) ELSE m[q]]
    BY <1>7 DEF FlatReadTo, Assign
  <2>2. x \in L /\ p \in P
    BY <1>3, <1>4, <1>5
  <2>3. L \subseteq FoundSchema
    OBVIOUS
  <2> HIDE DEF L, P
  <2>4. LastLeaf(L, p) = x
    BY <2>2, <2>3, OnlyLeaf DEF x, p
  <2>5. p \in DOMAIN o /\ o[p] = extractPrimitive(FlatTarget(x, srv))
    BY <2>1, <2>2, <2>4
  <2> QED
    BY <1>2, <1>5, <2>5 DEF p
<1> QED
  BY <1>6, <1>7

\* Every step leaves it so: the steps that read into the map, and the others.
LEMMA NamedStep ==
  ASSUME Described, Distinct, IInv, NamedValuesCurrent, [Next]_vars
  PROVE  NamedValuesCurrent'
<1>1. UNCHANGED withoutTimestamps
  BY DEF Next, vars, ServerChanges, BuildDataSetSchema, ReadDataSetValues, ApplySchema,
         ReadDataSetFlat, ClearOut, ExplainDataSetValues
<1>0. \A g, v : FoundAs(g, v)' <=> FoundAs(g, v)
  BY <1>1 DEF FoundAs, ContentOf, Resolved
<1>2. CASE UNCHANGED <<out, read>>
  BY <1>0, <1>2 DEF NamedValuesCurrent
<1>3. CASE ApplySchema
  <2>1. seen \in Servers /\ read' = seen /\ out' = AppliedTo(out, FoundSchema, ValuesRead(seen))
    BY <1>3 DEF ApplySchema, IInv, SchemaInv, ValuesInv
  <2>2. \A a \in Named(seen) : a.path \in DOMAIN out' /\ FoundAs(out'[a.path], a.v)
    BY <2>1, NamedRead
  <2> QED
    BY <1>0, <2>1, <2>2 DEF NamedValuesCurrent
<1>4. CASE ReadDataSetFlat
  <2>1. server \in Servers /\ read' = server /\ out' = FlatReadTo(out, FoundSchema, server)
    BY <1>4 DEF ReadDataSetFlat, IInv, SchemaInv, Types
  <2>2. \A a \in Named(server) : a.path \in DOMAIN out' /\ FoundAs(out'[a.path], a.v)
    BY <2>1, NamedRead
  <2> QED
    BY <1>0, <2>1, <2>2 DEF NamedValuesCurrent
<1>5. CASE ClearOut
  BY <1>5 DEF ClearOut, NamedValuesCurrent
<1> QED
  BY <1>2, <1>3, <1>4, <1>5
     DEF Next, vars, ServerChanges, BuildDataSetSchema, ReadDataSetValues, ExplainDataSetValues

\* If the SCL describes the server and the data set has no attribute twice, a read
\* into the application's map, of either kind and into a map that other reads have
\* filled before, leaves every attribute that was read under its own name.
THEOREM NamedAreCurrent == ASSUME Described, Distinct PROVE Spec => []NamedValuesCurrent
<1>1. Init => NamedValuesCurrent
  BY DEF Init, NamedValuesCurrent
<1>2. IInv /\ NamedValuesCurrent /\ [Next]_vars => NamedValuesCurrent'
  BY NamedStep
<1> QED
  BY <1>1, <1>2, Invariant, PTL DEF Spec

==========================================================================================================================================================
