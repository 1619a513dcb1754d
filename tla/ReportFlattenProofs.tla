------------------------- MODULE ReportFlattenProofs -------------------------
(***************************************************************************)
(* Proofs about ReportFlatten for any data sets, values nested to any      *)
(* depth, and any sequence of reports.  The code goes through the values   *)
(* three times by recursion: to count tokens, to write them, and to read   *)
(* them.  The argument is a trace, the calls in progress at every step of  *)
(* the first pass: the second and the third pass go along the same trace,  *)
(* and what is counted, written and read so far is a function of it.       *)
(***************************************************************************)
EXTENDS ReportFlatten, SequenceTheorems, WellFoundedInduction, TLAPS

-----------------------------------------------------------------------------
(* Sequences as functions                                                  *)

\* A sequence of n elements, whatever they are.
OfSize(s, n) == n \in Nat /\ s = [i \in 1..n |-> s[i]]

\* The size of a sequence is its length.
LEMMA SizeIsLen ==
  ASSUME NEW s, NEW n, OfSize(s, n)
  PROVE  Len(s) = n /\ DOMAIN s = 1..n /\ s \in Seq({s[i] : i \in 1..n})
<1> DEFINE S == {s[i] : i \in 1..n}
<1>1. \A i \in 1..n : s[i] \in S
  OBVIOUS
<1>2. n \in Nat /\ s = [i \in 1..n |-> s[i]] /\ DOMAIN s = 1..n
  BY DEF OfSize
<1> HIDE DEF S
<1>3. s \in Seq(S)
  <2>1. s \in [1..n -> S]
    BY <1>1, <1>2
  <2>2. s \in UNION {[1..k -> S] : k \in Nat}
    BY <1>2, <2>1
  <2> QED
    BY <2>2, SeqDef
<1>4. Len(s) \in Nat /\ 1..Len(s) = 1..n
  BY <1>2, <1>3, LenProperties
<1>5. Len(s) = n
  BY <1>2, <1>4
<1> QED
  BY <1>2, <1>3, <1>5 DEF S

\* A member of Seq has a size.
LEMMA SeqHasSize ==
  ASSUME NEW S, NEW s \in Seq(S)
  PROVE  OfSize(s, Len(s)) /\ \A i \in 1..Len(s) : s[i] \in S
BY LenProperties, ElementOfSeq DEF OfSize

\* Sequences are equal if their elements are.
LEMMA SameElements ==
  ASSUME NEW s, NEW t, NEW n, OfSize(s, n), OfSize(t, n), \A i \in 1..n : s[i] = t[i]
  PROVE  s = t
BY DEF OfSize

\* a is s with x behind it.
Extended(a, s, n, x) == OfSize(a, n + 1) /\ a[n + 1] = x /\ \A i \in 1..n : a[i] = s[i]

\* What Append does.
LEMMA AppendIs ==
  ASSUME NEW s, NEW n, OfSize(s, n), NEW x
  PROVE  Extended(Append(s, x), s, n, x)
<1> DEFINE R == {s[i] : i \in 1..n}
           S == R \cup {x}
           a == Append(s, x)
<1>1. n \in Nat /\ Len(s) = n
  BY SizeIsLen DEF OfSize
<1>2. s \in Seq(S)
  <2>1. s \in Seq(R)
    BY SizeIsLen
  <2>2. R \subseteq S
    OBVIOUS
  <2> HIDE DEF R, S
  <2> QED
    BY <2>1, <2>2, SeqMonotonic
<1>3. x \in S
  OBVIOUS
<1> HIDE DEF S
<1>4. /\ a \in Seq(S)
      /\ Len(a) = n + 1
      /\ \A i \in 1..n : a[i] = s[i]
      /\ a[n + 1] = x
  BY <1>1, <1>2, <1>3, AppendProperties
<1> HIDE DEF a
<1>5. OfSize(a, n + 1)
  BY <1>4, SeqHasSize
<1> QED
  BY <1>4, <1>5 DEF a, Extended

\* What Front and Last do.
LEMMA FrontIs ==
  ASSUME NEW s, NEW n, OfSize(s, n), n > 0
  PROVE  /\ OfSize(Front(s), n - 1)
         /\ \A i \in 1..(n - 1) : Front(s)[i] = s[i]
         /\ Last(s) = s[n]
<1> DEFINE S == {s[i] : i \in 1..n}
           a == SubSeq(s, 1, n - 1)
<1>1. n \in Nat /\ Len(s) = n /\ s \in Seq(S)
  BY SizeIsLen DEF OfSize
<1>2. Front(s) = a /\ Last(s) = s[n]
  BY <1>1 DEF Front, Last
<1>3. n - 1 \in Nat /\ \A i \in 1..(n - 1) : i \in 1..n /\ s[i] \in S
  BY <1>1
<1> HIDE DEF S
<1>4. /\ a \in Seq(S)
      /\ Len(a) = n - 1
      /\ \A i \in 1..(n - 1) : a[i] = s[i]
  BY <1>1, <1>3, SubSeqProperties
<1> HIDE DEF a
<1>5. OfSize(a, n - 1)
  BY <1>4, SeqHasSize
<1> QED
  BY <1>2, <1>4, <1>5

\* a is s with x at k.
Replaced(a, s, n, k, x) ==
  OfSize(a, n) /\ a[k] = x /\ \A i \in 1..n : i # k => a[i] = s[i]

\* What EXCEPT does.
LEMMA ExceptIs ==
  ASSUME NEW s, NEW n, OfSize(s, n), NEW k \in 1..n, NEW x
  PROVE  Replaced([s EXCEPT ![k] = x], s, n, k, x)
BY DEF OfSize, Replaced

-----------------------------------------------------------------------------
(* The recursion of Converted                                              *)

\* A set of natural numbers that is not empty has a least element.
LEMMA LeastNat ==
  ASSUME NEW T, T \subseteq Nat, T # {}
  PROVE  \E n \in T : \A k \in T : n <= k
<1>1. PICK n \in T : \A k \in T : ~(<<k, n>> \in OpToRel(<, Nat))
  BY NatLessThanWellFounded, WFMin, Zenon
<1>2. \A k \in T : ~(k < n)
  BY <1>1, Zenon DEF OpToRel
<1> QED
  BY <1>2

\* The definition of Converted, with f for what is converted already.
Body(f, v) ==
  CASE v.typ \in Complex -> [list |-> [i \in DOMAIN v.sub |-> f[v.sub[i]]]]
    [] v.typ = "BOOLEAN" -> [go |-> "bool", val |-> v.val]
    [] v.typ = "FLOAT" -> [go |-> "float64", val |-> v.val]
    [] v.typ \in {"INTEGER", "UNSIGNED"} -> [go |-> "int64", val |-> v.val]
    [] v.typ \in {"BIT_STRING", "UTC_TIME"} -> [go |-> "uint32", val |-> v.val]
    [] v.typ \in {"STRING", "VISIBLE_STRING"} -> [go |-> "string", val |-> v.val]
    [] v.typ = "OCTET_STRING" -> [go |-> "string", val |-> ""]
    [] OTHER -> NULL

\* The values that are nested n deep at most.
Below(n) == UNION {Values[k] : k \in 1..n}

\* What a value is in Go depends on the values that it consists of only.
LEMMA BodyLocal ==
  ASSUME NEW n \in DOMAIN Values, NEW v \in Values[n], NEW f, NEW g,
         \A x \in Below(n - 1) : f[x] = g[x]
  PROVE  Body(f, v) = Body(g, v)
<1>1. CASE v.typ \in Complex
  <2>1. v.sub \in Seq(Below(n - 1))
    BY <1>1, ValuesAssumption DEF Below, Complex, Simple, IntegerCoded, Strings, OtherSimple
  <2>2. \A i \in DOMAIN v.sub : f[v.sub[i]] = g[v.sub[i]]
    BY <2>1, LenProperties, ElementOfSeq
  <2>3. [i \in DOMAIN v.sub |-> f[v.sub[i]]] = [i \in DOMAIN v.sub |-> g[v.sub[i]]]
    BY <2>2
  <2> QED
    BY <1>1, <2>3 DEF Body
<1>2. CASE v.typ \notin Complex
  BY <1>2 DEF Body
<1> QED
  BY <1>1, <1>2

\* Converted is what its definition says: by induction on the nesting, there is a
\* function on the values nested n deep that satisfies it.
LEMMA ConvertedIs == \A v \in Value : Converted[v] = Body(Converted, v)
<1> DEFINE N == Len(Values)
           P(n) == \E f : f = [v \in Below(n) |-> Body(f, v)]
<1>1. N \in Nat /\ DOMAIN Values = 1..N
  BY ValuesAssumption, LenProperties
<1>2. P(0)
  <2>1. Below(0) = {}
    BY DEF Below
  <2>2. [v \in Below(0) |-> 0] = [v \in Below(0) |-> Body([w \in Below(0) |-> 0], v)]
    BY <2>1
  <2> QED
    BY <2>2
<1>3. ASSUME NEW n \in Nat, n + 1 <= N, P(n) PROVE P(n + 1)
  <2>1. PICK f : f = [v \in Below(n) |-> Body(f, v)]
    BY <1>3
  <2> DEFINE g == [v \in Below(n + 1) |-> Body(f, v)]
  <2>2. \A v \in Below(n) : v \in Below(n + 1) /\ g[v] = f[v]
    <3>1. \A v \in Below(n) : v \in Below(n + 1)
      BY <1>3 DEF Below
    <3>2. \A v \in Below(n) : f[v] = Body(f, v)
      BY <2>1
    <3> QED
      BY <3>1, <3>2
  <2>3. \A v \in Below(n + 1) : g[v] = Body(f, v)
    OBVIOUS
  <2> HIDE DEF g
  <2>4. ASSUME NEW v \in Below(n + 1) PROVE Body(f, v) = Body(g, v)
    <3>1. PICK k \in 1..(n + 1) : v \in Values[k]
      BY DEF Below
    <3>2. k \in DOMAIN Values
      BY <1>1, <1>3
    <3>3. \A x \in Below(k - 1) : x \in Below(n)
      BY <1>3 DEF Below
    <3>4. \A x \in Below(k - 1) : f[x] = g[x]
      BY <2>2, <3>3
    <3> QED
      BY <3>1, <3>2, <3>4, BodyLocal
  <2>5. g = [v \in Below(n + 1) |-> Body(g, v)]
    BY <2>4 DEF g
  <2> QED
    BY <2>5
<1>4. P(N)
  <2> DEFINE T == {n \in Nat : n <= N /\ ~P(n)}
  <2> HIDE DEF P
  <2> SUFFICES ASSUME T # {} PROVE FALSE
    BY <1>1
  <2>1. PICK n \in T : \A k \in T : n <= k
    <3>1. T \subseteq Nat
      OBVIOUS
    <3> HIDE DEF T
    <3> QED
      BY <3>1, LeastNat
  <2>2. n \in Nat /\ n # 0 /\ n <= N /\ ~P(n)
    BY <1>2, <2>1
  <2>3. n - 1 \in Nat /\ (n - 1) + 1 = n /\ n - 1 \notin T
    BY <2>1, <2>2
  <2>4. P(n - 1)
    BY <1>1, <2>2, <2>3
  <2>5. P((n - 1) + 1)
    BY <1>3, <2>2, <2>3, <2>4
  <2> QED
    BY <2>2, <2>3, <2>5
<1>5. Below(N) = Value
  BY <1>1 DEF Below, Value
<1>6. Converted = CHOOSE f : f = [v \in Value |-> Body(f, v)]
  BY Zenon DEF Converted, Body
<1>7. Converted = [v \in Value |-> Body(Converted, v)]
  BY <1>4, <1>5, <1>6
<1> QED
  BY <1>7

-----------------------------------------------------------------------------
(* The calls in progress                                                   *)

\* Elements of a ClientReport, and the call that the loops over them make up.
ValueOrNull == Value \cup {NULL}
Root(s) == [typ |-> "ARRAY", sub |-> s]
StartOf(s) == <<Call(Root(s))>>

\* A call has dealt with values only, and in the order of the elements.
Frame(f) ==
  /\ f = [of |-> f.of, done |-> f.done]
  /\ f.done \in Nat
  /\ f.of.typ \in Complex
  /\ f.of.sub \in Seq(ValueOrNull)
  /\ \A i \in 1..f.done : i \in DOMAIN f.of.sub /\ f.of.sub[i] \in Value

\* m calls, of which each is for the next element of the one around it, and the
\* outermost one is for the values s.
Stack(s, c, m) ==
  /\ m > 0
  /\ OfSize(c, m)
  /\ c[1].of = Root(s)
  /\ \A l \in 1..m : Frame(c[l])
  /\ \A l \in 2..m :
       /\ c[l].of \in Value
       /\ c[l - 1].done + 1 \in DOMAIN c[l - 1].of.sub
       /\ c[l].of = c[l - 1].of.sub[c[l - 1].done + 1]

\* The call f with one more element dealt with.
Bumped(f) == [of |-> f.of, done |-> f.done + 1]

\* Values are not NULL, and the elements of a value are values.
LEMMA ValueIs ==
  ASSUME NEW v \in Value
  PROVE  /\ v # NULL
         /\ v.typ \in Complex => v.sub \in Seq(Value)
         /\ v.typ \notin Complex => v.typ \in Simple /\ v.val # NULL
<1>1. PICK n \in DOMAIN Values : v \in Values[n]
  BY DEF Value
<1>2. v # NULL
  BY ValuesAssumption
<1>3. \/ v.typ \in Complex /\ v.sub \in Seq(Below(n - 1))
      \/ v.typ \in Simple /\ v.val # NULL
  BY <1>1, ValuesAssumption DEF Below
<1>4. ~(v.typ \in Complex /\ v.typ \in Simple)
  BY DEF Complex, Simple, IntegerCoded, Strings, OtherSimple
<1>5. ASSUME v.typ \in Complex PROVE v.sub \in Seq(Value)
  <2> DEFINE B == Below(n - 1)
  <2>1. B \subseteq Value
    <3>1. ASSUME NEW x \in B PROVE x \in Value
      <4>1. PICK k \in 1..(n - 1) : x \in Values[k]
        BY DEF Below
      <4>2. Values \in Seq(SUBSET Value)
        BY ValuesAssumption
      <4>3. n \in 1..Len(Values) /\ Len(Values) \in Nat /\ DOMAIN Values = 1..Len(Values)
        BY <4>2, LenProperties
      <4>4. k \in DOMAIN Values
        BY <4>3
      <4> QED
        BY <4>1, <4>4 DEF Value
    <3> QED
      BY <3>1
  <2>2. v.sub \in Seq(B)
    BY <1>3, <1>4, <1>5
  <2> HIDE DEF B
  <2> QED
    BY <2>1, <2>2, SeqMonotonic
<1> QED
  BY <1>2, <1>3, <1>4, <1>5

\* The outermost call.
LEMMA StartIsStack ==
  ASSUME NEW s, s \in Seq(ValueOrNull)
  PROVE  Stack(s, StartOf(s), 1) /\ StartOf(s)[1] = [of |-> Root(s), done |-> 0]
<1> DEFINE f == [of |-> Root(s), done |-> 0]
<1>1. StartOf(s) = <<f>>
  BY DEF StartOf, Call
<1>2. Frame(f)
  BY DEF Frame, Root, Complex
<1>3. f.of = Root(s)
  OBVIOUS
<1> HIDE DEF f
<1>4. OfSize(<<f>>, 1) /\ <<f>>[1] = f
  BY DEF OfSize
<1> QED
  BY <1>1, <1>2, <1>3, <1>4 DEF Stack, f

\* What Element returns.
LEMMA ElementIs ==
  ASSUME NEW s, NEW c, NEW m \in Nat, Stack(s, c, m)
  PROVE  /\ Len(c) = m
         /\ Last(c) = c[m]
         /\ Element(c) \in ValueOrNull
         /\ Element(c) # NULL => /\ c[m].done + 1 \in DOMAIN c[m].of.sub
                                /\ Element(c) = c[m].of.sub[c[m].done + 1]
                                /\ Element(c) \in Value
         /\ Element(c) = NULL /\ m > 1 => c[m].done + 1 \notin DOMAIN c[m].of.sub
<1> DEFINE f == c[m]
           k == f.done + 1
<1>1. m \in Nat /\ m > 0 /\ OfSize(c, m) /\ m \in 1..m /\ Frame(f)
  BY DEF Stack, OfSize
<1>2. Len(c) = m /\ Last(c) = f
  BY <1>1, SizeIsLen DEF Last
<1>3. Element(c) = IF k \in DOMAIN f.of.sub THEN f.of.sub[k] ELSE NULL
  BY <1>1, <1>2 DEF Element, MmsValue_getElement, Frame
<1>4. f.of.sub \in Seq(ValueOrNull)
  BY <1>1 DEF Frame
<1> DEFINE q == f.of.sub
<1>5. \A i \in DOMAIN q : q[i] \in ValueOrNull
  <2> HIDE DEF q
  <2> QED
    BY <1>4, LenProperties, ElementOfSeq DEF q
<1>6. ASSUME m > 1 PROVE \A i \in DOMAIN q : q[i] # NULL
  <2>1. f.of \in Value /\ f.of.typ \in Complex
    BY <1>1, <1>6 DEF Stack, Frame
  <2>2. q \in Seq(Value)
    BY <2>1, ValueIs
  <2>3. NULL \notin Value
    BY ValuesAssumption
  <2> HIDE DEF q
  <2>4. \A i \in DOMAIN q : q[i] \in Value
    BY <2>2, LenProperties, ElementOfSeq
  <2> QED
    BY <2>3, <2>4
<1> HIDE DEF f
<1> QED
  BY <1>2, <1>3, <1>5, <1>6 DEF f, ValueOrNull

\* Going on with the next element.
LEMMA PastStack ==
  ASSUME NEW s, NEW c, NEW m \in Nat, Stack(s, c, m), Element(c) # NULL
  PROVE  /\ Stack(s, Past(c), m)
         /\ Past(c)[m] = Bumped(c[m])
         /\ \A l \in 1..(m - 1) : Past(c)[l] = c[l]
<1> DEFINE f == c[m]
           b == Bumped(f)
           d == [c EXCEPT ![m] = b]
<1>1. m \in Nat /\ m > 0 /\ OfSize(c, m) /\ m \in 1..m /\ Frame(f)
  BY DEF Stack, OfSize
<1>2. Past(c) = d
  <2>1. Len(c) = m
    BY ElementIs
  <2>2. [f EXCEPT !.done = @ + 1] = b
    BY <1>1 DEF Frame, Bumped
  <2>3. Past(c) = [c EXCEPT ![m] = [f EXCEPT !.done = @ + 1]]
    BY <2>1 DEF Past
  <2> QED
    BY <2>2, <2>3
<1>3. Frame(b) /\ b.of = f.of
  <2>1. f.done + 1 \in DOMAIN f.of.sub /\ f.of.sub[f.done + 1] \in Value
    BY ElementIs
  <2>2. b.of = f.of /\ b.done = f.done + 1 /\ b = [of |-> b.of, done |-> b.done]
    BY DEF Bumped
  <2>3. f.done \in Nat
    BY <1>1 DEF Frame
  <2>4. b.done \in Nat /\ \A i \in 1..b.done : i \in 1..f.done \/ i = f.done + 1
    BY <2>2, <2>3
  <2> HIDE DEF f, b
  <2> QED
    BY <1>1, <2>1, <2>2, <2>4 DEF Frame
<1> HIDE DEF b, f
<1>4. OfSize(d, m) /\ d[m] = b /\ \A l \in 1..m : l # m => d[l] = c[l]
  <2>1. Replaced(d, c, m, m, b)
    BY <1>1, ExceptIs
  <2> QED
    BY <2>1 DEF Replaced
<1> HIDE DEF d
<1>5. \A l \in 1..(m - 1) : d[l] = c[l]
  BY <1>1, <1>4
<1>6. \A l \in 1..m : d[l].of = c[l].of /\ Frame(d[l])
  BY <1>1, <1>3, <1>4 DEF Stack, f
<1>7. \A l \in 2..m : d[l - 1] = c[l - 1]
  BY <1>1, <1>5
<1>8. 1 \in 1..m
  BY <1>1
<1>9. Stack(s, d, m)
  <2>1. \A l \in 2..m : l \in 1..m
    OBVIOUS
  <2> QED
    BY <1>1, <1>4, <1>6, <1>7, <1>8, <2>1 DEF Stack
<1> QED
  BY <1>2, <1>4, <1>5, <1>9 DEF b, f

\* Calling for the next element.
LEMMA EnteredStack ==
  ASSUME NEW s, NEW c, NEW m \in Nat, Stack(s, c, m), Element(c) # NULL, Element(c).typ \in Complex
  PROVE  /\ Stack(s, Entered(c), m + 1)
         /\ Extended(Entered(c), c, m, [of |-> Element(c), done |-> 0])
<1> DEFINE v == Element(c)
           f == [of |-> v, done |-> 0]
           d == Append(c, f)
<1>1. m \in Nat /\ m > 0 /\ OfSize(c, m) /\ m \in 1..m /\ 1 \in 1..m
  BY DEF Stack, OfSize
<1>2. Entered(c) = d
  BY DEF Entered, Call
<1>3. /\ v \in Value
      /\ c[m].done + 1 \in DOMAIN c[m].of.sub
      /\ v = c[m].of.sub[c[m].done + 1]
  BY ElementIs
<1> HIDE DEF v
<1>4. Frame(f) /\ f.of = v
  <2>1. v.sub \in Seq(Value) /\ v.typ \in Complex
    BY <1>3, ValueIs DEF v
  <2> DEFINE q == v.sub
  <2>2. Value \subseteq ValueOrNull
    BY DEF ValueOrNull
  <2>3. q \in Seq(ValueOrNull)
    <3> HIDE DEF q
    <3> QED
      BY <2>1, <2>2, SeqMonotonic DEF q
  <2> QED
    BY <2>1, <2>3 DEF Frame
<1> HIDE DEF f
<1>5. Extended(d, c, m, f)
  BY <1>1, AppendIs
<1>6. OfSize(d, m + 1) /\ d[m + 1] = f /\ \A l \in 1..m : d[l] = c[l]
  BY <1>5 DEF Extended
<1> HIDE DEF d
<1>7. \A l \in 1..(m + 1) : Frame(d[l])
  BY <1>1, <1>4, <1>6 DEF Stack
<1>8. \A l \in 2..(m + 1) : /\ l - 1 \in 1..m
                            /\ \/ l \in 2..m /\ l \in 1..m
                               \/ l = m + 1 /\ l - 1 = m
  BY <1>1
<1>9. ASSUME NEW l \in 2..(m + 1)
      PROVE  /\ d[l].of \in Value
             /\ d[l - 1].done + 1 \in DOMAIN d[l - 1].of.sub
             /\ d[l].of = d[l - 1].of.sub[d[l - 1].done + 1]
  <2>1. d[l - 1] = c[l - 1]
    BY <1>8, <1>6
  <2>2. CASE l \in 2..m /\ l \in 1..m
    BY <1>6, <2>1, <2>2 DEF Stack
  <2>3. CASE l = m + 1 /\ l - 1 = m
    BY <1>3, <1>4, <1>6, <2>1, <2>3
  <2> QED
    BY <1>8, <2>2, <2>3
<1>10. Stack(s, d, m + 1)
  BY <1>1, <1>7, <1>9, <1>6 DEF Stack
<1> QED
  BY <1>2, <1>5, <1>10 DEF f, v

\* The calls around the innermost one: its value is their next element.
LEMMA FrontStack ==
  ASSUME NEW s, NEW c, NEW m \in Nat, Stack(s, c, m), m > 1
  PROVE  /\ Stack(s, Front(c), m - 1)
         /\ \A l \in 1..(m - 1) : Front(c)[l] = c[l]
         /\ Element(Front(c)) = c[m].of
         /\ c[m].of \in Value
<1> DEFINE d == Front(c)
<1>1. /\ m \in Nat /\ m > 0 /\ OfSize(c, m)
      /\ m - 1 \in 1..(m - 1) /\ m - 1 \in 1..m /\ m \in 2..m /\ 1 \in 1..(m - 1)
  BY DEF Stack, OfSize
<1>2. OfSize(d, m - 1) /\ \A l \in 1..(m - 1) : d[l] = c[l]
  BY <1>1, FrontIs
<1>3. Stack(s, d, m - 1)
  <2>1. \A l \in 1..(m - 1) : l \in 1..m
    BY <1>1
  <2>2. \A l \in 2..(m - 1) : l \in 2..m /\ l \in 1..(m - 1) /\ l - 1 \in 1..(m - 1)
    BY <1>1
  <2> HIDE DEF d
  <2> QED
    BY <1>1, <1>2, <2>1, <2>2 DEF Stack
<1>4. /\ c[m].of \in Value
      /\ c[m - 1].done + 1 \in DOMAIN c[m - 1].of.sub
      /\ c[m].of = c[m - 1].of.sub[c[m - 1].done + 1]
  BY <1>1 DEF Stack
<1>5. Element(d) = c[m].of
  <2>1. Last(d) = c[m - 1]
    <3> HIDE DEF d
    <3> QED
      BY <1>1, <1>2, <1>3, ElementIs
  <2>2. c[m - 1].of.typ \in Complex
    BY <1>1 DEF Stack, Frame
  <2> HIDE DEF d
  <2> QED
    BY <1>4, <2>1, <2>2 DEF Element, MmsValue_getElement
<1> QED
  BY <1>2, <1>3, <1>4, <1>5

\* Behind the last element the call returns, and the one around it goes on.
LEMMA ReturnedStack ==
  ASSUME NEW s, NEW c, NEW m \in Nat, Stack(s, c, m), m > 1
  PROVE  /\ Stack(s, Returned(c), m - 1)
         /\ Returned(c)[m - 1] = Bumped(c[m - 1])
         /\ \A l \in 1..(m - 2) : Returned(c)[l] = c[l]
<1> DEFINE d == Front(c)
           n == m - 1
<1>1. m \in Nat /\ n \in 1..n /\ n - 1 = m - 2 /\ n \in Nat
  BY DEF Stack, OfSize
<1>2. Stack(s, d, n) /\ \A l \in 1..n : d[l] = c[l]
  BY FrontStack
<1>3. Element(d) # NULL
  <2>1. Element(d) = c[m].of /\ c[m].of \in Value
    BY FrontStack
  <2> QED
    BY <2>1, ValuesAssumption
<1>4. \A l \in 1..(n - 1) : l \in 1..n
  BY <1>1
<1>5. Returned(c) = Past(d)
  BY DEF Returned
<1> HIDE DEF d, n
<1>6. /\ Stack(s, Past(d), n)
      /\ Past(d)[n] = Bumped(d[n])
      /\ \A l \in 1..(n - 1) : Past(d)[l] = d[l]
  BY <1>1, <1>2, <1>3, PastStack
<1> QED
  BY <1>1, <1>2, <1>4, <1>5, <1>6 DEF n

-----------------------------------------------------------------------------
(* One pass over the values                                                *)

\* How the number of calls changes with the next element.
Deeper(c) == IF Element(c) = NULL THEN -1 ELSE IF Element(c).typ \in Complex THEN 1 ELSE 0

\* The calls after the next element are calls again, and what is counted for the
\* element is one more than the calls gained.
LEMMA ContinuedStack ==
  ASSUME NEW s, NEW c, NEW m \in Nat, Stack(s, c, m), ~Finished(c)
  PROVE  /\ m + Deeper(c) \in Nat
         /\ Stack(s, Continued(c), m + Deeper(c))
         /\ Counted(Element(c)) = 1 + Deeper(c)
<1>1. CASE Element(c) = NULL
  <2>1. m > 1
    <3>1. Len(c) = m
      BY ElementIs
    <3>2. m # 1
      BY <1>1, <3>1 DEF Finished
    <3>3. m > 0
      BY DEF Stack
    <3> QED
      BY <3>2, <3>3
  <2>2. Deeper(c) = -1 /\ m + Deeper(c) = m - 1 /\ m - 1 \in Nat
    BY <1>1, <2>1 DEF Deeper
  <2>3. Continued(c) = Returned(c) /\ Counted(Element(c)) = 0
    BY <1>1 DEF Continued, Counted
  <2>4. Stack(s, Returned(c), m - 1)
    BY <2>1, ReturnedStack
  <2> QED
    BY <2>2, <2>3, <2>4
<1>2. CASE Element(c) # NULL /\ Element(c).typ \in Complex
  <2>1. Deeper(c) = 1 /\ Continued(c) = Entered(c) /\ Counted(Element(c)) = 2
    BY <1>2 DEF Deeper, Continued, Counted
  <2>2. Stack(s, Entered(c), m + 1)
    BY <1>2, EnteredStack
  <2> QED
    BY <2>1, <2>2
<1>3. CASE Element(c) # NULL /\ Element(c).typ \notin Complex
  <2>1. Deeper(c) = 0 /\ Continued(c) = Past(c) /\ Counted(Element(c)) = 1
    BY <1>3 DEF Deeper, Continued, Counted
  <2>2. Stack(s, Past(c), m)
    BY <1>3, PastStack
  <2>3. m + Deeper(c) = m
    BY <2>1
  <2> QED
    BY <2>1, <2>2, <2>3
<1> QED
  BY <1>1, <1>2, <1>3

\* The calls g[0], ..., g[n] of the first n steps over the values s.
Trace(s, g, n) ==
  /\ g[0] = StartOf(s)
  /\ \A k \in 1..n : ~Finished(g[k - 1]) /\ g[k] = Continued(g[k - 1])
  /\ \A k \in 0..n : \E m \in Nat : Stack(s, g[k], m)

\* Every pass starts with the outermost call.
LEMMA TraceStarts ==
  ASSUME NEW s, s \in Seq(ValueOrNull)
  PROVE  \E g : Trace(s, g, 0) /\ g[0] = StartOf(s)
<1> DEFINE g == [k \in {0} |-> StartOf(s)]
<1>1. g[0] = StartOf(s)
  OBVIOUS
<1> HIDE DEF g
<1>2. Stack(s, g[0], 1)
  BY <1>1, StartIsStack
<1>3. \A k \in 0..0 : k = 0
  OBVIOUS
<1>4. \A k \in 1..0 : FALSE
  OBVIOUS
<1>5. \A k \in 0..0 : \E m \in Nat : Stack(s, g[k], m)
  BY <1>2, <1>3
<1> QED
  BY <1>1, <1>4, <1>5 DEF Trace

\* A pass that is not finished can be followed for one more step.
LEMMA TraceExtends ==
  ASSUME NEW s, NEW g, NEW n \in Nat, Trace(s, g, n), ~Finished(g[n])
  PROVE  \E h : Trace(s, h, n + 1) /\ h[n + 1] = Continued(g[n])
<1> DEFINE d == Continued(g[n])
           h == [k \in 0..(n + 1) |-> IF k = n + 1 THEN d ELSE g[k]]
<1>1. \A k \in 0..n : h[k] = g[k]
  OBVIOUS
<1>2. h[n + 1] = d
  OBVIOUS
<1> HIDE DEF h
<1>3. n \in 0..n /\ 0 \in 0..n
  OBVIOUS
<1>4. h[0] = StartOf(s)
  BY <1>1, <1>3 DEF Trace
<1>5. ASSUME NEW k \in 1..(n + 1)
      PROVE  ~Finished(h[k - 1]) /\ h[k] = Continued(h[k - 1])
  <2>1. k - 1 \in 0..n /\ h[k - 1] = g[k - 1]
    BY <1>1
  <2>2. CASE k \in 1..n
    <3>1. h[k] = g[k]
      BY <1>1, <2>2
    <3> QED
      BY <2>1, <2>2, <3>1 DEF Trace
  <2>3. CASE k = n + 1
    BY <1>2, <2>1, <2>3
  <2> QED
    BY <2>2, <2>3
<1>6. ASSUME NEW k \in 0..(n + 1) PROVE \E m \in Nat : Stack(s, h[k], m)
  <2>1. CASE k \in 0..n
    BY <1>1, <2>1 DEF Trace
  <2>2. CASE k = n + 1
    <3>1. PICK m \in Nat : Stack(s, g[n], m)
      BY <1>3 DEF Trace
    <3> DEFINE e == m + Deeper(g[n])
    <3>2. e \in Nat /\ Stack(s, d, e)
      BY <3>1, ContinuedStack
    <3> HIDE DEF d, e
    <3> QED
      BY <1>2, <2>2, <3>2
  <2> QED
    BY <2>1, <2>2
<1> QED
  BY <1>2, <1>4, <1>5, <1>6 DEF Trace

-----------------------------------------------------------------------------
(* Tokens                                                                  *)

\* A value without elements comes through its token.
LEMMA LeafTokenIs ==
  ASSUME NEW v \in Value, v.typ \notin Complex
  PROVE  /\ LeafToken(v).typ = v.typ
         /\ GoValue(LeafToken(v)) = Converted[v]
<1> DEFINE t == LeafToken(v)
<1>1. v.typ \in Simple /\ v.val # NULL
  BY ValueIs
<1>2. Converted[v] = Body(Converted, v)
  BY ConvertedIs
<1>3. CASE v.typ \in IntegerCoded
  <2>1. t = [typ |-> v.typ, ival |-> v.val, dval |-> "garbage", sval |-> "garbage"]
    BY <1>3 DEF LeafToken, Token, IntegerCoded, Strings
  <2>2. t.typ = v.typ /\ t.ival = v.val
    BY <2>1
  <2> HIDE DEF t
  <2>3. GoValue(t) = Body(Converted, v)
    BY <1>3, <2>2 DEF GoValue, Body, IntegerCoded, Strings, Complex
  <2> QED
    BY <1>2, <2>2, <2>3 DEF t
<1>4. CASE v.typ = "FLOAT"
  <2>1. t = [typ |-> v.typ, ival |-> "garbage", dval |-> v.val, sval |-> "garbage"]
    BY <1>4 DEF LeafToken, Token, IntegerCoded, Strings
  <2>2. t.typ = v.typ /\ t.dval = v.val
    BY <2>1
  <2> HIDE DEF t
  <2>3. GoValue(t) = Body(Converted, v)
    BY <1>4, <2>2 DEF GoValue, Body, Strings, Complex
  <2> QED
    BY <1>2, <2>2, <2>3 DEF t
<1>5. CASE v.typ \in Strings
  <2>1. t = [typ |-> v.typ, ival |-> "garbage", dval |-> "garbage", sval |-> MmsValue_toString(v)]
    BY <1>5 DEF LeafToken, Token, IntegerCoded, Strings
  <2>2. t.typ = v.typ /\ t.sval = IF v.typ = "OCTET_STRING" THEN NULL ELSE v.val
    BY <2>1 DEF MmsValue_toString
  <2> HIDE DEF t
  <2>3. GoValue(t) = [go |-> "string", val |-> IF t.sval = NULL THEN "" ELSE t.sval]
    BY <1>5, <2>2 DEF GoValue, Strings
  <2>4. Body(Converted, v) = [go |-> "string", val |-> IF t.sval = NULL THEN "" ELSE t.sval]
    BY <1>1, <1>5, <2>2 DEF Body, Strings, Complex
  <2> QED
    BY <1>2, <2>2, <2>3, <2>4 DEF t
<1>6. CASE v.typ \in OtherSimple
  <2>1. t = [typ |-> v.typ, ival |-> "garbage", dval |-> "garbage", sval |-> "garbage"]
    BY <1>6 DEF LeafToken, Token, IntegerCoded, Strings, OtherSimple
  <2>2. t.typ = v.typ
    BY <2>1
  <2> HIDE DEF t
  <2>3. GoValue(t) = NULL
    BY <1>6, <2>2 DEF GoValue, Strings, OtherSimple
  <2>4. Body(Converted, v) = NULL
    BY <1>6 DEF Body, OtherSimple, Complex
  <2> QED
    BY <1>2, <2>2, <2>3, <2>4 DEF t
<1> QED
  BY <1>1, <1>3, <1>4, <1>5, <1>6 DEF Simple

\* Types of tokens that no MmsValue has.
StartTypes == {"STRUCT_START", "ARRAY_START"}
EndTypes == {"STRUCT_END", "ARRAY_END"}

\* The type of a token tells what was at the next element.
LEMMA TokenAtIs ==
  ASSUME NEW s, NEW c, NEW m \in Nat, Stack(s, c, m)
  PROVE  LET v == Element(c)
             t == TokenAt(c)
         IN  \/ v = NULL /\ t.typ \in EndTypes
             \/ v \in Value /\ v.typ \in Complex /\ t.typ \in StartTypes
             \/ /\ v \in Value /\ v.typ \notin Complex
                /\ t.typ \notin StartTypes \cup EndTypes
                /\ GoValue(t) = Converted[v]
<1> DEFINE v == Element(c)
           t == TokenAt(c)
<1>1. CASE v = NULL
  <2>1. t = EndToken(Last(c).of)
    BY <1>1 DEF TokenAt
  <2>2. t.typ \in EndTypes
    BY <2>1 DEF EndToken, Token, EndTypes
  <2> QED
    BY <1>1, <2>2
<1>2. CASE v # NULL /\ v.typ \in Complex
  <2>1. t = StartToken(v) /\ v \in Value
    BY <1>2, ElementIs DEF TokenAt
  <2>2. t.typ \in StartTypes
    BY <2>1 DEF StartToken, Token, StartTypes
  <2> QED
    BY <1>2, <2>1, <2>2
<1>3. CASE v # NULL /\ v.typ \notin Complex
  <2>1. t = LeafToken(v) /\ v \in Value
    BY <1>3, ElementIs DEF TokenAt
  <2> HIDE DEF v, t
  <2>2. t.typ = v.typ /\ GoValue(t) = Converted[v] /\ v.typ \in Simple
    BY <1>3, <2>1, LeafTokenIs, ValueIs
  <2>3. v.typ \notin StartTypes \cup EndTypes
    BY <2>2 DEF Simple, IntegerCoded, Strings, OtherSimple, StartTypes, EndTypes
  <2> QED
    BY <1>3, <2>1, <2>2, <2>3 DEF v, t
<1> QED
  BY <1>1, <1>2, <1>3

-----------------------------------------------------------------------------
(* What has been read                                                      *)

\* The Go values of the elements that a call has dealt with.
Read(f) == [i \in 1..f.done |-> Converted[f.of.sub[i]]]

\* The slices of the calls in progress except for the outermost one, and the
\* entries, which are the values of the outermost one.
ReadOf(c, m) == [l \in 1..(m - 1) |-> Read(c[l + 1])]
EntriesTo(k) ==
  [i \in 1..k |-> [value |-> Converted[values[i]], reason |-> EntryReason(i)]]

\* One more element.
LEMMA ReadBumped ==
  ASSUME NEW f, Frame(f)
  PROVE  /\ OfSize(Read(f), f.done)
         /\ Read(Bumped(f)) = Append(Read(f), Converted[f.of.sub[f.done + 1]])
<1> DEFINE n == f.done
           x == Converted[f.of.sub[n + 1]]
           r == Read(f)
           b == Read(Bumped(f))
<1>1. n \in Nat
  BY DEF Frame
<1>2. OfSize(r, n)
  BY <1>1 DEF OfSize, Read
<1>3. b = [i \in 1..(n + 1) |-> Converted[f.of.sub[i]]]
  BY DEF Read, Bumped
<1>4. OfSize(b, n + 1) /\ b[n + 1] = x /\ \A i \in 1..n : b[i] = r[i]
  <2>1. n + 1 \in Nat /\ n + 1 \in 1..(n + 1) /\ \A i \in 1..n : i \in 1..(n + 1)
    BY <1>1
  <2>2. \A i \in 1..n : r[i] = Converted[f.of.sub[i]]
    BY DEF Read
  <2> HIDE DEF b, r
  <2>3. OfSize(b, n + 1)
    BY <1>3, <2>1 DEF OfSize
  <2>4. b[n + 1] = x
    BY <1>3, <2>1
  <2>5. \A i \in 1..n : b[i] = r[i]
    BY <1>3, <2>1, <2>2
  <2> QED
    BY <2>3, <2>4, <2>5
<1> DEFINE a == Append(r, x)
<1> HIDE DEF r, b, x, a
<1>5. OfSize(a, n + 1) /\ a[n + 1] = x /\ \A i \in 1..n : a[i] = r[i]
  <2>1. Extended(a, r, n, x)
    BY <1>2, AppendIs DEF a
  <2> QED
    BY <2>1 DEF Extended
<1>6. \A i \in 1..(n + 1) : i \in 1..n \/ i = n + 1
  BY <1>1
<1>7. b = a
  BY <1>4, <1>5, <1>6, SameElements
<1> QED
  BY <1>2, <1>7 DEF b, r, x, a

\* One more entry.
LEMMA EntriesAppended ==
  ASSUME NEW k \in Nat
  PROVE  /\ OfSize(EntriesTo(k), k)
         /\ EntriesTo(k + 1) = Append(EntriesTo(k), [value |-> Converted[values[k + 1]],
                                                     reason |-> EntryReason(k + 1)])
<1> DEFINE x == [value |-> Converted[values[k + 1]], reason |-> EntryReason(k + 1)]
           r == EntriesTo(k)
           b == EntriesTo(k + 1)
<1>1. OfSize(r, k)
  BY DEF OfSize, EntriesTo
<1>2. OfSize(b, k + 1) /\ b[k + 1] = x /\ \A i \in 1..k : b[i] = r[i]
  BY DEF OfSize, EntriesTo
<1> DEFINE a == Append(r, x)
<1> HIDE DEF r, b, x, a
<1>3. OfSize(a, k + 1) /\ a[k + 1] = x /\ \A i \in 1..k : a[i] = r[i]
  <2>1. Extended(a, r, k, x)
    BY <1>1, AppendIs DEF a
  <2> QED
    BY <2>1 DEF Extended
<1>4. \A i \in 1..(k + 1) : i \in 1..k \/ i = k + 1
  OBVIOUS
<1>5. b = a
  BY <1>2, <1>3, <1>4, SameElements
<1> QED
  BY <1>1, <1>5 DEF b, r, x, a

\* The slices and entries after an element has been read as the value it is.
LEMMA Returning ==
  ASSUME NEW c, NEW m \in Nat, Stack(values, c, m),
         NEW v \in Value, Element(c) = v,
         NEW slices, slices = ReadOf(c, m), entries = EntriesTo(c[1].done),
         ReturnValue(Converted[v], slices)
  PROVE  /\ open' = ReadOf(Past(c), m)
         /\ entries' = EntriesTo(Past(c)[1].done)
<1> DEFINE x == Converted[v]
           d == Past(c)
           f == c[m]
<1>1. /\ Stack(values, d, m)
      /\ d[m] = Bumped(f)
      /\ \A l \in 1..(m - 1) : d[l] = c[l]
  BY PastStack, ValuesAssumption
<1>2. m > 0 /\ m \in 1..m /\ 1 \in 1..m /\ Frame(f) /\ c[1].of = Root(values)
  BY DEF Stack
<1>3. v = f.of.sub[f.done + 1]
  BY ElementIs, ValuesAssumption
<1> HIDE DEF d, f, x
<1>4. OfSize(slices, m - 1) /\ Len(slices) = m - 1
  <2>1. OfSize(slices, m - 1)
    BY <1>2 DEF OfSize, ReadOf
  <2> QED
    BY <2>1, SizeIsLen
<1>5. CASE m = 1
  <2>1. slices = <<>>
    BY <1>4, <1>5 DEF OfSize
  <2> DEFINE k == f.done
  <2>2. k \in Nat /\ f.of.sub = values /\ c[1].done = k
    BY <1>2, <1>5 DEF Frame, Root, f
  <2>3. OfSize(entries, k)
    BY <2>2, EntriesAppended
  <2>4. Len(entries) = k
    BY <2>3, SizeIsLen
  <2>5. entries' = Append(entries, [value |-> x, reason |-> EntryReason(k + 1)]) /\ open' = <<>>
    BY <2>1, <2>4 DEF ReturnValue, x
  <2>6. d[1].done = k + 1
    BY <1>1, <1>5 DEF Bumped
  <2> HIDE DEF k
  <2>7. x = Converted[values[k + 1]]
    BY <1>3, <2>2 DEF x, k
  <2>8. entries' = EntriesTo(k + 1)
    BY <2>2, <2>5, <2>7, EntriesAppended
  <2>9. ReadOf(d, m) = <<>>
    BY <1>5 DEF ReadOf
  <2> QED
    BY <2>5, <2>6, <2>8, <2>9 DEF d
<1>6. CASE m > 1
  <2> DEFINE n == m - 1
             y == Append(slices[n], x)
             z == [slices EXCEPT ![n] = y]
  <2>1. n \in Nat /\ n \in 1..n /\ n + 1 = m
    BY <1>6
  <2>2. slices # <<>>
    BY <1>4, <1>6 DEF OfSize
  <2>3. open' = z /\ entries' = entries
    BY <1>4, <2>2 DEF ReturnValue, x
  <2>4. d[1] = c[1]
    BY <1>1, <1>6
  <2>5. slices[n] = Read(f)
    BY <2>1 DEF ReadOf, f
  <2>6. y = Read(d[m])
    <3>1. Read(Bumped(f)) = Append(Read(f), Converted[f.of.sub[f.done + 1]])
      BY <1>2, ReadBumped
    <3> QED
      BY <1>1, <1>3, <2>5, <3>1 DEF x
  <2>7. OfSize(ReadOf(d, m), n)
    BY <2>1 DEF OfSize, ReadOf
  <2>8. ASSUME NEW l \in 1..n, l # n PROVE ReadOf(d, m)[l] = slices[l]
    <3>1. l + 1 \in 1..(m - 1)
      BY <2>1, <2>8
    <3>2. d[l + 1] = c[l + 1]
      BY <1>1, <3>1
    <3> QED
      BY <3>2 DEF ReadOf
  <2>9. ReadOf(d, m)[n] = y
    BY <2>1, <2>6 DEF ReadOf
  <2> HIDE DEF n, y
  <2>10. OfSize(z, n) /\ z[n] = y /\ \A l \in 1..n : l # n => z[l] = slices[l]
    <3>1. OfSize(slices, n)
      BY <1>4 DEF n
    <3>2. Replaced(z, slices, n, n, y)
      BY <2>1, <3>1, ExceptIs
    <3> QED
      BY <3>2 DEF Replaced
  <2> HIDE DEF z
  <2>11. \A l \in 1..n : z[l] = ReadOf(d, m)[l]
    BY <2>8, <2>9, <2>10
  <2>12. z = ReadOf(d, m)
    BY <2>7, <2>10, <2>11, SameElements
  <2> QED
    BY <2>3, <2>4, <2>12 DEF d
<1> QED
  BY <1>2, <1>5, <1>6

\* The slices and entries are those of the calls c.
Parsed(c, m) == open = ReadOf(c, m) /\ entries = EntriesTo(c[1].done)

\* A structure that has been read completely is the value it is.
LEMMA ReadAll ==
  ASSUME NEW s, NEW c, NEW m \in Nat, Stack(s, c, m), m > 1, Element(c) = NULL
  PROVE  [list |-> Read(c[m])] = Converted[c[m].of]
<1> DEFINE f == c[m]
           v == f.of
           q == v.sub
<1>1. Frame(f) /\ v \in Value
  BY DEF Stack
<1>2. f.done + 1 \notin DOMAIN q
  BY ElementIs
<1>3. v.typ \in Complex /\ q \in Seq(Value) /\ f.done \in Nat /\ \A i \in 1..f.done : i \in DOMAIN q
  BY <1>1, ValueIs DEF Frame
<1>4. DOMAIN q = 1..f.done
  <2> DEFINE n == Len(q)
             k == f.done
  <2>1. n \in Nat /\ DOMAIN q = 1..n
    <3> HIDE DEF q
    <3> QED
      BY <1>3, LenProperties
  <2>2. k \in Nat /\ k + 1 \notin 1..n /\ \A i \in 1..k : i \in 1..n
    BY <1>2, <1>3, <2>1
  <2> HIDE DEF n, k
  <2>3. k = n
    <3>1. ~(k < n)
      BY <2>1, <2>2
    <3>2. k > n => k \in 1..k
      BY <2>1, <2>2
    <3>3. ~(k > n)
      BY <2>1, <2>2, <3>2
    <3> QED
      BY <2>1, <2>2, <3>1, <3>3
  <2> QED
    BY <2>1, <2>3 DEF k
<1>5. Read(f) = [i \in DOMAIN q |-> Converted[q[i]]]
  BY <1>4 DEF Read
<1>6. Converted[v] = Body(Converted, v)
  BY <1>1, ConvertedIs
<1>7. Body(Converted, v) = [list |-> [i \in DOMAIN q |-> Converted[q[i]]]]
  BY <1>3 DEF Body, Complex
<1> QED
  BY <1>5, <1>6, <1>7

\* A step of extractFlatValue follows a step over the values.
LEMMA ExtractStep ==
  ASSUME NEW c, NEW m \in Nat, Stack(values, c, m), ~Finished(c), Parsed(c, m),
         pos \in Nat, Len(arr) \in Nat, pos <= Len(arr), arr[pos] = TokenAt(c),
         extractFlatValue
  PROVE  /\ pos' = pos + 1
         /\ open' = ReadOf(Continued(c), m + Deeper(c))
         /\ entries' = EntriesTo(Continued(c)[1].done)
<1> DEFINE v == Element(c)
           t == TokenAt(c)
<1>1. ~(pos > Len(arr)) /\ PosAfterEnd = pos + 1
  BY DEF PosAfterEnd
<1>2. m > 0 /\ OfSize(ReadOf(c, m), m - 1)
  BY DEF Stack, OfSize, ReadOf
<1>3. AtEnd <=> open # <<>> /\ t.typ \in EndTypes
  BY <1>1 DEF AtEnd, EndTypes
<1>4. StartTypes \cap EndTypes = {}
  BY DEF StartTypes, EndTypes
<1>5. CASE v = NULL
  <2> DEFINE d == Front(c)
             n == m - 1
             slices == Front(open)
  <2>1. t.typ \in EndTypes
    BY <1>5, TokenAtIs, ValuesAssumption
  <2>2. m > 1
    <3>1. m # 1
      BY <1>5, ElementIs DEF Finished
    <3> QED
      BY <1>2, <3>1
  <2>3. open # <<>>
    BY <1>2, <2>2, SizeIsLen DEF Parsed, OfSize
  <2>4. pos' = pos + 1 /\ ReturnValue([list |-> Last(open)], slices)
    BY <1>1, <1>3, <2>1, <2>3 DEF extractFlatValue
  <2>5. /\ OfSize(slices, n - 1)
        /\ \A l \in 1..(n - 1) : slices[l] = ReadOf(c, m)[l]
        /\ Last(open) = ReadOf(c, m)[n]
    <3> DEFINE r == ReadOf(c, m)
    <3>1. open = r /\ OfSize(r, n) /\ n > 0
      BY <1>2, <2>2 DEF Parsed
    <3> HIDE DEF n, r
    <3>2. /\ OfSize(Front(r), n - 1)
          /\ \A l \in 1..(n - 1) : Front(r)[l] = r[l]
          /\ Last(r) = r[n]
      BY <3>1, FrontIs
    <3> QED
      BY <3>1, <3>2 DEF r
  <2>6. ReadOf(c, m)[n] = Read(c[m])
    BY <1>2, <2>2 DEF ReadOf
  <2>7. [list |-> Last(open)] = Converted[c[m].of]
    BY <1>5, <2>2, <2>5, <2>6, ReadAll
  <2>8. /\ Stack(values, d, n)
        /\ \A l \in 1..n : d[l] = c[l]
        /\ Element(d) = c[m].of
        /\ c[m].of \in Value
    BY <2>2, FrontStack
  <2>9. slices = ReadOf(d, n)
    <3>1. OfSize(ReadOf(d, n), n - 1)
      BY <2>2 DEF OfSize, ReadOf
    <3>2. ASSUME NEW l \in 1..(n - 1) PROVE slices[l] = ReadOf(d, n)[l]
      <4>1. l \in 1..(m - 1) /\ l + 1 \in 1..n
        BY <2>2
      <4>2. d[l + 1] = c[l + 1]
        BY <2>8, <4>1
      <4>3. slices[l] = Read(c[l + 1])
        BY <2>5, <4>1 DEF ReadOf
      <4> QED
        BY <4>2, <4>3 DEF ReadOf
    <3> HIDE DEF slices, d, n
    <3> QED
      BY <2>5, <3>1, <3>2, SameElements
  <2>10. entries = EntriesTo(d[1].done)
    BY <2>2, <2>8 DEF Parsed
  <2>11. Continued(c) = Past(d) /\ m + Deeper(c) = n
    BY <1>5 DEF Continued, Returned, Deeper
  <2>12. n \in Nat
    BY <2>2
  <2> HIDE DEF d, n, slices
  <2>13. open' = ReadOf(Past(d), n) /\ entries' = EntriesTo(Past(d)[1].done)
    BY <2>4, <2>7, <2>8, <2>9, <2>10, <2>12, Returning
  <2> QED
    BY <2>4, <2>11, <2>13
<1>6. CASE v \in Value /\ v.typ \in Complex
  <2>1. t.typ \in StartTypes /\ v # NULL
    BY <1>6, TokenAtIs, ValuesAssumption
  <2>2. ~AtEnd
    BY <1>3, <1>4, <2>1
  <2>3. pos' = pos + 1 /\ open' = Append(open, <<>>) /\ entries' = entries
    BY <1>1, <2>1, <2>2 DEF extractFlatValue, StartTypes
  <2> DEFINE d == Entered(c)
             r == ReadOf(c, m)
             b == ReadOf(d, m + 1)
             a == Append(r, <<>>)
  <2>4. /\ d[m + 1] = [of |-> v, done |-> 0]
        /\ \A l \in 1..m : d[l] = c[l]
    <3>1. Extended(d, c, m, [of |-> v, done |-> 0])
      BY <1>6, <2>1, EnteredStack
    <3> QED
      BY <3>1 DEF Extended
  <2>5. Continued(c) = d /\ m + Deeper(c) = m + 1
    BY <1>6, <2>1 DEF Continued, Deeper
  <2>6. d[1] = c[1]
    BY <1>2, <2>4
  <2>7. Read(d[m + 1]) = <<>>
    BY <2>4 DEF Read
  <2>8. OfSize(b, m) /\ b[m] = <<>>
    BY <1>2, <2>7 DEF OfSize, ReadOf
  <2>9. ASSUME NEW l \in 1..(m - 1) PROVE b[l] = r[l]
    <3>1. l + 1 \in 1..m /\ l \in 1..((m + 1) - 1)
      OBVIOUS
    <3>2. d[l + 1] = c[l + 1]
      BY <2>4, <3>1
    <3> QED
      BY <3>1, <3>2 DEF ReadOf
  <2>10. Extended(a, r, m - 1, <<>>)
    <3> HIDE DEF r
    <3> QED
      BY <1>2, AppendIs DEF r
  <2>11. (m - 1) + 1 = m /\ \A l \in 1..m : l \in 1..(m - 1) \/ l = m
    OBVIOUS
  <2> HIDE DEF a, b, r, d
  <2>12. OfSize(a, m) /\ \A l \in 1..m : a[l] = b[l]
    BY <2>8, <2>9, <2>10, <2>11 DEF Extended
  <2>13. a = b
    BY <2>8, <2>12, SameElements
  <2> QED
    BY <2>3, <2>5, <2>6, <2>13 DEF Parsed, a, b, r
<1>7. CASE v \in Value /\ v.typ \notin Complex
  <2>1. v # NULL /\ t.typ \notin StartTypes \cup EndTypes /\ GoValue(t) = Converted[v]
    BY <1>7, TokenAtIs, ValuesAssumption
  <2>2. ~AtEnd
    BY <1>3, <2>1
  <2>3. pos' = pos + 1 /\ ReturnValue(GoValue(t), open)
    BY <1>1, <2>1, <2>2 DEF extractFlatValue, StartTypes
  <2>4. Continued(c) = Past(c) /\ m + Deeper(c) = m
    BY <1>7, <2>1 DEF Continued, Deeper
  <2> HIDE DEF t
  <2>5. open' = ReadOf(Past(c), m) /\ entries' = EntriesTo(Past(c)[1].done)
    BY <1>7, <2>1, <2>3, Returning DEF Parsed
  <2> QED
    BY <2>3, <2>4, <2>5
<1>8. v = NULL \/ v \in Value
  BY ElementIs DEF ValueOrNull
<1> QED
  BY <1>5, <1>6, <1>7, <1>8

-----------------------------------------------------------------------------
(* The inductive invariant                                                 *)

\* The ClientReport: values of the data set or NULL, and reasons that say which
\* elements the last report includes.
Types ==
  /\ dataSet \in Seq(SUBSET Value)
  /\ values \in Seq(ValueOrNull)
  /\ DOMAIN values = Elements
  /\ DOMAIN reasons = Elements
  /\ included \subseteq Elements
  /\ hasReason => \A i \in Elements : i \in included <=> reasons[i] # REASON_NOT_INCLUDED

\* Between two reports there are no tokens.
Resting == Idle => arr = <<>> /\ pos = 1 /\ open = <<>>

\* Go has not started with the report.
Nothing == pos = 1 /\ open = <<>> /\ entries = <<>>

\* Every step so far has been counted, except that a call whose return is still to
\* come has been counted for that already.
Counting ==
  phase = "counting" =>
    /\ arr = <<>> /\ Nothing
    /\ \E n \in Nat, m \in Nat : \E g :
         /\ Trace(values, g, n)
         /\ calls = g[n]
         /\ Stack(values, calls, m)
         /\ count = n + (m - 1)

\* The whole pass over the values takes as many steps as were counted.
Whole(g) ==
  /\ count \in Nat /\ count > 0
  /\ Trace(values, g, count)
  /\ Finished(g[count])

\* The first n tokens are those of the first n steps.
Written(g, n) ==
  /\ OfSize(arr, n)
  /\ n <= count
  /\ \A k \in 1..n : arr[k] = TokenAt(g[k - 1])

Flattening ==
  phase = "flattening" =>
    /\ Nothing
    /\ \E g : \E n \in Nat : Whole(g) /\ Written(g, n) /\ calls = g[n]

\* Go has read as far as the pass over the values was when the next token was written.
Building ==
  phase = "building" =>
    \E g : \E k \in Nat, m \in Nat :
      /\ Whole(g) /\ Written(g, count)
      /\ k <= count /\ pos = k + 1
      /\ Stack(values, g[k], m) /\ Parsed(g[k], m)

\* The values are shown up to the first that is NULL.
Built ==
  phase = "built" =>
    \E k \in Nat :
      /\ entries = EntriesTo(k)
      /\ \A i \in 1..k : i \in Elements /\ values[i] \in Value
      /\ k + 1 \notin Elements \/ values[k + 1] = NULL

IInv == Types /\ Resting /\ Counting /\ Flattening /\ Building /\ Built

-----------------------------------------------------------------------------
(* It holds initially, and every step keeps it                             *)

\* A function on 1..n is a sequence.
LEMMA FunctionIsSeq ==
  ASSUME NEW S, NEW n \in Nat, NEW f \in [1..n -> S]
  PROVE  f \in Seq(S)
<1>1. f \in UNION {[1..k -> S] : k \in Nat}
  OBVIOUS
<1> QED
  BY <1>1, SeqDef

\* Initially nothing has been received, and no tokens or entries exist.
LEMMA InitIInv == Init => IInv
<1> SUFFICES ASSUME Init PROVE IInv
  OBVIOUS
<1>1. phase = "waiting" /\ arr = <<>> /\ pos = 1 /\ open = <<>>
  BY DEF Init
<1>2. dataSet \in Seq(SUBSET Value)
  BY DataSetsAssumption DEF Init
<1>3. DOMAIN values = Elements /\ DOMAIN reasons = Elements /\ included = {} /\ ~hasReason
  BY DEF Init
<1>4. values \in Seq(ValueOrNull)
  <2> DEFINE n == Len(dataSet)
  <2>1. n \in Nat /\ Elements = 1..n
    BY <1>2, LenProperties DEF Elements
  <2>2. NULL \in ValueOrNull
    BY DEF ValueOrNull
  <2>3. values = [i \in Elements |-> NULL]
    BY DEF Init
  <2> HIDE DEF n
  <2>4. values \in [1..n -> ValueOrNull]
    BY <2>1, <2>2, <2>3
  <2> QED
    BY <2>1, <2>4, FunctionIsSeq
<1>5. Types
  BY <1>2, <1>3, <1>4 DEF Types
<1> QED
  BY <1>1, <1>5 DEF IInv, Resting, Counting, Flattening, Building, Built

\* Steps that leave the ClientReport alone.
LEMMA SameReport ==
  ASSUME Types, UNCHANGED report
  PROVE  /\ Types'
         /\ values' = values /\ Elements' = Elements
         /\ \A k : EntriesTo(k)' = EntriesTo(k)
<1>1. /\ dataSet' = dataSet /\ values' = values /\ reasons' = reasons
      /\ hasReason' = hasReason /\ included' = included
  BY DEF report
<1>2. Types'
  BY <1>1 DEF Types, Elements
<1>3. \A i : EntryReason(i)' = EntryReason(i)
  BY <1>1 DEF EntryReason
<1>4. \A k : EntriesTo(k)' = EntriesTo(k)
  BY <1>1, <1>3 DEF EntriesTo
<1> QED
  BY <1>1, <1>2, <1>4 DEF Elements

\* A report starts a new pass over the values that it leaves in the ClientReport.
LEMMA ReportReceivedIInv ==
  ASSUME IInv, NEW incl \in SUBSET Elements \ {{}}, NEW withReason \in BOOLEAN,
         ReportReceived(incl, withReason)
  PROVE  IInv'
<1>1. /\ phase' = "counting" /\ calls' = Start' /\ count' = 0 /\ entries' = <<>>
      /\ dataSet' = dataSet /\ arr' = <<>> /\ pos' = 1 /\ open' = <<>>
  BY DEF ReportReceived, IInv, Resting
<1>2. /\ dataSet \in Seq(SUBSET Value)
      /\ values \in Seq(ValueOrNull)
      /\ DOMAIN values = Elements
  BY DEF IInv, Types
<1>3. Elements' = Elements
  BY <1>1 DEF Elements
<1>4. values' \in Seq(ValueOrNull) /\ DOMAIN values' = Elements
  <2>1. PICK new : /\ \A i \in incl : new[i] \in dataSet[i]
                   /\ values' = [i \in Elements |-> IF i \in incl THEN new[i] ELSE values[i]]
    BY DEF ReportReceived
  <2> DEFINE n == Len(dataSet)
  <2>2. n \in Nat /\ Elements = 1..n /\ \A i \in Elements : dataSet[i] \in SUBSET Value
    BY <1>2, LenProperties, ElementOfSeq DEF Elements
  <2>3. \A i \in Elements : values[i] \in ValueOrNull
    BY <1>2, LenProperties, ElementOfSeq
  <2>4. \A i \in incl : new[i] \in ValueOrNull
    BY <2>1, <2>2 DEF ValueOrNull
  <2> HIDE DEF n
  <2>5. values' \in [1..n -> ValueOrNull]
    BY <2>1, <2>2, <2>3, <2>4
  <2> QED
    BY <2>1, <2>2, <2>5, FunctionIsSeq
<1>5. /\ DOMAIN reasons' = Elements
      /\ included' = incl
      /\ hasReason' => \A i \in Elements : i \in incl <=> reasons'[i] # REASON_NOT_INCLUDED
  <2>1. PICK why \in Reasons :
          reasons' = [i \in Elements |-> CASE i \notin incl -> REASON_NOT_INCLUDED
                                           [] i \in incl /\ withReason -> why
                                           [] OTHER -> REASON_UNKNOWN]
    BY DEF ReportReceived
  <2>2. why # REASON_NOT_INCLUDED
    BY ReasonAssumption DEF REASON_NOT_INCLUDED
  <2>3. hasReason' = withReason /\ included' = incl
    BY DEF ReportReceived
  <2>4. ASSUME withReason, NEW i \in Elements
        PROVE  i \in incl <=> reasons'[i] # REASON_NOT_INCLUDED
    BY <2>1, <2>2, <2>4
  <2> QED
    BY <2>1, <2>3, <2>4
<1>6. Types'
  BY <1>1, <1>2, <1>3, <1>4, <1>5 DEF Types
<1>7. Counting'
  <2>1. PICK g : Trace(values', g, 0) /\ g[0] = StartOf(values')
    BY <1>4, TraceStarts
  <2>2. calls' = StartOf(values')
    BY <1>1 DEF Start, StartOf, Root
  <2>3. Stack(values', calls', 1)
    BY <1>4, <2>2, StartIsStack
  <2>4. count' = 0 + (1 - 1)
    BY <1>1
  <2> QED
    BY <1>1, <2>1, <2>2, <2>3, <2>4 DEF Counting, Nothing
<1> QED
  BY <1>1, <1>6, <1>7 DEF IInv, Resting, Idle, Flattening, Building, Built

\* Installing the callback again empties the ClientReport.
LEMMA ReinstalledIInv == IInv /\ Reinstalled => IInv'
<1> SUFFICES ASSUME IInv, Reinstalled PROVE IInv'
  OBVIOUS
<1>1. /\ phase' = "waiting" /\ dataSet' = dataSet
      /\ arr' = <<>> /\ pos' = 1 /\ open' = <<>>
  BY DEF Reinstalled, IInv, Resting
<1>2. Elements' = Elements /\ dataSet \in Seq(SUBSET Value)
  BY <1>1 DEF Elements, IInv, Types
<1>3. /\ values' = [i \in Elements |-> NULL] /\ DOMAIN reasons' = Elements
      /\ included' = {} /\ ~hasReason'
  BY DEF Reinstalled
<1>4. values' \in Seq(ValueOrNull)
  <2> DEFINE n == Len(dataSet)
  <2>1. n \in Nat /\ Elements = 1..n
    BY <1>2, LenProperties DEF Elements
  <2>2. NULL \in ValueOrNull
    BY DEF ValueOrNull
  <2> HIDE DEF n
  <2>3. values' \in [1..n -> ValueOrNull]
    BY <1>3, <2>1, <2>2
  <2> QED
    BY <2>1, <2>3, FunctionIsSeq
<1>5. Types'
  BY <1>1, <1>2, <1>3, <1>4 DEF Types
<1> QED
  BY <1>1, <1>5 DEF IInv, Resting, Counting, Flattening, Building, Built

\* count_mms_elements takes one step of the pass and counts it.
LEMMA CountIInv == IInv /\ count_mms_elements => IInv'
<1> SUFFICES ASSUME IInv, count_mms_elements PROVE IInv'
  OBVIOUS
<1>1. /\ phase = "counting" /\ ~Finished(calls)
      /\ calls' = Continued(calls)
      /\ count' = count + Counted(Element(calls))
      /\ UNCHANGED <<report, phase, arr, pos, open, entries>>
  BY DEF count_mms_elements
<1>2. Types' /\ values' = values
  BY <1>1, SameReport DEF IInv
<1>3. Counting'
  <2>1. PICK n \in Nat, m \in Nat : \E g :
          /\ Trace(values, g, n)
          /\ calls = g[n]
          /\ Stack(values, calls, m)
          /\ count = n + (m - 1)
    BY <1>1 DEF IInv, Counting
  <2>2. PICK g : Trace(values, g, n) /\ calls = g[n]
    BY <2>1
  <2>3. PICK h : Trace(values, h, n + 1) /\ h[n + 1] = Continued(g[n])
    BY <1>1, <2>2, TraceExtends
  <2> DEFINE d == Deeper(calls)
             l == m + d
             k == n + 1
  <2>4. /\ l \in Nat
        /\ Stack(values, calls', l)
        /\ Counted(Element(calls)) = 1 + d
    BY <1>1, <2>1, ContinuedStack
  <2>5. d \in Int
    BY DEF Deeper
  <2>6. count' = k + (l - 1)
    <3> HIDE DEF d
    <3> QED
      BY <1>1, <2>1, <2>4, <2>5
  <2>7. k \in Nat /\ Trace(values', h, k) /\ calls' = h[k]
    BY <1>1, <1>2, <2>2, <2>3
  <2>8. arr' = <<>> /\ Nothing'
    BY <1>1 DEF IInv, Counting, Nothing
  <2> HIDE DEF l, k
  <2> QED
    BY <1>2, <2>4, <2>6, <2>7, <2>8 DEF Counting
<1> QED
  BY <1>1, <1>2, <1>3 DEF IInv, Resting, Idle, Flattening, Building, Built

\* When the pass is at its end, only the outermost call is in progress, and the
\* values up to the first NULL have been dealt with.
LEMMA FinishedIs ==
  ASSUME Types, NEW c, NEW m \in Nat, Stack(values, c, m), Finished(c)
  PROVE  LET k == c[1].done
         IN  /\ m = 1 /\ k \in Nat
             /\ \A i \in 1..k : i \in Elements /\ values[i] \in Value
             /\ k + 1 \notin Elements \/ values[k + 1] = NULL
<1>1. m = 1 /\ Element(c) = NULL /\ Last(c) = c[1]
  BY ElementIs DEF Finished
<1>2. Frame(c[1]) /\ c[1].of = Root(values)
  BY <1>1 DEF Stack
<1>3. /\ c[1].of.typ \in Complex /\ c[1].of.sub = values
      /\ DOMAIN values = Elements
  BY <1>2 DEF Root, Complex, Types
<1>4. c[1].done + 1 \notin Elements \/ values[c[1].done + 1] = NULL
  BY <1>1, <1>3 DEF Element, MmsValue_getElement
<1>5. c[1].done \in Nat /\ \A i \in 1..c[1].done : i \in Elements /\ values[i] \in Value
  BY <1>2, <1>3 DEF Frame
<1> QED
  BY <1>1, <1>4, <1>5

\* At the end of the pass all its steps have been counted, and flattening starts it anew.
LEMMA FlattenReportDataSetIInv == IInv /\ flattenReportDataSet => IInv'
<1> SUFFICES ASSUME IInv, flattenReportDataSet PROVE IInv'
  OBVIOUS
<1>1. /\ phase = "counting" /\ Finished(calls)
      /\ UNCHANGED <<report, count, arr, pos, open, entries>>
  BY DEF flattenReportDataSet
<1>2. /\ Types' /\ values' = values /\ Elements' = Elements
      /\ \A k : EntriesTo(k)' = EntriesTo(k)
  BY <1>1, SameReport DEF IInv
<1>3. arr = <<>> /\ Nothing
  BY <1>1 DEF IInv, Counting
<1>4. PICK n \in Nat, m \in Nat : \E g :
        /\ Trace(values, g, n)
        /\ calls = g[n]
        /\ Stack(values, calls, m)
        /\ count = n + (m - 1)
  BY <1>1 DEF IInv, Counting
<1>5. PICK g : Trace(values, g, n) /\ calls = g[n]
  BY <1>4
<1>6. m = 1
  BY <1>1, <1>4, FinishedIs DEF IInv
<1>7. count = n
  BY <1>4, <1>6
<1>8. Types /\ values \in Seq(ValueOrNull)
  BY DEF IInv, Types
<1>9. CASE count = 0 /\ phase' = "built"
  <2>1. calls = StartOf(values) /\ calls[1].done = 0
    <3>1. g[0] = StartOf(values) /\ n = 0
      BY <1>5, <1>7, <1>9 DEF Trace
    <3>2. StartOf(values)[1] = [of |-> Root(values), done |-> 0]
      BY <1>8, StartIsStack
    <3> QED
      BY <1>5, <3>1, <3>2
  <2>2. 0 + 1 \notin Elements \/ values[0 + 1] = NULL
    BY <1>1, <1>4, <1>8, <2>1, FinishedIs
  <2>3. entries' = EntriesTo(0)' /\ \A i \in 1..0 : FALSE
    BY <1>1, <1>2, <1>3 DEF EntriesTo, Nothing
  <2>4. Built'
    BY <1>2, <1>9, <2>2, <2>3 DEF Built
  <2> QED
    BY <1>1, <1>2, <1>3, <1>9, <2>4
    DEF IInv, Resting, Nothing, Counting, Flattening, Building
<1>10. CASE count > 0 /\ phase' = "flattening" /\ calls' = Start
  <2>1. Whole(g)
    BY <1>1, <1>4, <1>5, <1>7, <1>10 DEF Whole
  <2>2. OfSize(arr, 0) /\ \A k \in 1..0 : FALSE
    BY <1>3 DEF OfSize
  <2>3. Written(g, 0)
    BY <1>7, <1>10, <2>2 DEF Written
  <2>4. calls' = g[0]
    BY <1>5, <1>10 DEF Trace, Start, StartOf, Root
  <2>5. Whole(g)' /\ Written(g, 0)' /\ Nothing'
    BY <1>1, <1>2, <1>3, <2>1, <2>3 DEF Whole, Written, Nothing
  <2>6. Flattening'
    BY <2>4, <2>5 DEF Flattening
  <2> QED
    BY <1>2, <1>10, <2>6 DEF IInv, Resting, Idle, Counting, Building, Built
<1>11. CASE count > 0 /\ phase' = "noMemory"
  BY <1>1, <1>2, <1>3, <1>11
  DEF IInv, Resting, Nothing, Counting, Flattening, Building, Built
<1> QED
  BY <1>9, <1>10, <1>11 DEF flattenReportDataSet

\* A pass that is not finished is not at the end of the whole pass.
LEMMA NotAtEnd ==
  ASSUME NEW g, Whole(g), NEW n \in Nat, n <= count
  PROVE  /\ Finished(g[n]) <=> n = count
         /\ n < count => g[n + 1] = Continued(g[n])
         /\ \E m \in Nat : Stack(values, g[n], m)
<1>1. count \in Nat /\ Trace(values, g, count) /\ Finished(g[count])
  BY DEF Whole
<1>2. ASSUME n # count PROVE ~Finished(g[n]) /\ g[n + 1] = Continued(g[n])
  <2> DEFINE k == n + 1
  <2>1. k \in 1..count /\ k - 1 = n
    BY <1>1, <1>2
  <2> HIDE DEF k
  <2>2. ~Finished(g[k - 1]) /\ g[k] = Continued(g[k - 1])
    BY <1>1, <2>1 DEF Trace
  <2> QED
    BY <2>1, <2>2 DEF k
<1>3. n \in 0..count
  BY <1>1
<1>4. \E m \in Nat : Stack(values, g[n], m)
  BY <1>1, <1>3 DEF Trace
<1> QED
  BY <1>1, <1>2, <1>4

\* flatten_mms_value takes one step of the same pass and writes one token for it.
LEMMA FlattenIInv == IInv /\ flatten_mms_value => IInv'
<1> SUFFICES ASSUME IInv, flatten_mms_value PROVE IInv'
  OBVIOUS
<1>1. /\ phase = "flattening" /\ ~Finished(calls)
      /\ UNCHANGED <<report, phase, count, pos, open, entries>>
  BY DEF flatten_mms_value
<1>2. Types' /\ values' = values
  BY <1>1, SameReport DEF IInv
<1>3. Nothing /\ \E g : \E n \in Nat : Whole(g) /\ Written(g, n) /\ calls = g[n]
  BY <1>1 DEF IInv, Flattening
<1>4. PICK g : \E n \in Nat : Whole(g) /\ Written(g, n) /\ calls = g[n]
  BY <1>3
<1>5. PICK n \in Nat : Whole(g) /\ Written(g, n) /\ calls = g[n]
  BY <1>4
<1> DEFINE k == n + 1
           t == TokenAt(calls)
<1>6. n < count /\ g[k] = Continued(g[n])
  <2>1. n <= count /\ count \in Nat
    BY <1>5 DEF Written, Whole
  <2>2. n # count
    BY <1>1, <1>5, <2>1, NotAtEnd
  <2>3. n < count
    BY <2>1, <2>2
  <2> QED
    BY <1>5, <2>1, <2>3, NotAtEnd
<1>7. OfSize(arr, n) /\ Len(arr) = n
  BY <1>5, SizeIsLen DEF Written
<1>8. calls' = g[k] /\ arr' = Append(arr, t)
  <2>1. ~(Len(arr) >= count)
    BY <1>5, <1>6, <1>7 DEF Whole
  <2> QED
    BY <1>5, <1>6, <2>1 DEF flatten_mms_value
<1>9. Extended(arr', arr, n, t)
  BY <1>7, <1>8, AppendIs
<1>10. Written(g, k)'
  <2>1. OfSize(arr', k) /\ arr'[k] = t /\ \A i \in 1..n : arr'[i] = arr[i]
    BY <1>9 DEF Extended
  <2>2. k <= count'
    BY <1>1, <1>5, <1>6 DEF Whole
  <2>3. t = TokenAt(g[k - 1])
    BY <1>5
  <2>4. \A i \in 1..k : i \in 1..n \/ i = k
    OBVIOUS
  <2> HIDE DEF k, t
  <2>5. \A i \in 1..k : arr'[i] = TokenAt(g[i - 1])
    BY <1>5, <2>1, <2>3, <2>4 DEF Written
  <2> QED
    BY <2>1, <2>2, <2>5 DEF Written
<1>11. Whole(g)' /\ Nothing' /\ k \in Nat
  BY <1>1, <1>2, <1>3, <1>5 DEF Whole, Nothing
<1> HIDE DEF k
<1>12. Flattening'
  BY <1>8, <1>10, <1>11 DEF Flattening
<1> QED
  BY <1>1, <1>2, <1>12 DEF IInv, Resting, Idle, Counting, Building, Built

\* When flattening is finished all tokens that were counted are written.
LEMMA FlattenedIInv == IInv /\ Flattened => IInv'
<1> SUFFICES ASSUME IInv, Flattened PROVE IInv'
  OBVIOUS
<1>1. /\ phase = "flattening" /\ Finished(calls) /\ phase' = "building"
      /\ UNCHANGED <<report, count, arr, pos, open, entries>>
  BY DEF Flattened
<1>2. Types' /\ values' = values /\ \A k : EntriesTo(k)' = EntriesTo(k)
  BY <1>1, SameReport DEF IInv
<1>3. Nothing /\ \E g : \E n \in Nat : Whole(g) /\ Written(g, n) /\ calls = g[n]
  BY <1>1 DEF IInv, Flattening
<1>4. PICK g : \E n \in Nat : Whole(g) /\ Written(g, n) /\ calls = g[n]
  BY <1>3
<1>5. PICK n \in Nat : Whole(g) /\ Written(g, n) /\ calls = g[n]
  BY <1>4
<1>6. n = count
  <2>1. n <= count
    BY <1>5 DEF Written
  <2> QED
    BY <1>1, <1>5, <2>1, NotAtEnd
<1>7. Whole(g)' /\ Written(g, count)'
  BY <1>1, <1>2, <1>5, <1>6 DEF Whole, Written
<1>8. values \in Seq(ValueOrNull) /\ g[0] = StartOf(values)
  BY <1>5 DEF IInv, Types, Whole, Trace
<1>9. Stack(values, g[0], 1) /\ g[0][1].done = 0
  <2>1. /\ Stack(values, StartOf(values), 1)
        /\ StartOf(values)[1] = [of |-> Root(values), done |-> 0]
    BY <1>8, StartIsStack
  <2> QED
    BY <1>8, <2>1
<1>10. open' = ReadOf(g[0], 1) /\ entries' = EntriesTo(0)'
  BY <1>1, <1>3 DEF Nothing, ReadOf, EntriesTo
<1>11. Parsed(g[0], 1)'
  BY <1>9, <1>10 DEF Parsed
<1>12. Stack(values, g[0], 1)' /\ 0 <= count' /\ pos' = 0 + 1
  BY <1>1, <1>2, <1>3, <1>5, <1>9 DEF Nothing, Whole
<1>13. Building'
  BY <1>7, <1>11, <1>12 DEF Building
<1> QED
  BY <1>1, <1>2, <1>13 DEF IInv, Resting, Idle, Counting, Flattening, Built

\* extractFlatValue follows one step of the pass by its token.
LEMMA ExtractIInv == IInv /\ extractFlatValue => IInv'
<1> SUFFICES ASSUME IInv, extractFlatValue PROVE IInv'
  OBVIOUS
<1>1. phase = "building" /\ UNCHANGED <<report, phase, calls, count, arr>>
  BY DEF extractFlatValue
<1>2. Types' /\ values' = values /\ \A k : EntriesTo(k)' = EntriesTo(k)
  BY <1>1, SameReport DEF IInv
<1>3. PICK g : \E k \in Nat, m \in Nat :
        /\ Whole(g) /\ Written(g, count)
        /\ k <= count /\ pos = k + 1
        /\ Stack(values, g[k], m) /\ Parsed(g[k], m)
  BY <1>1 DEF IInv, Building
<1>4. PICK k \in Nat, m \in Nat :
        /\ Whole(g) /\ Written(g, count)
        /\ k <= count /\ pos = k + 1
        /\ Stack(values, g[k], m) /\ Parsed(g[k], m)
  BY <1>3
<1>5. count \in Nat /\ OfSize(arr, count) /\ Len(arr) = count
  BY <1>4, SizeIsLen DEF Written, Whole
<1>6. k < count
  <2>1. CASE k = count
    <3>1. Finished(g[k])
      BY <1>4, <2>1, NotAtEnd
    <3>2. m = 1
      BY <1>4, <3>1, FinishedIs DEF IInv
    <3>3. open = <<>>
      BY <1>4, <3>2 DEF Parsed, ReadOf
    <3>4. ~AtEnd
      BY <3>3 DEF AtEnd
    <3>5. ~(pos <= Len(arr))
      BY <1>4, <1>5, <2>1
    <3> QED
      BY <3>4, <3>5 DEF extractFlatValue
  <2> QED
    BY <1>4, <1>5, <2>1
<1>7. g[k + 1] = Continued(g[k]) /\ ~Finished(g[k])
  BY <1>4, <1>5, <1>6, NotAtEnd
<1>8. pos \in Nat /\ pos <= Len(arr) /\ arr[pos] = TokenAt(g[k])
  <2>1. pos \in 1..count /\ pos - 1 = k
    BY <1>4, <1>5, <1>6
  <2> QED
    BY <1>4, <1>5, <2>1 DEF Written
<1> DEFINE l == k + 1
           e == m + Deeper(g[k])
<1>9. /\ pos' = pos + 1
      /\ open' = ReadOf(g[l], e)
      /\ entries' = EntriesTo(g[l][1].done)
  <2> DEFINE c == g[k]
  <2>1. Stack(values, c, m) /\ ~Finished(c) /\ Parsed(c, m) /\ arr[pos] = TokenAt(c)
    BY <1>4, <1>7, <1>8
  <2> HIDE DEF c
  <2>2. /\ pos' = pos + 1
        /\ open' = ReadOf(Continued(c), m + Deeper(c))
        /\ entries' = EntriesTo(Continued(c)[1].done)
    BY <1>5, <1>8, <2>1, ExtractStep
  <2> QED
    BY <1>7, <2>2 DEF c
<1>10. e \in Nat /\ Stack(values, g[l], e)
  <2> DEFINE c == g[k]
  <2>1. Stack(values, c, m) /\ ~Finished(c)
    BY <1>4, <1>7
  <2> HIDE DEF c
  <2>2. m + Deeper(c) \in Nat /\ Stack(values, Continued(c), m + Deeper(c))
    BY <2>1, ContinuedStack
  <2> QED
    BY <1>7, <2>2 DEF c
<1>11. l \in Nat /\ l <= count' /\ pos' = l + 1
  BY <1>1, <1>4, <1>5, <1>6, <1>9
<1> HIDE DEF l, e
<1>12. Parsed(g[l], e)'
  BY <1>2, <1>9 DEF Parsed
<1>13. Whole(g)' /\ Written(g, count)' /\ Stack(values, g[l], e)'
  BY <1>1, <1>2, <1>4, <1>10 DEF Whole, Written
<1>14. Building'
  BY <1>10, <1>11, <1>12, <1>13 DEF Building
<1> QED
  BY <1>1, <1>2, <1>14 DEF IInv, Resting, Idle, Counting, Flattening, Built

\* When all tokens have been read the entries are the values up to the first NULL.
LEMMA BuildReportIInv == IInv /\ buildReport => IInv'
<1> SUFFICES ASSUME IInv, buildReport PROVE IInv'
  OBVIOUS
<1>1. /\ phase = "building" /\ phase' = "built" /\ open = <<>> /\ pos > Len(arr)
      /\ arr' = <<>> /\ pos' = 1
      /\ UNCHANGED <<report, calls, open, entries>>
  BY DEF buildReport
<1>2. /\ Types' /\ values' = values /\ Elements' = Elements
      /\ \A k : EntriesTo(k)' = EntriesTo(k)
  BY <1>1, SameReport DEF IInv
<1>3. PICK g : \E k \in Nat, m \in Nat :
        /\ Whole(g) /\ Written(g, count)
        /\ k <= count /\ pos = k + 1
        /\ Stack(values, g[k], m) /\ Parsed(g[k], m)
  BY <1>1 DEF IInv, Building
<1>4. PICK k \in Nat, m \in Nat :
        /\ Whole(g) /\ Written(g, count)
        /\ k <= count /\ pos = k + 1
        /\ Stack(values, g[k], m) /\ Parsed(g[k], m)
  BY <1>3
<1>5. count \in Nat /\ OfSize(arr, count) /\ Len(arr) = count
  BY <1>4, SizeIsLen DEF Written, Whole
<1>6. k = count
  BY <1>1, <1>4, <1>5
<1>7. Finished(g[k])
  BY <1>4, <1>6, NotAtEnd
<1> DEFINE n == g[k][1].done
<1>8. /\ n \in Nat
      /\ \A i \in 1..n : i \in Elements /\ values[i] \in Value
      /\ n + 1 \notin Elements \/ values[n + 1] = NULL
  BY <1>4, <1>7, FinishedIs DEF IInv
<1>9. entries' = EntriesTo(n)'
  BY <1>1, <1>2, <1>4 DEF Parsed
<1> HIDE DEF n
<1>10. Built'
  BY <1>2, <1>8, <1>9 DEF Built
<1> QED
  BY <1>1, <1>2, <1>10 DEF IInv, Resting, Counting, Flattening, Building

\* A step that changes nothing keeps the invariant.
LEMMA StutterIInv == IInv /\ UNCHANGED vars => IInv'
<1> SUFFICES ASSUME IInv, UNCHANGED vars PROVE IInv'
  OBVIOUS
<1>1. /\ UNCHANGED <<report, phase, calls, count, arr, pos, open, entries>>
  BY DEF vars
<1>2. /\ Types' /\ values' = values /\ Elements' = Elements
      /\ \A k : EntriesTo(k)' = EntriesTo(k)
  BY <1>1, SameReport DEF IInv
<1>3. \A g : Whole(g)' = Whole(g)
  BY <1>1, <1>2 DEF Whole
<1>4. \A g, n : Written(g, n)' = Written(g, n)
  BY <1>1 DEF Written
<1>5. \A c, m : Parsed(c, m)' = Parsed(c, m)
  BY <1>1, <1>2 DEF Parsed
<1>6. Resting' /\ Nothing' = Nothing
  BY <1>1 DEF IInv, Resting, Idle, Nothing
<1>7. Counting'
  BY <1>1, <1>2, <1>6 DEF IInv, Counting
<1>8. Flattening'
  BY <1>1, <1>3, <1>4, <1>6 DEF IInv, Flattening
<1>9. Building'
  BY <1>1, <1>2, <1>3, <1>4, <1>5 DEF IInv, Building
<1>10. Built'
  BY <1>1, <1>2 DEF IInv, Built
<1> QED
  BY <1>2, <1>6, <1>7, <1>8, <1>9, <1>10 DEF IInv

-----------------------------------------------------------------------------
(* Theorems                                                                *)

\* The inductive invariant holds in every reachable state: reports, counting,
\* flattening and building all keep it.
THEOREM Invariant == Spec => []IInv
<1>1. Init => IInv
  BY InitIInv
<1>2. IInv /\ [Next]_vars => IInv'
  <2> SUFFICES ASSUME IInv, [Next]_vars PROVE IInv'
    OBVIOUS
  <2>1. ASSUME NEW incl \in SUBSET Elements \ {{}}, NEW withReason \in BOOLEAN,
               ReportReceived(incl, withReason)
        PROVE  IInv'
    BY <2>1, ReportReceivedIInv
  <2>2. CASE count_mms_elements
    BY <2>2, CountIInv
  <2>3. CASE flattenReportDataSet
    BY <2>3, FlattenReportDataSetIInv
  <2>4. CASE flatten_mms_value
    BY <2>4, FlattenIInv
  <2>5. CASE Flattened
    BY <2>5, FlattenedIInv
  <2>6. CASE extractFlatValue
    BY <2>6, ExtractIInv
  <2>7. CASE buildReport
    BY <2>7, BuildReportIInv
  <2>8. CASE Reinstalled
    BY <2>8, ReinstalledIInv
  <2>9. CASE UNCHANGED vars
    BY <2>9, StutterIInv
  <2> QED
    BY <2>1, <2>2, <2>3, <2>4, <2>5, <2>6, <2>7, <2>8, <2>9 DEF Next
<1> QED
  BY <1>1, <1>2, PTL DEF Spec

\* count_mms_elements and flatten_mms_value go through the same values in the same
\* way: flattening never meets max_len before its end, and leaves no token of the
\* array unwritten.
THEOREM CountedIsWritten == Spec => []CountIsExact
<1>1. IInv => CountIsExact
  <2> SUFFICES ASSUME IInv PROVE CountIsExact
    OBVIOUS
  <2>1. ASSUME phase = "flattening", ~Finished(calls) PROVE Len(arr) < count
    <3>1. PICK g : \E n \in Nat : Whole(g) /\ Written(g, n) /\ calls = g[n]
      BY <2>1 DEF IInv, Flattening
    <3>2. PICK n \in Nat : Whole(g) /\ Written(g, n) /\ calls = g[n]
      BY <3>1
    <3>3. n <= count /\ count \in Nat /\ Len(arr) = n
      BY <3>2, SizeIsLen DEF Written, Whole
    <3>4. n # count
      BY <2>1, <3>2, <3>3, NotAtEnd
    <3> QED
      BY <3>3, <3>4
  <2>2. ASSUME phase = "building" PROVE Len(arr) = count
    <3>1. PICK g : Written(g, count)
      BY <2>2 DEF IInv, Building
    <3> QED
      BY <3>1, SizeIsLen DEF Written
  <2> QED
    BY <2>1, <2>2 DEF CountIsExact
<1> QED
  BY <1>1, Invariant, PTL

\* Through count, tokens and slices every entry of a Report is the value of its
\* element, with the structure of it, and has the reason of that element.
THEOREM EntriesAreElements == Spec => []EntriesMatchElements
<1>1. IInv => EntriesMatchElements
  <2> SUFFICES ASSUME IInv, phase = "built", NEW i \in DOMAIN entries
               PROVE  /\ i \in Elements /\ values[i] # NULL
                      /\ entries[i].value = Converted[values[i]]
                      /\ hasReason => entries[i].reason = reasons[i]
    BY DEF EntriesMatchElements
  <2>1. PICK k \in Nat :
          /\ entries = EntriesTo(k)
          /\ \A j \in 1..k : j \in Elements /\ values[j] \in Value
    BY DEF IInv, Built
  <2>2. i \in 1..k
    BY <2>1 DEF EntriesTo
  <2>3. i \in Elements /\ values[i] # NULL
    BY <2>1, <2>2, ValuesAssumption
  <2>4. entries[i] = [value |-> Converted[values[i]], reason |-> EntryReason(i)]
    BY <2>1, <2>2 DEF EntriesTo
  <2>5. DOMAIN reasons = Elements
    BY DEF IInv, Types
  <2>6. hasReason => EntryReason(i) = reasons[i]
    BY <2>3, <2>5 DEF EntryReason
  <2> QED
    BY <2>3, <2>4, <2>6
<1> QED
  BY <1>1, Invariant, PTL

\* After a general interrogation no report misses an element, and its entries tell
\* which elements it includes.
THEOREM ReportsAreComplete == Spec => []CompleteOnceInterrogated
<1>1. IInv => CompleteOnceInterrogated
  <2> SUFFICES ASSUME IInv, phase = "built", \A i \in Elements : values[i] # NULL
               PROVE  /\ DOMAIN entries = Elements
                      /\ hasReason =>
                           included = {i \in Elements : entries[i].reason # REASON_NOT_INCLUDED}
    BY DEF CompleteOnceInterrogated
  <2>1. PICK k \in Nat :
          /\ entries = EntriesTo(k)
          /\ \A i \in 1..k : i \in Elements /\ values[i] \in Value
          /\ k + 1 \notin Elements
    BY DEF IInv, Built
  <2>2. Elements = 1..k
    <3> DEFINE n == Len(dataSet)
    <3>1. n \in Nat /\ Elements = 1..n
      BY LenProperties DEF IInv, Types, Elements
    <3> HIDE DEF n
    <3>2. k + 1 \notin 1..n /\ \A i \in 1..k : i \in 1..n
      BY <2>1, <3>1
    <3>3. ~(k < n)
      BY <2>1, <3>1, <3>2
    <3>4. k > n => k \in 1..k
      BY <2>1, <3>1
    <3>5. k = n
      BY <2>1, <3>1, <3>2, <3>3, <3>4
    <3> QED
      BY <3>1, <3>5
  <2>3. DOMAIN entries = Elements
    BY <2>1, <2>2 DEF EntriesTo
  <2>4. ASSUME hasReason, NEW i \in Elements
        PROVE  i \in included <=> entries[i].reason # REASON_NOT_INCLUDED
    <3>1. entries[i] = [value |-> Converted[values[i]], reason |-> EntryReason(i)]
      BY <2>1, <2>2 DEF EntriesTo
    <3>2. EntryReason(i) = reasons[i]
      BY <2>4 DEF EntryReason, IInv, Types
    <3> QED
      BY <2>4, <3>1, <3>2 DEF IInv, Types
  <2>5. included \subseteq Elements
    BY DEF IInv, Types
  <2> QED
    BY <2>3, <2>4, <2>5
<1> QED
  BY <1>1, Invariant, PTL

=============================================================================
