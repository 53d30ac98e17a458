------------------------- MODULE DependenciesProofs -------------------------
(***************************************************************************)
(* Proofs about the operators of Dependencies, for any symbols, width and  *)
(* nodes: adding annotations to the edges between two nodes loses no bit   *)
(* of a symbol that is the only one there and invents none, and emitting   *)
(* the edges of a reference adds to those from each source bits that it    *)
(* drives only, and all of them if its bounds cut none off.                *)
(***************************************************************************)
EXTENDS Dependencies, FiniteSetTheorems, SequenceTheorems, SetInduction

\* The value v is one of the list s.
Occurs(v, s) == \E k \in DOMAIN s : s[k] = v
-----------------------------------------------------------------------------
(***************************************************************************)
(* Sets of positions, counted off.                                         *)
(***************************************************************************)
\* Every rank has its element: a finite set of positions can be counted off.
LEMMA RankExists ==
  ASSUME NEW S \in SUBSET Nat, IsFiniteSet(S)
  PROVE  \A k \in Nat : k < Cardinality(S) =>
           \E i \in S : Cardinality({j \in S : j < i}) = k
<1> DEFINE Below(i) == {j \in S : j < i}
           T == {k \in Nat : k < Cardinality(S) => \E i \in S : Cardinality(Below(i)) = k}
<1>1. Cardinality(S) \in Nat
  BY FS_CardinalityType
<1>2. 0 \in T
  <2> SUFFICES ASSUME 0 < Cardinality(S) PROVE \E i \in S : Cardinality(Below(i)) = 0
    OBVIOUS
  <2>1. S # {}
    BY FS_EmptySet
  <2>2. PICK i \in S : \A j \in S : i <= j
    BY <2>1, LeastExists
  <2>3. Below(i) = {}
    <3>1. ASSUME NEW j \in S, j < i PROVE FALSE
      <4>1. i \in Nat /\ j \in Nat /\ i <= j
        BY <2>2
      <4> QED BY <3>1, <4>1
    <3> QED BY <3>1
  <2> QED BY <2>3, FS_EmptySet
<1>3. ASSUME NEW k \in Nat, k \in T
      PROVE  k + 1 \in T
  <2> SUFFICES ASSUME k + 1 < Cardinality(S)
               PROVE  \E i \in S : Cardinality(Below(i)) = k + 1
    OBVIOUS
  <2>1. PICK i \in S : Cardinality(Below(i)) = k
    BY <1>1, <1>3
  <2>2. IsFiniteSet(Below(i))
    BY FS_Subset
  <2>3. i \notin Below(i)
    OBVIOUS
  <2> DEFINE U == Below(i) \cup {i}
  <2>4. Cardinality(U) = k + 1
    BY <2>1, <2>2, <2>3, FS_AddElement
  <2>5. S \ U \in SUBSET Nat /\ S \ U # {}
    <3>1. U # S
      BY <1>1, <2>4
    <3> QED BY <3>1
  <2>6. PICK m \in S \ U : \A j \in S \ U : m <= j
    <3> HIDE DEF U
    <3> QED BY <2>5, LeastExists
  <2>7. Below(m) = U
    <3>1. ASSUME NEW j \in U PROVE j \in Below(m)
      BY <2>6
    <3>2. ASSUME NEW j \in Below(m) PROVE j \in U
      BY <2>6
    <3> QED BY <3>1, <3>2
  <2> QED BY <2>4, <2>6, <2>7
<1>4. Nat \subseteq T
  <2> HIDE DEF T
  <2> QED BY <1>2, <1>3, InductionOnSet
<1> QED BY <1>4

\* Ascending lists the elements of a set from the smallest up.
LEMMA AscendingOrder ==
  ASSUME NEW S \in SUBSET Nat, IsFiniteSet(S), NEW c, c = Cardinality(S),
         NEW a, a = Ascending(S)
  PROVE  /\ c \in Nat
         /\ a \in [1 .. c -> S]
         /\ \A i, j \in 1 .. c : i < j => a[i] < a[j]
         /\ \A x \in S : \E k \in 1 .. c : a[k] = x
<1>1. c \in Nat
  BY FS_CardinalityType
<1>2. a = [k \in 1 .. c |-> CHOOSE i \in S : Cardinality({j \in S : j < i}) = k - 1]
  BY DEF Ascending
<1>3. ASSUME NEW k \in 1 .. c
      PROVE  a[k] \in S /\ Cardinality({j \in S : j < a[k]}) = k - 1
  <2>1. k - 1 \in Nat /\ k - 1 < c
    BY <1>1
  <2>2. \E i \in S : Cardinality({j \in S : j < i}) = k - 1
    BY <2>1, RankExists
  <2>3. a[k] = CHOOSE i \in S : Cardinality({j \in S : j < i}) = k - 1
    BY <1>2
  <2> QED BY <2>2, <2>3
<1>4. ASSUME NEW i \in 1 .. c, NEW j \in 1 .. c, i < j, ~(a[i] < a[j])
      PROVE  FALSE
  <2>1. a[i] \in Nat /\ a[j] \in Nat
    BY <1>3
  <2>2. {x \in S : x < a[j]} \in SUBSET {x \in S : x < a[i]}
    <3>1. \A x \in Nat : x < a[j] => x < a[i]
      BY <1>4, <2>1
    <3> QED BY <3>1
  <2>3. IsFiniteSet({x \in S : x < a[i]})
    BY FS_Subset
  <2>4. Cardinality({x \in S : x < a[j]}) <= Cardinality({x \in S : x < a[i]})
    BY <2>2, <2>3, FS_Subset
  <2>5. j - 1 <= i - 1
    BY <1>3, <2>4
  <2> QED BY <1>1, <1>4, <2>5
<1>5. ASSUME NEW x \in S
      PROVE  \E k \in 1 .. c : a[k] = x
  <2> DEFINE Below(i) == {j \in S : j < i}
  <2>1. Below(x) \in SUBSET S /\ Below(x) # S /\ IsFiniteSet(Below(x))
    <3>1. x \in Nat /\ x \notin Below(x)
      OBVIOUS
    <3>2. Below(x) \in SUBSET S
      OBVIOUS
    <3>3. IsFiniteSet(Below(x))
      BY <3>2, FS_Subset
    <3> QED BY <3>1, <3>2, <3>3
  <2>2. PICK k \in 1 .. c : Cardinality(Below(x)) = k - 1
    <3>1. Cardinality(Below(x)) \in Nat /\ Cardinality(Below(x)) <= c /\ Cardinality(Below(x)) # c
      BY <2>1, FS_CardinalityType, FS_Subset
    <3>2. PICK m \in Nat : m = Cardinality(Below(x)) /\ m <= c /\ m # c
      BY <3>1
    <3>3. m + 1 \in 1 .. c /\ m = (m + 1) - 1
      BY <1>1, <3>2
    <3> QED BY <3>2, <3>3
  <2>3. a[k] \in S /\ Cardinality(Below(a[k])) = k - 1
    BY <1>3
  <2>4. ASSUME NEW y \in S, NEW z \in S, y < z, Cardinality(Below(y)) = Cardinality(Below(z))
        PROVE  FALSE
    <3>1. y \in Nat /\ z \in Nat
      OBVIOUS
    <3>2. Below(y) \in SUBSET Below(z) /\ y \in Below(z) /\ y \notin Below(y)
      <4>1. \A j \in Nat : j < y => j < z
        BY <2>4, <3>1
      <4>2. \A j \in S : j < y => j < z
        BY <4>1
      <4>3. ~(y < y)
        BY <3>1
      <4> QED BY <2>4, <4>2, <4>3
    <3>3. IsFiniteSet(Below(z))
      BY FS_Subset
    <3>4. Below(z) = Below(y)
      BY <2>4, <3>2, <3>3, FS_Subset
    <3> QED BY <3>2, <3>4
  <2>5. ~(a[k] < x) /\ ~(x < a[k])
    BY <2>2, <2>3, <2>4
  <2>6. a[k] \in Nat /\ x \in Nat
    BY <2>3
  <2> QED BY <2>5, <2>6
<1> QED BY <1>1, <1>2, <1>3, <1>4, <1>5

\* So it is a list of exactly the elements of the set.
LEMMA AscendingLists ==
  ASSUME NEW S \in SUBSET Nat, IsFiniteSet(S), NEW a, a = Ascending(S)
  PROVE  a \in Seq(S) /\ \A x \in S : Occurs(x, a)
<1>1. PICK c : c = Cardinality(S)
  OBVIOUS
<1>2. c \in Nat /\ a \in [1 .. c -> S] /\ \A x \in S : \E k \in 1 .. c : a[k] = x
  BY <1>1, AscendingOrder
<1> QED BY <1>2 DEF Occurs

\* The same for the positions of a list that have some property.
LEMMA PositionsListed ==
  ASSUME NEW T, NEW s \in Seq(T), NEW S \in SUBSET DOMAIN s, NEW a, a = Ascending(S)
  PROVE  a \in Seq(S) /\ \A x \in S : Occurs(x, a)
<1>1. PICK n \in Nat : DOMAIN s = 1 .. n
  OBVIOUS
<1>2. S \in SUBSET Nat /\ IsFiniteSet(S)
  <2>1. IsFiniteSet(1 .. n)
    BY FS_Interval
  <2> QED BY <1>1, <2>1, FS_Subset
<1> QED BY <1>2, AscendingLists


-----------------------------------------------------------------------------
(***************************************************************************)
(* Annotations.                                                            *)
(***************************************************************************)
\* The fields of a reference and of an annotation.
LEMMA RangesTyped ==
  /\ \A r \in Reference : /\ r.sym \in Symbols /\ r.node \in Nodes \cup {Null}
                          /\ r.lo \in Bits /\ r.hi \in Bits /\ r.lo <= r.hi
  /\ \A a \in Annotation : /\ a.sym \in Symbols
                           /\ a.lo \in Bits /\ a.hi \in Bits /\ a.lo <= a.hi
  /\ \A s \in Symbols, lo, hi \in Bits : lo <= hi =>
       [sym |-> s, lo |-> lo, hi |-> hi] \in Annotation
  /\ Bits \subseteq Nat
<1>1. Bits \subseteq Nat
  BY DependenciesAssumption DEF Bits
<1>2. \A s \in Symbols, lo, hi \in Bits : lo <= hi =>
       [sym |-> s, lo |-> lo, hi |-> hi] \in Annotation
  BY DEF Annotation, NonEmpty
<1> QED BY <1>1, <1>2 DEF Reference, Annotation, NonEmpty

\* Addresses can be compared.
LEMMA AddressIsNat == \A r \in Reference : r.node \in Nat
<1>1. Nodes \cup {Null} \subseteq Nat
  BY DependenciesAssumption DEF Null
<1> QED BY <1>1, RangesTyped

\* An annotation names bit b of s; one of several does; all are about s.
Says(a, s, b) == a.sym = s /\ b \in a.lo .. a.hi
Carries(es, s, b) == \E k \in DOMAIN es : Says(es[k], s, b)
OnlyVia(es, s) == \A k \in DOMAIN es : es[k].sym = s

\* out is what becomes of the annotations es when those of more are added.
IsSum(out, es, more) ==
  /\ out \in Seq(Annotation)
  /\ es # <<>> \/ more # <<>> => out # <<>>
  /\ \A s, b : Carries(out, s, b) => Carries(es, s, b) \/ Carries(more, s, b)
  /\ \A s : OnlyVia(es, s) /\ OnlyVia(more, s) =>
       /\ OnlyVia(out, s)
       /\ \A b : Carries(es, s, b) \/ Carries(more, s, b) => Carries(out, s, b)

\* Uniting contiguous ranges leaves no gap and fills none.
LEMMA UnionSays ==
  ASSUME NEW a \in Annotation, NEW d \in Annotation, a.sym = d.sym, IsContiguousWith(a, d)
  PROVE  /\ UnionWith(a, d) \in Annotation
         /\ UnionWith(a, d).sym = a.sym
         /\ \A s, b : Says(UnionWith(a, d), s, b) <=> Says(a, s, b) \/ Says(d, s, b)
<1>1. /\ a.lo \in Nat /\ a.hi \in Nat /\ a.lo <= a.hi
      /\ d.lo \in Nat /\ d.hi \in Nat /\ d.lo <= d.hi
  BY RangesTyped
<1>2. PICK lo, hi : lo = Least(a.lo, d.lo) /\ hi = Greatest(a.hi, d.hi)
  OBVIOUS
<1>3. lo \in Bits /\ hi \in Bits /\ lo <= hi
  BY <1>1, <1>2, RangesTyped DEF Least, Greatest
<1>4. UnionWith(a, d) = [sym |-> a.sym, lo |-> lo, hi |-> hi]
  BY <1>2 DEF UnionWith
<1>5. \A b : b \in lo .. hi <=> b \in a.lo .. a.hi \/ b \in d.lo .. d.hi
  BY <1>1, <1>2 DEF Least, Greatest, IsContiguousWith
<1> QED BY <1>3, <1>4, <1>5, RangesTyped DEF Says

\* One annotation more.
LEMMA SetVariableSum ==
  ASSUME NEW es \in Seq(Annotation), NEW a \in Annotation, NEW out, out = SetVariable(es, a)
  PROVE  IsSum(out, es, <<a>>)
<1>0. /\ <<a>> # <<>> /\ DOMAIN <<a>> = {1} /\ <<a>>[1] = a
      /\ \A s, b : Carries(<<a>>, s, b) <=> Says(a, s, b)
  BY DEF Carries
<1>1. CASE es = <<>>
  <2>1. out = <<a>>
    BY <1>1 DEF SetVariable
  <2>2. \A s, b : ~Carries(es, s, b)
    BY <1>1 DEF Carries
  <2>3. <<a>> \in Seq(Annotation)
    OBVIOUS
  <2> QED BY <1>0, <2>1, <2>2, <2>3 DEF IsSum
<1>2. CASE es # <<>> /\ es[1].sym # a.sym
  <2>1. out = [es EXCEPT ![1] = a]
    BY <1>2 DEF SetVariable
  <2>2. /\ out \in Seq(Annotation) /\ out # <<>> /\ DOMAIN out = DOMAIN es
        /\ out[1] = a /\ 1 \in DOMAIN es /\ \A k \in DOMAIN es : k # 1 => out[k] = es[k]
    BY <1>2, <2>1
  <2>3. \A s, b : Carries(out, s, b) => Carries(es, s, b) \/ Carries(<<a>>, s, b)
    BY <1>0, <2>2 DEF Carries
  <2>4. \A s : ~(OnlyVia(es, s) /\ OnlyVia(<<a>>, s))
    BY <1>0, <1>2, <2>2 DEF OnlyVia
  <2> QED BY <2>2, <2>3, <2>4 DEF IsSum
<1>3. CASE es # <<>> /\ es[1].sym = a.sym /\ IsContiguousWith(es[1], a)
  <2>1. PICK u : u = UnionWith(es[1], a)
    OBVIOUS
  <2>2. es[1] \in Annotation /\ 1 \in DOMAIN es
    BY <1>3
  <2>3. /\ u \in Annotation /\ u.sym = a.sym
        /\ \A s, b : Says(u, s, b) <=> Says(es[1], s, b) \/ Says(a, s, b)
    BY <1>3, <2>1, <2>2, UnionSays
  <2>4. out = [es EXCEPT ![1] = u]
    BY <1>3, <2>1 DEF SetVariable
  <2>5. /\ out \in Seq(Annotation) /\ out # <<>> /\ DOMAIN out = DOMAIN es
        /\ out[1] = u /\ \A k \in DOMAIN es : k # 1 => out[k] = es[k]
    BY <1>3, <2>2, <2>3, <2>4
  <2>6. \A s, b : Carries(out, s, b) <=> Carries(es, s, b) \/ Carries(<<a>>, s, b)
    BY <1>0, <2>2, <2>3, <2>5 DEF Carries
  <2>7. \A s : OnlyVia(es, s) => OnlyVia(out, s)
    BY <1>3, <2>2, <2>3, <2>5 DEF OnlyVia
  <2> QED BY <2>5, <2>6, <2>7 DEF IsSum
<1>4. CASE es # <<>> /\ es[1].sym = a.sym /\ ~IsContiguousWith(es[1], a)
  <2>1. out = Append(es, a)
    BY <1>4 DEF SetVariable
  <2>2. PICK n \in Nat : n = Len(es) /\ DOMAIN es = 1 .. n
    OBVIOUS
  <2>3. /\ out \in Seq(Annotation) /\ out # <<>> /\ DOMAIN out = 1 .. n + 1
        /\ out[n + 1] = a /\ \A k \in 1 .. n : out[k] = es[k]
    BY <2>1, <2>2
  <2>4. \A k \in 1 .. n + 1 : k \in 1 .. n \/ k = n + 1
    OBVIOUS
  <2>5. \A s, b : Carries(out, s, b) <=> Carries(es, s, b) \/ Carries(<<a>>, s, b)
    BY <1>0, <2>2, <2>3, <2>4 DEF Carries
  <2>6. \A s : OnlyVia(es, s) /\ OnlyVia(<<a>>, s) => OnlyVia(out, s)
    BY <1>0, <2>2, <2>3, <2>4 DEF OnlyVia
  <2> QED BY <2>3, <2>5, <2>6 DEF IsSum
<1> QED BY <1>1, <1>2, <1>3, <1>4

\* Narrowed to the bounds of its source, an annotation stays one, of the same
\* symbol, and names no bit more; if they keep all of it, it stays as it is.
LEMMA NarrowedSays ==
  ASSUME NEW source \in Nodes, NEW a \in Annotation
  PROVE  /\ Narrowed(source, a) \in Annotation
         /\ Narrowed(source, a).sym = a.sym
         /\ \A s, b : Says(Narrowed(source, a), s, b) => Says(a, s, b)
         /\ Kept(source, a) => Narrowed(source, a) = a
<1>1. /\ a.sym \in Symbols /\ a.lo \in Bits /\ a.hi \in Bits
      /\ a.lo \in Nat /\ a.hi \in Nat /\ a.lo <= a.hi
      /\ a = [sym |-> a.sym, lo |-> a.lo, hi |-> a.hi]
  BY RangesTyped DEF Annotation, NonEmpty
<1>2. CASE InBounds(source, a)
  <2>1. PICK l, h : l = NodeBounds[source].lo /\ h = NodeBounds[source].hi
    OBVIOUS
  <2>2. l \in Nat /\ h \in Nat /\ l <= h /\ a.lo <= h /\ l <= a.hi
    BY <1>2, <2>1, DependenciesAssumption DEF InBounds, NonEmpty
  <2>3. PICK lo, hi : lo = Greatest(a.lo, l) /\ hi = Least(a.hi, h)
    OBVIOUS
  <2>4. lo \in Bits /\ hi \in Bits /\ a.lo <= lo /\ lo <= hi /\ hi <= a.hi
    BY <1>1, <2>2, <2>3, DependenciesAssumption DEF Greatest, Least, Bits
  <2>5. Narrowed(source, a) = [sym |-> a.sym, lo |-> lo, hi |-> hi]
    BY <1>1, <1>2, <2>1, <2>3 DEF Narrowed
  <2>6. [sym |-> a.sym, lo |-> lo, hi |-> hi] \in Annotation
    BY <1>1, <2>4, RangesTyped
  <2>7. \A b : b \in lo .. hi => b \in a.lo .. a.hi
    BY <1>1, <2>4, RangesTyped
  <2>8. Kept(source, a) => lo = a.lo /\ hi = a.hi
    BY <1>1, <1>2, <2>1, <2>2, <2>3 DEF Kept, Greatest, Least
  <2> QED BY <1>1, <2>5, <2>6, <2>7, <2>8 DEF Says
<1>3. CASE ~InBounds(source, a)
  BY <1>3 DEF Narrowed
<1> QED BY <1>2, <1>3

\* A list of annotations, each narrowed to the bounds of the source.
Cut(source, more) == [k \in DOMAIN more |-> Narrowed(source, more[k])]

\* It names bits of the list only, and if kept is true all of them.
IsPart(cut, more, kept) ==
  /\ cut \in Seq(Annotation)
  /\ more # <<>> => cut # <<>>
  /\ \A s : OnlyVia(more, s) => OnlyVia(cut, s)
  /\ \A s, b : Carries(cut, s, b) => Carries(more, s, b)
  /\ kept => \A s, b : Carries(more, s, b) => Carries(cut, s, b)

LEMMA CutSays ==
  ASSUME NEW source \in Nodes, NEW more \in Seq(Annotation), NEW cut, cut = Cut(source, more)
  PROVE  IsPart(cut, more, \A k \in DOMAIN more : Kept(source, more[k]))
<1>1. PICK n \in Nat : DOMAIN more = 1 .. n
  OBVIOUS
<1>2. \A k \in 1 .. n : more[k] \in Annotation
  BY <1>1
<1>3. cut = [k \in 1 .. n |-> Narrowed(source, more[k])]
  BY <1>1 DEF Cut
<1>4. \A k \in 1 .. n : /\ cut[k] \in Annotation /\ cut[k].sym = more[k].sym
                        /\ \A s, b : Says(cut[k], s, b) => Says(more[k], s, b)
                        /\ Kept(source, more[k]) => cut[k] = more[k]
  BY <1>2, <1>3, NarrowedSays
<1>5. cut \in Seq(Annotation) /\ DOMAIN cut = 1 .. n
  BY <1>3, <1>4
<1>6. more # <<>> => cut # <<>>
  <2> SUFFICES ASSUME more # <<>> PROVE cut # <<>>
    OBVIOUS
  <2>1. 1 \in 1 .. n
    BY <1>1
  <2> QED BY <1>5, <2>1
<1>7. \A s : OnlyVia(more, s) => OnlyVia(cut, s)
  BY <1>1, <1>4, <1>5 DEF OnlyVia
<1>8. ASSUME NEW s, NEW b, Carries(cut, s, b)
      PROVE  Carries(more, s, b)
  <2>1. PICK k \in 1 .. n : Says(cut[k], s, b)
    BY <1>5, <1>8 DEF Carries
  <2>2. Says(more[k], s, b)
    BY <1>4, <2>1
  <2> QED BY <1>1, <2>2 DEF Carries
<1>9. ASSUME \A k \in DOMAIN more : Kept(source, more[k]),
             NEW s, NEW b, Carries(more, s, b)
      PROVE  Carries(cut, s, b)
  <2>1. PICK k \in 1 .. n : Says(more[k], s, b)
    BY <1>1, <1>9 DEF Carries
  <2>2. cut[k] = more[k]
    BY <1>1, <1>4, <1>9
  <2> QED BY <1>5, <2>1, <2>2 DEF Carries
<1> QED BY <1>5, <1>6, <1>7, <1>8, <1>9 DEF IsPart

\* f lists what becomes of the edges es with each of n annotations of source.
Accumulates(f, es, source, more, n) ==
  /\ f \in [0 .. n -> Seq(Annotation)]
  /\ f[0] = es
  /\ \A k \in 1 .. n : f[k] = AddDependency(f[k - 1], source, more[k])
  /\ f[n] = AddDependencies(es, source, more)

\* Adding one after the other is a recursion on their number.
LEMMA AddDependenciesRecursion ==
  ASSUME NEW es \in Seq(Annotation), NEW source \in Nodes, NEW more \in Seq(Annotation),
         NEW n \in Nat, n = Len(more)
  PROVE  \E f : Accumulates(f, es, source, more, n)
<1> DEFINE IsSums(g) == g = [k \in 0 .. Len(more) |->
                               IF k = 0 THEN es ELSE AddDependency(g[k - 1], source, more[k])]
           sums == CHOOSE g : IsSums(g)
           step == [k \in 1 .. n |-> [e \in Seq(Annotation) |-> AddDependency(e, source, more[k])]]
<1>1. AddDependencies(es, source, more) = sums[n]
  BY DEF AddDependencies
<1>2. \A k \in 1 .. n : more[k] \in Annotation
  OBVIOUS
<1>3. step \in [1 .. n -> [Seq(Annotation) -> Seq(Annotation)]]
  <2>1. ASSUME NEW k \in 1 .. n, NEW e \in Seq(Annotation)
        PROVE  AddDependency(e, source, more[k]) \in Seq(Annotation)
    <3>1. PICK a \in Annotation : a = Narrowed(source, more[k])
      BY <1>2, NarrowedSays
    <3>2. AddDependency(e, source, more[k]) = SetVariable(e, a)
      BY <3>1 DEF AddDependency
    <3>3. IsSum(AddDependency(e, source, more[k]), e, <<a>>)
      BY <3>2, SetVariableSum
    <3> QED BY <3>3 DEF IsSum
  <2> QED BY <2>1
<1>4. \A k \in 1 .. n : \A e \in Seq(Annotation) : step[k][e] = AddDependency(e, source, more[k])
  OBVIOUS
<1> HIDE DEF step
<1>5. PICK f \in [0 .. n -> Seq(Annotation)] : IsRecursion(f, es, step, n)
  BY <1>3, RecursionExists
<1>6. f[0] = es /\ \A k \in 1 .. n : f[k] = AddDependency(f[k - 1], source, more[k])
  <2>1. ASSUME NEW k \in 1 .. n
        PROVE  f[k] = AddDependency(f[k - 1], source, more[k])
    <3>1. k - 1 \in 0 .. n
      OBVIOUS
    <3>2. f[k - 1] \in Seq(Annotation)
      BY <3>1
    <3> QED BY <1>4, <1>5, <3>2 DEF IsRecursion
  <2> QED BY <1>5, <2>1 DEF IsRecursion
<1>7. IsSums(f)
  <2>1. \A k \in 0 .. n : f[k] = IF k = 0 THEN es ELSE AddDependency(f[k - 1], source, more[k])
    BY <1>6
  <2> QED BY <2>1
<1>8. IsSums(sums)
  <2> HIDE DEF IsSums
  <2> QED BY <1>7
<1> HIDE DEF sums
<1>9. \A k \in 0 .. n : sums[k] = IF k = 0 THEN es ELSE AddDependency(sums[k - 1], source, more[k])
  BY <1>8
<1>10. sums[0] = es /\ \A k \in 1 .. n : sums[k] = AddDependency(sums[k - 1], source, more[k])
  BY <1>9
<1> HIDE DEF IsSums
<1> DEFINE T == {k \in Nat : k <= n => sums[k] = f[k]}
<1>11. 0 \in T
  BY <1>6, <1>10
<1>12. ASSUME NEW k \in Nat, k \in T
       PROVE  k + 1 \in T
  <2> SUFFICES ASSUME k + 1 <= n PROVE sums[k + 1] = f[k + 1]
    OBVIOUS
  <2>1. k + 1 \in 1 .. n /\ (k + 1) - 1 = k /\ sums[k] = f[k]
    BY <1>12
  <2> QED BY <1>6, <1>10, <2>1
<1>13. Nat \subseteq T
  <2> HIDE DEF T
  <2> QED BY <1>11, <1>12, InductionOnSet
<1>14. sums[n] = f[n]
  BY <1>13
<1> QED BY <1>1, <1>6, <1>14 DEF Accumulates

\* Any number of annotations more, each narrowed.
LEMMA AddDependenciesSum ==
  ASSUME NEW es \in Seq(Annotation), NEW source \in Nodes, NEW added \in Seq(Annotation),
         NEW more, more = Cut(source, added)
  PROVE  IsSum(AddDependencies(es, source, added), es, more)
<1>0. /\ more \in Seq(Annotation) /\ DOMAIN more = DOMAIN added
      /\ \A k \in DOMAIN added : more[k] = Narrowed(source, added[k])
  BY CutSays DEF Cut, IsPart
<1>1. PICK n \in Nat : n = Len(added) /\ DOMAIN more = 1 .. n
  BY <1>0
<1>2. PICK f \in [0 .. n -> Seq(Annotation)] :
        /\ f[0] = es
        /\ \A k \in 1 .. n : f[k] = SetVariable(f[k - 1], more[k])
        /\ f[n] = AddDependencies(es, source, added)
  <2>1. PICK f : Accumulates(f, es, source, added, n)
    BY <1>1, AddDependenciesRecursion
  <2>2. ASSUME NEW k \in 1 .. n
        PROVE  f[k] = SetVariable(f[k - 1], more[k])
    <3>1. f[k] = SetVariable(f[k - 1], Narrowed(source, added[k]))
      BY <2>1 DEF Accumulates, AddDependency
    <3>2. more[k] = Narrowed(source, added[k])
      BY <1>0, <1>1
    <3> QED BY <3>1, <3>2
  <2> QED BY <2>1, <2>2 DEF Accumulates
<1> DEFINE Said(k, s, b) == Carries(es, s, b) \/ \E j \in 1 .. k : Says(more[j], s, b)
           Good(k) ==
             /\ es # <<>> \/ k # 0 => f[k] # <<>>
             /\ \A s, b : Carries(f[k], s, b) => Said(k, s, b)
             /\ \A s : OnlyVia(es, s) /\ OnlyVia(more, s) =>
                  OnlyVia(f[k], s) /\ \A b : Said(k, s, b) => Carries(f[k], s, b)
           T == {k \in Nat : k <= n => Good(k)}
<1>3. 0 \in T
  BY <1>2
<1>4. ASSUME NEW k \in Nat, k \in T
      PROVE  k + 1 \in T
  <2> SUFFICES ASSUME k + 1 <= n PROVE Good(k + 1)
    OBVIOUS
  <2>1. k + 1 \in 1 .. n /\ (k + 1) - 1 = k /\ k \in 0 .. n /\ Good(k)
    BY <1>4
  <2>2. PICK a \in Annotation : a = more[k + 1]
    BY <1>0, <1>1, <2>1
  <2>3. f[k] \in Seq(Annotation) /\ f[k + 1] = SetVariable(f[k], a)
    BY <1>2, <2>1, <2>2
  <2>4. IsSum(f[k + 1], f[k], <<a>>)
    BY <2>3, SetVariableSum
  <2>5. /\ <<a>> # <<>>
        /\ \A s, b : Carries(<<a>>, s, b) <=> Says(more[k + 1], s, b)
        /\ \A s : OnlyVia(more, s) => OnlyVia(<<a>>, s)
    BY <1>1, <2>1, <2>2 DEF Carries, OnlyVia
  <2>6. \A s, b : Said(k + 1, s, b) <=> Said(k, s, b) \/ Says(more[k + 1], s, b)
    <3>1. \A j \in 1 .. k + 1 : j \in 1 .. k \/ j = k + 1
      OBVIOUS
    <3>2. \A j \in 1 .. k : j \in 1 .. k + 1
      OBVIOUS
    <3>3. k + 1 \in 1 .. k + 1
      OBVIOUS
    <3> QED BY <3>1, <3>2, <3>3
  <2> HIDE DEF Said
  <2> QED BY <2>1, <2>4, <2>5, <2>6 DEF IsSum
<1>5. Nat \subseteq T
  <2> HIDE DEF T
  <2> QED BY <1>3, <1>4, InductionOnSet
<1>6. Good(n)
  <2>1. n \in T
    <3> HIDE DEF T
    <3> QED BY <1>5
  <2> HIDE DEF Good
  <2> QED BY <2>1
<1>7. \A s, b : Said(n, s, b) <=> Carries(es, s, b) \/ Carries(more, s, b)
  BY <1>1 DEF Carries
<1>8. AddDependencies(es, source, added) \in Seq(Annotation) /\ (more # <<>> => n # 0)
  BY <1>0, <1>1, <1>2
<1> HIDE DEF Said
<1> QED BY <1>2, <1>6, <1>7, <1>8 DEF IsSum
-----------------------------------------------------------------------------
(***************************************************************************)
(* The driver intervals of a reference, and the edges it becomes.          *)
(***************************************************************************)
\* An interval lies within the reference and has the same drivers throughout;
\* no other begins where it does.
LEMMA IntervalUniform ==
  ASSUME NEW drivers, NEW r \in Reference, NEW i \in DriverIntervals(drivers, r)
  PROVE  /\ i.lo \in r.lo .. r.hi /\ i.hi \in r.lo .. r.hi /\ i.lo <= i.hi
         /\ \A b \in i.lo .. i.hi : /\ Covering(drivers, r.sym, b) = Covering(drivers, r.sym, i.lo)
                                    /\ DriversOf(drivers, r.sym, b) = DriversOf(drivers, r.sym, i.lo)
         /\ \A j \in DriverIntervals(drivers, r) : j.lo = i.lo => j.hi = i.hi
<1> DEFINE By(b) == Covering(drivers, r.sym, b)
           Same(lo, hi) == \A b \in lo .. hi : By(b) = By(lo)
<1>0. r.lo \in Nat /\ r.hi \in Nat
  BY RangesTyped
<1>1. \A j \in DriverIntervals(drivers, r) :
        /\ j.lo \in r.lo .. r.hi /\ j.hi \in r.lo .. r.hi /\ j.lo <= j.hi
        /\ Same(j.lo, j.hi)
        /\ j.hi < r.hi => ~Same(j.lo, j.hi + 1)
  BY DEF DriverIntervals
<1>2. \A b \in i.lo .. i.hi : /\ Covering(drivers, r.sym, b) = Covering(drivers, r.sym, i.lo)
                              /\ DriversOf(drivers, r.sym, b) = DriversOf(drivers, r.sym, i.lo)
  BY <1>1 DEF DriversOf
<1>3. ASSUME NEW j \in DriverIntervals(drivers, r), NEW k \in DriverIntervals(drivers, r),
             j.lo = k.lo, j.hi < k.hi
      PROVE  FALSE
  <2>1. j.hi \in Int /\ k.hi \in Int /\ j.hi < r.hi /\ j.hi + 1 <= k.hi
    BY <1>0, <1>1, <1>3
  <2>2. \A b \in j.lo .. j.hi + 1 : b \in k.lo .. k.hi
    BY <1>0, <1>1, <1>3, <2>1
  <2> HIDE DEF By
  <2>3. Same(j.lo, j.hi + 1)
    BY <1>1, <1>3, <2>2
  <2> QED BY <1>1, <2>1, <2>3
<1>4. ASSUME NEW j \in DriverIntervals(drivers, r), j.lo = i.lo
      PROVE  j.hi = i.hi
  <2>1. ~(j.hi < i.hi) /\ ~(i.hi < j.hi)
    BY <1>3, <1>4
  <2>2. j.hi \in Int /\ i.hi \in Int
    BY <1>0, <1>1
  <2> QED BY <2>1, <2>2
<1> QED BY <1>1, <1>2, <1>4

\* Every driven bit of the reference lies in one of its intervals.
LEMMA IntervalExists ==
  ASSUME NEW drivers, NEW r \in Reference, NEW b \in r.lo .. r.hi,
         Covering(drivers, r.sym, b) # {}
  PROVE  \E i \in DriverIntervals(drivers, r) : b \in i.lo .. i.hi
<1> DEFINE By(x) == Covering(drivers, r.sym, x)
           Same(lo, hi) == \A x \in lo .. hi : By(x) = By(lo)
           Los == {x \in r.lo .. b : \A y \in x .. b : By(y) = By(b)}
           His == {x \in b .. r.hi : \A y \in b .. x : By(y) = By(b)}
<1>0. r.lo \in Nat /\ r.hi \in Nat
  BY RangesTyped
<1>1. r.lo \in Nat /\ r.hi \in Nat /\ b \in Nat /\ r.lo <= b /\ b <= r.hi
  BY <1>0
<1>2. PICK lo \in Los : \A x \in Los : lo <= x
  <2>1. Los \in SUBSET Nat
    BY <1>1
  <2>2. b \in Los
    <3>1. \A y \in b .. b : y = b
      BY <1>1
    <3> QED BY <1>1, <3>1
  <2> HIDE DEF Los
  <2> QED BY <2>1, <2>2, LeastExists
<1>3. PICK hi \in His : \A x \in His : x <= hi
  <2>1. His \in SUBSET Nat /\ \A x \in His : x <= r.hi
    BY <1>1
  <2>2. b \in His
    <3>1. \A y \in b .. b : y = b
      BY <1>1
    <3> QED BY <1>1, <3>1
  <2> HIDE DEF His
  <2> QED BY <1>1, <2>1, <2>2, GreatestExists
<1>4. /\ lo \in Nat /\ r.lo <= lo /\ lo <= b
      /\ hi \in Nat /\ b <= hi /\ hi <= r.hi
  BY <1>1
<1>5. \A x \in lo .. hi : By(x) = By(b)
  <2> SUFFICES ASSUME NEW x \in lo .. hi PROVE By(x) = By(b)
    OBVIOUS
  <2>1. x \in lo .. b \/ x \in b .. hi
    BY <1>4, <1>1
  <2> HIDE DEF By
  <2> QED BY <2>1
<1> HIDE DEF By
<1>6. By(lo) = By(b) /\ Same(lo, hi)
  BY <1>4, <1>5
<1>7. lo > r.lo => ~Same(lo - 1, hi)
  <2> SUFFICES ASSUME lo > r.lo, Same(lo - 1, hi) PROVE FALSE
    OBVIOUS
  <2>1. lo - 1 \in r.lo .. b /\ b \in lo - 1 .. hi /\ \A y \in lo - 1 .. b : y \in lo - 1 .. hi
    BY <1>1, <1>4
  <2>2. lo - 1 \in Los
    BY <2>1
  <2> QED BY <1>2, <1>4, <2>2
<1>8. hi < r.hi => ~Same(lo, hi + 1)
  <2> SUFFICES ASSUME hi < r.hi, Same(lo, hi + 1) PROVE FALSE
    OBVIOUS
  <2>1. hi + 1 \in b .. r.hi /\ \A y \in b .. hi + 1 : y \in lo .. hi + 1
    BY <1>1, <1>4
  <2>2. hi + 1 \in His
    BY <1>6, <2>1
  <2> QED BY <1>3, <1>4, <2>2
<1>9. PICK i \in [lo : r.lo .. r.hi, hi : r.lo .. r.hi] : i.lo = lo /\ i.hi = hi
  <2>1. [lo |-> lo, hi |-> hi] \in [lo : r.lo .. r.hi, hi : r.lo .. r.hi]
    BY <1>1, <1>4
  <2> QED BY <2>1
<1>10. i \in DriverIntervals(drivers, r)
  BY <1>4, <1>6, <1>7, <1>8, <1>9 DEF DriverIntervals, By
<1> QED BY <1>1, <1>4, <1>9, <1>10

\* Bounds that keep a range keep what lies within it.
LEMMA KeptWithin ==
  ASSUME NEW source \in Nodes, NEW d, NEW i, Kept(source, d),
         d.lo \in Nat, d.hi \in Nat, i.lo \in Nat, i.hi \in Nat,
         d.lo <= i.lo, i.lo <= i.hi, i.hi <= d.hi
  PROVE  Kept(source, i)
<1> SUFFICES ASSUME InBounds(source, i)
             PROVE  NodeBounds[source].lo <= i.lo /\ i.hi <= NodeBounds[source].hi
  BY DEF Kept
<1>1. PICK l, h : l = NodeBounds[source].lo /\ h = NodeBounds[source].hi
  OBVIOUS
<1>2. l \in Nat /\ h \in Nat /\ l <= i.hi /\ i.lo <= h
  BY <1>1, DependenciesAssumption DEF InBounds, NonEmpty
<1>3. InBounds(source, d)
  BY <1>1, <1>2 DEF InBounds
<1>4. l <= d.lo /\ d.hi <= h
  BY <1>1, <1>3 DEF Kept
<1> QED BY <1>1, <1>2, <1>4

\* The annotations asked for name exactly the bits that come from the source;
\* if it has them in the frame of its bounds, the bounds keep all of them.
LEMMA AnnotationsSay ==
  ASSUME NEW drivers \in SUBSET Reference, NEW variables \in SUBSET Reference,
         NEW r \in Reference, NEW source \in Nodes,
         \A m, n \in GetVariable(variables, r) : m = n,
         NEW more, more = Annotations(drivers, variables, DriverIntervals(drivers, r), r, source)
  PROVE  /\ more \in Seq(Annotation)
         /\ OnlyVia(more, r.sym)
         /\ \A b : Carries(more, r.sym, b) <=> b \in BitsFrom(drivers, variables, r, source)
         /\ Unnarrowed(drivers, variables, source) =>
              \A k \in DOMAIN more : Kept(source, more[k])
<1> DEFINE intervals == DriverIntervals(drivers, r)
           matching == GetVariable(variables, r)
           At(i) == [sym |-> r.sym, lo |-> i.lo, hi |-> i.hi]
           found == {i \in intervals : source \in DriversOf(drivers, r.sym, i.lo)}
           order == Ascending({i.lo : i \in found})
<1>1. /\ r.sym \in Symbols /\ r.lo \in Bits /\ r.hi \in Bits /\ r.lo <= r.hi
      /\ r.lo \in Nat /\ r.hi \in Nat
  BY RangesTyped
<1>2. CASE matching = {}
  <2>1. more = [k \in DOMAIN order |-> At(CHOOSE i \in found : i.lo = order[k])]
    BY <1>2 DEF Annotations
  <2>2. BitsFrom(drivers, variables, r, source)
          = {b \in r.lo .. r.hi : source \in DriversOf(drivers, r.sym, b)}
    BY <1>2 DEF BitsFrom
  <2> DEFINE los == {i.lo : i \in found}
  <2>3. los \in SUBSET (r.lo .. r.hi)
    BY IntervalUniform
  <2>4. los \in SUBSET Nat /\ IsFiniteSet(los)
    <3>1. IsFiniteSet(r.lo .. r.hi) /\ r.lo .. r.hi \subseteq Nat
      <4>1. r.lo \in Int /\ r.hi \in Int
        BY <1>1
      <4>2. IsFiniteSet(r.lo .. r.hi)
        BY <4>1, FS_Interval
      <4> QED BY <1>1, <4>2
    <3> HIDE DEF los
    <3> QED BY <2>3, <3>1, FS_Subset
  <2>5. order \in Seq(los) /\ \A x \in los : Occurs(x, order)
    <3> HIDE DEF los
    <3> QED BY <2>4, AscendingLists DEF los
  <2>6. PICK n \in Nat : DOMAIN order = 1 .. n
    <3> HIDE DEF los, order
    <3> QED BY <2>5
  <2>7. ASSUME NEW k \in 1 .. n
        PROVE  \E i \in found : i.lo = order[k] /\ more[k] = At(i)
    <3>1. order[k] \in los
      <4> HIDE DEF los, order
      <4> QED BY <2>5, <2>6
    <3>2. \E i \in found : i.lo = order[k]
      BY <3>1
    <3> QED BY <2>1, <2>6, <3>2
  <2>8. ASSUME NEW i \in found
        PROVE  \E k \in 1 .. n : more[k] = At(i)
    <3>1. PICK k \in 1 .. n : order[k] = i.lo
      <4>1. i.lo \in los
        OBVIOUS
      <4> HIDE DEF los, order
      <4> QED BY <2>5, <2>6, <4>1 DEF Occurs
    <3>2. PICK j \in found : j.lo = order[k] /\ more[k] = At(j)
      BY <2>7
    <3>3. j.hi = i.hi /\ j.lo = i.lo
      BY <3>1, <3>2, IntervalUniform
    <3> QED BY <3>2, <3>3
  <2>9. DOMAIN more = 1 .. n /\ more = [k \in 1 .. n |-> more[k]]
    <3> HIDE DEF order
    <3> QED BY <2>1, <2>6
  <2>10. \A i \in found : /\ At(i) \in Annotation /\ At(i).sym = r.sym
                          /\ At(i).lo = i.lo /\ At(i).hi = i.hi
    <3>1. ASSUME NEW i \in found
          PROVE  At(i) \in Annotation
      <4>1. i.lo \in r.lo .. r.hi /\ i.hi \in r.lo .. r.hi /\ i.lo <= i.hi
        BY IntervalUniform
      <4>2. i.lo \in Bits /\ i.hi \in Bits
        BY <1>1, <4>1, DependenciesAssumption DEF Bits
      <4> QED BY <1>1, <4>1, <4>2, RangesTyped
    <3> QED BY <3>1
  <2>11. more \in Seq(Annotation)
    <3>1. \A k \in 1 .. n : more[k] \in Annotation
      BY <2>7, <2>10
    <3> HIDE DEF found, order
    <3> QED BY <2>6, <2>9, <3>1
  <2>12. \A k \in 1 .. n : \E i \in found :
           more[k].sym = r.sym /\ more[k].lo = i.lo /\ more[k].hi = i.hi
    <3> SUFFICES ASSUME NEW k \in 1 .. n
                 PROVE  \E i \in found : /\ more[k].sym = r.sym
                                         /\ more[k].lo = i.lo /\ more[k].hi = i.hi
      OBVIOUS
    <3>1. PICK i \in found : more[k] = At(i)
      BY <2>7
    <3>2. more[k].sym = r.sym /\ more[k].lo = i.lo /\ more[k].hi = i.hi
      BY <2>10, <3>1
    <3> QED BY <3>2
  <2>13. ASSUME NEW b, Carries(more, r.sym, b)
         PROVE  b \in BitsFrom(drivers, variables, r, source)
    <3>1. PICK i \in found : b \in i.lo .. i.hi
      <4>1. PICK k \in 1 .. n : b \in more[k].lo .. more[k].hi
        BY <2>9, <2>13 DEF Carries, Says
      <4>2. PICK i \in found : more[k].lo = i.lo /\ more[k].hi = i.hi
        BY <2>12
      <4> QED BY <4>1, <4>2
    <3>2. /\ i.lo \in r.lo .. r.hi /\ i.hi \in r.lo .. r.hi
          /\ DriversOf(drivers, r.sym, b) = DriversOf(drivers, r.sym, i.lo)
      BY <3>1, IntervalUniform
    <3>3. b \in r.lo .. r.hi
      BY <1>1, <3>1, <3>2
    <3> QED BY <2>2, <3>2, <3>3
  <2>14. ASSUME NEW b \in BitsFrom(drivers, variables, r, source)
         PROVE  Carries(more, r.sym, b)
    <3>1. b \in r.lo .. r.hi /\ source \in DriversOf(drivers, r.sym, b)
      BY <2>2
    <3>2. Covering(drivers, r.sym, b) # {}
      BY <3>1 DEF DriversOf
    <3>3. PICK i \in intervals : b \in i.lo .. i.hi
      BY <3>1, <3>2, IntervalExists
    <3>4. i \in found
      BY <3>1, <3>3, IntervalUniform
    <3>5. PICK k \in 1 .. n : more[k] = At(i)
      BY <2>8, <3>4
    <3> QED BY <2>9, <2>10, <3>3, <3>4, <3>5 DEF Carries, Says
  <2>15. OnlyVia(more, r.sym)
    BY <2>9, <2>12 DEF OnlyVia
  <2>16. ASSUME Unnarrowed(drivers, variables, source), NEW k \in 1 .. n
         PROVE  Kept(source, more[k])
    <3>1. PICK i \in intervals : /\ source \in DriversOf(drivers, r.sym, i.lo)
                                 /\ more[k].lo = i.lo /\ more[k].hi = i.hi
      BY <2>12
    <3>2. PICK d \in Covering(drivers, r.sym, i.lo) : d.node = source
      BY <3>1 DEF DriversOf
    <3>3. /\ i.lo \in r.lo .. r.hi /\ i.hi \in r.lo .. r.hi /\ i.lo <= i.hi
          /\ d \in Covering(drivers, r.sym, i.hi)
      <4>1. i.lo \in r.lo .. r.hi /\ i.hi \in r.lo .. r.hi /\ i.lo <= i.hi
        BY IntervalUniform
      <4>2. i.hi \in i.lo .. i.hi
        BY <1>1, <4>1
      <4> QED BY <3>2, <4>1, <4>2, IntervalUniform
    <3>4. /\ d \in drivers /\ d.lo \in Nat /\ d.hi \in Nat /\ i.lo \in Nat /\ i.hi \in Nat
          /\ d.lo <= i.lo /\ i.lo <= i.hi /\ i.hi <= d.hi
      <4>1. /\ d \in drivers /\ i.lo \in d.lo .. d.hi /\ i.hi \in d.lo .. d.hi
        BY <3>2, <3>3 DEF Covering
      <4>2. d.lo \in Nat /\ d.hi \in Nat
        <5>1. d \in Reference
          BY <4>1
        <5>2. d.lo \in Bits /\ d.hi \in Bits /\ Bits \subseteq Nat
          BY <5>1, RangesTyped
        <5> QED BY <5>2
      <4> QED BY <1>1, <3>3, <4>1, <4>2
    <3>5. Kept(source, d)
      BY <2>16, <3>2, <3>4 DEF Unnarrowed
    <3> QED BY <3>1, <3>4, <3>5, KeptWithin
  <2>17. Unnarrowed(drivers, variables, source) => \A k \in DOMAIN more : Kept(source, more[k])
    BY <2>9, <2>16
  <2> QED BY <2>11, <2>13, <2>14, <2>15, <2>17
<1>3. CASE matching # {}
  <2>1. PICK n \in matching : matching = {n} /\ n = CHOOSE m \in matching : TRUE
    <3> HIDE DEF matching
    <3>1. \A m, n \in matching : m = n
      BY DEF matching
    <3> QED BY <1>3, <3>1
  <2>2. BitsFrom(drivers, variables, r, source)
          = {b \in r.lo .. r.hi : source = n}
    BY <1>3, <2>1 DEF BitsFrom
  <2>3. more = IF source = n THEN <<At(r)>> ELSE <<>>
    BY <1>3, <2>1 DEF Annotations
  <2>4. At(r) \in Annotation /\ At(r).sym = r.sym /\ At(r).lo = r.lo /\ At(r).hi = r.hi
    BY <1>1, RangesTyped
  <2>5. CASE source = n
    <3>1. PICK a \in Annotation : a = At(r) /\ more = <<a>>
      BY <2>3, <2>4, <2>5
    <3>2. more \in Seq(Annotation) /\ DOMAIN more = {1} /\ more[1] = a
      BY <3>1
    <3>3. ASSUME Unnarrowed(drivers, variables, source) PROVE Kept(source, a)
      <4>1. PICK w \in variables : w.node = n /\ w.lo = r.lo /\ w.hi = r.hi
        BY <1>3 DEF GetVariable
      <4>2. Kept(source, w)
        BY <2>5, <3>3, <4>1 DEF Unnarrowed
      <4>3. a.lo = w.lo /\ a.hi = w.hi
        BY <2>4, <3>1, <4>1
      <4> QED BY <4>2, <4>3 DEF Kept, InBounds
    <3> QED BY <2>2, <2>4, <2>5, <3>1, <3>2, <3>3 DEF OnlyVia, Carries, Says
  <2>6. CASE source # n
    BY <2>2, <2>3, <2>6 DEF OnlyVia, Carries, Says
  <2> QED BY <2>5, <2>6
<1> QED BY <1>2, <1>3

\* out is what becomes of the edges when those of the reference are added: from
\* each source only bits that come from it, all of them if its bounds keep
\* them, and an edge in any case; none to another node.
IsEmission(out, edges, drivers, variables, r) ==
  /\ DOMAIN out = Nodes \X Nodes
  /\ \A p \in Nodes \X Nodes :
       IF p[2] # r.node THEN out[p] = edges[p]
       ELSE \E more \in Seq(Annotation) :
              /\ IsSum(out[p], edges[p], more)
              /\ OnlyVia(more, r.sym)
              /\ \A b : Carries(more, r.sym, b) => b \in BitsFrom(drivers, variables, r, p[1])
              /\ \A b \in BitsFrom(drivers, variables, r, p[1]) :
                   /\ more # <<>>
                   /\ Unnarrowed(drivers, variables, p[1]) => Carries(more, r.sym, b)

\* That is what emitting does.
LEMMA EmitEdgesSum ==
  ASSUME NEW edges \in [Nodes \X Nodes -> Seq(Annotation)],
         NEW drivers \in SUBSET Reference, NEW variables \in SUBSET Reference,
         NEW r \in Reference, \A m, n \in GetVariable(variables, r) : m = n,
         NEW out, out = EmitEdgesFor(edges, drivers, variables, r)
  PROVE  IsEmission(out, edges, drivers, variables, r)
<1>1. out = [p \in Nodes \X Nodes |->
        IF p[2] # r.node THEN edges[p]
        ELSE AddDependencies(edges[p], p[1],
               Annotations(drivers, variables, DriverIntervals(drivers, r), r, p[1]))]
  BY DEF EmitEdgesFor
<1>2. ASSUME NEW p \in Nodes \X Nodes, p[2] = r.node
      PROVE  \E more \in Seq(Annotation) :
               /\ IsSum(out[p], edges[p], more)
               /\ OnlyVia(more, r.sym)
               /\ \A b : Carries(more, r.sym, b) => b \in BitsFrom(drivers, variables, r, p[1])
               /\ \A b \in BitsFrom(drivers, variables, r, p[1]) :
                    /\ more # <<>>
                    /\ Unnarrowed(drivers, variables, p[1]) => Carries(more, r.sym, b)
  <2>0. p[1] \in Nodes
    OBVIOUS
  <2>1. PICK asked : asked = Annotations(drivers, variables, DriverIntervals(drivers, r), r, p[1])
    OBVIOUS
  <2>2. /\ asked \in Seq(Annotation) /\ OnlyVia(asked, r.sym)
        /\ \A b : Carries(asked, r.sym, b) <=> b \in BitsFrom(drivers, variables, r, p[1])
        /\ Unnarrowed(drivers, variables, p[1]) =>
             \A k \in DOMAIN asked : Kept(p[1], asked[k])
    BY <2>0, <2>1, AnnotationsSay
  <2>3. PICK more : more = Cut(p[1], asked)
    OBVIOUS
  <2>4. /\ more \in Seq(Annotation) /\ (asked # <<>> => more # <<>>)
        /\ OnlyVia(more, r.sym)
        /\ \A b : Carries(more, r.sym, b) => Carries(asked, r.sym, b)
        /\ Unnarrowed(drivers, variables, p[1]) =>
             \A b : Carries(asked, r.sym, b) => Carries(more, r.sym, b)
    <3>1. IsPart(more, asked, \A k \in DOMAIN asked : Kept(p[1], asked[k]))
      BY <2>0, <2>2, <2>3, CutSays
    <3> QED BY <2>2, <3>1 DEF IsPart
  <2>5. out[p] = AddDependencies(edges[p], p[1], asked)
    BY <1>1, <1>2, <2>1
  <2>6. edges[p] \in Seq(Annotation)
    OBVIOUS
  <2>7. IsSum(out[p], edges[p], more)
    BY <2>0, <2>2, <2>3, <2>5, <2>6, AddDependenciesSum
  <2>8. \A b : Carries(asked, r.sym, b) => asked # <<>>
    BY DEF Carries
  <2> QED BY <2>2, <2>4, <2>7, <2>8
<1>3. \A p \in Nodes \X Nodes : p[2] # r.node => out[p] = edges[p]
  BY <1>1
<1>4. DOMAIN out = Nodes \X Nodes
  BY <1>1
<1> QED BY <1>2, <1>3, <1>4 DEF IsEmission
=============================================================================
