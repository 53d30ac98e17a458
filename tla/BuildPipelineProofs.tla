------------------------ MODULE BuildPipelineProofs ------------------------
(***************************************************************************)
(* Proofs about BuildPipeline, for any design, any number of workers and   *)
(* any faults: a phase leaves no task behind, an exception is reported     *)
(* exactly when something threw, the partition of the sorted queue never   *)
(* gives two threads the same target, and a finished build has exactly the *)
(* edges and the annotations of the design, whatever the schedule was.     *)
(***************************************************************************)
EXTENDS BuildPipeline, DependenciesProofs
-----------------------------------------------------------------------------
(***************************************************************************)
(* The partition of the queue.                                             *)
(***************************************************************************)
\* References in the order of their targets.
InNodeOrder(s) == \A i, j \in DOMAIN s : i <= j => s[i].node <= s[j].node

\* Sorting orders neighbours, hence every two references.
LEMMA SortedOrder ==
  ASSUME NEW S \in SUBSET Reference, NEW q \in Seq(S), NEW s \in SortedByNode(q)
  PROVE  /\ s \in Seq(S) /\ InNodeOrder(s)
         /\ \A v : Occurs(v, q) => Occurs(v, s)
<1>1. PICK p \in [DOMAIN q -> DOMAIN q] :
        /\ \A i \in DOMAIN q : \E k \in DOMAIN q : p[k] = i
        /\ \A k \in 1 .. Len(q) - 1 : q[p[k]].node <= q[p[k + 1]].node
        /\ s = [k \in DOMAIN q |-> q[p[k]]]
  BY Zenon DEF SortedByNode
<1>2. PICK n \in Nat : n = Len(q) /\ DOMAIN q = 1 .. n
  OBVIOUS
<1>3. s \in [1 .. n -> S]
  BY <1>1, <1>2
<1>4. \A k \in 1 .. n : s[k].node \in Nat
  BY <1>3, AddressIsNat
<1>5. \A k \in 1 .. n - 1 : s[k].node <= s[k + 1].node
  BY <1>1, <1>2
<1>6. s \in Seq(S) /\ DOMAIN s = 1 .. n
  BY <1>2, <1>3
<1>11. \A v : Occurs(v, q) => Occurs(v, s)
  BY <1>1, <1>2, <1>6 DEF Occurs
<1> DEFINE T == {d \in Nat : \A i \in 1 .. n : i + d \in 1 .. n => s[i].node <= s[i + d].node}
<1> HIDE <1>1
<1>7. 0 \in T
  BY <1>4
<1>8. ASSUME NEW d \in Nat, d \in T
      PROVE  d + 1 \in T
  <2> SUFFICES ASSUME NEW i \in 1 .. n, i + (d + 1) \in 1 .. n
               PROVE  s[i].node <= s[i + (d + 1)].node
    OBVIOUS
  <2>1. i + d \in 1 .. n - 1 /\ i + d \in 1 .. n /\ (i + d) + 1 = i + (d + 1)
    BY <1>2
  <2>2. s[i].node <= s[i + d].node
    BY <1>8, <2>1
  <2>3. s[i + d].node <= s[i + (d + 1)].node
    BY <1>5, <2>1
  <2> QED BY <1>4, <2>1, <2>2, <2>3
<1>9. Nat \subseteq T
  <2> HIDE DEF T
  <2> QED BY <1>7, <1>8, InductionOnSet
<1>10. ASSUME NEW i \in 1 .. n, NEW j \in 1 .. n, i <= j
       PROVE  s[i].node <= s[j].node
  <2>1. j - i \in Nat /\ i + (j - i) = j
    BY <1>2, <1>10
  <2> QED BY <1>9, <2>1
<1> QED BY <1>6, <1>10, <1>11 DEF InNodeOrder

\* A task and its references; two lists of references with no common target.
TaskOf(S) == [block : Nat \ {0}, todo : Seq(S)]
Apart(a, b) == \A i \in DOMAIN a, j \in DOMAIN b : a[i].node # b[j].node
AllApart(ts) == \A b, c \in DOMAIN ts : b # c => Apart(ts[b].todo, ts[c].todo)

\* The run with which block b of n runs on k threads begins.
FirstRun(n, k, b) == (b - 1) * (n \div k) + Least(b - 1, n % k) + 1

\* Blocks of runs are within bounds and do not overlap.
LEMMA FirstRunOrder ==
  ASSUME NEW n \in Nat \ {0}, NEW k \in 1 .. n
  PROVE  /\ FirstRun(n, k, 1) = 1 /\ FirstRun(n, k, k + 1) = n + 1
         /\ \A b \in 1 .. k + 1 : FirstRun(n, k, b) \in 1 .. n + 1
         /\ \A b, c \in 1 .. k + 1 : b <= c => FirstRun(n, k, b) <= FirstRun(n, k, c)
<1>1. PICK q \in Int, r \in Int : q = n \div k /\ r = n % k
  <2>1. k \in Nat /\ k > 0
    OBVIOUS
  <2>2. n \div k \in Int
    BY <2>1
  <2>3. n % k \in Int
    BY <2>1
  <2> QED BY <2>2, <2>3
<1>2. r \in 0 .. k - 1
  BY <1>1
<1>3. n = k * q + r
  BY <1>1
<1>4. q >= 0
  BY <1>1
<1>5. \A b : FirstRun(n, k, b) = (b - 1) * q + Least(b - 1, r) + 1
  BY <1>1 DEF FirstRun
<1>6. \A b \in 1 .. k + 1 : FirstRun(n, k, b) \in Int
  BY <1>2, <1>5 DEF Least
<1>7. ASSUME NEW b \in 1 .. k + 1, NEW c \in 1 .. k + 1, b <= c
      PROVE  FirstRun(n, k, b) <= FirstRun(n, k, c)
  <2>1. (b - 1) * q <= (c - 1) * q
    <3>1. \A x, y \in Nat : x <= y => x * q <= y * q
      BY <1>4
    <3>2. b - 1 \in Nat /\ c - 1 \in Nat /\ b - 1 <= c - 1
      BY <1>7
    <3> QED BY <3>1, <3>2
  <2>2. Least(b - 1, r) <= Least(c - 1, r)
    BY <1>2, <1>7 DEF Least
  <2>3. PICK x \in Int, y \in Int : x = (b - 1) * q /\ y = (c - 1) * q
    OBVIOUS
  <2>4. PICK u \in Int, v \in Int : u = Least(b - 1, r) /\ v = Least(c - 1, r)
    BY <1>2 DEF Least
  <2>5. x + u + 1 <= y + v + 1
    BY <2>1, <2>2, <2>3, <2>4
  <2> QED BY <1>5, <2>3, <2>4, <2>5
<1>8. FirstRun(n, k, 1) = 1
  BY <1>2, <1>5 DEF Least
<1>9. FirstRun(n, k, k + 1) = n + 1
  BY <1>2, <1>3, <1>5 DEF Least
<1>10. ASSUME NEW b \in 1 .. k + 1
       PROVE  FirstRun(n, k, b) \in 1 .. n + 1
  <2>1. 1 \in 1 .. k + 1 /\ k + 1 \in 1 .. k + 1 /\ 1 <= b /\ b <= k + 1
    OBVIOUS
  <2>2. FirstRun(n, k, 1) <= FirstRun(n, k, b) /\ FirstRun(n, k, b) <= FirstRun(n, k, k + 1)
    BY <1>7, <2>1
  <2> QED BY <1>6, <1>8, <1>9, <2>2
<1> QED BY <1>7, <1>8, <1>9, <1>10

\* The list x is made of the entries lo .. hi - 1 of s.
IsBetween(x, s, lo, hi) ==
  /\ \A i \in DOMAIN x : \E m \in lo .. hi - 1 : m \in DOMAIN s /\ x[i] = s[m]
  /\ \A m \in lo .. hi - 1 : Occurs(s[m], x)

\* The references between two boundaries of runs.
LEMMA Between ==
  ASSUME NEW S, NEW s \in Seq(S), NEW lo \in 1 .. Len(s) + 1, NEW hi \in 1 .. Len(s) + 1
  PROVE  /\ SubSeq(s, lo, hi - 1) \in Seq(S)
         /\ IsBetween(SubSeq(s, lo, hi - 1), s, lo, hi)
<1>0. PICK x : x = SubSeq(s, lo, hi - 1)
  OBVIOUS
<1>1. PICK n \in Nat : n = Len(s) /\ DOMAIN s = 1 .. n
  OBVIOUS
<1>2. lo \in Int /\ hi - 1 \in Int /\ \A i \in lo .. hi - 1 : i \in 1 .. n
  BY <1>1
<1>3. \A i \in lo .. hi - 1 : s[i] \in S
  BY <1>1, <1>2
<1>4. /\ x \in Seq(S)
      /\ Len(x) = IF lo <= hi - 1 THEN (hi - 1) - lo + 1 ELSE 0
      /\ \A i \in 1 .. (hi - 1) - lo + 1 : x[i] = s[lo + i - 1]
  BY <1>0, <1>2, <1>3, SubSeqProperties
<1>5. ASSUME NEW i \in DOMAIN x
      PROVE  \E m \in lo .. hi - 1 : m \in DOMAIN s /\ x[i] = s[m]
  <2>1. DOMAIN x = 1 .. Len(x)
    BY <1>4
  <2>2. i \in 1 .. (hi - 1) - lo + 1
    BY <1>2, <1>4, <2>1
  <2>3. lo + i - 1 \in lo .. hi - 1
    BY <1>2, <2>2
  <2> QED BY <1>1, <1>2, <1>4, <2>2, <2>3
<1>6. ASSUME NEW m \in lo .. hi - 1
      PROVE  Occurs(s[m], x)
  <2>1. m - lo + 1 \in 1 .. (hi - 1) - lo + 1 /\ lo + (m - lo + 1) - 1 = m /\ lo <= hi - 1
    BY <1>2
  <2>2. x[m - lo + 1] = s[m] /\ m - lo + 1 \in DOMAIN x
    BY <1>4, <2>1
  <2> QED BY <2>2 DEF Occurs
<1> QED BY <1>0, <1>4, <1>5, <1>6 DEF IsBetween

\* Comparisons of positions and of addresses.
LEMMA Comparisons ==
  /\ \A x, e, m \in Nat : x <= e - 1 /\ e <= m => x < m
  /\ \A x, m, y \in Nat : x # m /\ x <= m /\ m <= y => x # y
OBVIOUS

\* Whatever the number of threads, the blocks that resolveParallel detaches
\* have no target in common: a block ends where a run of one target begins.
LEMMA RunBlocksApart ==
  ASSUME NEW S \in SUBSET Reference, NEW s \in Seq(S), InNodeOrder(s),
         NEW ts, ts = RunBlocks(s, RunStarts(s))
  PROVE  /\ ts \in Seq(TaskOf(S)) /\ AllApart(ts)
         /\ \A m \in DOMAIN s : s[m].node # Null => \E b \in DOMAIN ts : Occurs(s[m], ts[b].todo)
<1>1. PICK len \in Nat : len = Len(s) /\ DOMAIN s = 1 .. len
  OBVIOUS
<1> DEFINE B == {m \in DOMAIN s : s[m].node # Null /\ (m > 1 => s[m].node # s[m - 1].node)}
                  \cup {Len(s) + 1}
           starts == RunStarts(s)
<1>2. starts = Ascending(B)
  BY DEF RunStarts
<1>3. B \subseteq 1 .. len + 1 /\ len + 1 \in B
  BY <1>1
<1>4. /\ \A m \in B : m \in 1 .. len => \A i \in 1 .. len : i < m => s[i].node # s[m].node
      /\ \A m \in B : m \in Nat
  <2>1. ASSUME NEW m \in B, m \in 1 .. len, NEW i \in 1 .. len, i < m
        PROVE  s[i].node # s[m].node
    <3>1. s[m].node # s[m - 1].node
      BY <1>1, <2>1
    <3>2. m - 1 \in 1 .. len /\ i <= m - 1 /\ m - 1 <= m
      BY <1>1, <2>1
    <3>3. s[i].node <= s[m - 1].node /\ s[m - 1].node <= s[m].node
      BY <1>1, <3>2, <2>1 DEF InNodeOrder
    <3>4. s[i].node \in Nat /\ s[m - 1].node \in Nat /\ s[m].node \in Nat
      <4>1. s[i] \in Reference /\ s[m - 1] \in Reference /\ s[m] \in Reference
        BY <1>1, <2>1, <3>2
      <4> QED BY <4>1, AddressIsNat
    <3> QED BY <3>1, <3>3, <3>4
  <2> QED BY <1>1, <1>3, <2>1
<1>14. ASSUME NEW m \in 1 .. len, s[m].node # Null
       PROVE  \E i \in B : i <= m /\ i <= len
  <2> DEFINE R == {i \in 1 .. len : s[i].node = s[m].node}
  <2>1. PICK i \in R : \A j \in R : i <= j
    <3>1. R \in SUBSET Nat /\ m \in R
      OBVIOUS
    <3> HIDE DEF R
    <3> QED BY <3>1, LeastExists
  <2>2. i \in 1 .. len /\ s[i].node = s[m].node /\ i <= m
    BY <2>1
  <2>3. i > 1 => s[i].node # s[i - 1].node
    <3> SUFFICES ASSUME i > 1, s[i].node = s[i - 1].node PROVE FALSE
      OBVIOUS
    <3>1. i - 1 \in R
      <4>1. i - 1 \in 1 .. len
        BY <2>2
      <4>2. s[i - 1].node = s[m].node
        BY <2>2
      <4> QED BY <4>1, <4>2
    <3>2. i <= i - 1
      BY <2>1, <3>1
    <3> QED BY <2>2, <3>2
  <2>4. i \in B
    BY <1>1, <1>14, <2>2, <2>3
  <2> QED BY <2>2, <2>4
<1> HIDE DEF B
<1>5. B \in SUBSET Nat /\ IsFiniteSet(B)
  <2>1. IsFiniteSet(1 .. len + 1)
    BY FS_Interval
  <2>2. B \in SUBSET (1 .. len + 1)
    BY <1>3
  <2>3. IsFiniteSet(B)
    BY <2>1, <2>2, FS_Subset
  <2> QED BY <1>4, <2>3
<1>6. PICK c : c = Cardinality(B)
  OBVIOUS
<1>7. /\ c \in Nat /\ starts \in [1 .. c -> B]
      /\ \A i, j \in 1 .. c : i < j => starts[i] < starts[j]
      /\ \A m \in B : \E i \in 1 .. c : starts[i] = m
  BY <1>2, <1>5, <1>6, AscendingOrder
<1> HIDE DEF starts
<1>8. Len(starts) = c
  BY <1>7
<1>9. c # 0
  BY <1>3, <1>5, <1>6, FS_EmptySet
<1>10. PICK n \in Nat : n = Len(starts) - 1 /\ c = n + 1
  BY <1>7, <1>8, <1>9
<1>11. PICK w \in Nat \ {0} : w = Cardinality(Workers)
  <2>1. IsFiniteSet(Workers) /\ Workers # {}
    BY BuildPipelineAssumption
  <2> QED BY <2>1, FS_EmptySet, FS_CardinalityType
<1>15. starts[c] = len + 1
  <2>1. PICK j \in 1 .. c : starts[j] = len + 1
    BY <1>3, <1>7
  <2>2. c \in 1 .. c /\ starts[c] \in 1 .. len + 1
    <3>1. c \in 1 .. c
      BY <1>7, <2>1
    <3>2. starts[c] \in B
      BY <1>7, <3>1
    <3> QED BY <1>3, <3>1, <3>2
  <2>3. j < c => starts[j] < starts[c]
    BY <1>7, <2>2
  <2> QED BY <1>7, <2>1, <2>2, <2>3
<1>16. ASSUME NEW m \in 1 .. len, s[m].node # Null
       PROVE  n # 0 /\ starts[1] <= m
  <2>1. PICK i \in B : i <= m /\ i <= len
    BY <1>14, <1>16
  <2>2. PICK j \in 1 .. c : starts[j] = i
    BY <1>7
  <2>3. i \in Nat
    BY <1>4
  <2>4. j # c
    BY <1>15, <2>1, <2>2, <2>3
  <2>5. 1 \in 1 .. c /\ 1 < c /\ starts[1] \in Nat
    <3>1. 1 \in 1 .. c /\ 1 < c
      BY <1>7, <2>4
    <3>2. starts[1] \in B
      BY <1>7, <3>1
    <3> QED BY <1>4, <3>1, <3>2
  <2>6. starts[1] <= i
    <3>1. j = 1 \/ 1 < j
      OBVIOUS
    <3>2. 1 < j => starts[1] < starts[j]
      BY <1>7, <2>5
    <3> QED BY <2>2, <2>3, <2>5, <3>1, <3>2
  <2> QED BY <1>10, <2>1, <2>3, <2>5, <2>6
<1>12. CASE n = 0
  <2>1. ts = <<>>
    BY <1>10, <1>12 DEF RunBlocks, starts
  <2>2. \A m \in DOMAIN s : s[m].node = Null
    BY <1>1, <1>12, <1>16
  <2> QED BY <2>1, <2>2 DEF AllApart
<1>13. CASE n # 0
  <2>1. PICK k \in 1 .. n : k = Least(n, w)
    BY <1>11, <1>13 DEF Least
  <2>2. ts = [b \in 1 .. k |->
          [block |-> b,
           todo |-> SubSeq(s, starts[FirstRun(n, k, b)], starts[FirstRun(n, k, b + 1)] - 1)]]
    BY <1>10, <1>11, <1>13, <2>1 DEF RunBlocks, starts, FirstRun
  <2>3. PICK at \in [1 .. k + 1 -> 1 .. c] : \A b \in 1 .. k + 1 : at[b] = FirstRun(n, k, b)
    <3>1. \A b \in 1 .. k + 1 : FirstRun(n, k, b) \in 1 .. c
      BY <1>10, <1>13, <2>1, FirstRunOrder
    <3> DEFINE f == [b \in 1 .. k + 1 |-> FirstRun(n, k, b)]
    <3>2. f \in [1 .. k + 1 -> 1 .. c] /\ \A b \in 1 .. k + 1 : f[b] = FirstRun(n, k, b)
      BY <3>1
    <3> HIDE DEF f
    <3> QED BY <3>2
  <2>4. \A a, b \in 1 .. k + 1 : a <= b => at[a] <= at[b]
    BY <1>13, <2>1, <2>3, FirstRunOrder
  <2>5. ts = [b \in 1 .. k |->
          [block |-> b, todo |-> SubSeq(s, starts[at[b]], starts[at[b + 1]] - 1)]]
    <3>1. \A b \in 1 .. k : b \in 1 .. k + 1 /\ b + 1 \in 1 .. k + 1
      OBVIOUS
    <3> QED BY <2>2, <2>3, <3>1
  <2>6. \A b \in 1 .. k + 1 : starts[at[b]] \in B /\ starts[at[b]] \in 1 .. len + 1
    BY <1>3, <1>7, <2>3
  <2>7. \A a, b \in 1 .. k + 1 : a <= b => starts[at[a]] <= starts[at[b]]
    <3> SUFFICES ASSUME NEW a \in 1 .. k + 1, NEW b \in 1 .. k + 1, a <= b
                 PROVE  starts[at[a]] <= starts[at[b]]
      OBVIOUS
    <3>1. at[a] \in 1 .. c /\ at[b] \in 1 .. c /\ at[a] <= at[b]
      BY <2>3, <2>4
    <3>2. starts[at[a]] \in Nat /\ starts[at[b]] \in Nat
      BY <2>6
    <3>3. CASE at[a] = at[b]
      BY <3>2, <3>3
    <3>4. CASE at[a] < at[b]
      <4>1. starts[at[a]] < starts[at[b]]
        BY <1>7, <3>1, <3>4
      <4> QED BY <3>2, <4>1
    <3>5. at[a] = at[b] \/ at[a] < at[b]
      BY <3>1
    <3> QED BY <3>3, <3>4, <3>5
  <2>8. ASSUME NEW b \in 1 .. k
        PROVE  /\ ts[b] \in TaskOf(S)
               /\ \A m \in starts[at[b]] .. starts[at[b + 1]] - 1 : Occurs(s[m], ts[b].todo)
               /\ \A i \in DOMAIN ts[b].todo :
                    \E m \in starts[at[b]] .. starts[at[b + 1]] - 1 :
                      m \in 1 .. len /\ ts[b].todo[i] = s[m]
    <3>1. b \in 1 .. k + 1 /\ b + 1 \in 1 .. k + 1
      OBVIOUS
    <3>2. PICK lo \in 1 .. Len(s) + 1, hi \in 1 .. Len(s) + 1 :
            lo = starts[at[b]] /\ hi = starts[at[b + 1]]
      BY <1>1, <2>6, <3>1
    <3>3. PICK x : x = SubSeq(s, lo, hi - 1)
      OBVIOUS
    <3>4. /\ x \in Seq(S)
          /\ IsBetween(x, s, lo, hi)
      BY <3>2, <3>3, Between
    <3>5. ts[b] = [block |-> b, todo |-> x]
      BY <2>5, <3>2, <3>3
    <3>6. b \in Nat \ {0}
      OBVIOUS
    <3>7. ts[b] \in TaskOf(S)
      BY <3>4, <3>5, <3>6 DEF TaskOf
    <3>8. ts[b].todo = x
      BY <3>5
    <3> QED BY <1>1, <3>2, <3>4, <3>7, <3>8 DEF IsBetween
  <2>9. ts \in Seq(TaskOf(S)) /\ DOMAIN ts = 1 .. k
    <3>1. \A b \in 1 .. k : ts[b] \in TaskOf(S)
      BY <2>8
    <3> QED BY <2>5, <3>1
  <2>10. ASSUME NEW b \in 1 .. k, NEW d \in 1 .. k, b < d
         PROVE  Apart(ts[b].todo, ts[d].todo) /\ Apart(ts[d].todo, ts[b].todo)
    <3>1. b + 1 \in 1 .. k + 1 /\ d \in 1 .. k + 1 /\ b + 1 <= d
      BY <2>10
    <3>2. PICK m \in B, end \in 1 .. len + 1 :
            /\ m = starts[at[d]] /\ end = starts[at[b + 1]]
            /\ end <= m /\ m \in 1 .. len + 1
      BY <2>6, <2>7, <3>1
    <3>3. ASSUME NEW i \in DOMAIN ts[b].todo, NEW j \in DOMAIN ts[d].todo
          PROVE  ts[b].todo[i].node # ts[d].todo[j].node
      <4>1. PICK x \in 1 .. len : x <= end - 1 /\ ts[b].todo[i] = s[x]
        <5>1. PICK x \in starts[at[b]] .. starts[at[b + 1]] - 1 :
                x \in 1 .. len /\ ts[b].todo[i] = s[x]
          BY <2>8
        <5>2. x <= end - 1
          BY <2>6, <3>1, <3>2, <5>1
        <5> QED BY <5>1, <5>2
      <4>2. PICK y \in 1 .. len : m <= y /\ ts[d].todo[j] = s[y]
        <5>1. PICK y \in starts[at[d]] .. starts[at[d + 1]] - 1 :
                y \in 1 .. len /\ ts[d].todo[j] = s[y]
          BY <2>8
        <5>2. m <= y
          BY <3>2, <5>1
        <5> QED BY <5>1, <5>2
      <4>3. x < m
        <5>1. m \in Nat
          BY <1>4
        <5>2. end \in Nat
          OBVIOUS
        <5>3. end <= m
          BY <3>2
        <5>4. x \in Nat
          OBVIOUS
        <5> QED BY <4>1, <5>1, <5>2, <5>3, <5>4, Comparisons, Zenon
      <4>4. m \in 1 .. len
        BY <3>2, <4>2
      <4>5. s[x].node # s[m].node
        BY <1>4, <4>1, <4>3, <4>4
      <4>6. s[x].node <= s[m].node /\ s[m].node <= s[y].node
        <5>1. x \in DOMAIN s /\ m \in DOMAIN s /\ y \in DOMAIN s
          BY <1>1, <4>1, <4>2, <4>4
        <5>2. x <= m
          BY <1>1, <4>1, <4>3, <4>4
        <5> QED BY <4>2, <5>1, <5>2 DEF InNodeOrder
      <4>7. s[x].node \in Nat /\ s[m].node \in Nat /\ s[y].node \in Nat
        <5>1. s[x] \in Reference /\ s[m] \in Reference /\ s[y] \in Reference
          BY <1>1, <4>1, <4>2, <4>4
        <5> QED BY <5>1, AddressIsNat
      <4>8. s[x].node # s[y].node
        BY <4>5, <4>6, <4>7, Comparisons, Zenon
      <4> QED BY <4>1, <4>2, <4>8
    <3> QED BY <3>3 DEF Apart
  <2>11. \A b, d \in 1 .. k : b # d => Apart(ts[b].todo, ts[d].todo)
    <3> SUFFICES ASSUME NEW b \in 1 .. k, NEW d \in 1 .. k, b # d
                 PROVE  Apart(ts[b].todo, ts[d].todo)
      OBVIOUS
    <3>1. b < d \/ d < b
      OBVIOUS
    <3> QED BY <2>10, <3>1
  <2>12. ASSUME NEW m \in 1 .. len, s[m].node # Null
         PROVE  \E b \in 1 .. k : Occurs(s[m], ts[b].todo)
    <3>1. at[1] = 1 /\ at[k + 1] = c
      <4>1. 1 \in 1 .. k + 1 /\ k + 1 \in 1 .. k + 1
        OBVIOUS
      <4>2. FirstRun(n, k, 1) = 1 /\ FirstRun(n, k, k + 1) = n + 1
        BY <1>13, <2>1, FirstRunOrder
      <4> QED BY <1>10, <2>3, <4>1, <4>2
    <3> DEFINE D == {b \in 1 .. k : starts[at[b]] <= m}
    <3>2. PICK b \in D : \A d \in D : d <= b
      <4>1. 1 \in D
        BY <1>16, <2>12, <3>1
      <4>2. D \in SUBSET Nat /\ k \in Nat /\ \A d \in D : d <= k
        OBVIOUS
      <4> HIDE DEF D
      <4> QED BY <4>1, <4>2, GreatestExists
    <3>3. m < starts[at[b + 1]]
      <4>1. CASE b = k
        <5>1. starts[at[b + 1]] = len + 1
          BY <1>15, <3>1, <4>1
        <5> QED BY <5>1
      <4>2. CASE b # k
        <5>1. b + 1 \in 1 .. k /\ ~(b + 1 <= b)
          BY <4>2
        <5>2. b + 1 \notin D
          BY <3>2, <5>1
        <5>3. starts[at[b + 1]] \in 1 .. len + 1
          BY <2>6, <5>1
        <5> QED BY <5>1, <5>2, <5>3
      <4> QED BY <4>1, <4>2
    <3>4. m \in starts[at[b]] .. starts[at[b + 1]] - 1
      <4>1. b \in 1 .. k + 1 /\ b + 1 \in 1 .. k + 1
        OBVIOUS
      <4>2. starts[at[b]] \in 1 .. len + 1 /\ starts[at[b + 1]] \in 1 .. len + 1
        BY <2>6, <4>1
      <4>3. starts[at[b]] <= m
        OBVIOUS
      <4> QED BY <3>3, <4>2, <4>3
    <3> QED BY <2>8, <3>4
  <2> QED BY <1>1, <2>9, <2>11, <2>12 DEF AllApart
<1> QED BY <1>12, <1>13

\* One list behind the other holds what the two hold.
LEMMA ConcatOccurs ==
  ASSUME NEW S, NEW a \in Seq(S), NEW b \in Seq(S)
  PROVE  \A v : Occurs(v, a \o b) <=> Occurs(v, a) \/ Occurs(v, b)
<1>1. PICK m \in Nat, n \in Nat : /\ m = Len(a) /\ DOMAIN a = 1 .. m
                                  /\ n = Len(b) /\ DOMAIN b = 1 .. n
  OBVIOUS
<1>2. /\ DOMAIN (a \o b) = 1 .. m + n
      /\ \A i \in 1 .. m + n : (a \o b)[i] = IF i <= m THEN a[i] ELSE b[i - m]
  BY <1>1
<1>3. ASSUME NEW v, Occurs(v, a \o b)
      PROVE  Occurs(v, a) \/ Occurs(v, b)
  <2>1. PICK i \in 1 .. m + n : (a \o b)[i] = v
    BY <1>2, <1>3 DEF Occurs
  <2>2. CASE i <= m
    <3>1. i \in 1 .. m /\ a[i] = v
      BY <1>2, <2>1, <2>2
    <3> QED BY <1>1, <3>1, Zenon DEF Occurs
  <2>3. CASE ~(i <= m)
    <3>1. i - m \in 1 .. n /\ b[i - m] = v
      BY <1>2, <2>1, <2>3
    <3> QED BY <1>1, <3>1, Zenon DEF Occurs
  <2> QED BY <2>2, <2>3
<1>4. ASSUME NEW v, Occurs(v, a)
      PROVE  Occurs(v, a \o b)
  <2>1. PICK i \in 1 .. m : a[i] = v
    BY <1>1, <1>4 DEF Occurs
  <2>2. i \in 1 .. m + n /\ i <= m
    OBVIOUS
  <2> QED BY <1>2, <2>1, <2>2 DEF Occurs
<1>5. ASSUME NEW v, Occurs(v, b)
      PROVE  Occurs(v, a \o b)
  <2>1. PICK i \in 1 .. n : b[i] = v
    BY <1>1, <1>5 DEF Occurs
  <2>2. m + i \in 1 .. m + n /\ ~(m + i <= m) /\ (m + i) - m = i
    OBVIOUS
  <2> QED BY <1>2, <2>1, <2>2 DEF Occurs
<1> QED BY <1>3, <1>4, <1>5

\* The list f of prefixes that FlattenSeq builds up.
IsFlattening(f, q, m) ==
  f = [i \in 1 .. m |-> IF i = 1 THEN q[i] ELSE f[i - 1] \o q[i]]

\* The buffers, one behind the other, are a list of what they hold.
LEMMA FlattenType ==
  ASSUME NEW S, NEW q \in Seq(Seq(S))
  PROVE  /\ FlattenSeq(q) \in Seq(S)
         /\ \A j \in DOMAIN q : \A v : Occurs(v, q[j]) => Occurs(v, FlattenSeq(q))
<1>1. PICK n \in Nat : n = Len(q) /\ DOMAIN q = 1 .. n
  OBVIOUS
<1>2. \A i \in 1 .. n : q[i] \in Seq(S)
  BY <1>1
<1>3. CASE n = 0
  <2>1. FlattenSeq(q) = q
    BY <1>1, <1>3 DEF FlattenSeq
  <2> QED BY <1>1, <1>3, <2>1
<1>4. CASE n # 0
  <2> DEFINE T == {m \in Nat : m <= n => \E f \in [1 .. m -> Seq(S)] : IsFlattening(f, q, m)}
  <2>1. 0 \in T
    <3> DEFINE f == [i \in 1 .. 0 |-> IF i = 1 THEN q[i] ELSE <<>>]
    <3>1. f \in [1 .. 0 -> Seq(S)] /\ IsFlattening(f, q, 0)
      BY DEF IsFlattening
    <3> QED BY <3>1
  <2>2. ASSUME NEW m \in Nat, m \in T
        PROVE  m + 1 \in T
    <3> SUFFICES ASSUME m + 1 <= n
                 PROVE  \E f \in [1 .. m + 1 -> Seq(S)] : IsFlattening(f, q, m + 1)
      OBVIOUS
    <3>1. PICK f \in [1 .. m -> Seq(S)] : IsFlattening(f, q, m)
      BY <1>1, <2>2
    <3>2. PICK e \in Seq(S) : e = IF m = 0 THEN q[1] ELSE f[m] \o q[m + 1]
      <4>1. CASE m = 0
        BY <1>1, <1>2, <4>1
      <4>2. CASE m # 0
        <5>1. f[m] \in Seq(S) /\ q[m + 1] \in Seq(S)
          BY <1>1, <1>2, <4>2
        <5> QED BY <4>2, <5>1, ConcatProperties
      <4> QED BY <4>1, <4>2
    <3> DEFINE g == [i \in 1 .. m + 1 |-> IF i <= m THEN f[i] ELSE e]
    <3>3. g \in [1 .. m + 1 -> Seq(S)]
      BY <3>2
    <3>4. /\ \A i \in 1 .. m : g[i] = f[i]
          /\ \A i \in 1 .. m : f[i] = IF i = 1 THEN q[i] ELSE f[i - 1] \o q[i]
      <4>1. \A i \in 1 .. m : g[i] = f[i]
        OBVIOUS
      <4> HIDE DEF g
      <4>2. \A i \in 1 .. m : f[i] = IF i = 1 THEN q[i] ELSE f[i - 1] \o q[i]
        BY <3>1 DEF IsFlattening
      <4> QED BY <4>1, <4>2
    <3>5. g[m + 1] = e
      OBVIOUS
    <3>6. DOMAIN g = 1 .. m + 1
      OBVIOUS
    <3> HIDE DEF g
    <3>7. ASSUME NEW i \in 1 .. m + 1
          PROVE  g[i] = IF i = 1 THEN q[i] ELSE g[i - 1] \o q[i]
      <4>1. CASE i \in 1 .. m
        <5>1. i # 1 => i - 1 \in 1 .. m
          BY <4>1
        <5> QED BY <3>4, <4>1, <5>1
      <4>2. CASE i = m + 1
        <5>1. CASE m = 0
          BY <3>2, <3>5, <4>2, <5>1
        <5>2. CASE m # 0
          <6>1. i # 1 /\ i - 1 = m /\ m \in 1 .. m
            BY <4>2, <5>2
          <6>2. g[i - 1] = f[m]
            BY <3>4, <6>1
          <6> QED BY <3>2, <3>5, <4>2, <5>2, <6>1, <6>2
        <5> QED BY <5>1, <5>2
      <4> QED BY <4>1, <4>2
    <3>8. IsFlattening(g, q, m + 1)
      BY <3>3, <3>7 DEF IsFlattening
    <3> QED BY <3>3, <3>8
  <2>3. Nat \subseteq T
    <3> HIDE DEF T
    <3> QED BY <2>1, <2>2, InductionOnSet
  <2>4. \E f : IsFlattening(f, q, n)
    BY <1>1, <2>3
  <2>5. PICK F : F = CHOOSE f : IsFlattening(f, q, n)
    OBVIOUS
  <2>6. IsFlattening(F, q, n)
    BY <2>4, <2>5
  <2>7. FlattenSeq(q) = F[n]
    <3>1. Len(q) # 0 /\ Len(q) = n
      BY <1>1, <1>4
    <3> QED BY <2>5, <3>1, Zenon DEF FlattenSeq, IsFlattening
  <2>8. \A i \in 1 .. n : F[i] = IF i = 1 THEN q[i] ELSE F[i - 1] \o q[i]
    BY <2>6 DEF IsFlattening
  <2> DEFINE Joins(i) == /\ F[i] \in Seq(S)
                         /\ \A j \in 1 .. i : \A v : Occurs(v, q[j]) => Occurs(v, F[i])
             U == {i \in Nat : i + 1 <= n => Joins(i + 1)}
  <2>9. 0 \in U
    <3>1. 1 <= n => F[1] = q[1] /\ q[1] \in Seq(S)
      BY <1>1, <1>2, <2>8
    <3>2. \A j \in 1 .. 1 : j = 1
      OBVIOUS
    <3> QED BY <3>1, <3>2
  <2>10. ASSUME NEW i \in Nat, i \in U
         PROVE  i + 1 \in U
    <3> SUFFICES ASSUME (i + 1) + 1 <= n PROVE Joins((i + 1) + 1)
      OBVIOUS
    <3>1. (i + 1) + 1 \in 1 .. n /\ (i + 1) + 1 # 1 /\ ((i + 1) + 1) - 1 = i + 1 /\ i + 1 <= n
      BY <1>1
    <3>2. F[(i + 1) + 1] = F[i + 1] \o q[(i + 1) + 1]
      BY <2>8, <3>1
    <3>3. Joins(i + 1) /\ q[(i + 1) + 1] \in Seq(S)
      BY <1>2, <2>10, <3>1
    <3>4. F[(i + 1) + 1] \in Seq(S)
      BY <3>2, <3>3, ConcatProperties
    <3>5. \A v : Occurs(v, F[(i + 1) + 1]) <=> Occurs(v, F[i + 1]) \/ Occurs(v, q[(i + 1) + 1])
      BY <3>2, <3>3, ConcatOccurs
    <3>6. \A j \in 1 .. (i + 1) + 1 : j \in 1 .. i + 1 \/ j = (i + 1) + 1
      OBVIOUS
    <3> QED BY <3>3, <3>4, <3>5, <3>6
  <2>11. Nat \subseteq U
    <3> HIDE DEF U
    <3> QED BY <2>9, <2>10, InductionOnSet
  <2>12. n - 1 \in Nat /\ (n - 1) + 1 = n
    BY <1>1, <1>4
  <2>13. PICK p \in Nat : p + 1 = n
    BY <2>12
  <2>14. Joins(n)
    <3>1. p \in U
      <4> HIDE DEF U
      <4> QED BY <2>11
    <3> HIDE DEF Joins
    <3> QED BY <1>1, <2>13, <3>1
  <2> QED BY <1>1, <2>7, <2>14
<1> QED BY <1>3, <1>4

-----------------------------------------------------------------------------
(***************************************************************************)
(* What the design says.                                                   *)
(***************************************************************************)
EveryEffect ==
  {Ports[k] : k \in DOMAIN Ports}
    \cup UNION {{Blocks[b][k] : k \in DOMAIN Blocks[b]} : b \in DOMAIN Blocks}

Refs == {AsReference(e) : e \in AllEffects("read")}

\* The effects of the ports and of the blocks, taken together.
LEMMA EffectsTyped ==
  /\ EveryEffect \subseteq Effect
  /\ Ports \in Seq(EveryEffect)
  /\ Blocks \in Seq(Seq(EveryEffect))
  /\ \A op, e : e \in AllEffects(op) <=> e \in EveryEffect /\ e.op = op
<1>1. Ports \in Seq(Effect) /\ Blocks \in Seq(Seq(Effect))
  BY BuildPipelineAssumption
<1>2. PICK m \in Nat, n \in Nat : DOMAIN Ports = 1 .. m /\ DOMAIN Blocks = 1 .. n
  BY <1>1
<1>3. \A b \in 1 .. n : Blocks[b] \in Seq(Effect)
  BY <1>1, <1>2
<1>4. EveryEffect \subseteq Effect
  <2>1. \A k \in 1 .. m : Ports[k] \in Effect
    BY <1>1, <1>2
  <2>2. ASSUME NEW b \in 1 .. n, NEW k \in DOMAIN Blocks[b]
        PROVE  Blocks[b][k] \in Effect
    BY <1>3
  <2> QED BY <1>2, <2>1, <2>2 DEF EveryEffect
<1>5. Ports \in Seq(EveryEffect)
  <2>1. \A k \in 1 .. m : Ports[k] \in EveryEffect
    BY <1>2 DEF EveryEffect
  <2> QED BY <1>1, <1>2, <2>1
<1>6. Blocks \in Seq(Seq(EveryEffect))
  <2>1. ASSUME NEW b \in 1 .. n
        PROVE  Blocks[b] \in Seq(EveryEffect)
    <3>1. PICK c \in Nat : DOMAIN Blocks[b] = 1 .. c
      BY <1>3
    <3>2. \A k \in 1 .. c : Blocks[b][k] \in EveryEffect
      BY <1>2, <3>1 DEF EveryEffect
    <3> QED BY <1>3, <3>1, <3>2
  <2> QED BY <1>1, <1>2, <2>1
<1>7. ASSUME NEW op, NEW e
      PROVE  e \in AllEffects(op) <=> e \in EveryEffect /\ e.op = op
  <2> DEFINE of(effects) == {effects[k] : k \in DOMAIN effects}
  <2>1. \A effects : e \in All(effects, op) <=> e \in of(effects) /\ e.op = op
    BY DEF All
  <2>2. EveryEffect = of(Ports) \cup UNION {of(Blocks[b]) : b \in DOMAIN Blocks}
    BY DEF EveryEffect
  <2> HIDE DEF of
  <2>3. e \in EveryEffect <=> e \in of(Ports) \/ \E b \in DOMAIN Blocks : e \in of(Blocks[b])
    BY <2>2
  <2>4. e \in AllEffects(op) <=> \/ e \in All(Ports, op)
                               \/ \E b \in DOMAIN Blocks : e \in All(Blocks[b], op)
    BY DEF AllEffects
  <2> QED BY <2>1, <2>3, <2>4
<1> QED BY <1>4, <1>5, <1>6, <1>7

\* What becomes of an effect.
LEMMA EffectsBecome ==
  /\ Refs \subseteq Reference /\ Driven \subseteq Reference /\ States \subseteq Reference
  /\ \A e \in EveryEffect :
       /\ AsAnnotation(e) \in Annotation
       /\ e.sym \in Symbols /\ e.node \in Nodes \cup {Null} /\ e.source \in Nodes \cup {Null}
       /\ e.op \in {"drive", "state", "read", "link"}
       /\ e.op = "read" => AsReference(e) \in Refs
       /\ e.op = "drive" => AsDrive(e) \in Driven
       /\ e.op = "state" => AsVariable(e) \in States
       /\ e.op = "link" => e.node \in Nodes /\ e.source \in Nodes
<1>1. ASSUME NEW e \in Effect
      PROVE  /\ AsAnnotation(e) \in Annotation /\ AsReference(e) \in Reference
             /\ e.sym \in Symbols /\ e.node \in Nodes \cup {Null} /\ e.source \in Nodes \cup {Null}
             /\ e.op \in {"drive", "state", "read", "link"}
  BY DEF Effect, NonEmpty, AsAnnotation, AsReference, Annotation, Reference
<1>2. Refs \subseteq Reference /\ Driven \subseteq Reference /\ States \subseteq Reference
  BY <1>1, EffectsTyped DEF Refs, Driven, States, AsDrive, AsVariable
<1>3. \A e \in EveryEffect : e.op = "link" => e.node # Null /\ e.source # Null
  BY EffectsTyped, BuildPipelineAssumption
<1> QED BY <1>1, <1>2, <1>3, EffectsTyped DEF Refs, Driven, States

\* The effects of one kind, taken out of a list of effects in their order.
LEMMA ReadsType ==
  ASSUME NEW effects \in Seq(EveryEffect)
  PROVE  /\ Reads(effects) \in Seq(Refs)
         /\ \A k \in DOMAIN effects :
              effects[k].op = "read" => Occurs(AsReference(effects[k]), Reads(effects))
<1> DEFINE S == {k \in DOMAIN effects : effects[k].op = "read"}
<1>1. PICK a : a = Ascending(S)
  OBVIOUS
<1>2. S \in SUBSET DOMAIN effects
  OBVIOUS
<1>3. a \in Seq(S) /\ \A x \in S : Occurs(x, a)
  <2> HIDE DEF S
  <2> QED BY <1>1, <1>2, PositionsListed
<1>4. Reads(effects) = [k \in DOMAIN a |-> AsReference(effects[a[k]])]
  BY <1>1 DEF Reads
<1>5. PICK c \in Nat : DOMAIN a = 1 .. c
  BY <1>3
<1>6. \A k \in 1 .. c : a[k] \in S
  BY <1>3, <1>5
<1>7. \A i \in S : AsReference(effects[i]) \in Refs
  BY EffectsBecome
<1>8. Reads(effects) \in Seq(Refs)
  BY <1>4, <1>5, <1>6, <1>7
<1>9. ASSUME NEW i \in S
      PROVE  Occurs(AsReference(effects[i]), Reads(effects))
  <2>1. PICK k \in 1 .. c : a[k] = i
    BY <1>3, <1>5 DEF Occurs
  <2> QED BY <1>4, <1>5, <2>1 DEF Occurs
<1> QED BY <1>8, <1>9

\* The annotations that a list of effects puts between two nodes.
LEMMA LinksType ==
  ASSUME NEW effects \in Seq(EveryEffect), NEW p
  PROVE  /\ Links(effects, p) \in Seq(Annotation)
         /\ \A s, b : Carries(Links(effects, p), s, b) <=>
              \E k \in DOMAIN effects : /\ effects[k].op = "link"
                                        /\ <<effects[k].source, effects[k].node>> = p
                                        /\ Says(effects[k], s, b)
         /\ OwnFrame(p[1]) =>
              \A k \in DOMAIN Links(effects, p) : Kept(p[1], Links(effects, p)[k])
<1> DEFINE S == {k \in DOMAIN effects : /\ effects[k].op = "link"
                                        /\ <<effects[k].source, effects[k].node>> = p}
<1>1. PICK a : a = Ascending(S)
  OBVIOUS
<1>2. S \in SUBSET DOMAIN effects
  OBVIOUS
<1>3. a \in Seq(S) /\ \A x \in S : Occurs(x, a)
  <2> HIDE DEF S
  <2> QED BY <1>1, <1>2, PositionsListed
<1>4. Links(effects, p) = [k \in DOMAIN a |-> AsAnnotation(effects[a[k]])]
  BY <1>1 DEF Links
<1>5. PICK c \in Nat : DOMAIN a = 1 .. c
  BY <1>3
<1>6. \A k \in 1 .. c : a[k] \in S
  BY <1>3, <1>5
<1>7. \A i \in S : AsAnnotation(effects[i]) \in Annotation
  BY EffectsBecome
<1>8. Links(effects, p) \in Seq(Annotation)
  BY <1>4, <1>5, <1>6, <1>7
<1>9. \A e, s, b : Says(AsAnnotation(e), s, b) <=> Says(e, s, b)
  BY DEF Says, AsAnnotation
<1>10. ASSUME NEW s, NEW b
       PROVE  Carries(Links(effects, p), s, b) <=> \E i \in S : Says(effects[i], s, b)
  <2>1. ASSUME NEW k \in 1 .. c, Says(Links(effects, p)[k], s, b)
        PROVE  \E i \in S : Says(effects[i], s, b)
    BY <1>4, <1>5, <1>6, <1>9, <2>1
  <2>2. ASSUME NEW i \in S, Says(effects[i], s, b)
        PROVE  \E k \in 1 .. c : Says(Links(effects, p)[k], s, b)
    <3>1. PICK k \in 1 .. c : a[k] = i
      BY <1>3, <1>5 DEF Occurs
    <3> QED BY <1>4, <1>5, <1>9, <2>2, <3>1
  <2>3. DOMAIN Links(effects, p) = 1 .. c
    BY <1>4, <1>5
  <2> QED BY <2>1, <2>2, <2>3 DEF Carries
<1>11. ASSUME OwnFrame(p[1]), NEW k \in DOMAIN Links(effects, p)
       PROVE  Kept(p[1], Links(effects, p)[k])
  <2>1. PICK i \in S : Links(effects, p)[k] = AsAnnotation(effects[i])
    BY <1>4, <1>5, <1>6, <1>11
  <2>2. PICK e \in EveryEffect : e = effects[i] /\ e.op = "link" /\ e.source = p[1]
    BY <2>1
  <2>3. Kept(p[1], e)
    BY <1>11, <2>2, EffectsTyped DEF OwnFrame
  <2>4. AsAnnotation(e).lo = e.lo /\ AsAnnotation(e).hi = e.hi
    BY DEF AsAnnotation
  <2> QED BY <2>1, <2>2, <2>3, <2>4 DEF Kept, InBounds
<1> QED BY <1>8, <1>10, <1>11
-----------------------------------------------------------------------------
(***************************************************************************)
(* The inductive invariant.                                                *)
(***************************************************************************)
Types ==
  /\ phase \in {"start", "collected", "analyse", "built", "resolve", "resolvePool",
                "done", "failed"}
  /\ parallel \in BOOLEAN
  /\ deferred \in Seq(DOMAIN Blocks)
  /\ queue \in Seq(Refs)
  /\ buffers \in Seq(Seq(Refs))
  /\ DOMAIN job = AllThreads

\* Tasks wait or are run by the threads of this phase.
Tasked(S) ==
  /\ tasks \in Seq(TaskOf(S))
  /\ \A t \in AllThreads : job[t] = NoJob \/ (job[t] \in TaskOf(S) /\ t \in Runners)

\* Between the two parallel phases there is no task.
Working ==
  /\ phase = "analyse" => Tasked(EveryEffect)
  /\ Resolving => Tasked(Refs)
  /\ phase # "analyse" /\ ~Resolving => Joined

\* No two tasks, waiting or running, have a target in common.
Separate ==
  Resolving =>
    /\ AllApart(tasks)
    /\ \A t \in AllThreads : \A i \in DOMAIN tasks : Apart(job[t].todo, tasks[i].todo)
    /\ \A t, u \in AllThreads : t # u => Apart(job[t].todo, job[u].todo)

\* What threw is remembered until it is rethrown.
Reported ==
  /\ threw => exception \/ phase = "failed"
  /\ exception => threw
  /\ phase = "done" => ~exception
  /\ phase = "failed" => threw

IInv == Types /\ Working /\ Separate /\ Reported
-----------------------------------------------------------------------------
(***************************************************************************)
(* Every action keeps it.                                                  *)
(***************************************************************************)
\* A thread without a task has no target.
LEMMA NoJobApart ==
  /\ NoJob.block = 0 /\ NoJob.todo = <<>>
  /\ \A a : Apart(NoJob.todo, a) /\ Apart(a, NoJob.todo)
BY DEF NoJob, Apart

\* Having no common target is mutual, and lasts as a task gets shorter.
LEMMA ApartRest ==
  ASSUME NEW S, NEW a \in Seq(S), NEW b
  PROVE  /\ Apart(a, b) <=> Apart(b, a)
         /\ Apart(a, b) /\ a # <<>> => Apart(Tail(a), b)
<1>1. Apart(a, b) <=> Apart(b, a)
  BY DEF Apart
<1>2. ASSUME Apart(a, b), a # <<>> PROVE Apart(Tail(a), b)
  <2>1. \A i \in DOMAIN Tail(a) : i + 1 \in DOMAIN a /\ Tail(a)[i] = a[i + 1]
    BY <1>2
  <2> QED BY <1>2, <2>1 DEF Apart
<1> QED BY <1>1, <1>2

\* The main thread starts with nothing.
LEMMA InitInv == Init => IInv
<1> SUFFICES ASSUME Init PROVE IInv
  OBVIOUS
<1>1. Types
  BY BuildPipelineAssumption DEF Init, Types
<1>2. Working
  BY DEF Init, Working, Resolving, Joined
<1>3. Separate /\ Reported
  BY DEF Init, Separate, Reported, Resolving
<1> QED BY <1>1, <1>2, <1>3 DEF IInv

\* Phase 1 queues references and defers every block.
LEMMA CollectInv == ASSUME IInv, Collect PROVE IInv'
<1> USE DEF Collect
<1>1. Ports \in Seq(EveryEffect) /\ Blocks \in Seq(Seq(EveryEffect))
  BY EffectsTyped
<1>2. queue' \in Seq(Refs)
  BY <1>1, ReadsType
<1>3. deferred' \in Seq(DOMAIN Blocks)
  <2>1. PICK n \in Nat : DOMAIN Blocks = 1 .. n
    BY <1>1
  <2> QED BY <2>1
<1>4. Types'
  BY <1>2, <1>3 DEF IInv, Types
<1>5. Working' /\ Separate' /\ Reported'
  BY DEF IInv, Working, Separate, Reported, Resolving, Joined
<1> QED BY <1>4, <1>5 DEF IInv

\* Phase 2 begins with one task per block, and no thread at work.
LEMMA StartAnalysisInv == ASSUME IInv, StartAnalysis PROVE IInv'
<1> USE DEF StartAnalysis
<1>1. Blocks \in Seq(Seq(EveryEffect)) /\ deferred \in Seq(DOMAIN Blocks)
  BY EffectsTyped DEF IInv, Types
<1>2. PICK n \in Nat : DOMAIN deferred = 1 .. n
  BY <1>1
<1>3. \A k \in 1 .. n : deferred[k] \in DOMAIN Blocks
  BY <1>1, <1>2
<1>4. \A b \in DOMAIN Blocks : b \in Nat \ {0} /\ Blocks[b] \in Seq(EveryEffect)
  BY <1>1
<1>5. tasks' \in Seq(TaskOf(EveryEffect))
  <2>1. tasks' = [k \in 1 .. n |-> [block |-> deferred[k], todo |-> Blocks[deferred[k]]]]
    BY <1>2 DEF Detached
  <2>2. \A k \in 1 .. n : [block |-> deferred[k], todo |-> Blocks[deferred[k]]] \in TaskOf(EveryEffect)
    BY <1>3, <1>4 DEF TaskOf
  <2> QED BY <1>2, <2>1, <2>2
<1>6. buffers' \in Seq(Seq(Refs))
  <2>1. buffers' = [b \in 1 .. n |-> <<>>]
    BY <1>2
  <2>2. <<>> \in Seq(Refs)
    OBVIOUS
  <2> QED BY <1>2, <2>1, <2>2
<1>7. Types'
  BY <1>6 DEF IInv, Types
<1>8. \A t \in AllThreads : job'[t] = NoJob
  BY DEF IInv, Working, Resolving, Joined
<1>9. Working'
  BY <1>5, <1>8 DEF Working, Tasked, Resolving
<1>10. Separate' /\ Reported'
  BY DEF IInv, Separate, Reported, Resolving
<1> QED BY <1>7, <1>9, <1>10 DEF IInv

\* A task moves from the queue of tasks to a thread.
LEMMA StartedTask ==
  ASSUME IInv, NEW t \in AllThreads, StartTask(t), NEW S, Tasked(S)
  PROVE  /\ Tasked(S)'
         /\ job'[t] = tasks[1] /\ 1 \in DOMAIN tasks
         /\ \A u \in AllThreads \ {t} : job'[u] = job[u]
         /\ \A i \in DOMAIN tasks : i = 1 \/ \E j \in DOMAIN tasks' : tasks'[j] = tasks[i]
         /\ \A i \in DOMAIN tasks' : /\ i + 1 \in DOMAIN tasks /\ i + 1 # 1
                                     /\ tasks'[i] = tasks[i + 1]
<1> USE DEF StartTask
<1>1. Runners' = Runners
  BY DEF Runners, Pooled
<1>2. tasks \in Seq(TaskOf(S)) /\ tasks # <<>>
  BY DEF Tasked
<1>3. /\ Head(tasks) \in TaskOf(S) /\ Tail(tasks) \in Seq(TaskOf(S))
      /\ Head(tasks) = tasks[1] /\ 1 \in DOMAIN tasks
  BY <1>2
<1>4. /\ \A i \in DOMAIN Tail(tasks) : /\ i + 1 \in DOMAIN tasks /\ i + 1 # 1
                                       /\ Tail(tasks)[i] = tasks[i + 1]
      /\ \A i \in DOMAIN tasks : i = 1 \/ (i - 1 \in DOMAIN Tail(tasks) /\ Tail(tasks)[i - 1] = tasks[i])
  BY <1>2
<1>5. job'[t] = Head(tasks) /\ \A u \in AllThreads \ {t} : job'[u] = job[u]
  BY DEF IInv, Types
<1>6. Tasked(S)'
  BY <1>1, <1>3, <1>5 DEF Tasked
<1> QED BY <1>3, <1>4, <1>5, <1>6

\* It has its targets to itself there too, and the first part of the invariant
\* is kept.
LEMMA StartTaskInv == ASSUME IInv, NEW t \in AllThreads, StartTask(t) PROVE IInv'
<1>0. \A S : Tasked(S) => /\ Tasked(S)'
                         /\ job'[t] = tasks[1] /\ 1 \in DOMAIN tasks
                         /\ \A u \in AllThreads \ {t} : job'[u] = job[u]
                         /\ \A i \in DOMAIN tasks' : /\ i + 1 \in DOMAIN tasks /\ i + 1 # 1
                                                     /\ tasks'[i] = tasks[i + 1]
  BY StartedTask
<1> USE DEF StartTask
<1>1. Types' /\ Reported'
  BY DEF IInv, Types, Reported
<1>3. ASSUME NEW S, Tasked(S)
      PROVE  /\ Tasked(S)'
             /\ job'[t] = tasks[1] /\ 1 \in DOMAIN tasks
             /\ \A u \in AllThreads \ {t} : job'[u] = job[u]
             /\ \A i \in DOMAIN tasks' : /\ i + 1 \in DOMAIN tasks /\ i + 1 # 1
                                         /\ tasks'[i] = tasks[i + 1]
  BY <1>0, <1>3
<1>4. Working'
  BY <1>3 DEF IInv, Working, Resolving
<1>5. Separate'
  <2> SUFFICES ASSUME Resolving
               PROVE  /\ AllApart(tasks')
                      /\ \A u \in AllThreads : \A i \in DOMAIN tasks' :
                           Apart(job'[u].todo, tasks'[i].todo)
                      /\ \A u, v \in AllThreads : u # v => Apart(job'[u].todo, job'[v].todo)
    BY DEF Separate, Resolving
  <2>1. /\ job'[t] = tasks[1] /\ 1 \in DOMAIN tasks
        /\ \A u \in AllThreads \ {t} : job'[u] = job[u]
        /\ \A i \in DOMAIN tasks' : /\ i + 1 \in DOMAIN tasks /\ i + 1 # 1
                                    /\ tasks'[i] = tasks[i + 1]
        /\ tasks \in Seq(TaskOf(Refs))
    BY <1>3 DEF IInv, Working, Tasked
  <2>2. /\ AllApart(tasks)
        /\ \A u \in AllThreads : \A i \in DOMAIN tasks : Apart(job[u].todo, tasks[i].todo)
        /\ \A u, v \in AllThreads : u # v => Apart(job[u].todo, job[v].todo)
    BY DEF IInv, Separate
  <2>3. AllApart(tasks')
    <3>1. \A i, j \in DOMAIN tasks' : i \in Int /\ j \in Int
      <4>1. tasks' \in Seq(TaskOf(Refs))
        BY <1>3 DEF IInv, Working, Tasked
      <4> QED BY <4>1
    <3>2. \A i, j \in DOMAIN tasks' : i # j => i + 1 # j + 1
      BY <3>1
    <3> QED BY <2>1, <2>2, <3>2 DEF AllApart
  <2>4. ASSUME NEW u \in AllThreads, NEW i \in DOMAIN tasks'
        PROVE  Apart(job'[u].todo, tasks'[i].todo)
    <3>1. CASE u = t
      BY <2>1, <2>2, <3>1 DEF AllApart
    <3>2. CASE u # t
      BY <2>1, <2>2, <3>2
    <3> QED BY <3>1, <3>2
  <2>5. ASSUME NEW u \in AllThreads, NEW v \in AllThreads, u # v
        PROVE  Apart(job'[u].todo, job'[v].todo)
    <3>1. \A w \in AllThreads : Apart(job[w].todo, tasks[1].todo) /\ Apart(tasks[1].todo, job[w].todo)
      BY <2>1, <2>2 DEF Apart
    <3>2. CASE u = t
      BY <2>1, <2>5, <3>1, <3>2
    <3>3. CASE v = t
      BY <2>1, <2>5, <3>1, <3>3
    <3>4. CASE u # t /\ v # t
      BY <2>1, <2>2, <2>5, <3>4
    <3> QED BY <3>2, <3>3, <3>4
  <2> QED BY <2>3, <2>4, <2>5
<1> QED BY <1>1, <1>4, <1>5 DEF IInv

\* A thread takes one step of its task.
LEMMA AdvanceTask ==
  ASSUME IInv, NEW t \in AllThreads, job[t].todo # <<>>, Advance(t),
         UNCHANGED <<phase, pool, tasks>>, NEW S, Tasked(S)
  PROVE  /\ Tasked(S)' /\ DOMAIN job' = AllThreads
         /\ job[t].todo \in Seq(S) /\ job'[t].todo = Tail(job[t].todo)
         /\ job[t] # NoJob /\ job'[t].block = job[t].block /\ t \in Runners
         /\ \A u \in AllThreads \ {t} : job'[u] = job[u]
<1>1. job[t] \in TaskOf(S) /\ t \in Runners /\ job[t] # NoJob
  BY NoJobApart DEF Tasked
<1>2. PICK b \in Nat \ {0}, s \in Seq(S) : job[t] = [block |-> b, todo |-> s]
  BY <1>1 DEF TaskOf
<1>3. Tail(s) \in Seq(S)
  BY <1>2
<1>4. /\ job'[t] = [block |-> b, todo |-> Tail(s)] /\ DOMAIN job' = AllThreads
      /\ \A u \in AllThreads \ {t} : job'[u] = job[u]
  <2>1. DOMAIN job = AllThreads
    BY DEF IInv, Types
  <2>2. /\ DOMAIN job' = AllThreads /\ \A u \in AllThreads \ {t} : job'[u] = job[u]
        /\ job'[t] = [job[t] EXCEPT !.todo = Tail(job[t].todo)]
    BY <2>1 DEF Advance
  <2>3. PICK rest : rest = Tail(job[t].todo)
    OBVIOUS
  <2>4. [job[t] EXCEPT !.todo = rest] = [block |-> b, todo |-> rest]
    BY <1>2
  <2>5. rest = Tail(s)
    BY <1>2, <2>3
  <2> QED BY <2>2, <2>3, <2>4, <2>5
<1>5. job'[t] \in TaskOf(S)
  BY <1>2, <1>3, <1>4 DEF TaskOf
<1>6. Runners' = Runners
  BY DEF Runners, Pooled
<1>7. Tasked(S)'
  BY <1>1, <1>4, <1>5, <1>6 DEF Tasked
<1> QED BY <1>1, <1>2, <1>4, <1>7

\* A step of a task in Phase 4 keeps the tasks apart.
LEMMA AdvanceApart ==
  ASSUME IInv, Resolving, NEW t \in AllThreads, job[t].todo # <<>>, Advance(t),
         UNCHANGED <<phase, pool, tasks>>
  PROVE  Separate' /\ Working' /\ DOMAIN job' = AllThreads
<1>1. Tasked(Refs)
  BY DEF IInv, Working
<1>2. /\ Tasked(Refs)' /\ DOMAIN job' = AllThreads
      /\ job[t].todo \in Seq(Refs) /\ job'[t].todo = Tail(job[t].todo)
      /\ \A u \in AllThreads \ {t} : job'[u] = job[u]
  BY <1>1, AdvanceTask
<1>3. /\ AllApart(tasks)
      /\ \A u \in AllThreads : \A i \in DOMAIN tasks : Apart(job[u].todo, tasks[i].todo)
      /\ \A u, v \in AllThreads : u # v => Apart(job[u].todo, job[v].todo)
  BY DEF IInv, Separate
<1>4. \A b : Apart(job[t].todo, b) => Apart(job'[t].todo, b) /\ Apart(b, job'[t].todo)
  <2>1. PICK a \in Seq(Refs) : a = job[t].todo
    BY <1>2
  <2>2. Tail(a) \in Seq(Refs)
    BY <2>1
  <2>3. \A b : Apart(a, b) => Apart(Tail(a), b)
    BY <2>1, ApartRest
  <2>4. \A b : Apart(Tail(a), b) => Apart(b, Tail(a))
    BY <2>2, ApartRest
  <2> QED BY <1>2, <2>1, <2>3, <2>4
<1>5. \A u \in AllThreads : \A i \in DOMAIN tasks : Apart(job'[u].todo, tasks[i].todo)
  BY <1>2, <1>3, <1>4
<1>6. \A u, v \in AllThreads : u # v => Apart(job'[u].todo, job'[v].todo)
  BY <1>2, <1>3, <1>4
<1>7. Separate'
  BY <1>3, <1>5, <1>6 DEF Separate
<1>8. Working'
  BY <1>2 DEF Working, Resolving
<1> QED BY <1>2, <1>7, <1>8

\* One effect of a block: it can queue a reference, in the task's buffer or in
\* the queue itself.
LEMMA AnalyseInv == ASSUME IInv, NEW t \in AllThreads, Analyse(t) PROVE IInv'
<1>0. /\ phase = "analyse" /\ job[t].todo # <<>> /\ Advance(t)
      /\ UNCHANGED <<parallel, phase, deferred, pool, tasks, exception, threw>>
      /\ LET e == Head(job[t].todo)
         IN (e.op = "read" /\ Enqueue(t, AsReference(e))) \/ UNCHANGED <<queue, buffers>>
  BY DEF Analyse
<1>1. Tasked(EveryEffect)
  BY <1>0 DEF IInv, Working
<1>2. /\ Tasked(EveryEffect)' /\ DOMAIN job' = AllThreads
      /\ job[t].todo \in Seq(EveryEffect)
  BY <1>0, <1>1, AdvanceTask
<1>3. queue' \in Seq(Refs) /\ buffers' \in Seq(Seq(Refs))
  <2>0. queue \in Seq(Refs) /\ buffers \in Seq(Seq(Refs))
    BY DEF IInv, Types
  <2>1. PICK e : e = Head(job[t].todo)
    OBVIOUS
  <2>2. CASE UNCHANGED <<queue, buffers>>
    BY <2>0, <2>2
  <2>3. ASSUME e.op = "read", NEW r, r = AsReference(e), Enqueue(t, r)
        PROVE  queue' \in Seq(Refs) /\ buffers' \in Seq(Seq(Refs))
    <3>0. r \in Refs
      <4>1. e \in EveryEffect
        BY <1>0, <1>2, <2>1
      <4> QED BY <2>3, <4>1, EffectsBecome
    <3>1. CASE t \in Workers
      <4>1. /\ buffers' = [buffers EXCEPT ![job[t].block] = Append(@, r)]
            /\ queue' = queue
        BY <2>3, <3>1 DEF Enqueue
      <4>2. PICK n \in Nat : DOMAIN buffers = 1 .. n
        BY <2>0
      <4>3. \A b \in 1 .. n : buffers[b] \in Seq(Refs) /\ Append(buffers[b], r) \in Seq(Refs)
        BY <2>0, <3>0, <4>2
      <4>4. buffers' \in [1 .. n -> Seq(Refs)]
        BY <2>0, <4>1, <4>2, <4>3
      <4> QED BY <2>0, <4>1, <4>2, <4>4
    <3>2. CASE t \notin Workers
      <4>1. queue' = Append(queue, r) /\ buffers' = buffers
        BY <2>3, <3>2 DEF Enqueue
      <4> QED BY <2>0, <3>0, <4>1
    <3> QED BY <3>1, <3>2
  <2> QED BY <1>0, <2>1, <2>2, <2>3
<1>4. Types'
  BY <1>0, <1>2, <1>3 DEF IInv, Types
<1>5. Working' /\ Separate' /\ Reported'
  BY <1>0, <1>2 DEF IInv, Working, Separate, Reported, Resolving
<1> QED BY <1>4, <1>5 DEF IInv

\* A block throws: its task ends, or the main thread's loop does.
LEMMA AnalysisThrowsInv == ASSUME IInv, NEW t \in AllThreads, AnalysisThrows(t) PROVE IInv'
<1>0. /\ phase = "analyse" /\ job[t].block \in Faults.blocks /\ threw' = TRUE
      /\ UNCHANGED <<parallel, deferred, pool, buffers, queue>>
  BY DEF AnalysisThrows, shared
<1>1. Tasked(EveryEffect) /\ DOMAIN job = AllThreads
  BY <1>0 DEF IInv, Working, Types
<1>2. job[t] \in TaskOf(EveryEffect) /\ t \in Runners
  <2>1. 0 \notin Faults.blocks
    <3>1. Faults.blocks \subseteq DOMAIN Blocks /\ Blocks \in Seq(Seq(EveryEffect))
      BY BuildPipelineAssumption, EffectsTyped
    <3>2. 0 \notin DOMAIN Blocks
      BY <3>1
    <3> QED BY <3>1, <3>2
  <2>2. job[t] # NoJob
    BY <1>0, <2>1, NoJobApart
  <2> QED BY <1>1, <2>2 DEF Tasked
<1>3. CASE pool
  <2>1. /\ job' = [job EXCEPT ![t].todo = <<>>] /\ exception' = TRUE
        /\ UNCHANGED <<phase, tasks>>
    BY <1>3 DEF AnalysisThrows
  <2>2. PICK b \in Nat \ {0}, s \in Seq(EveryEffect) : job[t] = [block |-> b, todo |-> s]
    BY <1>2 DEF TaskOf
  <2>3. /\ DOMAIN job' = AllThreads /\ \A u \in AllThreads \ {t} : job'[u] = job[u]
        /\ job'[t] = [job[t] EXCEPT !.todo = <<>>]
    BY <1>1, <2>1
  <2>4. job'[t] = [block |-> b, todo |-> <<>>]
    BY <2>2, <2>3
  <2>5. job'[t] \in TaskOf(EveryEffect)
    BY <2>2, <2>4 DEF TaskOf
  <2>6. Runners' = Runners
    BY <1>0, <2>1 DEF Runners, Pooled
  <2>7. Tasked(EveryEffect)'
    BY <1>1, <1>2, <2>1, <2>3, <2>5, <2>6 DEF Tasked
  <2>8. Types'
    BY <1>0, <2>1, <2>3 DEF IInv, Types
  <2>9. Working' /\ Separate' /\ Reported'
    BY <1>0, <2>1, <2>7 DEF Working, Separate, Reported, Resolving
  <2> QED BY <2>8, <2>9 DEF IInv
<1>4. CASE ~pool
  <2>1. /\ phase' = "failed" /\ job' = [job EXCEPT ![t] = NoJob] /\ tasks' = <<>>
        /\ exception' = exception
    BY <1>4 DEF AnalysisThrows
  <2>2. Runners = {Main}
    BY <1>0, <1>4 DEF Runners, Pooled
  <2>3. DOMAIN job' = AllThreads /\ \A u \in AllThreads : job'[u] = NoJob
    BY <1>1, <1>2, <2>1, <2>2 DEF Tasked
  <2>4. Types'
    BY <1>0, <2>1, <2>3 DEF IInv, Types
  <2>5. Working' /\ Separate' /\ Reported'
    BY <1>0, <2>1, <2>3 DEF Working, Separate, Reported, Resolving, Joined
  <2> QED BY <2>4, <2>5 DEF IInv
<1> QED BY <1>3, <1>4

\* One reference becomes edges.
LEMMA EmitEdgesInv == ASSUME IInv, NEW t \in AllThreads, EmitEdges(t) PROVE IInv'
<1>0. /\ Resolving /\ job[t].todo # <<>> /\ Advance(t)
      /\ UNCHANGED <<parallel, phase, deferred, pool, tasks, buffers, queue, exception, threw>>
  BY DEF EmitEdges
<1>1. Separate' /\ Working' /\ DOMAIN job' = AllThreads
  BY <1>0, AdvanceApart
<1>2. Types' /\ Reported'
  BY <1>0, <1>1 DEF IInv, Types, Reported
<1> QED BY <1>1, <1>2 DEF IInv

\* Emitting throws: the task goes on, or the main thread's loop ends.
LEMMA EmitThrowsInv == ASSUME IInv, NEW t \in AllThreads, EmitThrows(t) PROVE IInv'
<1>0. /\ Resolving /\ job[t].todo # <<>> /\ threw' = TRUE
      /\ UNCHANGED <<parallel, deferred, pool, buffers, queue>>
  BY DEF EmitThrows, shared
<1>1. CASE phase = "resolvePool"
  <2>1. Advance(t) /\ exception' = TRUE /\ UNCHANGED <<phase, tasks>>
    BY <1>1 DEF EmitThrows
  <2>2. Separate' /\ Working' /\ DOMAIN job' = AllThreads
    BY <1>0, <2>1, AdvanceApart
  <2>3. Types' /\ Reported'
    BY <1>0, <1>1, <2>1, <2>2 DEF IInv, Types, Reported
  <2> QED BY <2>2, <2>3 DEF IInv
<1>2. CASE phase # "resolvePool"
  <2>1. /\ phase' = "failed" /\ job' = [job EXCEPT ![t] = NoJob] /\ tasks' = <<>>
        /\ exception' = exception
    BY <1>2 DEF EmitThrows
  <2>2. Runners = {Main} /\ Tasked(Refs) /\ DOMAIN job = AllThreads
    BY <1>0, <1>2 DEF Resolving, Runners, Pooled, IInv, Working, Types
  <2>3. t \in Runners
    BY <1>0, <2>2, NoJobApart DEF Tasked
  <2>4. DOMAIN job' = AllThreads /\ \A u \in AllThreads : job'[u] = NoJob
    BY <2>1, <2>2, <2>3 DEF Tasked
  <2>5. Types'
    BY <1>0, <2>1, <2>4 DEF IInv, Types
  <2>6. Working' /\ Separate' /\ Reported'
    BY <1>0, <2>1, <2>4 DEF Working, Separate, Reported, Resolving, Joined
  <2> QED BY <2>5, <2>6 DEF IInv
<1> QED BY <1>1, <1>2

\* A thread gives up its finished task.
LEMMA EndTaskInv == ASSUME IInv, NEW t \in AllThreads, EndTask(t) PROVE IInv'
<1>0. /\ job' = [job EXCEPT ![t] = NoJob]
      /\ UNCHANGED <<parallel, phase, deferred, pool, tasks, buffers, queue, exception, threw>>
  BY DEF EndTask
<1>1. /\ DOMAIN job' = AllThreads /\ job'[t] = NoJob
      /\ \A u \in AllThreads \ {t} : job'[u] = job[u]
  BY <1>0 DEF IInv, Types
<1>2. Types' /\ Reported'
  BY <1>0, <1>1 DEF IInv, Types, Reported
<1>3. Runners' = Runners
  BY <1>0 DEF Runners, Pooled
<1>4. \A S : Tasked(S) => Tasked(S)'
  BY <1>0, <1>1, <1>3 DEF Tasked
<1>5. Joined => Joined'
  BY <1>0, <1>1 DEF Joined
<1>6. Working'
  BY <1>0, <1>4, <1>5 DEF IInv, Working, Resolving
<1>7. Separate'
  BY <1>0, <1>1, NoJobApart DEF IInv, Separate, Resolving
<1> QED BY <1>2, <1>6, <1>7 DEF IInv

\* The end of Phase 2, by the exception or with the drained queue.
LEMMA EndAnalysisInv == ASSUME IInv, RethrowAnalysis \/ FinishAnalysis PROVE IInv'
<1>1. CASE RethrowAnalysis
  <2> USE <1>1 DEF RethrowAnalysis
  <2>1. Types'
    BY DEF IInv, Types
  <2>2. Working' /\ Separate' /\ Reported'
    BY DEF IInv, Working, Separate, Reported, Resolving, Joined
  <2> QED BY <2>1, <2>2 DEF IInv
<1>2. CASE FinishAnalysis
  <2> USE <1>2 DEF FinishAnalysis
  <2>1. queue' \in Seq(Refs)
    <3>1. queue \in Seq(Refs) /\ buffers \in Seq(Seq(Refs))
      BY DEF IInv, Types
    <3>2. PICK f \in Seq(Refs) : f = FlattenSeq(buffers)
      BY <3>1, FlattenType
    <3>3. queue' = queue \o f
      BY <3>2 DEF Drained
    <3> QED BY <3>1, <3>2, <3>3, ConcatProperties
  <2>2. Types'
    <3>1. <<>> \in Seq(DOMAIN Blocks) /\ <<>> \in Seq(Seq(Refs))
      OBVIOUS
    <3> QED BY <2>1, <3>1 DEF IInv, Types
  <2>3. Working' /\ Separate' /\ Reported'
    BY DEF IInv, Working, Separate, Reported, Resolving, Joined
  <2> QED BY <2>2, <2>3 DEF IInv
<1> QED BY <1>1, <1>2

\* Phase 4 begins when no thread is at work, with tasks that are apart.
LEMMA BeginResolve ==
  ASSUME IInv, phase = "built", phase' \in {"resolve", "resolvePool"},
         UNCHANGED <<parallel, deferred, pool, job, buffers, exception, threw>>,
         queue' \in Seq(Refs), tasks' \in Seq(TaskOf(Refs)), AllApart(tasks')
  PROVE  IInv'
<1>1. Types'
  BY DEF IInv, Types
<1>2. \A t \in AllThreads : job'[t] = NoJob
  BY DEF IInv, Working, Resolving, Joined
<1>3. Working'
  BY <1>2 DEF Working, Tasked, Resolving
<1>4. Separate'
  BY <1>2, NoJobApart DEF Separate
<1>5. Reported'
  BY DEF IInv, Reported
<1> QED BY <1>1, <1>3, <1>4, <1>5 DEF IInv

\* One task for the main thread, or the partition of the sorted queue.
LEMMA ResolveInv == ASSUME IInv, ResolveSequential \/ ResolveParallel PROVE IInv'
<1>0. queue \in Seq(Refs)
  BY DEF IInv, Types
<1>1. CASE ResolveSequential
  <2>1. PICK task : task = [block |-> 1, todo |-> queue]
    OBVIOUS
  <2>2. task \in TaskOf(Refs) /\ tasks' = <<task>>
    BY <1>0, <1>1, <2>1 DEF TaskOf, ResolveSequential
  <2>3. tasks' \in Seq(TaskOf(Refs)) /\ AllApart(tasks')
    <3>1. <<task>> \in Seq(TaskOf(Refs)) /\ \A i, j \in DOMAIN <<task>> : i = j
      BY <2>2
    <3> QED BY <2>2, <3>1 DEF AllApart
  <2> QED BY <1>0, <1>1, <2>3, BeginResolve DEF ResolveSequential
<1>2. CASE ResolveParallel
  <2>1. PICK s \in SortedByNode(queue) : queue' = s /\ tasks' = RunBlocks(s, RunStarts(s))
    BY <1>2 DEF ResolveParallel
  <2>2. s \in Seq(Refs) /\ InNodeOrder(s)
    BY <1>0, <2>1, SortedOrder, EffectsBecome
  <2>3. tasks' \in Seq(TaskOf(Refs)) /\ AllApart(tasks')
    BY <2>1, <2>2, RunBlocksApart, EffectsBecome
  <2>4. /\ phase = "built" /\ phase' = "resolvePool"
        /\ UNCHANGED <<parallel, deferred, pool, job, buffers, exception, threw>>
    BY <1>2 DEF ResolveParallel
  <2> QED BY <2>1, <2>2, <2>3, <2>4, BeginResolve
<1> QED BY <1>1, <1>2

\* The end of Phase 4, by the exception or with the graph.
LEMMA FinishResolveInv == ASSUME IInv, FinishResolve PROVE IInv'
<1> USE DEF FinishResolve
<1>1. Types'
  <2>1. queue' \in Seq(Refs)
    <3>1. <<>> \in Seq(Refs)
      OBVIOUS
    <3> QED BY <3>1 DEF IInv, Types
  <2> QED BY <2>1 DEF IInv, Types
<1>2. phase' \in {"done", "failed"}
  OBVIOUS
<1>3. Joined'
  BY DEF Joined
<1>4. Working' /\ Separate'
  BY <1>2, <1>3 DEF Working, Separate, Resolving
<1>5. Reported'
  BY DEF IInv, Reported, Resolving
<1> QED BY <1>1, <1>4, <1>5 DEF IInv

\* Every step keeps the invariant.
LEMMA NextInv == IInv /\ [Next]_vars => IInv'
<1> SUFFICES ASSUME IInv, [Next]_vars PROVE IInv'
  OBVIOUS
<1>1. CASE Control
  BY <1>1, CollectInv, StartAnalysisInv, EndAnalysisInv, ResolveInv, FinishResolveInv DEF Control
<1>2. ASSUME NEW t \in AllThreads, Run(t) PROVE IInv'
  BY <1>2, StartTaskInv, AnalyseInv, AnalysisThrowsInv, EmitEdgesInv, EmitThrowsInv, EndTaskInv
     DEF Run
<1>3. CASE UNCHANGED vars
  <2> USE <1>3 DEF vars
  <2>1. Types' /\ Reported'
    BY DEF IInv, Types, Reported
  <2>2. Runners' = Runners
    BY DEF Runners, Pooled
  <2>3. \A S : Tasked(S) => Tasked(S)'
    BY <2>2 DEF Tasked
  <2>4. Working' /\ Separate'
    BY <2>3 DEF IInv, Working, Separate, Resolving, Joined
  <2> QED BY <2>1, <2>4 DEF IInv
<1> QED BY <1>1, <1>2, <1>3 DEF Next
-----------------------------------------------------------------------------
(***************************************************************************)
(* What becomes of the design: the second part of the invariant, on top of *)
(* the first.                                                              *)
(***************************************************************************)
\* The annotations es say nothing about p that the design does not say; they
\* say what it says through bit b of s, or something if it is one of several
\* symbols between the two nodes or the bounds of the source may cut b off.
Justified(es, p) ==
  \A s \in Symbols : \A b : Carries(es, s, b) => b \in Expected[p][s]
Settled(es, p, s, b) ==
  es # <<>> /\ (Via(p) = {s} /\ OwnFrame(p[1]) => Carries(es, s, b))
Adds(more, p, s, b) == more # <<>> /\ (OwnFrame(p[1]) => Carries(more, s, b))

\* The element v is still to be dealt with by some task.
InTodo(v) ==
  \/ \E i \in DOMAIN tasks : Occurs(v, tasks[i].todo)
  \/ \E t \in AllThreads : Occurs(v, job[t].todo)

\* A reference waits for Phase 4 or in it, or has become its edges.
Held(r) ==
  \/ phase \in {"collected", "analyse", "built"} /\ Occurs(r, queue)
  \/ phase = "analyse" /\ \E i \in DOMAIN buffers : Occurs(r, buffers[i])
  \/ Resolving /\ InTodo(r)
Emitted(r) ==
  r.node \in Nodes => \A m \in Nodes : \A b \in BitsFrom(Driven, States, r, m) :
    Settled(edges[<<m, r.node>>], <<m, r.node>>, r.sym, b)

\* An effect is still ahead, or has left its trace.
Ahead(e) ==
  \/ phase = "start"
  \/ phase = "collected" /\ \E b \in DOMAIN Blocks : Occurs(e, Blocks[b])
  \/ phase = "analyse" /\ InTodo(e)
Effected(e) ==
  /\ e.op = "drive" => AsDrive(e) \in drivers
  /\ e.op = "state" => AsVariable(e) \in variables
  /\ e.op = "link" => \A b \in e.lo .. e.hi :
       Settled(edges[<<e.source, e.node>>], <<e.source, e.node>>, e.sym, b)
  /\ e.op = "read" => Held(AsReference(e)) \/ Emitted(AsReference(e))

\* Nothing is recorded that the design does not say.
Sound ==
  /\ drivers \subseteq Driven /\ variables \subseteq States
  /\ edges \in [Nodes \X Nodes -> Seq(Annotation)]
  /\ \A p \in Nodes \X Nodes : Justified(edges[p], p)

\* Every task of Phase 2 has a buffer.
Buffered ==
  /\ phase = "collected" => deferred = [b \in DOMAIN Blocks |-> b]
  /\ phase = "analyse" =>
       /\ \A i \in DOMAIN tasks : tasks[i].block \in DOMAIN buffers
       /\ \A t \in AllThreads : job[t] # NoJob => job[t].block \in DOMAIN buffers

\* References are resolved against all drivers and variables.
Whole ==
  phase \in {"built", "resolve", "resolvePool", "done"} =>
    drivers = Driven /\ variables = States

\* As long as nothing throws, no effect is lost.
Complete == ~threw => \A e \in EveryEffect : Ahead(e) \/ Effected(e)

BInv == Sound /\ Buffered /\ Whole /\ Complete
-----------------------------------------------------------------------------
(***************************************************************************)
(* What the design says about two nodes.                                   *)
(***************************************************************************)
\* It is said by a reference or by an effect that adds the edge at once.
LEMMA ExpectedIs ==
  ASSUME NEW p \in Nodes \X Nodes, NEW s \in Symbols, NEW b
  PROVE  b \in Expected[p][s] <=>
           \/ \E r \in Refs : /\ r.sym = s /\ r.node = p[2]
                              /\ b \in BitsFrom(Driven, States, r, p[1])
           \/ \E e \in EveryEffect : /\ e.op = "link" /\ <<e.source, e.node>> = p
                                     /\ Says(e, s, b)
<1> DEFINE reads == {f \in AllEffects("read") : f.sym = s /\ f.node = p[2]}
           links == {f \in AllEffects("link") : f.sym = s /\ <<f.source, f.node>> = p}
<1>1. b \in Expected[p][s] <=>
        \/ \E e \in reads : b \in BitsFrom(Driven, States, AsReference(e), p[1])
        \/ \E e \in links : b \in e.lo .. e.hi
  <2> DEFINE F(e) == BitsFrom(Driven, States, AsReference(e), p[1])
             G(e) == e.lo .. e.hi
             byReads == UNION {F(e) : e \in reads}
             byLinks == UNION {G(e) : e \in links}
  <2>2. Expected[p][s] = byReads \cup byLinks
    <3> USE DEF Expected
    <3> QED BY Zenon
  <2> HIDE DEF reads, links, F, G
  <2>3. b \in byReads <=> \E e \in reads : b \in F(e)
    OBVIOUS
  <2>4. b \in byLinks <=> \E e \in links : b \in G(e)
    OBVIOUS
  <2> HIDE DEF byReads, byLinks
  <2>5. b \in Expected[p][s] <=> (\E e \in reads : b \in F(e)) \/ (\E e \in links : b \in G(e))
    BY <2>2, <2>3, <2>4
  <2> QED BY <2>5 DEF F, G
<1>2. \A e : AsReference(e).sym = e.sym /\ AsReference(e).node = e.node
  BY DEF AsReference
<1>3. ASSUME NEW e \in reads, b \in BitsFrom(Driven, States, AsReference(e), p[1])
      PROVE  \E r \in Refs : /\ r.sym = s /\ r.node = p[2]
                             /\ b \in BitsFrom(Driven, States, r, p[1])
  BY <1>2, <1>3 DEF Refs
<1>4. ASSUME NEW r \in Refs, r.sym = s, r.node = p[2], b \in BitsFrom(Driven, States, r, p[1])
      PROVE  \E e \in reads : b \in BitsFrom(Driven, States, AsReference(e), p[1])
  <2>1. PICK e \in AllEffects("read") : r = AsReference(e)
    BY DEF Refs
  <2>2. e \in reads
    BY <1>2, <1>4, <2>1
  <2> QED BY <1>4, <2>1, <2>2
<1>5. (\E e \in links : b \in e.lo .. e.hi)
        <=> \E e \in EveryEffect : /\ e.op = "link" /\ <<e.source, e.node>> = p
                                   /\ Says(e, s, b)
  BY EffectsTyped DEF Says
<1> HIDE DEF reads, links
<1> QED BY <1>1, <1>3, <1>4, <1>5

\* One node at most holds the range that a reference reads.
LEMMA OneHolder == \A r : \A m, n \in GetVariable(States, r) : m = n
<1> SUFFICES ASSUME NEW r, NEW m \in GetVariable(States, r), NEW n \in GetVariable(States, r)
             PROVE  m = n
  OBVIOUS
<1>1. PICK e \in AllEffects("state") :
        e.node = m /\ e.sym = r.sym /\ e.lo = r.lo /\ e.hi = r.hi
  BY DEF GetVariable, States, AsVariable, AsReference
<1>2. PICK f \in AllEffects("state") :
        f.node = n /\ f.sym = r.sym /\ f.lo = r.lo /\ f.hi = r.hi
  BY DEF GetVariable, States, AsVariable, AsReference
<1>3. \A c, d \in AllEffects("state") :
        c.sym = d.sym /\ c.lo = d.lo /\ c.hi = d.hi => c.node = d.node
  BY BuildPipelineAssumption
<1> QED BY <1>1, <1>2, <1>3

\* If the design relates two nodes through s only, so do justified annotations.
LEMMA JustifiedOnly ==
  ASSUME NEW p \in Nodes \X Nodes, NEW es \in Seq(Annotation), Justified(es, p),
         NEW s, Via(p) = {s}
  PROVE  OnlyVia(es, s)
<1> SUFFICES ASSUME NEW k \in DOMAIN es PROVE es[k].sym = s
  BY DEF OnlyVia
<1>1. PICK a \in Annotation : a = es[k]
  OBVIOUS
<1>2. a.sym \in Symbols /\ a.lo \in Nat /\ a.hi \in Nat /\ a.lo <= a.hi
  BY RangesTyped
<1>3. Says(a, a.sym, a.lo)
  BY <1>2 DEF Says
<1>4. a.lo \in Expected[p][a.sym]
  BY <1>1, <1>2, <1>3 DEF Justified, Carries
<1>5. a.sym \in Via(p)
  BY <1>2, <1>4 DEF Via
<1> QED BY <1>1, <1>5

\* Justified annotations that are added settle what they say (or would say but
\* for the bounds of the source), and unsettle nothing.
LEMMA SumSettles ==
  ASSUME NEW p \in Nodes \X Nodes, NEW es \in Seq(Annotation), NEW more \in Seq(Annotation),
         Justified(es, p), Justified(more, p), NEW out, IsSum(out, es, more)
  PROVE  /\ out \in Seq(Annotation) /\ Justified(out, p)
         /\ \A s, b : Settled(es, p, s, b) \/ Adds(more, p, s, b) => Settled(out, p, s, b)
<1>1. out \in Seq(Annotation) /\ Justified(out, p)
  BY DEF IsSum, Justified
<1>2. ASSUME NEW s, NEW b, Settled(es, p, s, b) \/ Adds(more, p, s, b)
      PROVE  Settled(out, p, s, b)
  <2>1. es # <<>> \/ more # <<>>
    BY <1>2 DEF Settled, Adds
  <2>2. out # <<>>
    BY <2>1 DEF IsSum
  <2>3. ASSUME Via(p) = {s}, OwnFrame(p[1]) PROVE Carries(out, s, b)
    <3>1. OnlyVia(es, s) /\ OnlyVia(more, s)
      BY <2>3, JustifiedOnly
    <3>2. Carries(es, s, b) \/ Carries(more, s, b)
      BY <1>2, <2>3 DEF Settled, Adds
    <3> QED BY <3>1, <3>2 DEF IsSum
  <2> QED BY <2>2, <2>3 DEF Settled
<1> QED BY <1>1, <1>2
-----------------------------------------------------------------------------
(***************************************************************************)
(* Every action keeps the second part.                                     *)
(***************************************************************************)
\* A task that starts takes with it what there is to do.
LEMMA TodoStartTask ==
  ASSUME IInv, NEW t \in AllThreads, StartTask(t), NEW v, InTodo(v)
  PROVE  InTodo(v)'
<1>1. PICK S : Tasked(S)
  BY DEF StartTask, IInv, Working, Resolving
<1>2. /\ job'[t] = tasks[1] /\ \A u \in AllThreads \ {t} : job'[u] = job[u]
      /\ \A i \in DOMAIN tasks : i = 1 \/ \E j \in DOMAIN tasks' : tasks'[j] = tasks[i]
  BY <1>1, StartedTask
<1>3. job[t].todo = <<>> /\ ~Occurs(v, <<>>)
  BY NoJobApart DEF StartTask, Occurs
<1>4. ASSUME NEW i \in DOMAIN tasks, Occurs(v, tasks[i].todo)
      PROVE  InTodo(v)'
  BY <1>2, <1>4 DEF InTodo
<1>5. ASSUME NEW u \in AllThreads, Occurs(v, job[u].todo)
      PROVE  InTodo(v)'
  BY <1>2, <1>3, <1>5 DEF InTodo
<1> QED BY <1>4, <1>5 DEF InTodo

\* The element that a task takes is at its head.
LEMMA TodoAdvance ==
  ASSUME IInv, NEW t \in AllThreads, job[t].todo # <<>>, Advance(t),
         UNCHANGED <<phase, pool, tasks>>, NEW S, Tasked(S), NEW v, InTodo(v)
  PROVE  v = Head(job[t].todo) \/ InTodo(v)'
<1>1. /\ job[t].todo \in Seq(S) /\ job'[t].todo = Tail(job[t].todo)
      /\ \A u \in AllThreads \ {t} : job'[u] = job[u]
  BY AdvanceTask
<1>2. ASSUME Occurs(v, job[t].todo)
      PROVE  v = Head(job[t].todo) \/ Occurs(v, job'[t].todo)
  <2>1. PICK a \in Seq(S) : a = job[t].todo /\ a # <<>>
    BY <1>1
  <2>2. \A i \in DOMAIN a : i = 1 \/ (i - 1 \in DOMAIN Tail(a) /\ Tail(a)[i - 1] = a[i])
    <3>1. PICK n \in Nat : n = Len(a) /\ DOMAIN a = 1 .. n /\ n # 0
      BY <2>1
    <3>2. DOMAIN Tail(a) = 1 .. n - 1 /\ \A j \in 1 .. n - 1 : Tail(a)[j] = a[j + 1]
      BY <2>1, <3>1
    <3>3. \A i \in 1 .. n : i = 1 \/ (i - 1 \in 1 .. n - 1 /\ (i - 1) + 1 = i)
      OBVIOUS
    <3> QED BY <3>1, <3>2, <3>3
  <2>3. a[1] = Head(a)
    BY <2>1
  <2>4. PICK i \in DOMAIN a : a[i] = v
    BY <1>2, <2>1 DEF Occurs
  <2>5. CASE i = 1
    BY <2>1, <2>3, <2>4, <2>5
  <2>6. CASE i # 1
    <3>1. i - 1 \in DOMAIN Tail(a) /\ Tail(a)[i - 1] = v
      BY <2>2, <2>4, <2>6
    <3>2. job'[t].todo = Tail(a)
      BY <1>1, <2>1
    <3> QED BY <3>1, <3>2, Zenon DEF Occurs
  <2> QED BY <2>5, <2>6
<1> QED BY <1>1, <1>2 DEF InTodo

\* When all have ended there is nothing left to do.
LEMMA TodoJoined == ASSUME Joined, NEW v PROVE ~InTodo(v)
<1>1. ~Occurs(v, <<>>)
  BY DEF Occurs
<1> QED BY <1>1, NoJobApart DEF Joined, InTodo

\* If what is recorded stays, references in hand are not dropped and effects
\* that lay ahead have happened, then no effect is lost.
LEMMA NothingLost ==
  ASSUME Complete, threw' = threw, drivers \subseteq drivers', variables \subseteq variables',
         \A p \in Nodes \X Nodes : \A s, b :
           Settled(edges[p], p, s, b) => Settled(edges'[p], p, s, b),
         \A r \in Refs : Held(r) => Held(r)' \/ Emitted(r)',
         \A e \in EveryEffect : Ahead(e) => Ahead(e)' \/ Effected(e)'
  PROVE  Complete'
<1>1. ASSUME NEW r \in Refs, Emitted(r)
      PROVE  Emitted(r)'
  BY <1>1 DEF Emitted
<1>2. ASSUME NEW e \in EveryEffect, Effected(e)
      PROVE  Effected(e)'
  <2>1. e.op = "link" => <<e.source, e.node>> \in Nodes \X Nodes
    BY EffectsBecome
  <2>2. e.op = "read" => AsReference(e) \in Refs
    BY EffectsBecome
  <2>3. e.op = "link" => \A b \in e.lo .. e.hi :
          Settled(edges'[<<e.source, e.node>>], <<e.source, e.node>>, e.sym, b)
    BY <1>2, <2>1 DEF Effected
  <2>4. e.op = "read" => Held(AsReference(e))' \/ Emitted(AsReference(e))'
    BY <1>1, <1>2, <2>2 DEF Effected
  <2>5. /\ e.op = "drive" => AsDrive(e) \in drivers'
        /\ e.op = "state" => AsVariable(e) \in variables'
    BY <1>2 DEF Effected
  <2> QED BY <2>3, <2>4, <2>5 DEF Effected
<1> QED BY <1>2 DEF Complete

\* Nothing is recorded at first, and everything lies ahead.
LEMMA InitBuild == Init => BInv
<1> SUFFICES ASSUME Init PROVE BInv
  OBVIOUS
<1>1. Sound
  <2>1. edges \in [Nodes \X Nodes -> Seq(Annotation)] /\ \A p \in Nodes \X Nodes : edges[p] = <<>>
    BY DEF Init, NoEdges
  <2>2. \A p : Justified(<<>>, p)
    BY DEF Justified, Carries
  <2> QED BY <2>1, <2>2 DEF Sound, Init
<1>2. Buffered /\ Whole /\ Complete
  BY DEF Init, Buffered, Whole, Complete, Ahead
<1> QED BY <1>1, <1>2 DEF BInv

\* Starting a task loses nothing.
LEMMA StartTaskBuild == ASSUME IInv, BInv, NEW t \in AllThreads, StartTask(t) PROVE BInv'
<1>0. /\ phase \in {"analyse", "resolve", "resolvePool"}
      /\ UNCHANGED <<phase, deferred, buffers, queue, threw, drivers, variables, edges>>
  BY DEF StartTask, shared
<1>1. Sound' /\ Whole'
  BY <1>0 DEF BInv, Sound, Whole
<1>2. Buffered'
  <2>1. ASSUME phase = "analyse"
        PROVE  /\ \A i \in DOMAIN tasks' : tasks'[i].block \in DOMAIN buffers
               /\ \A u \in AllThreads : job'[u] # NoJob => job'[u].block \in DOMAIN buffers
    <3>1. Tasked(EveryEffect)
      BY <2>1 DEF IInv, Working
    <3>2. /\ job'[t] = tasks[1] /\ 1 \in DOMAIN tasks
          /\ \A u \in AllThreads \ {t} : job'[u] = job[u]
          /\ \A i \in DOMAIN tasks' : i + 1 \in DOMAIN tasks /\ tasks'[i] = tasks[i + 1]
      BY <3>1, StartedTask
    <3> QED BY <2>1, <3>2 DEF BInv, Buffered
  <2> QED BY <1>0, <2>1 DEF Buffered
<1>3. Complete'
  <2>1. \A v : InTodo(v) => InTodo(v)'
    BY TodoStartTask
  <2>2. \A r \in Refs : Held(r) => Held(r)'
    BY <1>0, <2>1 DEF Held, Resolving
  <2>3. \A e \in EveryEffect : Ahead(e) => Ahead(e)'
    BY <1>0, <2>1 DEF Ahead
  <2> QED BY <1>0, <2>2, <2>3, NothingLost DEF BInv
<1> QED BY <1>1, <1>2, <1>3 DEF BInv

\* Nor does giving up a finished one.
LEMMA EndTaskBuild == ASSUME IInv, BInv, NEW t \in AllThreads, EndTask(t) PROVE BInv'
<1>0. /\ job' = [job EXCEPT ![t] = NoJob] /\ job[t].todo = <<>>
      /\ UNCHANGED <<phase, deferred, tasks, buffers, queue, threw, drivers, variables, edges>>
  BY DEF EndTask, shared
<1>1. job'[t] = NoJob /\ \A u \in AllThreads \ {t} : job'[u] = job[u]
  BY <1>0 DEF IInv, Types
<1>2. Sound' /\ Whole'
  BY <1>0 DEF BInv, Sound, Whole
<1>3. Buffered'
  BY <1>0, <1>1 DEF BInv, Buffered
<1>4. Complete'
  <2>1. \A v : ~Occurs(v, <<>>)
    BY DEF Occurs
  <2>2. \A v : InTodo(v) => InTodo(v)'
    BY <1>0, <1>1, <2>1 DEF InTodo
  <2>3. \A r \in Refs : Held(r) => Held(r)'
    BY <1>0, <2>2 DEF Held, Resolving
  <2>4. \A e \in EveryEffect : Ahead(e) => Ahead(e)'
    BY <1>0, <2>2 DEF Ahead
  <2> QED BY <1>0, <2>3, <2>4, NothingLost DEF BInv
<1> QED BY <1>2, <1>3, <1>4 DEF BInv

\* Phase 1 records what the ports say, all of it; the blocks lie ahead.
LEMMA CollectBuild == ASSUME IInv, BInv, Collect PROVE BInv'
<1>0. /\ phase = "start" /\ phase' = "collected"
      /\ deferred' = [b \in DOMAIN Blocks |-> b]
      /\ drivers' = {AsDrive(e) : e \in All(Ports, "drive")}
      /\ variables' = {AsVariable(e) : e \in All(Ports, "state")}
      /\ queue' = Reads(Ports)
      /\ edges' = [p \in Nodes \X Nodes |-> AddDependencies(<<>>, p[1], Links(Ports, p))]
  BY DEF Collect
<1>1. Ports \in Seq(EveryEffect)
  BY EffectsTyped
<1>2. ASSUME NEW p \in Nodes \X Nodes
      PROVE  /\ edges'[p] \in Seq(Annotation) /\ Justified(edges'[p], p)
             /\ \A s, b : Carries(Links(Ports, p), s, b) => Settled(edges'[p], p, s, b)
  <2>0. PICK asked \in Seq(Annotation) : asked = Links(Ports, p)
    BY <1>1, LinksType
  <2>1. PICK more : more = Cut(p[1], asked)
    OBVIOUS
  <2>2. /\ more \in Seq(Annotation)
        /\ \A s, b : Carries(more, s, b) => Carries(asked, s, b)
        /\ \A s, b : Carries(asked, s, b) => Adds(more, p, s, b)
    <3>1. p[1] \in Nodes
      OBVIOUS
    <3>2. IsPart(more, asked, \A k \in DOMAIN asked : Kept(p[1], asked[k]))
      BY <2>0, <2>1, <3>1, CutSays
    <3>3. OwnFrame(p[1]) => \A k \in DOMAIN asked : Kept(p[1], asked[k])
      BY <1>1, <2>0, LinksType
    <3>4. \A s, b : Carries(asked, s, b) => asked # <<>>
      BY DEF Carries
    <3> QED BY <3>2, <3>3, <3>4 DEF IsPart, Adds
  <2>3. Justified(more, p)
    <3>1. \A s, b : Carries(asked, s, b) =>
            \E e \in EveryEffect : e.op = "link" /\ <<e.source, e.node>> = p /\ Says(e, s, b)
      BY <1>1, <2>0, LinksType DEF EveryEffect
    <3> QED BY <2>2, <3>1, ExpectedIs DEF Justified
  <2>4. <<>> \in Seq(Annotation) /\ Justified(<<>>, p)
    BY DEF Justified, Carries
  <2>5. PICK out : out = edges'[p]
    OBVIOUS
  <2>6. IsSum(out, <<>>, more)
    <3>1. out = AddDependencies(<<>>, p[1], asked) /\ p[1] \in Nodes
      BY <1>0, <2>0, <2>5
    <3> QED BY <2>1, <2>4, <3>1, AddDependenciesSum
  <2>7. /\ out \in Seq(Annotation) /\ Justified(out, p)
        /\ \A s, b : Adds(more, p, s, b) => Settled(out, p, s, b)
    BY <2>2, <2>3, <2>4, <2>6, SumSettles
  <2> QED BY <2>0, <2>2, <2>5, <2>7
<1>3. Sound'
  <2>1. edges' \in [Nodes \X Nodes -> Seq(Annotation)]
    BY <1>0, <1>2
  <2>2. drivers' \subseteq Driven /\ variables' \subseteq States
    BY <1>0 DEF Driven, States, AllEffects
  <2> QED BY <1>2, <2>1, <2>2 DEF Sound
<1>4. Buffered' /\ Whole'
  BY <1>0 DEF Buffered, Whole
<1>5. ASSUME NEW k \in DOMAIN Ports
      PROVE  Effected(Ports[k])'
  <2>1. PICK e \in EveryEffect : e = Ports[k]
    BY DEF EveryEffect
  <2>2. /\ e.op = "drive" => AsDrive(e) \in drivers'
        /\ e.op = "state" => AsVariable(e) \in variables'
    BY <1>0, <2>1 DEF All
  <2>3. ASSUME e.op = "link", NEW b \in e.lo .. e.hi
        PROVE  Settled(edges'[<<e.source, e.node>>], <<e.source, e.node>>, e.sym, b)
    <3>1. PICK p \in Nodes \X Nodes : p = <<e.source, e.node>>
      BY <2>3, EffectsBecome
    <3>2. Carries(Links(Ports, p), e.sym, b)
      BY <1>1, <2>1, <2>3, <3>1, LinksType DEF Says
    <3> QED BY <1>2, <3>1, <3>2
  <2>4. e.op = "read" => Held(AsReference(e))'
    BY <1>0, <1>1, <2>1, ReadsType DEF Held
  <2> QED BY <2>1, <2>2, <2>3, <2>4 DEF Effected
<1>6. ASSUME NEW b \in DOMAIN Blocks, NEW k \in DOMAIN Blocks[b]
      PROVE  Ahead(Blocks[b][k])'
  BY <1>0 DEF Ahead, Occurs
<1>7. Complete'
  BY <1>5, <1>6 DEF Complete, EveryEffect
<1> QED BY <1>3, <1>4, <1>7 DEF BInv

\* Every block gets its task, and every task its buffer.
LEMMA StartAnalysisBuild == ASSUME IInv, BInv, StartAnalysis PROVE BInv'
<1>0. /\ phase = "collected" /\ phase' = "analyse" /\ tasks' = Detached(deferred)
      /\ buffers' = [b \in DOMAIN deferred |-> <<>>]
      /\ UNCHANGED <<job, queue, threw, drivers, variables, edges>>
  BY DEF StartAnalysis, shared
<1>1. \A t \in AllThreads : job[t] = NoJob
  BY <1>0 DEF IInv, Working, Resolving, Joined
<1>2. deferred = [b \in DOMAIN Blocks |-> b]
  BY <1>0 DEF BInv, Buffered
<1>3. /\ DOMAIN tasks' = DOMAIN Blocks /\ DOMAIN buffers' = DOMAIN Blocks
      /\ \A b \in DOMAIN Blocks : tasks'[b].block = b /\ tasks'[b].todo = Blocks[b]
  BY <1>0, <1>2 DEF Detached
<1>4. Sound' /\ Whole' /\ Buffered'
  BY <1>0, <1>1, <1>3 DEF BInv, Sound, Whole, Buffered
<1>5. Complete'
  <2>1. \A r \in Refs : Held(r) => Held(r)'
    BY <1>0 DEF Held, Resolving
  <2>2. \A e \in EveryEffect : Ahead(e) => Ahead(e)'
    BY <1>0, <1>3 DEF Ahead, InTodo
  <2> QED BY <1>0, <2>1, <2>2, NothingLost DEF BInv
<1> QED BY <1>4, <1>5 DEF BInv

\* An exception is not a loss: it is reported.
LEMMA ThrowsBuild ==
  ASSUME IInv, BInv, NEW t \in AllThreads, AnalysisThrows(t) \/ EmitThrows(t)
  PROVE  BInv'
<1>0. threw' /\ UNCHANGED <<deferred, buffers, drivers, variables, edges>>
  BY DEF AnalysisThrows, EmitThrows, shared
<1>1. Sound' /\ Complete'
  BY <1>0 DEF BInv, Sound, Complete
<1>2. (phase' = phase /\ phase # "collected") \/ phase' = "failed"
  BY DEF AnalysisThrows, EmitThrows, Resolving
<1>3. Whole'
  BY <1>0, <1>2 DEF BInv, Whole
<1>4. Buffered'
  <2> SUFFICES ASSUME phase' = "analyse"
               PROVE  /\ \A i \in DOMAIN tasks' : tasks'[i].block \in DOMAIN buffers
                      /\ \A u \in AllThreads : job'[u] # NoJob => job'[u].block \in DOMAIN buffers
    BY <1>0, <1>2 DEF Buffered
  <2>1. /\ phase = "analyse" /\ AnalysisThrows(t) /\ UNCHANGED tasks
        /\ job' = [job EXCEPT ![t].todo = <<>>] /\ job[t].block \in Faults.blocks
    BY <1>2 DEF AnalysisThrows, EmitThrows, Resolving
  <2>2. /\ job'[t] = [job[t] EXCEPT !.todo = <<>>]
        /\ \A u \in AllThreads \ {t} : job'[u] = job[u]
    BY <2>1 DEF IInv, Types
  <2>3. Tasked(EveryEffect) /\ job[t] # NoJob
    <3>1. 0 \notin DOMAIN Blocks
      BY EffectsTyped
    <3>2. Faults.blocks \subseteq DOMAIN Blocks
      BY BuildPipelineAssumption
    <3> QED BY <2>1, <3>1, <3>2, NoJobApart DEF IInv, Working
  <2>4. PICK b, s : job[t] = [block |-> b, todo |-> s]
    BY <2>3 DEF Tasked, TaskOf
  <2>5. job'[t].block = b /\ job[t].block = b
    BY <2>2, <2>4
  <2> QED BY <2>1, <2>2, <2>3, <2>5 DEF BInv, Buffered
<1> QED BY <1>1, <1>3, <1>4 DEF BInv

\* Phase 2 ends with every effect recorded, and every reference queued.
LEMMA FinishAnalysisBuild == ASSUME IInv, BInv, FinishAnalysis PROVE BInv'
<1>0. /\ phase = "analyse" /\ Joined /\ ~exception /\ queue' = Drained /\ phase' = "built"
      /\ UNCHANGED <<threw, drivers, variables, edges>>
  BY DEF FinishAnalysis, shared
<1>1. Sound' /\ Buffered'
  BY <1>0 DEF BInv, Sound, Buffered
<1>2. \A e \in EveryEffect : Effected(e)
  <2>1. ~threw
    BY <1>0 DEF IInv, Reported
  <2>2. \A e : ~Ahead(e)
    BY <1>0, TodoJoined DEF Ahead
  <2> QED BY <2>1, <2>2 DEF BInv, Complete
<1>3. Whole'
  <2>1. Driven \subseteq drivers /\ States \subseteq variables
    BY <1>2, EffectsTyped DEF Driven, States, Effected
  <2> QED BY <1>0, <2>1 DEF BInv, Sound, Whole
<1>4. ASSUME NEW r \in Refs, Held(r)
      PROVE  Held(r)'
  <2>1. queue \in Seq(Refs) /\ buffers \in Seq(Seq(Refs))
    BY DEF IInv, Types
  <2>2. PICK f \in Seq(Refs) : /\ f = FlattenSeq(buffers)
                               /\ \A i \in DOMAIN buffers : \A v : Occurs(v, buffers[i]) => Occurs(v, f)
    BY <2>1, FlattenType
  <2>3. queue' = queue \o f
    BY <1>0, <2>2 DEF Drained
  <2>4. Occurs(r, queue) \/ Occurs(r, f)
    BY <1>0, <1>4, <2>2 DEF Held, Resolving
  <2>5. Occurs(r, queue')
    BY <2>1, <2>3, <2>4, ConcatOccurs
  <2> QED BY <1>0, <2>5 DEF Held
<1>5. Complete'
  <2>1. \A e \in EveryEffect : Ahead(e) => Ahead(e)' \/ Effected(e)'
    BY <1>0, TodoJoined DEF Ahead
  <2> QED BY <1>0, <1>4, <2>1, NothingLost DEF BInv
<1> QED BY <1>1, <1>3, <1>5 DEF BInv

\* Appending adds one element and loses none.
LEMMA AppendOccurs ==
  ASSUME NEW S, NEW q \in Seq(S), NEW r \in S
  PROVE  \A v : Occurs(v, q) \/ v = r => Occurs(v, Append(q, r))
<1>1. PICK n \in Nat : n = Len(q) /\ DOMAIN q = 1 .. n
  OBVIOUS
<1>2. PICK s : s = Append(q, r)
  OBVIOUS
<1>3. DOMAIN s = 1 .. n + 1 /\ s[n + 1] = r /\ \A k \in 1 .. n : s[k] = q[k]
  BY <1>1, <1>2
<1>4. 1 .. n \subseteq 1 .. n + 1 /\ n + 1 \in 1 .. n + 1
  BY <1>1
<1> QED BY <1>1, <1>2, <1>3, <1>4 DEF Occurs

\* A reference that a block reads joins those in hand.
LEMMA EnqueueHolds ==
  ASSUME IInv, BInv, NEW t \in AllThreads, phase = "analyse", UNCHANGED phase,
         job[t] # NoJob, NEW r \in Refs, Enqueue(t, r)
  PROVE  /\ DOMAIN buffers' = DOMAIN buffers
         /\ \A v : Held(v) \/ v = r => Held(v)'
<1>1. queue \in Seq(Refs) /\ buffers \in Seq(Seq(Refs))
  BY DEF IInv, Types
<1>2. CASE t \in Workers
  <2>1. PICK b \in DOMAIN buffers : b = job[t].block
    BY DEF BInv, Buffered
  <2>2. queue' = queue /\ buffers' = [buffers EXCEPT ![b] = Append(@, r)]
    BY <1>2, <2>1 DEF Enqueue
  <2>3. /\ DOMAIN buffers' = DOMAIN buffers /\ buffers'[b] = Append(buffers[b], r)
        /\ \A i \in DOMAIN buffers : i # b => buffers'[i] = buffers[i]
    BY <2>2
  <2>4. \A v : Occurs(v, buffers[b]) \/ v = r => Occurs(v, buffers'[b])
    <3>1. buffers[b] \in Seq(Refs)
      BY <1>1
    <3> QED BY <2>3, <3>1, AppendOccurs
  <2>5. \A v : \A i \in DOMAIN buffers : Occurs(v, buffers[i]) => Occurs(v, buffers'[i])
    BY <2>3, <2>4
  <2> HIDE <2>2
  <2> QED BY <2>2, <2>3, <2>4, <2>5 DEF Held, Resolving
<1>3. CASE t \notin Workers
  <2>1. queue' = Append(queue, r) /\ buffers' = buffers
    BY <1>3 DEF Enqueue
  <2>2. \A v : Occurs(v, queue) \/ v = r => Occurs(v, queue')
    BY <1>1, <2>1, AppendOccurs
  <2> QED BY <2>1, <2>2 DEF Held, Resolving
<1> QED BY <1>2, <1>3

\* An annotation that the design says can be added to those recorded.
LEMMA LinkRecorded ==
  ASSUME IInv, BInv, NEW e \in EveryEffect, e.op = "link",
         edges' = [edges EXCEPT ![<<e.source, e.node>>] = AddDependency(@, e.source, AsAnnotation(e))]
  PROVE  /\ edges' \in [Nodes \X Nodes -> Seq(Annotation)]
         /\ \A p \in Nodes \X Nodes :
              /\ Justified(edges'[p], p)
              /\ \A s, b : Settled(edges[p], p, s, b) => Settled(edges'[p], p, s, b)
         /\ \A b \in e.lo .. e.hi :
              Settled(edges'[<<e.source, e.node>>], <<e.source, e.node>>, e.sym, b)
<1>1. PICK q \in Nodes \X Nodes : q = <<e.source, e.node>>
  BY EffectsBecome
<1>2. PICK a \in Annotation :
        /\ a = Narrowed(e.source, AsAnnotation(e))
        /\ \A s, b : Says(a, s, b) => Says(e, s, b)
        /\ OwnFrame(e.source) => \A s, b : Says(e, s, b) => Says(a, s, b)
  <2>1. PICK d \in Annotation : d = AsAnnotation(e)
    BY EffectsBecome
  <2>2. d.lo = e.lo /\ d.hi = e.hi /\ d.sym = e.sym
    BY <2>1 DEF AsAnnotation
  <2>3. PICK a : a = Narrowed(e.source, d)
    OBVIOUS
  <2>4. e.source \in Nodes
    BY <1>1
  <2>5. /\ a \in Annotation /\ \A s, b : Says(a, s, b) => Says(d, s, b)
        /\ Kept(e.source, d) => a = d
    BY <2>3, <2>4, NarrowedSays
  <2>6. OwnFrame(e.source) => Kept(e.source, d)
    <3>1. OwnFrame(e.source) => Kept(e.source, e)
      BY EffectsTyped DEF OwnFrame
    <3> QED BY <2>2, <3>1 DEF Kept, InBounds
  <2>7. \A s, b : Says(d, s, b) <=> Says(e, s, b)
    BY <2>2 DEF Says
  <2> QED BY <2>1, <2>3, <2>5, <2>6, <2>7
<1>3. edges \in [Nodes \X Nodes -> Seq(Annotation)] /\ \A p \in Nodes \X Nodes : Justified(edges[p], p)
  BY DEF BInv, Sound
<1>4. PICK es \in Seq(Annotation) : es = edges[q]
  BY <1>3
<1>5. PICK out : out = SetVariable(es, a)
  OBVIOUS
<1>6. edges' = [edges EXCEPT ![q] = out]
  BY <1>1, <1>2, <1>4, <1>5 DEF AddDependency
<1>7. /\ DOMAIN edges' = Nodes \X Nodes /\ edges'[q] = out
      /\ \A p \in Nodes \X Nodes : p # q => edges'[p] = edges[p]
  BY <1>3, <1>6
<1>8. \A s, b : Carries(<<a>>, s, b) <=> Says(a, s, b)
  BY DEF Carries
<1>9. <<a>> \in Seq(Annotation) /\ Justified(<<a>>, q)
  <2>1. <<a>> \in Seq(Annotation)
    OBVIOUS
  <2>2. \A s \in Symbols : \A b : Carries(<<a>>, s, b) => b \in Expected[q][s]
    BY <1>1, <1>2, <1>8, ExpectedIs
  <2> QED BY <2>1, <2>2 DEF Justified
<1>10. /\ out \in Seq(Annotation) /\ Justified(out, q)
       /\ \A s, b : Settled(es, q, s, b) \/ Adds(<<a>>, q, s, b) => Settled(out, q, s, b)
  <2>1. IsSum(out, es, <<a>>)
    BY <1>5, SetVariableSum
  <2> QED BY <1>3, <1>4, <1>9, <2>1, SumSettles
<1>11. \A b \in e.lo .. e.hi : Adds(<<a>>, q, e.sym, b)
  <2>1. <<a>> # <<>> /\ q[1] = e.source
    BY <1>1
  <2>2. \A b \in e.lo .. e.hi : Says(e, e.sym, b)
    BY DEF Says
  <2> QED BY <1>2, <1>8, <2>1, <2>2 DEF Adds
<1>12. edges' \in [Nodes \X Nodes -> Seq(Annotation)]
  BY <1>3, <1>6, <1>10
<1>13. ASSUME NEW p \in Nodes \X Nodes
       PROVE  /\ Justified(edges'[p], p)
              /\ \A s, b : Settled(edges[p], p, s, b) => Settled(edges'[p], p, s, b)
  <2>1. CASE p = q
    <3>1. Justified(out, p) /\ \A s, b : Settled(es, p, s, b) => Settled(out, p, s, b)
      BY <1>10, <2>1
    <3>2. edges'[p] = out /\ edges[p] = es
      BY <1>4, <1>7, <2>1
    <3> QED BY <3>1, <3>2
  <2>2. CASE p # q
    <3>1. edges'[p] = edges[p] /\ Justified(edges[p], p)
      BY <1>3, <1>7, <2>2
    <3> QED BY <3>1
  <2> QED BY <2>1, <2>2
<1> QED BY <1>1, <1>7, <1>10, <1>11, <1>12, <1>13

\* The effect that a block takes next leaves its trace, and no other is lost.
LEMMA AnalyseBuild == ASSUME IInv, BInv, NEW t \in AllThreads, Analyse(t) PROVE BInv'
<1>0. /\ phase = "analyse" /\ job[t].todo # <<>> /\ Advance(t)
      /\ UNCHANGED <<phase, deferred, pool, tasks, threw>>
  BY DEF Analyse
<1>1. Tasked(EveryEffect)
  BY <1>0 DEF IInv, Working
<1>2. /\ job[t].todo \in Seq(EveryEffect) /\ job[t] # NoJob /\ job'[t].block = job[t].block
      /\ \A u \in AllThreads \ {t} : job'[u] = job[u]
  BY <1>0, <1>1, AdvanceTask
<1>3. PICK e \in EveryEffect : e = Head(job[t].todo)
  BY <1>0, <1>2
<1>4. \/ e.op = "read" /\ Enqueue(t, AsReference(e)) /\ UNCHANGED <<drivers, variables, edges>>
      \/ /\ e.op = "drive" /\ drivers' = drivers \cup {AsDrive(e)}
         /\ UNCHANGED <<variables, queue, buffers, edges>>
      \/ /\ e.op = "state" /\ variables' = variables \cup {AsVariable(e)}
         /\ UNCHANGED <<drivers, queue, buffers, edges>>
      \/ /\ e.op = "link"
         /\ edges' = [edges EXCEPT ![<<e.source, e.node>>] = AddDependency(@, e.source, AsAnnotation(e))]
         /\ UNCHANGED <<drivers, variables, queue, buffers>>
  BY <1>3 DEF Analyse
<1>5. /\ DOMAIN buffers' = DOMAIN buffers
      /\ \A v : Held(v) => Held(v)'
      /\ e.op = "read" => Held(AsReference(e))'
  <2>1. CASE e.op = "read"
    <3>1. Enqueue(t, AsReference(e)) /\ AsReference(e) \in Refs
      BY <1>4, <2>1, EffectsBecome
    <3> QED BY <1>0, <1>2, <3>1, EnqueueHolds
  <2>2. CASE e.op # "read"
    <3>1. UNCHANGED <<queue, buffers>>
      BY <1>4, <2>2
    <3> QED BY <1>0, <2>2, <3>1 DEF Held, Resolving
  <2> QED BY <2>1, <2>2
<1>6. /\ edges' \in [Nodes \X Nodes -> Seq(Annotation)]
      /\ \A p \in Nodes \X Nodes :
           /\ Justified(edges'[p], p)
           /\ \A s, b : Settled(edges[p], p, s, b) => Settled(edges'[p], p, s, b)
      /\ e.op = "link" => \A b \in e.lo .. e.hi :
           Settled(edges'[<<e.source, e.node>>], <<e.source, e.node>>, e.sym, b)
  <2>1. CASE e.op = "link"
    BY <1>4, <2>1, LinkRecorded
  <2>2. CASE e.op # "link"
    <3>1. edges' = edges
      BY <1>4, <2>2
    <3> QED BY <2>2, <3>1 DEF BInv, Sound
  <2> QED BY <2>1, <2>2
<1>7. /\ drivers \subseteq drivers' /\ variables \subseteq variables'
      /\ drivers' \subseteq Driven /\ variables' \subseteq States
      /\ e.op = "drive" => AsDrive(e) \in drivers'
      /\ e.op = "state" => AsVariable(e) \in variables'
  <2>1. drivers \subseteq Driven /\ variables \subseteq States
    BY DEF BInv, Sound
  <2> QED BY <1>4, <2>1, EffectsBecome
<1>8. Sound' /\ Whole'
  BY <1>0, <1>6, <1>7 DEF Sound, Whole
<1>9. Buffered'
  BY <1>0, <1>2, <1>5 DEF BInv, Buffered
<1>10. Complete'
  <2>1. Effected(e)'
    BY <1>5, <1>6, <1>7 DEF Effected
  <2>2. \A x \in EveryEffect : Ahead(x) => Ahead(x)' \/ Effected(x)'
    <3>1. \A x : InTodo(x) => x = e \/ InTodo(x)'
      BY <1>0, <1>1, <1>3, TodoAdvance
    <3> QED BY <1>0, <2>1, <3>1 DEF Ahead
  <2> QED BY <1>0, <1>5, <1>6, <1>7, <2>2, NothingLost DEF BInv
<1> QED BY <1>8, <1>9, <1>10 DEF BInv

\* The exception of a task ends Phase 2: something has thrown.
LEMMA RethrowAnalysisBuild == ASSUME IInv, BInv, RethrowAnalysis PROVE BInv'
<1>0. /\ phase' = "failed" /\ exception
      /\ UNCHANGED <<threw, drivers, variables, edges>>
  BY DEF RethrowAnalysis, shared
<1>1. threw'
  BY <1>0 DEF IInv, Reported
<1> QED BY <1>0, <1>1 DEF BInv, Sound, Buffered, Whole, Complete

\* The queue becomes tasks, none of its references left out.
LEMMA ResolveBuild == ASSUME IInv, BInv, ResolveSequential \/ ResolveParallel PROVE BInv'
<1>0. /\ phase = "built" /\ phase' \in {"resolve", "resolvePool"}
      /\ UNCHANGED <<job, threw, drivers, variables, edges>>
  BY DEF ResolveSequential, ResolveParallel, shared
<1>1. queue \in Seq(Refs)
  BY DEF IInv, Types
<1>2. Sound' /\ Buffered' /\ Whole'
  BY <1>0 DEF BInv, Sound, Buffered, Whole
<1>3. ASSUME NEW r \in Refs, Occurs(r, queue), r.node # Null
      PROVE  InTodo(r)'
  <2>1. CASE ResolveSequential
    <3>1. PICK task : task = [block |-> 1, todo |-> queue]
      OBVIOUS
    <3>2. tasks' = <<task>> /\ task.todo = queue
      BY <2>1, <3>1 DEF ResolveSequential
    <3>3. 1 \in DOMAIN tasks' /\ tasks'[1] = task
      BY <3>2
    <3> QED BY <1>3, <3>2, <3>3 DEF InTodo
  <2>2. CASE ResolveParallel
    <3>1. PICK s \in SortedByNode(queue) : tasks' = RunBlocks(s, RunStarts(s))
      BY <2>2 DEF ResolveParallel
    <3>2. s \in Seq(Refs) /\ InNodeOrder(s) /\ Occurs(r, s)
      BY <1>1, <1>3, <3>1, SortedOrder, EffectsBecome
    <3>3. \E c \in DOMAIN tasks' : Occurs(r, tasks'[c].todo)
      <4>1. PICK m \in DOMAIN s : s[m] = r
        BY <3>2 DEF Occurs
      <4>2. \E c \in DOMAIN tasks' : Occurs(s[m], tasks'[c].todo)
        <5>1. PICK ts : ts = tasks' /\ ts = RunBlocks(s, RunStarts(s))
          BY <3>1
        <5>2. Refs \in SUBSET Reference
          BY EffectsBecome
        <5>3. \A i \in DOMAIN s : s[i].node # Null => \E c \in DOMAIN ts : Occurs(s[i], ts[c].todo)
          BY <3>2, <5>1, <5>2, RunBlocksApart
        <5> QED BY <1>3, <4>1, <5>1, <5>3
      <4> QED BY <4>1, <4>2
    <3> QED BY <3>3 DEF InTodo
  <2> QED BY <2>1, <2>2
<1>4. ASSUME NEW r \in Refs, Held(r)
      PROVE  Held(r)' \/ Emitted(r)'
  <2>1. Occurs(r, queue)
    BY <1>0, <1>4 DEF Held, Resolving
  <2>2. CASE r.node = Null
    <3>1. Null \notin Nodes
      BY DependenciesAssumption DEF Null
    <3> QED BY <2>2, <3>1 DEF Emitted
  <2>3. CASE r.node # Null
    BY <1>0, <1>3, <2>1, <2>3 DEF Held, Resolving
  <2> QED BY <2>2, <2>3
<1>5. \A e \in EveryEffect : ~Ahead(e)
  BY <1>0 DEF Ahead
<1>6. Complete'
  BY <1>0, <1>4, <1>5, NothingLost DEF BInv
<1> QED BY <1>2, <1>6 DEF BInv

\* A reference becomes exactly the edges that the design says.
LEMMA ReferenceRecorded ==
  ASSUME IInv, BInv, Resolving, NEW r \in Refs,
         edges' = EmitEdgesFor(edges, drivers, variables, r)
  PROVE  /\ edges' \in [Nodes \X Nodes -> Seq(Annotation)]
         /\ \A p \in Nodes \X Nodes :
              /\ Justified(edges'[p], p)
              /\ \A s, b : Settled(edges[p], p, s, b) => Settled(edges'[p], p, s, b)
         /\ Emitted(r)'
<1>1. edges \in [Nodes \X Nodes -> Seq(Annotation)] /\ \A p \in Nodes \X Nodes : Justified(edges[p], p)
  BY DEF BInv, Sound
<1>2. edges' = EmitEdgesFor(edges, Driven, States, r)
  BY DEF BInv, Whole, Resolving
<1>3. PICK out : out = edges'
  OBVIOUS
<1>4. r \in Reference
  BY EffectsBecome
<1>5. /\ DOMAIN out = Nodes \X Nodes
      /\ \A p \in Nodes \X Nodes :
           IF p[2] # r.node THEN out[p] = edges[p]
           ELSE \E more \in Seq(Annotation) :
                  /\ IsSum(out[p], edges[p], more)
                  /\ OnlyVia(more, r.sym)
                  /\ \A b : Carries(more, r.sym, b) => b \in BitsFrom(Driven, States, r, p[1])
                  /\ \A b \in BitsFrom(Driven, States, r, p[1]) :
                       /\ more # <<>>
                       /\ Unnarrowed(Driven, States, p[1]) => Carries(more, r.sym, b)
  <2>1. \A m, n \in GetVariable(States, r) : m = n
    BY OneHolder
  <2>2. out = EmitEdgesFor(edges, Driven, States, r)
    BY <1>2, <1>3
  <2>3. PICK old \in [Nodes \X Nodes -> Seq(Annotation)] : old = edges
    BY <1>1
  <2>4. out = EmitEdgesFor(old, Driven, States, r)
    BY <2>2, <2>3
  <2>5. IsEmission(out, old, Driven, States, r)
    <3>1. Driven \in SUBSET Reference /\ States \in SUBSET Reference
      BY EffectsBecome
    <3> QED BY <1>4, <2>1, <2>4, <3>1, EmitEdgesSum
  <2> QED BY <2>3, <2>5 DEF IsEmission
<1>6. ASSUME NEW p \in Nodes \X Nodes
      PROVE  /\ out[p] \in Seq(Annotation) /\ Justified(out[p], p)
             /\ \A s, b : Settled(edges[p], p, s, b) => Settled(out[p], p, s, b)
             /\ p[2] = r.node => \A b \in BitsFrom(Driven, States, r, p[1]) :
                                   Settled(out[p], p, r.sym, b)
  <2>1. CASE p[2] # r.node
    <3>1. out[p] = edges[p] /\ edges[p] \in Seq(Annotation) /\ Justified(edges[p], p)
      BY <1>1, <1>5, <2>1
    <3> QED BY <2>1, <3>1
  <2>2. CASE p[2] = r.node
    <3>1. PICK more \in Seq(Annotation) :
            /\ IsSum(out[p], edges[p], more)
            /\ OnlyVia(more, r.sym)
            /\ \A b : Carries(more, r.sym, b) => b \in BitsFrom(Driven, States, r, p[1])
            /\ \A b \in BitsFrom(Driven, States, r, p[1]) :
                 /\ more # <<>>
                 /\ Unnarrowed(Driven, States, p[1]) => Carries(more, r.sym, b)
      BY <1>5, <2>2
    <3>2. Justified(more, p)
      <4>1. ASSUME NEW s \in Symbols, NEW b, Carries(more, s, b)
            PROVE  b \in Expected[p][s]
        <5>1. s = r.sym
          BY <3>1, <4>1 DEF Carries, Says, OnlyVia
        <5>2. b \in BitsFrom(Driven, States, r, p[1])
          BY <3>1, <4>1, <5>1
        <5> QED BY <2>2, <5>1, <5>2, ExpectedIs
      <4> QED BY <4>1 DEF Justified
    <3>3. PICK es \in Seq(Annotation) : es = edges[p] /\ Justified(es, p)
      BY <1>1
    <3>4. PICK sum : sum = out[p]
      OBVIOUS
    <3>5. IsSum(sum, es, more)
      BY <3>1, <3>3, <3>4
    <3>6. /\ sum \in Seq(Annotation) /\ Justified(sum, p)
          /\ \A s, b : Settled(es, p, s, b) \/ Adds(more, p, s, b) => Settled(sum, p, s, b)
      BY <3>2, <3>3, <3>5, SumSettles
    <3>7. \A b \in BitsFrom(Driven, States, r, p[1]) : Adds(more, p, r.sym, b)
      BY <3>1 DEF Adds, OwnFrame
    <3> QED BY <3>3, <3>4, <3>6, <3>7
  <2> QED BY <2>1, <2>2
<1>7. edges' \in [Nodes \X Nodes -> Seq(Annotation)]
  <2>1. out = [p \in Nodes \X Nodes |-> out[p]]
    BY <1>2, <1>3, <1>5 DEF EmitEdgesFor
  <2> QED BY <1>3, <1>6, <2>1
<1>8. Emitted(r)'
  <2> SUFFICES ASSUME r.node \in Nodes, NEW m \in Nodes,
                      NEW b \in BitsFrom(Driven, States, r, m)
               PROVE  Settled(edges'[<<m, r.node>>], <<m, r.node>>, r.sym, b)
    BY DEF Emitted
  <2>0. PICK n \in Nodes : n = r.node
    OBVIOUS
  <2>1. PICK p \in Nodes \X Nodes : p = <<m, n>>
    <3>1. <<m, n>> \in Nodes \X Nodes
      OBVIOUS
    <3> QED BY <3>1
  <2>2. Settled(out[p], p, r.sym, b)
    <3>1. p[1] = m /\ p[2] = r.node
      BY <2>0, <2>1
    <3> QED BY <1>6, <3>1
  <2> QED BY <1>3, <2>0, <2>1, <2>2
<1> QED BY <1>3, <1>6, <1>7, <1>8

\* So it is dealt with when it is no longer in hand.
LEMMA EmitEdgesBuild == ASSUME IInv, BInv, NEW t \in AllThreads, EmitEdges(t) PROVE BInv'
<1>0. /\ Resolving /\ job[t].todo # <<>> /\ Advance(t)
      /\ edges' = EmitEdgesFor(edges, drivers, variables, Head(job[t].todo))
      /\ UNCHANGED <<phase, deferred, pool, tasks, queue, buffers, threw, drivers, variables>>
  BY DEF EmitEdges
<1>1. Tasked(Refs)
  BY <1>0 DEF IInv, Working
<1>2. job[t].todo \in Seq(Refs)
  BY <1>0, <1>1, AdvanceTask
<1>3. PICK r \in Refs : r = Head(job[t].todo)
  BY <1>0, <1>2
<1>4. /\ edges' \in [Nodes \X Nodes -> Seq(Annotation)]
      /\ \A p \in Nodes \X Nodes :
           /\ Justified(edges'[p], p)
           /\ \A s, b : Settled(edges[p], p, s, b) => Settled(edges'[p], p, s, b)
      /\ Emitted(r)'
  BY <1>0, <1>3, ReferenceRecorded
<1>5. Sound' /\ Whole'
  BY <1>0, <1>4 DEF BInv, Sound, Whole
<1>6. Buffered'
  BY <1>0 DEF Buffered, Resolving
<1>7. Complete'
  <2>1. \A v : InTodo(v) => v = r \/ InTodo(v)'
    BY <1>0, <1>1, <1>3, TodoAdvance
  <2>2. \A v \in Refs : Held(v) => Held(v)' \/ Emitted(v)'
    BY <1>0, <1>4, <2>1 DEF Held, Resolving
  <2>3. \A e \in EveryEffect : ~Ahead(e)
    BY <1>0 DEF Ahead, Resolving
  <2> QED BY <1>0, <1>4, <2>2, <2>3, NothingLost DEF BInv
<1> QED BY <1>5, <1>6, <1>7 DEF BInv

\* Phase 4 ends with no reference in hand, or because something has thrown.
LEMMA FinishResolveBuild == ASSUME IInv, BInv, FinishResolve PROVE BInv'
<1>0. /\ Resolving /\ Joined /\ UNCHANGED <<threw, drivers, variables, edges>>
      /\ (phase' = "failed" /\ exception) \/ phase' = "done"
  BY DEF FinishResolve, shared
<1>1. Sound' /\ Buffered' /\ Whole'
  BY <1>0 DEF BInv, Sound, Buffered, Whole, Resolving
<1>2. Complete'
  <2>1. \A r \in Refs : ~Held(r)
    BY <1>0, TodoJoined DEF Held, Resolving
  <2>2. \A e \in EveryEffect : ~Ahead(e)
    BY <1>0 DEF Ahead, Resolving
  <2> QED BY <1>0, <2>1, <2>2, NothingLost DEF BInv
<1> QED BY <1>1, <1>2 DEF BInv

\* Every step keeps the second part, given the first.
LEMMA NextBuild == IInv /\ BInv /\ [Next]_vars => BInv'
<1> SUFFICES ASSUME IInv, BInv, [Next]_vars PROVE BInv'
  OBVIOUS
<1>1. CASE Control
  BY <1>1, CollectBuild, StartAnalysisBuild, RethrowAnalysisBuild, FinishAnalysisBuild,
     ResolveBuild, FinishResolveBuild DEF Control
<1>2. ASSUME NEW t \in AllThreads, Run(t) PROVE BInv'
  BY <1>2, StartTaskBuild, AnalyseBuild, ThrowsBuild, EmitEdgesBuild, EndTaskBuild DEF Run
<1>3. CASE UNCHANGED vars
  <2>0. UNCHANGED <<phase, deferred, tasks, job, buffers, queue, threw, drivers, variables, edges>>
    BY <1>3 DEF vars
  <2>1. Sound' /\ Buffered' /\ Whole'
    BY <2>0 DEF BInv, Sound, Buffered, Whole
  <2>2. \A v : InTodo(v)' <=> InTodo(v)
    BY <2>0 DEF InTodo
  <2>3. \A r \in Refs : Held(r) => Held(r)'
    BY <2>0, <2>2 DEF Held, Resolving
  <2>4. \A e \in EveryEffect : Ahead(e) => Ahead(e)'
    BY <2>0, <2>2 DEF Ahead
  <2>5. Complete'
    BY <2>0, <2>3, <2>4, NothingLost DEF BInv
  <2> QED BY <2>1, <2>5 DEF BInv
<1> QED BY <1>1, <1>2, <1>3 DEF Next
-----------------------------------------------------------------------------
(***************************************************************************)
(* What the pipeline guarantees.                                           *)
(***************************************************************************)
\* The inductive invariant holds in every reachable state.
THEOREM PipelineInvariant == Spec => []IInv
BY InitInv, NextInv, PTL DEF Spec

\* The partition by target: annotating edges without a lock is free of races.
THEOREM NoWriteRace == Spec => []OneWriterPerTarget
<1>1. IInv => OneWriterPerTarget
  BY DEF IInv, Separate, OneWriterPerTarget, Apart
<1> QED BY <1>1, PipelineInvariant, PTL

\* No task outlives the call that detached it, whatever throws.
THEOREM NoTaskLeft == Spec => []TasksJoined
<1>1. IInv => TasksJoined
  BY DEF IInv, Working, Resolving, Joined, TasksJoined
<1> QED BY <1>1, PipelineInvariant, PTL

\* A build fails exactly when something in it threw.
THEOREM ExceptionsReported == Spec => []FailureReported
<1>1. IInv => FailureReported
  BY DEF IInv, Reported, FailureReported
<1> QED BY <1>1, PipelineInvariant, PTL

\* Nothing is recorded that the design does not say, and nothing that it says
\* is lost on the way through the phases.
THEOREM DesignRecorded == Spec => []BInv
<1>1. IInv /\ BInv /\ [Next]_vars => BInv'
  BY NextBuild
<1> QED BY <1>1, InitBuild, PipelineInvariant, PTL DEF Spec

\* At the end every bit that the design says has its edge.
LEMMA DoneSettled ==
  ASSUME IInv, BInv, phase = "done", NEW p \in Nodes \X Nodes, NEW s \in Symbols,
         NEW b \in Expected[p][s]
  PROVE  Settled(edges[p], p, s, b)
<1>1. \A e \in EveryEffect : Effected(e)
  <2>1. ~threw
    BY DEF IInv, Reported
  <2>2. \A e : ~Ahead(e)
    BY DEF Ahead
  <2> QED BY <2>1, <2>2 DEF BInv, Complete
<1>2. PICK m \in Nodes, n \in Nodes : p = <<m, n>>
  OBVIOUS
<1>3. ASSUME NEW r \in Refs, r.sym = s, r.node = p[2], b \in BitsFrom(Driven, States, r, p[1])
      PROVE  Settled(edges[p], p, s, b)
  <2>1. PICK e \in EveryEffect : e.op = "read" /\ r = AsReference(e)
    BY EffectsTyped DEF Refs
  <2>2. Emitted(r)
    BY <1>1, <2>1 DEF Effected, Held, Resolving
  <2> QED BY <1>2, <1>3, <2>2 DEF Emitted
<1>4. ASSUME NEW e \in EveryEffect, e.op = "link", <<e.source, e.node>> = p, Says(e, s, b)
      PROVE  Settled(edges[p], p, s, b)
  BY <1>1, <1>4 DEF Effected, Says
<1> QED BY <1>3, <1>4, ExpectedIs

\* The edges of a finished build are those of the design: the same in one
\* thread and in the pool, whatever the schedule, the order of the drained
\* buffers and the unstable sort of the queue.
THEOREM EdgesCorrect == Spec => []EdgesExact
<1>1. ASSUME IInv, BInv, phase = "done", NEW p \in Nodes \X Nodes
      PROVE  edges[p] # <<>> <=> Via(p) # {}
  <2>1. ASSUME NEW s \in Via(p)
        PROVE  edges[p] # <<>>
    <3>1. PICK b : s \in Symbols /\ b \in Expected[p][s]
      BY DEF Via
    <3> QED BY <1>1, <3>1, DoneSettled DEF Settled
  <2>2. ASSUME edges[p] # <<>>
        PROVE  Via(p) # {}
    <3>1. PICK es \in Seq(Annotation) : es = edges[p] /\ es # <<>> /\ Justified(es, p)
      BY <1>1, <2>2 DEF BInv, Sound
    <3>2. 1 \in DOMAIN es /\ es[1] \in Annotation
      BY <3>1
    <3>3. PICK a \in Annotation : a = es[1]
      BY <3>2
    <3>4. a.sym \in Symbols /\ a.lo \in Nat /\ a.hi \in Nat /\ a.lo <= a.hi
      BY RangesTyped
    <3>5. Carries(es, a.sym, a.lo)
      BY <3>2, <3>3, <3>4 DEF Carries, Says
    <3>6. a.lo \in Expected[p][a.sym]
      BY <3>1, <3>4, <3>5 DEF Justified
    <3> QED BY <3>4, <3>6 DEF Via
  <2> QED BY <2>1, <2>2
<1>2. IInv /\ BInv => EdgesExact
  BY <1>1 DEF EdgesExact
<1> QED BY <1>2, PipelineInvariant, DesignRecorded, PTL

\* The annotations name bits that the design says only; where one symbol
\* relates two nodes and the source has bounds in its own frame, all of them.
THEOREM AnnotationsCorrect == Spec => []AnnotationsExact
<1>1. ASSUME NEW es \in Seq(Annotation), NEW s, NEW b
      PROVE  b \in AnnotatedBits(es, s) <=> Carries(es, s, b)
  <2> DEFINE at == {j \in DOMAIN es : es[j].sym = s}
             F(k) == es[k].lo .. es[k].hi
  <2>1. AnnotatedBits(es, s) = UNION {F(k) : k \in at}
    BY DEF AnnotatedBits
  <2>2. b \in UNION {F(k) : k \in at} <=> \E k \in at : b \in F(k)
    <3> HIDE DEF at, F
    <3> QED OBVIOUS
  <2> QED BY <2>1, <2>2 DEF Carries, Says
<1>2. ASSUME IInv, BInv, phase = "done", NEW p \in Nodes \X Nodes, NEW s \in Symbols
      PROVE  /\ AnnotatedBits(edges[p], s) \subseteq Expected[p][s]
             /\ Via(p) = {s} /\ OwnFrame(p[1]) => AnnotatedBits(edges[p], s) = Expected[p][s]
  <2>1. edges[p] \in Seq(Annotation) /\ Justified(edges[p], p)
    BY <1>2 DEF BInv, Sound
  <2>2. \A b : Carries(edges[p], s, b) => b \in Expected[p][s]
    BY <2>1 DEF Justified
  <2>3. Via(p) = {s} /\ OwnFrame(p[1]) => \A b \in Expected[p][s] : Carries(edges[p], s, b)
    BY <1>2, DoneSettled DEF Settled
  <2>4. \A b : b \in AnnotatedBits(edges[p], s) <=> Carries(edges[p], s, b)
    BY <1>1, <2>1
  <2> QED BY <2>2, <2>3, <2>4
<1>3. IInv /\ BInv => AnnotationsExact
  BY <1>2 DEF AnnotationsExact
<1> QED BY <1>3, PipelineInvariant, DesignRecorded, PTL
=============================================================================
