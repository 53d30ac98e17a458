------------------------ MODULE CycleDetectorProofs ------------------------
(***************************************************************************)
(* Proofs about CycleDetector: on every graph, with every edge predicate   *)
(* and in whatever order the nodes and their edges are taken, each loop    *)
(* that is reported is one, and every node on a loop is reported.          *)
(***************************************************************************)
EXTENDS CycleDetector, DepthFirstSearchProofs

\* std::rotate as the code uses it: the same nodes in the same cyclic order,
\* from the lowest on.
LEMMA CanonicalRotates ==
  ASSUME NEW c \in Seq(Nat), c # <<>>
  PROVE  \E k \in 1 .. Len(c) :
           /\ \A j \in 1 .. Len(c) : c[k] <= c[j]
           /\ Canonical(c) \in Seq(Nat)
           /\ Len(Canonical(c)) = Len(c)
           /\ \A j \in 1 .. Len(c) :
                Canonical(c)[j] = IF j <= Len(c) - k + 1 THEN c[k + j - 1]
                                  ELSE c[j - (Len(c) - k + 1)]
<1> DEFINE len == Len(c)
           low(i) == \A j \in DOMAIN c : c[i] <= c[j]
           k == CHOOSE i \in DOMAIN c : low(i)
<1>0. len \in Nat \ {0} /\ DOMAIN c = 1 .. len /\ \A i \in 1 .. len : c[i] \in Nat
  OBVIOUS
<1>1. \E i \in DOMAIN c : low(i)
  <2> DEFINE IDs == {c[i] : i \in DOMAIN c}
  <2>1. IDs \in SUBSET Nat /\ IDs # {}
    BY <1>0
  <2>2. PICK m \in IDs : \A n \in IDs : m <= n
    <3> HIDE DEF IDs
    <3> QED BY <2>1, LeastExists
  <2> QED BY <2>2
<1>2. k \in 1 .. len /\ low(k)
  BY <1>0, <1>1
<1>3. Canonical(c) = SubSeq(c, k, len) \o SubSeq(c, 1, k - 1)
  BY DEF Canonical
<1> HIDE DEF low, k
<1>4. /\ SubSeq(c, k, len) \in Seq(Nat)
      /\ Len(SubSeq(c, k, len)) = len - k + 1
      /\ \A i \in 1 .. len - k + 1 : SubSeq(c, k, len)[i] = c[k + i - 1]
  <2>1. k \in Int /\ len \in Int /\ k <= len /\ \A i \in k .. len : c[i] \in Nat
    BY <1>0, <1>2
  <2> QED BY <2>1, SubSeqProperties
<1>5. /\ SubSeq(c, 1, k - 1) \in Seq(Nat)
      /\ Len(SubSeq(c, 1, k - 1)) = k - 1
      /\ \A i \in 1 .. k - 1 : SubSeq(c, 1, k - 1)[i] = c[i]
  <2>1. 1 \in Int /\ k - 1 \in Int /\ \A i \in 1 .. k - 1 : c[i] \in Nat
    BY <1>0, <1>2
  <2>2. /\ SubSeq(c, 1, k - 1) \in Seq(Nat)
        /\ Len(SubSeq(c, 1, k - 1)) = IF 1 <= k - 1 THEN k - 1 - 1 + 1 ELSE 0
        /\ \A i \in 1 .. k - 1 - 1 + 1 : SubSeq(c, 1, k - 1)[i] = c[1 + i - 1]
    BY <2>1, SubSeqProperties
  <2> QED BY <1>2, <2>2
<1>6. /\ Canonical(c) \in Seq(Nat)
      /\ Len(Canonical(c)) = len
      /\ \A j \in 1 .. len :
           Canonical(c)[j] = IF j <= len - k + 1 THEN c[k + j - 1]
                             ELSE c[j - (len - k + 1)]
  <2> DEFINE s == SubSeq(c, k, len)
             t == SubSeq(c, 1, k - 1)
  <2> HIDE DEF s, t
  <2>1. /\ s \o t \in Seq(Nat) /\ Len(s \o t) = Len(s) + Len(t)
        /\ \A i \in 1 .. Len(s) + Len(t) :
             (s \o t)[i] = IF i <= Len(s) THEN s[i] ELSE t[i - Len(s)]
    BY <1>4, <1>5, ConcatProperties DEF s, t
  <2>2. Len(s) = len - k + 1 /\ Len(t) = k - 1 /\ len \in Nat /\ k \in 1 .. len
    BY <1>0, <1>2, <1>4, <1>5 DEF s, t
  <2>3. \A j \in 1 .. len - k + 1 : s[j] = c[k + j - 1]
    BY <1>4 DEF s
  <2>4. \A j \in 1 .. k - 1 : t[j] = c[j]
    BY <1>5 DEF t
  <2>5. ASSUME NEW j \in 1 .. len
        PROVE  (s \o t)[j] = IF j <= len - k + 1 THEN c[k + j - 1]
                             ELSE c[j - (len - k + 1)]
    <3> HIDE DEF len
    <3>1. j \in 1 .. Len(s) + Len(t)
      BY <2>2
    <3>2. CASE j <= Len(s)
      BY <2>1, <2>2, <2>3, <3>1, <3>2
    <3>3. CASE ~(j <= Len(s))
      <4>1. j - Len(s) \in 1 .. k - 1
        BY <2>2, <3>1, <3>3
      <4> QED BY <2>1, <2>2, <2>4, <3>1, <3>3, <4>1
    <3> QED BY <3>2, <3>3
  <2>6. Canonical(c) = s \o t
    BY <1>3 DEF s, t
  <2>7. Len(s) + Len(t) = len
    BY <2>2
  <2> QED BY <2>1, <2>5, <2>6, <2>7, Zenon
<1> QED BY <1>0, <1>2, <1>6 DEF low
-----------------------------------------------------------------------------
(***************************************************************************)
(* The inductive invariant: that of the search and the parts below.        *)
(***************************************************************************)
\* The nodes of a cycle.
NodesOf(c) == {c[i] : i \in DOMAIN c}

\* Each search has one start node, and its parents are selected edges.
OneSearch ==
  /\ \A m, n \in start : m = n
  /\ \A a \in parent : a \in graph.arcs /\ Selected(a)

\* Once an edge back to the start node has been examined, a cycle through the
\* start node has been found: the start node never leaves the stack before
\* the search ends.
ReturnsFound ==
  \A n \in start : \A m \in visited : \A a \in ArcsFrom(m) :
    Selected(a) /\ a[2] = n /\ a \notin unexamined[m] =>
      \E c \in found : n \in NodesOf(c)

\* A node that will not be a start node any more needs none: it is on no
\* cycle or on one that is known, unless it is being searched from.
Settled ==
  \A n \in marked \cup (Nodes \ remaining) :
    n \in start \/ ~OnCycle(n) \/ \E c \in cycles : n \in NodesOf(c)

CInv ==
  /\ IInv
  /\ OneSearch
  /\ LoopsAreCycles
  /\ ReturnsFound
  /\ Settled
-----------------------------------------------------------------------------
\* What is rotated stays a cycle of the same nodes, and starts with its
\* lowest ID.
LEMMA CanonicalIsCycle ==
  ASSUME NEW c \in Seq(Nat), IsCycle(c)
  PROVE  /\ IsCycle(Canonical(c))
         /\ \A i \in DOMAIN Canonical(c) : Canonical(c)[1] <= Canonical(c)[i]
         /\ NodesOf(Canonical(c)) = NodesOf(c)
<1> DEFINE d == Canonical(c)
           next(i, len) == IF i = len THEN 1 ELSE i + 1
           at(k, len, j) == IF j <= len - k + 1 THEN k + j - 1 ELSE j - (len - k + 1)
<1>1. PICK len \in Nat \ {0} : len = Len(c)
  BY DEF IsCycle
<1>2. PICK k \in 1 .. len :
        /\ \A j \in 1 .. len : c[k] <= c[j]
        /\ d \in Seq(Nat)
        /\ Len(d) = len
        /\ \A j \in 1 .. len : d[j] = c[at(k, len, j)]
  <2>1. c # <<>>
    BY DEF IsCycle
  <2>2. \E k \in 1 .. Len(c) :
          /\ \A j \in 1 .. Len(c) : c[k] <= c[j]
          /\ d \in Seq(Nat)
          /\ Len(d) = Len(c)
          /\ \A j \in 1 .. Len(c) : d[j] = c[at(k, Len(c), j)]
    BY <2>1, CanonicalRotates
  <2> QED BY <1>1, <2>2
<1> HIDE DEF d
<1>k. len \in Nat /\ len >= 1 /\ k \in Nat /\ 1 <= k /\ k <= len
  BY <1>1, <1>2
<1>3. DOMAIN c = 1 .. len /\ DOMAIN d = 1 .. len
  BY <1>1, <1>2, LenProperties
<1>4. \A j \in 1 .. len : at(k, len, j) \in 1 .. len
  BY <1>k
<1>5. \A i, j \in 1 .. len : at(k, len, i) = at(k, len, j) => i = j
  BY <1>k
<1>6. \A j \in 1 .. len : /\ next(j, len) \in 1 .. len
                          /\ at(k, len, next(j, len)) = next(at(k, len, j), len)
  BY <1>k
<1>7. at(k, len, 1) = k
  BY <1>k
<1>8. \A i \in 1 .. len : \E j \in 1 .. len : at(k, len, j) = i
  <2> SUFFICES ASSUME NEW i \in 1 .. len
               PROVE  \E j \in 1 .. len : at(k, len, j) = i
    OBVIOUS
  <2>1. CASE i >= k
    <3>1. i - k + 1 \in 1 .. len /\ at(k, len, i - k + 1) = i
      BY <1>k, <2>1
    <3> QED BY <3>1
  <2>2. CASE i < k
    <3>1. /\ i + (len - k + 1) \in 1 .. len
          /\ at(k, len, i + (len - k + 1)) = i
      BY <1>k, <2>2
    <3> QED BY <3>1
  <2> QED BY <1>k, <2>1, <2>2
<1>9. \A j \in 1 .. len : LET a == <<c[j], c[next(j, len)]>>
                          IN a \in graph.arcs /\ Selected(a)
  BY <1>1, <1>3 DEF IsCycle
<1>10. \A i, j \in 1 .. len : i # j => c[i] # c[j]
  BY <1>3 DEF IsCycle
<1> HIDE DEF at, next
<1>11. d # <<>>
  BY <1>1, <1>2
<1>e. \A j \in 1 .. len : d[j] = c[at(k, len, j)]
  BY <1>2
<1>12. \A i, j \in DOMAIN d : i # j => d[i] # d[j]
  BY <1>3, <1>4, <1>5, <1>10, <1>e
<1>13. ASSUME NEW j \in 1 .. len
       PROVE  LET a == <<d[j], d[next(j, len)]>>
              IN a \in graph.arcs /\ Selected(a)
  <2>1. d[j] = c[at(k, len, j)]
    BY <1>2
  <2>2. d[next(j, len)] = c[next(at(k, len, j), len)]
    BY <1>2, <1>6
  <2> QED BY <1>4, <1>9, <2>1, <2>2
<1>14. IsCycle(d)
  BY <1>2, <1>3, <1>11, <1>12, <1>13 DEF IsCycle, next
<1>15. \A i \in DOMAIN d : d[1] <= d[i]
  <2>1. 1 \in 1 .. len
    BY <1>1
  <2> QED BY <1>2, <1>3, <1>4, <1>7, <2>1
<1>16. NodesOf(d) = NodesOf(c)
  <2>1. ASSUME NEW j \in 1 .. len
        PROVE  d[j] \in NodesOf(c)
    BY <1>3, <1>4, <1>e DEF NodesOf
  <2>2. ASSUME NEW i \in 1 .. len
        PROVE  c[i] \in NodesOf(d)
    <3>1. PICK j \in 1 .. len : at(k, len, j) = i
      BY <1>8
    <3> QED BY <1>3, <1>e, <3>1 DEF NodesOf
  <2> QED BY <1>3, <2>1, <2>2 DEF NodesOf
<1> QED BY <1>14, <1>15, <1>16 DEF d

\* A selected edge from the top of the stack to a node on it closes a cycle:
\* the part of the stack from that node on.
LEMMA StackClosesCycle ==
  ASSUME IInv, OneSearch, NEW a \in graph.arcs, Examine(a), Selected(a),
         NEW i \in DOMAIN visitStack, visitStack[i] = a[2]
  PROVE  LET c == SubSeq(visitStack, i, Len(visitStack))
         IN c \in Seq(Nat) /\ IsCycle(c) /\ a[2] \in NodesOf(c)
<1> DEFINE c == SubSeq(visitStack, i, Len(visitStack))
<1>1. PICK len \in Nat \ {0} : len = Len(visitStack)
  BY DEF IInv, TypeOK, Examine
<1>2. /\ DOMAIN visitStack = 1 .. len
      /\ \A j \in 1 .. len : visitStack[j] \in Nat
  <2>1. visitStack \in Seq(Nodes) /\ Nodes \subseteq Nat
    BY DepthFirstSearchAssumption DEF IInv, TypeOK
  <2> QED BY <1>1, <2>1, LenProperties
<1>i. i \in Nat /\ 1 <= i /\ i <= len /\ len \in Nat
  BY <1>1, <1>2
<1>3. a = <<visitStack[len], visitStack[i]>>
  <2>1. a[1] = Top /\ a \in Nodes \X Nodes
    BY TopVisited, ArcsArePairs DEF IInv, TypeOK, Examine, ArcsFrom
  <2> QED BY <1>1, <2>1 DEF Top
<1>4. /\ c \in Seq(Nat) /\ Len(c) = len - i + 1
      /\ \A j \in 1 .. len - i + 1 : c[j] = visitStack[i + j - 1]
  <2>1. i \in Int /\ len \in Int /\ i <= len /\ \A j \in i .. len : visitStack[j] \in Nat
    BY <1>2, <1>i
  <2> QED BY <1>1, <2>1, SubSeqProperties
<1> HIDE DEF c
<1>5. DOMAIN c = 1 .. len - i + 1 /\ c # <<>> /\ 1 \in DOMAIN c
  BY <1>i, <1>4, LenProperties
<1>6. \A j, k \in DOMAIN c : j # k => c[j] # c[k]
  <2> SUFFICES ASSUME NEW j \in DOMAIN c, NEW k \in DOMAIN c, j # k
               PROVE  c[j] # c[k]
    OBVIOUS
  <2>1. i + j - 1 \in 1 .. len /\ i + k - 1 \in 1 .. len /\ i + j - 1 # i + k - 1
    BY <1>i, <1>5
  <2> QED BY <1>2, <1>4, <1>5, <2>1 DEF IInv, StackIsPath
<1>7. c[1] = a[2]
  <2>1. 1 \in 1 .. len - i + 1 /\ i + 1 - 1 = i
    BY <1>i
  <2> QED BY <1>4, <2>1
<1>8. ASSUME NEW j \in DOMAIN c
      PROVE  LET b == <<c[j], c[IF j = Len(c) THEN 1 ELSE j + 1]>>
             IN b \in graph.arcs /\ Selected(b)
  <2>1. CASE j = Len(c)
    <3>1. c[j] = visitStack[len]
      <4>1. j \in 1 .. len - i + 1 /\ i + j - 1 = len
        BY <1>i, <1>4, <1>5, <2>1
      <4> QED BY <1>4, <4>1
    <3> QED BY <1>3, <1>7, <2>1, <3>1
  <2>2. CASE j # Len(c)
    <3>1. /\ j + 1 \in 1 .. len - i + 1 /\ i + j - 1 \in 1 .. len - 1
          /\ i + (j + 1) - 1 = (i + j - 1) + 1
      <4>1. j \in 1 .. len - i + 1 /\ j # len - i + 1
        BY <1>4, <1>5, <2>2
      <4> QED BY <1>i, <4>1
    <3>2. c[j] = visitStack[i + j - 1] /\ c[j + 1] = visitStack[(i + j - 1) + 1]
      <4>1. c[j] = visitStack[i + j - 1]
        BY <1>4, <1>5
      <4>2. c[j + 1] = visitStack[i + (j + 1) - 1]
        BY <1>4, <3>1
      <4> QED BY <3>1, <4>1, <4>2
    <3>3. <<visitStack[i + j - 1], visitStack[(i + j - 1) + 1]>> \in parent
      BY <1>1, <3>1 DEF IInv, StackIsPath
    <3> QED BY <2>2, <3>2, <3>3 DEF OneSearch
  <2> QED BY <2>1, <2>2
<1>9. IsCycle(c)
  BY <1>5, <1>6, <1>8 DEF IsCycle
<1>10. a[2] \in NodesOf(c)
  BY <1>5, <1>7 DEF NodesOf
<1> QED BY <1>4, <1>9, <1>10 DEF c
-----------------------------------------------------------------------------
(***************************************************************************)
(* The steps.                                                              *)
(***************************************************************************)
\* Nothing is known before the first search.
LEMMA CycleInitInv == CycleInit => CInv
<1> SUFFICES ASSUME CycleInit PROVE CInv
  OBVIOUS
<1>1. IInv
  BY InitInv DEF CycleInit
<1> QED BY <1>1 DEF CycleInit, Init, CInv, OneSearch, LoopsAreCycles, ReturnsFound,
                    Settled

\* What is a cycle depends on the graph only, which is fixed.
LEMMA SameGraph ==
  ASSUME graph' = graph
  PROVE  /\ \A c : IsCycle(c)' <=> IsCycle(c)
         /\ \A n : OnCycle(n)' <=> OnCycle(n)
BY DEF IsCycle, OnCycle, ReachesFrom, Closed, Selected

\* A node that is passed over had been settled before.
LEMMA PassOverInv ==
  ASSUME CInv, NEW n \in Nodes, PassOver(n)
  PROVE  CInv'
<1> USE DEF CInv
<1>0. graph' = graph /\ start' = start /\ UNCHANGED vars
  BY DEF PassOver, vars
<1>1. IInv'
  BY <1>0, StutterInv
<1>2. OneSearch'
  BY <1>0 DEF OneSearch, Selected, vars
<1>3. LoopsAreCycles'
  BY <1>0, SameGraph DEF LoopsAreCycles, PassOver
<1>4. ReturnsFound'
  BY <1>0 DEF ReturnsFound, ArcsFrom, Selected, vars, PassOver
<1>5. Settled'
  BY <1>0, SameGraph DEF Settled, PassOver, NextStart
<1> QED BY <1>1, <1>2, <1>3, <1>4, <1>5

\* A search starts: all edges of its one node are to be examined.
LEMMA StartSearchInv ==
  ASSUME CInv, NEW n \in Nodes, StartSearch(n)
  PROVE  CInv'
<1> USE DEF CInv
<1>0. /\ start = {} /\ start' = {n} /\ visited' = {n} /\ parent' = parent
      /\ graph' = graph /\ found' = found /\ cycles' = cycles
      /\ marked' = marked \cup {n} /\ remaining' = remaining \ {n}
      /\ unexamined' = [unexamined EXCEPT ![n] = ArcsFrom(n)]
  BY DEF StartSearch, Setup
<1>1. IInv'
  BY SetupInv DEF StartSearch
<1>2. OneSearch'
  BY <1>0 DEF OneSearch, Selected
<1>3. LoopsAreCycles'
  BY <1>0, SameGraph DEF LoopsAreCycles
<1>4. ReturnsFound'
  BY <1>0 DEF ReturnsFound, ArcsFrom, IInv, TypeOK
<1>5. Settled'
  BY <1>0, SameGraph DEF Settled
<1> QED BY <1>1, <1>2, <1>3, <1>4, <1>5

\* A visited node again: if it is on the stack, and the start node is until
\* the search ends, the stack gives a cycle through it.
LEMMA DetectSeenInv ==
  ASSUME CInv, NEW a \in graph.arcs, DetectSeen(a)
  PROVE  CInv'
<1> USE DEF CInv
<1>0. /\ Examine(a) /\ Selected(a) /\ SeenNode(a)
      /\ unexamined' = [unexamined EXCEPT ![Top] = @ \ {a}]
      /\ found' = found \cup CycleThrough(a[2])
      /\ UNCHANGED <<graph, visitStack, visited, parent, start, remaining, marked, cycles>>
  BY DEF DetectSeen, SeenNode
<1>1. IInv'
  BY <1>0, PassInv
<1>2. OneSearch'
  BY <1>0 DEF OneSearch, Selected
<1>3. \A c \in CycleThrough(a[2]) :
        /\ IsCycle(c)
        /\ \A i \in DOMAIN c : c[1] <= c[i]
        /\ a[2] \in NodesOf(c)
  <2> SUFFICES ASSUME NEW i \in DOMAIN visitStack, visitStack[i] = a[2]
               PROVE  LET c == Canonical(SubSeq(visitStack, i, Len(visitStack)))
                      IN /\ IsCycle(c)
                         /\ \A j \in DOMAIN c : c[1] <= c[j]
                         /\ a[2] \in NodesOf(c)
    BY DEF CycleThrough
  <2> DEFINE d == SubSeq(visitStack, i, Len(visitStack))
  <2>1. d \in Seq(Nat) /\ IsCycle(d) /\ a[2] \in NodesOf(d)
    BY <1>0, StackClosesCycle
  <2> HIDE DEF d
  <2>2. /\ IsCycle(Canonical(d))
        /\ \A j \in DOMAIN Canonical(d) : Canonical(d)[1] <= Canonical(d)[j]
        /\ NodesOf(Canonical(d)) = NodesOf(d)
    BY <2>1, CanonicalIsCycle
  <2> QED BY <2>1, <2>2 DEF d
<1>4. LoopsAreCycles'
  BY <1>0, <1>3, SameGraph DEF LoopsAreCycles
<1>5. ReturnsFound'
  <2> SUFFICES ASSUME NEW n \in start, NEW m \in visited, NEW b \in ArcsFrom(m),
                      Selected(b), b[2] = n, b \notin unexamined'[m]
               PROVE  \E c \in found' : n \in NodesOf(c)
    BY <1>0 DEF ReturnsFound, ArcsFrom, Selected
  <2>1. CASE b # a
    <3>1. m \in Nodes /\ b \notin unexamined[m]
      BY <1>0, <2>1 DEF IInv, TypeOK
    <3> QED BY <1>0, <3>1 DEF ReturnsFound
  <2>2. CASE b = a
    <3>1. 1 \in DOMAIN visitStack /\ visitStack[1] = n
      BY <1>0 DEF IInv, TypeOK, StackIsPath, OneSearch, Examine
    <3>2. CycleThrough(a[2]) # {}
      BY <2>2, <3>1 DEF CycleThrough
    <3> QED BY <1>0, <1>3, <2>2, <3>2
  <2> QED BY <2>1, <2>2
<1>6. Settled'
  BY <1>0, SameGraph DEF Settled
<1> QED BY <1>1, <1>2, <1>4, <1>5, <1>6

\* The other steps of a search examine no edge back to the start node.
LEMMA DetectStepInv ==
  ASSUME CInv, DetectStep
  PROVE  CInv'
<1> USE DEF CInv
<1>0. /\ graph' = graph /\ start' = start
      /\ UNCHANGED <<remaining, marked, found, cycles>>
  BY DEF DetectStep, Pop, SkipEdge, VisitNode
<1>1. IInv'
  BY PopInv, PassInv, VisitNodeInv DEF DetectStep
<1>2. OneSearch'
  BY <1>0 DEF OneSearch, Selected, DetectStep, Pop, SkipEdge, VisitNode
<1>3. LoopsAreCycles'
  BY <1>0, SameGraph DEF LoopsAreCycles
<1>4. ReturnsFound'
  <2>1. CASE Pop
    BY <1>0, <2>1 DEF ReturnsFound, ArcsFrom, Selected, Pop
  <2>2. ASSUME NEW a \in graph.arcs, SkipEdge(a)
        PROVE  ReturnsFound'
    <3> SUFFICES ASSUME NEW n \in start, NEW m \in visited, NEW b \in ArcsFrom(m),
                        Selected(b), b[2] = n, b \notin unexamined'[m]
                 PROVE  \E c \in found : n \in NodesOf(c)
      BY <1>0, <2>2 DEF ReturnsFound, ArcsFrom, Selected, SkipEdge
    <3>1. b # a /\ m \in Nodes /\ b \notin unexamined[m]
      BY <2>2 DEF IInv, TypeOK, SkipEdge
    <3> QED BY <3>1 DEF ReturnsFound
  <2>3. ASSUME NEW a \in graph.arcs, VisitNode(a)
        PROVE  ReturnsFound'
    <3>0. /\ a[2] \notin visited /\ a[2] \in Nodes /\ Top \in visited /\ Top \in Nodes
          /\ visited' = visited \cup {a[2]}
          /\ unexamined' = [unexamined EXCEPT ![Top] = @ \ {a}, ![a[2]] = ArcsFrom(a[2])]
      BY <2>3, TopVisited, ArcsArePairs DEF IInv, VisitNode, Examine
    <3> SUFFICES ASSUME NEW n \in start, NEW m \in visited \cup {a[2]},
                        NEW b \in ArcsFrom(m),
                        Selected(b), b[2] = n, b \notin unexamined'[m]
                 PROVE  \E c \in found : n \in NodesOf(c)
      BY <1>0, <3>0 DEF ReturnsFound, ArcsFrom, Selected
    <3>1. m # a[2]
      BY <3>0 DEF IInv, TypeOK
    <3>2. b # a
      BY <3>0 DEF IInv, VisitsFromStart
    <3>3. m \in visited /\ b \notin unexamined[m]
      BY <3>0, <3>1, <3>2 DEF IInv, TypeOK
    <3> QED BY <3>3 DEF ReturnsFound
  <2> QED BY <2>1, <2>2, <2>3 DEF DetectStep
<1>5. Settled'
  BY <1>0, SameGraph DEF Settled
<1> QED BY <1>1, <1>2, <1>3, <1>4, <1>5

\* When a search is over, its start node is on a cycle that was found, or on
\* none: were it on one, the last edge of that cycle would lead back to it
\* from a visited node.
LEMMA StartSettled ==
  ASSUME CInv, Done, NEW n \in start, OnCycle(n)
  PROVE  \E c \in found : n \in NodesOf(c)
<1> USE DEF CInv
<1>1. \A m \in Nodes : unexamined[m] = {}
  BY DEF IInv, TypeOK, Done
<1>2. \A m \in visited : \A a \in ArcsFrom(m) : Selected(a) => a[2] \in visited
  BY <1>1 DEF IInv, TypeOK, ExaminedLeadsToVisited
<1> DEFINE S == visited \ {n}
<1>3. PICK m \in visited : \E a \in ArcsFrom(m) : Selected(a) /\ a[2] = n
  <2> SUFFICES ASSUME \A m \in visited : \A a \in ArcsFrom(m) : Selected(a) => a[2] # n
               PROVE  FALSE
    OBVIOUS
  <2>1. S \in SUBSET Nodes /\ n \in visited
    BY DEF IInv, TypeOK, VisitsFromStart
  <2>2. \A a \in graph.arcs : a[1] = n /\ Selected(a) => a[2] \in S
    BY <1>2, <2>1 DEF ArcsFrom
  <2>3. Closed(S)
    BY <1>2 DEF Closed, ArcsFrom
  <2> HIDE DEF S
  <2>4. n \in S
    BY <2>1, <2>2, <2>3 DEF OnCycle, ReachesFrom
  <2> QED BY <2>4 DEF S
<1>4. m \in Nodes
  BY DEF IInv, TypeOK
<1> QED BY <1>1, <1>3, <1>4 DEF ReturnsFound

\* The end of a search settles its start node and the nodes it marks.
LEMMA EndSearchInv ==
  ASSUME CInv, EndSearch
  PROVE  CInv'
<1> USE DEF CInv
<1>0. /\ Done /\ marked' = Marks /\ cycles' = cycles \cup found /\ found' = {}
      /\ start' = {} /\ visited' = {} /\ parent' = {}
      /\ UNCHANGED <<graph, visitStack, unexamined, remaining>>
  BY DEF EndSearch
<1>1. IInv'
  <2>1. TypeOK'
    BY <1>0 DEF IInv, TypeOK, ArcsFrom
  <2> QED BY <1>0, <2>1 DEF Done, IInv, StackIsPath, OneParent, ExaminedLeadsToVisited,
                            VisitsFromStart, VisitsOnlyReachable
<1>2. OneSearch'
  BY <1>0 DEF OneSearch
<1>3. LoopsAreCycles'
  BY <1>0, SameGraph DEF LoopsAreCycles
<1>4. ReturnsFound'
  BY <1>0 DEF ReturnsFound
<1>5. Settled'
  <2> SUFFICES ASSUME NEW n \in marked' \cup (Nodes \ remaining), OnCycle(n)
               PROVE  \E c \in cycles' : n \in NodesOf(c)
    BY <1>0, SameGraph DEF Settled
  <2>1. CASE \E c \in found : n \in NodesOf(c)
    BY <1>0, <2>1
  <2>2. CASE ~\E c \in found : n \in NodesOf(c)
    <3>1. n \in marked \cup (Nodes \ remaining)
      BY <1>0, <2>2 DEF Marks, NodesOf
    <3>2. n \notin start
      BY <1>0, <2>2, StartSettled
    <3> QED BY <1>0, <3>1, <3>2 DEF Settled
  <2> QED BY <2>1, <2>2
<1> QED BY <1>1, <1>2, <1>3, <1>4, <1>5

\* A stuttering step changes nothing.
LEMMA CycleStutterInv ==
  ASSUME CInv, UNCHANGED cvars
  PROVE  CInv'
<1>1. IInv'
  BY StutterInv DEF CInv, cvars, vars
<1> QED BY <1>1, SameGraph DEF CInv, cvars, OneSearch, LoopsAreCycles, ReturnsFound,
                              Settled, ArcsFrom, Selected

\* The inductive invariant of detectCycles.
THEOREM DetectionInvariant == CycleSpec => []CInv
<1>1. CInv /\ [CycleNext]_cvars => CInv'
  BY PassOverInv, StartSearchInv, DetectSeenInv, DetectStepInv, EndSearchInv,
     CycleStutterInv DEF CycleNext
<1> QED BY <1>1, CycleInitInv, PTL DEF CycleSpec

\* Every loop that is found or reported is a simple cycle of selected edges,
\* listed from its lowest ID: on every graph.
THEOREM LoopsCorrect == CycleSpec => []LoopsAreCycles
<1>1. CInv => LoopsAreCycles
  BY DEF CInv
<1> QED BY <1>1, DetectionInvariant, PTL

\* Every node on a loop is on a reported one: on every graph, although nodes
\* of known cycles are not searched from.
THEOREM LoopsComplete == CycleSpec => []NoLoopEscapes
<1>1. CInv => NoLoopEscapes
  BY DEF CInv, Settled, NoLoopEscapes, Detected, NodesOf
<1> QED BY <1>1, DetectionInvariant, PTL
=============================================================================
