------------------------ MODULE DirectedGraphProofs ------------------------
(***************************************************************************)
(* Proofs about DirectedGraph: for any number of nodes, threads and calls, *)
(* and any threshold, both edge lists agree whatever is added concurrently *)
(* and removed between, the index is exact, addEdge makes no parallel      *)
(* edge, and requests without a cycle cannot deadlock.                     *)
(***************************************************************************)
EXTENDS DirectedGraph, SequenceTheorems, SetInduction

\* A thread between its two critical sections.
Linking(t) == pc[t] \in {"linkIn", "linkNew"}

\* A mutex is held across two actions by a thread that waits for the other,
\* and that thread holds the mutex of its source.
LocksHeld ==
  /\ \A n \in Nodes : ~Free(n) => /\ pc[edgeMutex[n]] = "linkIn"
                                  /\ edge[edgeMutex[n]].source = n
  /\ \A t \in Threads : pc[t] = "linkIn" => edgeMutex[edge[t].source] = t

\* A thread works on what it was asked for.
Asked ==
  \A t \in Threads :
    /\ pc[t] \in {"addEdge", "linkIn"} =>
         [fn |-> "addEdge", source |-> edge[t].source, target |-> edge[t].target]
           \in Requests[t]
    /\ pc[t] \in {"addNewEdge", "linkNew"} =>
         [fn |-> "addNewEdge", source |-> edge[t].source, target |-> edge[t].target]
           \in Requests[t]

\* Nothing is added while a node is removed.
RemovalAlone == clearing # {} => Quiescent

\* Out-edges are in the order of their creation, and so are the in-edges
\* that come from one node.
Ordered ==
  /\ \A n \in Nodes : \A i, j \in DOMAIN outEdges[n] :
       i < j => outEdges[n][i].id < outEdges[n][j].id
  /\ \A n \in Nodes : \A i, j \in DOMAIN inEdges[n] :
       i < j /\ inEdges[n][i].source = inEdges[n][j].source =>
         inEdges[n][i].id < inEdges[n][j].id
  /\ \A n \in Nodes : \A e \in Elements(outEdges[n]) : e.id <= created

\* An edge that is still to be linked is younger than those its target
\* already has from the same source, and there is one such edge at a time.
LinkedInOrder ==
  /\ \A t \in Threads : Linking(t) =>
       /\ edge[t].source # edge[t].target
       /\ edge[t] \in Elements(outEdges[edge[t].source])
       /\ \A e \in Elements(inEdges[edge[t].target]) :
            e.source = edge[t].source => e.id < edge[t].id
  /\ \A t, u \in Threads :
       /\ Linking(t) /\ Linking(u)
       /\ edge[t].source = edge[u].source
       /\ edge[t].target = edge[u].target
       => t = u

IInv ==
  /\ TypeOK
  /\ LocksHeld
  /\ Asked
  /\ RemovalAlone
  /\ Ordered
  /\ LinkedInOrder
  /\ NoDanglingInEdge
  /\ EveryEdgeLinked
  /\ IndexIsFirst
-----------------------------------------------------------------------------
(***************************************************************************)
(* Lists of edges.                                                         *)
(***************************************************************************)
\* A list with one more element at its end.
LEMMA AppendList ==
  ASSUME NEW S, NEW s \in Seq(S), NEW e \in S
  PROVE  /\ Append(s, e) \in Seq(S)
         /\ DOMAIN s = 1 .. Len(s) /\ Len(s) \in Nat
         /\ DOMAIN Append(s, e) = 1 .. Len(s) + 1
         /\ \A i \in 1 .. Len(s) : Append(s, e)[i] = s[i]
         /\ Append(s, e)[Len(s) + 1] = e
         /\ Elements(Append(s, e)) = Elements(s) \cup {e}
<1>1. /\ Append(s, e) \in Seq(S)
      /\ DOMAIN s = 1 .. Len(s) /\ Len(s) \in Nat
      /\ DOMAIN Append(s, e) = 1 .. Len(s) + 1
      /\ \A i \in 1 .. Len(s) : Append(s, e)[i] = s[i]
      /\ Append(s, e)[Len(s) + 1] = e
  OBVIOUS
<1>2. PICK len \in Nat : len = Len(s)
  BY <1>1
<1>3. 1 .. len + 1 = (1 .. len) \cup {len + 1}
  BY <1>2
<1> QED BY <1>1, <1>2, <1>3 DEF Elements

\* The list r has the elements of s but the one at k, in their order.
IsErasure(r, s, k) ==
  /\ DOMAIN r = 1 .. Len(s) - 1
  /\ \A j \in DOMAIN r : LET i == IF j < k THEN j ELSE j + 1
                         IN i \in DOMAIN s /\ i # k /\ r[j] = s[i]
  /\ \A i \in DOMAIN s : i # k => LET j == IF i < k THEN i ELSE i - 1
                                  IN j \in DOMAIN r /\ r[j] = s[i]

\* This is what vector::erase leaves.
LEMMA EraseList ==
  ASSUME NEW S, NEW s \in Seq(S), NEW k \in DOMAIN s
  PROVE  Erase(s, k) \in Seq(S) /\ IsErasure(Erase(s, k), s, k)
<1>1. PICK len \in Nat \ {0} : len = Len(s) /\ DOMAIN s = 1 .. len /\ k \in 1 .. len
  OBVIOUS
<1> DEFINE r == [j \in 1 .. len - 1 |-> IF j < k THEN s[j] ELSE s[j + 1]]
<1>2. Erase(s, k) = r
  BY <1>1 DEF Erase
<1>3. DOMAIN r = 1 .. len - 1
  OBVIOUS
<1>4. ASSUME NEW j \in 1 .. len - 1
      PROVE  LET i == IF j < k THEN j ELSE j + 1
             IN i \in 1 .. len /\ i # k /\ r[j] = s[i]
  BY <1>1
<1>5. ASSUME NEW i \in (1 .. len) \ {k}
      PROVE  LET j == IF i < k THEN i ELSE i - 1
             IN j \in 1 .. len - 1 /\ r[j] = s[i]
  BY <1>1
<1>6. \A i \in 1 .. len : s[i] \in S
  BY <1>1
<1>7. r \in [1 .. len - 1 -> S]
  BY <1>4, <1>6
<1>8. r \in Seq(S)
  <2>1. len - 1 \in Nat
    BY <1>1
  <2> QED BY <1>7, <2>1
<1> HIDE DEF r
<1>9. IsErasure(r, s, k)
  BY <1>1, <1>3, <1>4, <1>5 DEF IsErasure
<1> QED BY <1>2, <1>8, <1>9

\* Without duplicates, erasing takes away just the one element.
LEMMA EraseElements ==
  ASSUME NEW S, NEW s \in Seq(S), NEW k \in DOMAIN s,
         \A i, j \in DOMAIN s : i # j => s[i] # s[j]
  PROVE  Elements(Erase(s, k)) = Elements(s) \ {s[k]}
<1> DEFINE r == Erase(s, k)
<1>0. IsErasure(r, s, k)
  BY EraseList
<1> HIDE DEF r
<1>1. ASSUME NEW j \in DOMAIN r
      PROVE  r[j] \in Elements(s) \ {s[k]}
  <2>1. PICK i \in DOMAIN s : i # k /\ r[j] = s[i]
    BY <1>0 DEF IsErasure
  <2> QED BY <2>1 DEF Elements
<1>2. ASSUME NEW i \in DOMAIN s, s[i] # s[k]
      PROVE  s[i] \in Elements(r)
  <2>1. PICK j \in DOMAIN r : r[j] = s[i]
    BY <1>0, <1>2 DEF IsErasure
  <2> QED BY <2>1 DEF Elements
<1>3. Elements(r) = Elements(s) \ {s[k]}
  BY <1>1, <1>2 DEF Elements
<1> QED BY <1>3 DEF r
-----------------------------------------------------------------------------
\* Every target has a first edge to it.
LEMMA FirstExists ==
  ASSUME NEW s \in Seq(Edge), NEW e \in Elements(s)
  PROVE  \E k \in DOMAIN s : IsFirstTo(s, k, e.target)
<1> DEFINE T == {k \in DOMAIN s : s[k].target = e.target}
<1>1. T \in SUBSET Nat /\ T # {}
  BY DEF Elements
<1>2. PICK k \in T : \A j \in T : k <= j
  <2> HIDE DEF T
  <2> QED BY <1>1, LeastExists
<1>3. \A j \in DOMAIN s : j \in Nat /\ k \in Nat
  BY <1>1
<1> QED BY <1>2, <1>3 DEF IsFirstTo

\* The index of a list that grows: the new edge is first only to a target
\* that had none.
LEMMA AppendFirsts ==
  ASSUME NEW s \in Seq(Edge), NEW e \in Edge
  PROVE  Firsts(Append(s, e)) = IF \E f \in Elements(s) : f.target = e.target
                                THEN Firsts(s) ELSE Firsts(s) \cup {e}
<1> DEFINE t == Append(s, e)
<1>1. PICK len \in Nat : len = Len(s)
  OBVIOUS
<1>2. /\ DOMAIN s = 1 .. len /\ DOMAIN t = 1 .. len + 1
      /\ \A i \in 1 .. len : t[i] = s[i]
      /\ t[len + 1] = e
  BY <1>1, AppendList
<1> HIDE DEF t
<1>3. \A k \in 1 .. len : \A g : IsFirstTo(t, k, g) <=> IsFirstTo(s, k, g)
  BY <1>2 DEF IsFirstTo
<1>4. IsFirstTo(t, len + 1, e.target) <=> ~\E f \in Elements(s) : f.target = e.target
  BY <1>2 DEF IsFirstTo, Elements
<1>5. Firsts(t) = {t[k] : k \in {j \in 1 .. len + 1 : IsFirstTo(t, j, t[j].target)}}
  BY <1>2 DEF Firsts
<1>6. Firsts(s) = {s[k] : k \in {j \in 1 .. len : IsFirstTo(s, j, s[j].target)}}
  BY <1>2 DEF Firsts
<1>7. \A k \in 1 .. len + 1 : k \in 1 .. len \/ k = len + 1
  BY <1>1
<1>8. \A k \in 1 .. len : k \in 1 .. len + 1
  BY <1>1
<1>9. len + 1 \in 1 .. len + 1
  BY <1>1
<1>10. \A x \in Firsts(s) : x \in Firsts(t)
  BY <1>2, <1>3, <1>5, <1>6, <1>8
<1>11. \A x \in Firsts(t) : x \in Firsts(s) \/ (x = e /\ IsFirstTo(t, len + 1, e.target))
  <2> SUFFICES ASSUME NEW k \in 1 .. len + 1, IsFirstTo(t, k, t[k].target)
               PROVE  \/ t[k] \in Firsts(s)
                      \/ t[k] = e /\ IsFirstTo(t, len + 1, e.target)
    BY <1>5
  <2>1. CASE k \in 1 .. len
    <3>1. t[k] = s[k] /\ IsFirstTo(s, k, s[k].target)
      BY <1>2, <1>3, <2>1
    <3>2. s[k] \in Firsts(s)
      BY <1>6, <2>1, <3>1
    <3> QED BY <3>1, <3>2
  <2>2. CASE k = len + 1
    BY <1>2, <2>2
  <2> QED BY <1>7, <2>1, <2>2
<1>12. IsFirstTo(t, len + 1, e.target) => e \in Firsts(t)
  BY <1>2, <1>5, <1>9
<1> QED BY <1>4, <1>10, <1>11, <1>12 DEF t

\* The index of a list that shrinks: only the entry of the erased edge's
\* target can change, and goes to the survivor.
LEMMA EraseFirsts ==
  ASSUME NEW s \in Seq(Edge), NEW target, NEW k \in FindEdgeTo(s, target),
         NEW r, r = Erase(s, k)
  PROVE  Firsts(r) = {f \in Firsts(s) : f.target # target}
                       \cup {r[j] : j \in FindEdgeTo(r, target)}
<1>1. k \in DOMAIN s /\ s[k].target = target
  BY DEF FindEdgeTo, IsFirstTo
<1>2. PICK len \in Nat \ {0} : len = Len(s) /\ DOMAIN s = 1 .. len /\ k \in 1 .. len
  BY <1>1
<1>e. IsErasure(r, s, k)
  BY <1>1, EraseList
<1>3. DOMAIN r = 1 .. len - 1
  BY <1>2, <1>e DEF IsErasure
<1>4. ASSUME NEW i \in 1 .. len, i # k
      PROVE  LET j == IF i < k THEN i ELSE i - 1
             IN j \in 1 .. len - 1 /\ r[j] = s[i]
  BY <1>2, <1>3, <1>4, <1>e DEF IsErasure
<1>5. ASSUME NEW j \in 1 .. len - 1
      PROVE  LET i == IF j < k THEN j ELSE j + 1
             IN i \in 1 .. len /\ i # k /\ r[j] = s[i]
  BY <1>2, <1>3, <1>e DEF IsErasure
<1>6. ASSUME NEW j \in 1 .. len - 1, IsFirstTo(r, j, r[j].target), r[j].target # target
      PROVE  r[j] \in Firsts(s)
  <2> DEFINE i == IF j < k THEN j ELSE j + 1
  <2>1. i \in 1 .. len /\ i # k /\ r[j] = s[i]
    BY <1>5
  <2>2. ASSUME NEW m \in 1 .. len, m < i
        PROVE  s[m].target # r[j].target
    <3>1. CASE m = k
      BY <1>1, <1>6, <3>1
    <3>2. CASE m # k
      <4> DEFINE q == IF m < k THEN m ELSE m - 1
      <4>1. q \in 1 .. len - 1 /\ r[q] = s[m] /\ q < j
        BY <1>2, <1>4, <2>2, <3>2
      <4> HIDE DEF q
      <4> QED BY <1>3, <1>6, <4>1 DEF IsFirstTo
    <3> QED BY <3>1, <3>2
  <2> HIDE DEF i
  <2> QED BY <1>2, <2>1, <2>2 DEF Firsts, IsFirstTo
<1>7. ASSUME NEW i \in 1 .. len, IsFirstTo(s, i, s[i].target), s[i].target # target
      PROVE  s[i] \in Firsts(r)
  <2> DEFINE j == IF i < k THEN i ELSE i - 1
  <2>1. j \in 1 .. len - 1 /\ r[j] = s[i]
    BY <1>1, <1>4, <1>7
  <2>2. ASSUME NEW q \in 1 .. len - 1, q < j
        PROVE  r[q].target # s[i].target
    <3> DEFINE m == IF q < k THEN q ELSE q + 1
    <3>1. m \in 1 .. len /\ r[q] = s[m] /\ m < i
      BY <1>2, <1>5, <2>2
    <3> HIDE DEF m
    <3> QED BY <1>2, <1>7, <3>1 DEF IsFirstTo
  <2> HIDE DEF j
  <2> QED BY <1>3, <2>1, <2>2 DEF Firsts, IsFirstTo
<1>8. \A x \in Firsts(s) : \E i \in 1 .. len : x = s[i] /\ IsFirstTo(s, i, s[i].target)
  BY <1>2 DEF Firsts
<1>9. \A x \in Firsts(r) : \E j \in 1 .. len - 1 : x = r[j] /\ IsFirstTo(r, j, r[j].target)
  BY <1>3 DEF Firsts
<1>10. \A x : x \in {r[j] : j \in FindEdgeTo(r, target)}
                <=> x \in Firsts(r) /\ x.target = target
  BY DEF Firsts, FindEdgeTo, IsFirstTo
<1>11. \A x \in Firsts(r) : x.target # target => x \in Firsts(s)
  BY <1>6, <1>9
<1>12. \A x \in Firsts(s) : x.target # target => x \in Firsts(r)
  BY <1>7, <1>8
<1> QED BY <1>10, <1>11, <1>12
-----------------------------------------------------------------------------
(***************************************************************************)
(* What a step does to the two kinds of list.                              *)
(***************************************************************************)
\* A new edge at the end of its source's list: it is the youngest, and the
\* index stays exact, whether it existed, is built now or is not needed.
LEMMA PushOutEffect ==
  ASSUME IInv, NEW t \in Threads, PushOut(t), NEW e, e = NewEdge(t)
  PROVE  /\ e \in Edge /\ e.source = edge[t].source /\ e.target = edge[t].target
         /\ e.id = created + 1 /\ created' = created + 1
         /\ edge' = [edge EXCEPT ![t] = e]
         /\ outEdges' \in [Nodes -> Seq(Edge)]
         /\ \A n \in Nodes : /\ Elements(outEdges[n]) \subseteq Elements(outEdges'[n])
                             /\ \A f \in Elements(outEdges'[n]) :
                                  f \in Elements(outEdges[n]) \/ (f = e /\ n = e.source)
         /\ e \in Elements(outEdges'[e.source])
         /\ \A n \in Nodes : \A i, j \in DOMAIN outEdges'[n] :
              i < j => outEdges'[n][i].id < outEdges'[n][j].id
         /\ outEdgeIndex' \in [Nodes -> SUBSET Edge]
         /\ indexed' \in [Nodes -> BOOLEAN]
         /\ IndexIsFirst'
<1>0. /\ edge[t] \in Edge /\ created \in Nat
      /\ outEdges \in [Nodes -> Seq(Edge)]
      /\ outEdgeIndex \in [Nodes -> SUBSET Edge] /\ indexed \in [Nodes -> BOOLEAN]
      /\ edge \in [Threads -> Edge]
  BY DEF IInv, TypeOK
<1>1. /\ e \in Edge /\ e.source = edge[t].source /\ e.target = edge[t].target
      /\ e.id = created + 1 /\ created' = created + 1
      /\ edge' = [edge EXCEPT ![t] = e] /\ e.source \in Nodes
  <2>1. e = [source |-> edge[t].source, target |-> edge[t].target, id |-> created + 1]
    BY <1>0 DEF NewEdge, Edge
  <2> QED BY <1>0, <2>1 DEF Edge, PushOut
<1> DEFINE s == e.source
           list == Append(outEdges[s], e)
<1>2. outEdges' = [outEdges EXCEPT ![s] = list]
  BY DEF PushOut
<1>3. outEdges[s] \in Seq(Edge) /\ list \in Seq(Edge)
  BY <1>0, <1>1, AppendList
<1>4. outEdges' \in [Nodes -> Seq(Edge)] /\ outEdges'[s] = list
      /\ \A n \in Nodes \ {s} : outEdges'[n] = outEdges[n]
  BY <1>0, <1>1, <1>2, <1>3
<1>5. Elements(list) = Elements(outEdges[s]) \cup {e}
  BY <1>1, <1>3, AppendList
<1>6. ASSUME NEW i \in DOMAIN list, NEW j \in DOMAIN list, i < j
      PROVE  list[i].id < list[j].id
  <2>1. PICK len \in Nat : len = Len(outEdges[s])
    BY <1>3
  <2>2. /\ DOMAIN outEdges[s] = 1 .. len /\ DOMAIN list = 1 .. len + 1
        /\ \A m \in 1 .. len : list[m] = outEdges[s][m]
        /\ list[len + 1] = e
    BY <1>1, <1>3, <2>1, AppendList
  <2>3. i \in 1 .. len /\ j \in 1 .. len + 1
    BY <1>6, <2>2
  <2>4. CASE j \in 1 .. len
    BY <1>1, <1>6, <2>2, <2>3, <2>4 DEF IInv, Ordered
  <2>5. CASE j = len + 1
    <3>1. outEdges[s][i].id <= created /\ outEdges[s][i].id \in Nat
      <4>1. outEdges[s][i] \in Elements(outEdges[s]) /\ outEdges[s][i] \in Edge
        BY <1>3, <2>2, <2>3 DEF Elements
      <4> QED BY <1>1, <4>1 DEF IInv, Ordered, Edge
    <3> QED BY <1>0, <1>1, <2>2, <2>3, <2>5, <3>1
  <2>6. j \in 1 .. len \/ j = len + 1
    BY <2>1, <2>3
  <2> QED BY <2>4, <2>5, <2>6
<1>7. Firsts(list) = IF \E f \in Elements(outEdges[s]) : f.target = e.target
                     THEN Firsts(outEdges[s]) ELSE Firsts(outEdges[s]) \cup {e}
  <2>1. PICK old \in Seq(Edge) : old = outEdges[s]
    BY <1>3
  <2>2. Firsts(Append(old, e)) = IF \E f \in Elements(old) : f.target = e.target
                                 THEN Firsts(old) ELSE Firsts(old) \cup {e}
    BY <1>1, AppendFirsts
  <2> QED BY <2>1, <2>2
<1>8. Firsts(outEdges[s]) \subseteq Elements(outEdges[s])
      /\ Elements(outEdges[s]) \subseteq Edge
      /\ Firsts(list) \subseteq Edge
  BY <1>1, <1>3, <1>7 DEF Firsts, Elements
<1>9. (\E f \in Elements(outEdges[s]) : f.target = e.target)
        <=> (\E f \in Firsts(outEdges[s]) : f.target = e.target)
  <2>1. ASSUME NEW f \in Elements(outEdges[s]), f.target = e.target
        PROVE  \E g \in Firsts(outEdges[s]) : g.target = e.target
    <3>1. PICK k \in DOMAIN outEdges[s] : IsFirstTo(outEdges[s], k, f.target)
      BY <1>3, FirstExists
    <3>2. outEdges[s][k].target = e.target
      BY <2>1, <3>1 DEF IsFirstTo
    <3>3. outEdges[s][k] \in Firsts(outEdges[s])
      BY <2>1, <3>1, <3>2 DEF Firsts
    <3> QED BY <3>2, <3>3
  <2> QED BY <1>8, <2>1
<1>10. /\ indexed' \in [Nodes -> BOOLEAN]
       /\ \A n \in Nodes \ {s} : indexed'[n] = indexed[n] /\ outEdgeIndex'[n] = outEdgeIndex[n]
       /\ outEdgeIndex'[s] = IF indexed'[s] THEN Firsts(list) ELSE {}
       /\ outEdgeIndex' \in [Nodes -> SUBSET Edge]
  <2> HIDE DEF list
  <2>0. outEdgeIndex[s] = IF indexed[s] THEN Firsts(outEdges[s]) ELSE {}
    BY <1>1 DEF IInv, IndexIsFirst
  <2>i. InsertOutEdgeIndex(s, e)
    BY DEF PushOut
  <2>1. CASE indexed[s]
    <3>1. /\ outEdgeIndex' = [outEdgeIndex EXCEPT ![s] =
               IF \E f \in @ : f.target = e.target THEN @ ELSE @ \cup {e}]
          /\ indexed' = indexed
      BY <2>1, <2>i DEF InsertOutEdgeIndex
    <3>2. outEdgeIndex' = [outEdgeIndex EXCEPT ![s] = Firsts(list)]
      <4>1. outEdgeIndex[s] = Firsts(outEdges[s])
        BY <2>0, <2>1
      <4>2. Firsts(list) = IF \E f \in outEdgeIndex[s] : f.target = e.target
                           THEN outEdgeIndex[s] ELSE outEdgeIndex[s] \cup {e}
        BY <1>7, <1>9, <4>1
      <4> QED BY <3>1, <4>2
    <3> QED BY <1>0, <1>1, <1>8, <2>1, <3>1, <3>2
  <2>2. CASE ~indexed[s]
    <3>1. /\ indexed' = [indexed EXCEPT ![s] = Len(list) > Threshold]
          /\ outEdgeIndex' = [outEdgeIndex EXCEPT ![s] =
               IF Len(list) > Threshold THEN Firsts(list) ELSE @]
      BY <2>2, <2>i DEF InsertOutEdgeIndex, list
    <3>2. (Len(list) > Threshold) \in BOOLEAN
      BY <1>3, DirectedGraphAssumption
    <3> QED BY <1>0, <1>1, <1>8, <2>0, <2>2, <3>1, <3>2
  <2> QED BY <2>1, <2>2
<1>11. IndexIsFirst'
  <2> HIDE DEF list
  <2> QED BY <1>4, <1>10 DEF IInv, IndexIsFirst
<1> HIDE DEF list
<1>12. ASSUME NEW n \in Nodes, NEW i \in DOMAIN outEdges'[n], NEW j \in DOMAIN outEdges'[n],
              i < j
       PROVE  outEdges'[n][i].id < outEdges'[n][j].id
  BY <1>4, <1>6, <1>12 DEF IInv, Ordered
<1>13. /\ \A n \in Nodes : /\ Elements(outEdges[n]) \subseteq Elements(outEdges'[n])
                           /\ \A f \in Elements(outEdges'[n]) :
                                f \in Elements(outEdges[n]) \/ (f = e /\ n = e.source)
       /\ e \in Elements(outEdges'[e.source])
  BY <1>4, <1>5
<1> QED BY <1>1, <1>4, <1>10, <1>11, <1>12, <1>13

\* An edge at the end of its target's list, younger than those from the same
\* source.
LEMMA PushInEffect ==
  ASSUME IInv, NEW e \in Edge, PushIn(e),
         \A f \in Elements(inEdges[e.target]) : f.source = e.source => f.id < e.id
  PROVE  /\ inEdges' \in [Nodes -> Seq(Edge)]
         /\ \A n \in Nodes : /\ Elements(inEdges[n]) \subseteq Elements(inEdges'[n])
                             /\ \A f \in Elements(inEdges'[n]) :
                                  f \in Elements(inEdges[n]) \/ (f = e /\ n = e.target)
         /\ e \in Elements(inEdges'[e.target])
         /\ \A n \in Nodes : \A i, j \in DOMAIN inEdges'[n] :
              i < j /\ inEdges'[n][i].source = inEdges'[n][j].source =>
                inEdges'[n][i].id < inEdges'[n][j].id
<1> DEFINE s == e.target
           list == Append(inEdges[s], e)
<1>1. s \in Nodes /\ inEdges[s] \in Seq(Edge) /\ list \in Seq(Edge)
  BY AppendList DEF Edge, IInv, TypeOK
<1>2. inEdges' = [inEdges EXCEPT ![s] = list]
  BY DEF PushIn
<1>3. inEdges' \in [Nodes -> Seq(Edge)] /\ inEdges'[s] = list
      /\ \A n \in Nodes \ {s} : inEdges'[n] = inEdges[n]
  BY <1>1, <1>2 DEF IInv, TypeOK
<1>4. Elements(list) = Elements(inEdges[s]) \cup {e}
  BY <1>1, AppendList
<1>5. ASSUME NEW i \in DOMAIN list, NEW j \in DOMAIN list, i < j,
             list[i].source = list[j].source
      PROVE  list[i].id < list[j].id
  <2>1. PICK len \in Nat : len = Len(inEdges[s])
    BY <1>1
  <2>2. /\ DOMAIN inEdges[s] = 1 .. len /\ DOMAIN list = 1 .. len + 1
        /\ \A m \in 1 .. len : list[m] = inEdges[s][m]
        /\ list[len + 1] = e
    BY <1>1, <2>1, AppendList
  <2>3. i \in 1 .. len /\ j \in 1 .. len + 1
    BY <1>5, <2>2
  <2>4. CASE j \in 1 .. len
    BY <1>1, <1>5, <2>2, <2>3, <2>4 DEF IInv, Ordered
  <2>5. CASE j = len + 1
    <3>1. list[i] \in Elements(inEdges[s])
      BY <2>2, <2>3 DEF Elements
    <3> QED BY <1>5, <2>2, <2>5, <3>1
  <2>6. j \in 1 .. len \/ j = len + 1
    BY <2>1, <2>3
  <2> QED BY <2>4, <2>5, <2>6
<1> HIDE DEF list
<1> QED BY <1>3, <1>4, <1>5 DEF IInv, Ordered

\* The entries of a list of edges.
LEMMA ListTypes ==
  ASSUME NEW s \in Seq(Edge)
  PROVE  /\ \A i \in DOMAIN s : i \in Nat /\ s[i] \in Edge /\ s[i].id \in Nat
         /\ \A e \in Elements(s) :
              e \in Edge /\ e.source \in Nodes /\ e.target \in Nodes /\ e.id \in Nat
<1>1. \A i \in DOMAIN s : i \in Nat /\ s[i] \in Edge
  OBVIOUS
<1>2. \A e \in Edge : e.source \in Nodes /\ e.target \in Nodes /\ e.id \in Nat
  BY DEF Edge
<1> QED BY <1>1, <1>2 DEF Elements

\* No two entries of a list are the same edge.
LEMMA NoDuplicates ==
  ASSUME IInv, NEW n \in Nodes
  PROVE  /\ \A i, j \in DOMAIN outEdges[n] : i # j => outEdges[n][i] # outEdges[n][j]
         /\ \A i, j \in DOMAIN inEdges[n] : i # j => inEdges[n][i] # inEdges[n][j]
<1>1. /\ outEdges[n] \in Seq(Edge) /\ inEdges[n] \in Seq(Edge)
      /\ \A i \in DOMAIN outEdges[n] : i \in Nat /\ outEdges[n][i].id \in Nat
      /\ \A i \in DOMAIN inEdges[n] : i \in Nat /\ inEdges[n][i].id \in Nat
  <2>1. outEdges[n] \in Seq(Edge) /\ inEdges[n] \in Seq(Edge)
    BY DEF IInv, TypeOK
  <2> QED BY <2>1, ListTypes
<1>2. ASSUME NEW i \in DOMAIN outEdges[n], NEW j \in DOMAIN outEdges[n], i # j
      PROVE  outEdges[n][i] # outEdges[n][j]
  <2>1. i < j \/ j < i
    BY <1>1, <1>2
  <2>2. \/ outEdges[n][i].id < outEdges[n][j].id
        \/ outEdges[n][j].id < outEdges[n][i].id
    BY <2>1 DEF IInv, Ordered
  <2> QED BY <1>1, <2>2
<1>3. ASSUME NEW i \in DOMAIN inEdges[n], NEW j \in DOMAIN inEdges[n], i # j,
             inEdges[n][i] = inEdges[n][j]
      PROVE  FALSE
  <2>1. i < j \/ j < i
    BY <1>1, <1>3
  <2>2. \/ inEdges[n][i].id < inEdges[n][j].id
        \/ inEdges[n][j].id < inEdges[n][i].id
    BY <1>3, <2>1 DEF IInv, Ordered
  <2> QED BY <1>1, <1>3, <2>2
<1> QED BY <1>2, <1>3

\* When no edge is being added, the first out-edge to a node is the first
\* in-edge it has from there: the two lists have the parallel edges of a pair
\* in the same order.
LEMMA FirstsMatch ==
  ASSUME IInv, Quiescent, NEW source \in Nodes, NEW target \in Nodes,
         NEW k \in FindEdgeTo(outEdges[source], target)
  PROVE  \E m \in DOMAIN inEdges[target] :
           /\ FindEdgeFrom(inEdges[target], source) = {m}
           /\ inEdges[target][m] = outEdges[source][k]
<1> DEFINE out == outEdges[source]
           in == inEdges[target]
           e == out[k]
<1>1. /\ out \in Seq(Edge) /\ in \in Seq(Edge)
      /\ \A i \in DOMAIN out : i \in Nat /\ out[i].id \in Nat
      /\ \A i \in DOMAIN in : i \in Nat /\ in[i].id \in Nat
  <2>1. out \in Seq(Edge) /\ in \in Seq(Edge)
    BY DEF IInv, TypeOK
  <2> QED BY <2>1, ListTypes
<1>2. /\ k \in DOMAIN out /\ e.target = target /\ e \in Elements(out) /\ e.source = source
      /\ \A i \in DOMAIN out : i < k => out[i].target # target
  BY DEF FindEdgeTo, IsFirstTo, Elements, IInv, TypeOK
<1>3. Unlinked = {}
  BY DEF Unlinked, Quiescent
<1>4. PICK m \in DOMAIN in : in[m] = e
  BY <1>2, <1>3 DEF IInv, EveryEdgeLinked, Elements
<1>5. ASSUME NEW j \in DOMAIN in, j < m
      PROVE  in[j].source # source
  <2> SUFFICES ASSUME in[j].source = source PROVE FALSE
    OBVIOUS
  <2>1. in[j].id < e.id
    BY <1>2, <1>4, <1>5 DEF IInv, Ordered
  <2>2. in[j] \in Elements(in)
    BY DEF Elements
  <2>3. in[j] \in Elements(out) /\ in[j].target = target
    BY <2>2 DEF IInv, NoDanglingInEdge, TypeOK
  <2>4. PICK i \in DOMAIN out : out[i] = in[j]
    BY <2>3 DEF Elements
  <2>5. ~(i < k)
    BY <1>2, <2>3, <2>4
  <2>6. k < i => e.id < in[j].id
    BY <1>2, <2>4 DEF IInv, Ordered
  <2>7. i = k \/ k < i
    BY <1>1, <1>2, <2>5
  <2> QED BY <1>1, <1>2, <2>1, <2>4, <2>6, <2>7
<1>6. m \in FindEdgeFrom(in, source)
  BY <1>2, <1>4, <1>5 DEF FindEdgeFrom, IsFirstFrom
<1>7. ASSUME NEW j \in FindEdgeFrom(in, source)
      PROVE  j = m
  <2>1. /\ j \in DOMAIN in /\ in[j].source = source
        /\ \A i \in DOMAIN in : i < j => in[i].source # source
    BY DEF FindEdgeFrom, IsFirstFrom
  <2>2. ~(j < m) /\ ~(m < j)
    BY <1>2, <1>4, <1>5, <2>1
  <2> QED BY <1>1, <2>1, <2>2
<1> QED BY <1>4, <1>6, <1>7

\* An edge leaves both lists at once, and no other edge does.
LEMMA RemovalEffect ==
  ASSUME IInv, Quiescent, NEW source \in Nodes, NEW target \in Nodes,
         NEW k \in FindEdgeTo(outEdges[source], target),
         RemoveInEdge(source, target),
         outEdges' = [outEdges EXCEPT ![source] = Erase(outEdges[source], k)],
         UNCHANGED <<pc, edge, created>>
  PROVE  /\ outEdges' \in [Nodes -> Seq(Edge)]
         /\ inEdges' \in [Nodes -> Seq(Edge)]
         /\ \A n \in Nodes : /\ \A e \in Elements(outEdges'[n]) : e.source = n
                             /\ \A e \in Elements(inEdges'[n]) : e.target = n
         /\ Ordered'
         /\ NoDanglingInEdge'
         /\ EveryEdgeLinked'
<1>1. PICK m \in DOMAIN inEdges[target] :
        /\ FindEdgeFrom(inEdges[target], source) = {m}
        /\ inEdges[target][m] = outEdges[source][k]
  BY FirstsMatch
<1>2. inEdges' = [inEdges EXCEPT ![target] = Erase(inEdges[target], m)]
  BY <1>1 DEF RemoveInEdge
<1> DEFINE e == outEdges[source][k]
           out == Erase(outEdges[source], k)
           in == Erase(inEdges[target], m)
<1>3. /\ k \in DOMAIN outEdges[source] /\ e.target = target
      /\ outEdges \in [Nodes -> Seq(Edge)] /\ inEdges \in [Nodes -> Seq(Edge)]
  BY DEF FindEdgeTo, IsFirstTo, IInv, TypeOK
<1>4. /\ out \in Seq(Edge) /\ IsErasure(out, outEdges[source], k)
      /\ in \in Seq(Edge) /\ IsErasure(in, inEdges[target], m)
  BY <1>3, EraseList
<1>5. /\ Elements(out) = Elements(outEdges[source]) \ {e}
      /\ Elements(in) = Elements(inEdges[target]) \ {e}
  <2>1. outEdges[source] \in Seq(Edge) /\ inEdges[target] \in Seq(Edge)
    BY <1>3
  <2>2. Elements(out) = Elements(outEdges[source]) \ {e}
    BY <1>3, <2>1, EraseElements, NoDuplicates
  <2>3. Elements(in) = Elements(inEdges[target]) \ {inEdges[target][m]}
    BY <2>1, EraseElements, NoDuplicates
  <2> QED BY <1>1, <2>2, <2>3
<1>6. /\ outEdges' \in [Nodes -> Seq(Edge)] /\ outEdges'[source] = out
      /\ \A n \in Nodes \ {source} : outEdges'[n] = outEdges[n]
      /\ inEdges' \in [Nodes -> Seq(Edge)] /\ inEdges'[target] = in
      /\ \A n \in Nodes \ {target} : inEdges'[n] = inEdges[n]
  BY <1>2, <1>3, <1>4
<1>7. e \in Elements(outEdges[source]) /\ e.source = source
  BY <1>3 DEF Elements, IInv, TypeOK
<1> HIDE DEF e, out, in
<1>8. \A n \in Nodes : /\ Elements(outEdges'[n]) = Elements(outEdges[n]) \ {e}
                       /\ Elements(inEdges'[n]) = Elements(inEdges[n]) \ {e}
  <2>1. \A n \in Nodes \ {source} : e \notin Elements(outEdges[n])
    BY <1>7 DEF IInv, TypeOK
  <2>2. \A n \in Nodes \ {target} : e \notin Elements(inEdges[n])
    BY <1>3 DEF IInv, TypeOK
  <2>3. ASSUME NEW n \in Nodes
        PROVE  Elements(outEdges'[n]) = Elements(outEdges[n]) \ {e}
    BY <1>5, <1>6, <2>1
  <2>4. ASSUME NEW n \in Nodes
        PROVE  Elements(inEdges'[n]) = Elements(inEdges[n]) \ {e}
    <3>1. CASE n = target
      BY <1>5, <1>6, <3>1
    <3>2. CASE n # target
      BY <1>6, <2>2, <3>2
    <3> QED BY <3>1, <3>2
  <2> QED BY <2>3, <2>4
<1>9. \A i, j \in DOMAIN out : i < j => out[i].id < out[j].id
  <2> SUFFICES ASSUME NEW i \in DOMAIN out, NEW j \in DOMAIN out, i < j
               PROVE  out[i].id < out[j].id
    OBVIOUS
  <2>1. PICK p \in DOMAIN outEdges[source], q \in DOMAIN outEdges[source] :
          p < q /\ out[i] = outEdges[source][p] /\ out[j] = outEdges[source][q]
    <3>1. i \in Nat /\ j \in Nat /\ k \in Nat
      BY <1>3, <1>4
    <3> DEFINE p == IF i < k THEN i ELSE i + 1
               q == IF j < k THEN j ELSE j + 1
    <3>2. /\ p \in DOMAIN outEdges[source] /\ out[i] = outEdges[source][p]
          /\ q \in DOMAIN outEdges[source] /\ out[j] = outEdges[source][q]
      BY <1>4 DEF IsErasure
    <3>3. p < q
      BY <3>1
    <3> QED BY <3>2, <3>3
  <2> QED BY <2>1 DEF IInv, Ordered
<1>10. \A i, j \in DOMAIN in : i < j /\ in[i].source = in[j].source => in[i].id < in[j].id
  <2> SUFFICES ASSUME NEW i \in DOMAIN in, NEW j \in DOMAIN in, i < j,
                      in[i].source = in[j].source
               PROVE  in[i].id < in[j].id
    OBVIOUS
  <2>1. PICK p \in DOMAIN inEdges[target], q \in DOMAIN inEdges[target] :
          p < q /\ in[i] = inEdges[target][p] /\ in[j] = inEdges[target][q]
    <3>1. i \in Nat /\ j \in Nat /\ m \in Nat
      BY <1>3, <1>4
    <3> DEFINE p == IF i < m THEN i ELSE i + 1
               q == IF j < m THEN j ELSE j + 1
    <3>2. /\ p \in DOMAIN inEdges[target] /\ in[i] = inEdges[target][p]
          /\ q \in DOMAIN inEdges[target] /\ in[j] = inEdges[target][q]
      BY <1>4 DEF IsErasure
    <3>3. p < q
      BY <3>1
    <3> QED BY <3>2, <3>3
  <2> QED BY <2>1 DEF IInv, Ordered
<1>11. Ordered'
  <2>1. \A n \in Nodes : \A f \in Elements(outEdges'[n]) : f.id <= created'
    BY <1>8 DEF IInv, Ordered
  <2>2. \A n \in Nodes : \A i, j \in DOMAIN outEdges'[n] :
          i < j => outEdges'[n][i].id < outEdges'[n][j].id
    BY <1>6, <1>9 DEF IInv, Ordered
  <2>3. \A n \in Nodes : \A i, j \in DOMAIN inEdges'[n] :
          i < j /\ inEdges'[n][i].source = inEdges'[n][j].source =>
            inEdges'[n][i].id < inEdges'[n][j].id
    <3> SUFFICES ASSUME NEW n \in Nodes,
                        NEW i \in DOMAIN inEdges'[n], NEW j \in DOMAIN inEdges'[n],
                        i < j, inEdges'[n][i].source = inEdges'[n][j].source
                 PROVE  inEdges'[n][i].id < inEdges'[n][j].id
      OBVIOUS
    <3>1. CASE n = target
      BY <1>6, <1>10, <3>1
    <3>2. CASE n # target
      <4>1. inEdges'[n] = inEdges[n]
        BY <1>6, <3>2
      <4> QED BY <4>1 DEF IInv, Ordered
    <3> QED BY <3>1, <3>2
  <2> QED BY <2>1, <2>2, <2>3 DEF Ordered
<1>12. NoDanglingInEdge'
  <2>1. \A n \in Nodes : \A f \in Elements(inEdges[n]) : f \in Edge /\ f.source \in Nodes
    BY <1>3, ListTypes
  <2> QED BY <1>8, <2>1 DEF IInv, NoDanglingInEdge
<1>13. EveryEdgeLinked'
  <2>1. \A n \in Nodes : \A f \in Elements(outEdges[n]) : f \in Edge /\ f.target \in Nodes
    BY <1>3, ListTypes
  <2> QED BY <1>8, <2>1 DEF IInv, EveryEdgeLinked, Unlinked
<1> QED BY <1>6, <1>8, <1>11, <1>12, <1>13 DEF IInv, TypeOK
-----------------------------------------------------------------------------
(***************************************************************************)
(* The invariant holds at first, and every action keeps it.                *)
(***************************************************************************)
\* The invariant of an empty graph.
LEMMA InitInv == Init => IInv
<1> SUFFICES ASSUME Init PROVE IInv
  OBVIOUS
<1>1. /\ outEdges = [n \in Nodes |-> <<>>]
      /\ inEdges = [n \in Nodes |-> <<>>]
      /\ \A n \in Nodes : DOMAIN outEdges[n] = {} /\ DOMAIN inEdges[n] = {}
      /\ \A n \in Nodes : Elements(outEdges[n]) = {} /\ Elements(inEdges[n]) = {}
  BY DEF Init, Elements
<1>2. \A t \in Threads : pc[t] = "idle" /\ ~Linking(t)
  BY DEF Init, Linking
<1>3. TypeOK
  <2>1. NoEdge \in Edge
    <3>1. (CHOOSE n \in Nodes : TRUE) \in Nodes
      BY DirectedGraphAssumption
    <3> QED BY <3>1 DEF NoEdge, Edge
  <2> QED BY <1>1, <2>1 DEF Init, TypeOK, Control
<1>4. LocksHeld /\ Asked /\ RemovalAlone
  BY <1>2 DEF Init, LocksHeld, Asked, RemovalAlone, Free
<1>5. Ordered /\ LinkedInOrder /\ NoDanglingInEdge /\ EveryEdgeLinked
  BY <1>1, <1>2 DEF Ordered, LinkedInOrder, NoDanglingInEdge, EveryEdgeLinked
<1>6. IndexIsFirst
  BY DEF Init, IndexIsFirst
<1> QED BY <1>3, <1>4, <1>5, <1>6 DEF IInv

\* A step that touches no list keeps what the invariant says of the lists, if
\* the same threads go on linking the same edges.
LEMMA ListsKept ==
  ASSUME IInv, UNCHANGED <<outEdges, inEdges, outEdgeIndex, indexed, created>>,
         \A t \in Threads : Linking(t) <=> Linking(t)',
         \A t \in Threads : Linking(t) => edge'[t] = edge[t]
  PROVE  Ordered' /\ LinkedInOrder' /\ NoDanglingInEdge' /\ EveryEdgeLinked' /\ IndexIsFirst'
<1>1. Ordered' /\ NoDanglingInEdge' /\ IndexIsFirst'
  BY DEF IInv, Ordered, NoDanglingInEdge, IndexIsFirst
<1>2. LinkedInOrder'
  BY DEF IInv, LinkedInOrder
<1>3. Unlinked' = Unlinked
  BY DEF Unlinked, Linking
<1>4. EveryEdgeLinked'
  BY <1>3 DEF IInv, EveryEdgeLinked
<1> QED BY <1>1, <1>2, <1>4

\* A new node.
LEMMA AddNodeInv == ASSUME IInv, NEW n \in Nodes, AddNode(n) PROVE IInv'
<1> USE DEF AddNode
<1>1. TypeOK'
  BY DEF IInv, TypeOK
<1>2. LocksHeld' /\ Asked' /\ RemovalAlone'
  BY DEF IInv, LocksHeld, Asked, RemovalAlone, Quiescent, Free
<1>3. \A t \in Threads : (Linking(t) <=> Linking(t)') /\ edge'[t] = edge[t]
  BY DEF Linking
<1> QED BY <1>1, <1>2, <1>3, ListsKept DEF IInv

\* The removal of a node begins when no edge is being added.
LEMMA RemoveNodeInv == ASSUME IInv, NEW n \in Nodes, RemoveNode(n) PROVE IInv'
<1> USE DEF RemoveNode, store
<1>1. TypeOK'
  BY DEF IInv, TypeOK
<1>2. LocksHeld' /\ Asked' /\ RemovalAlone'
  BY DEF IInv, LocksHeld, Asked, RemovalAlone, Quiescent, Free
<1>3. \A t \in Threads : (Linking(t) <=> Linking(t)') /\ edge'[t] = edge[t]
  BY DEF Linking
<1> QED BY <1>1, <1>2, <1>3, ListsKept DEF IInv

\* A removed node has no edge left, so that nothing it is asked about changes.
LEMMA EraseNodeInv == ASSUME IInv, NEW n \in Nodes, EraseNode(n) PROVE IInv'
<1> USE DEF EraseNode
<1>1. TypeOK'
  BY DEF IInv, TypeOK
<1>2. LocksHeld' /\ Asked' /\ RemovalAlone'
  BY DEF IInv, LocksHeld, Asked, RemovalAlone, Quiescent, Free
<1>3. Ordered' /\ NoDanglingInEdge' /\ LinkedInOrder' /\ EveryEdgeLinked'
  BY DEF IInv, Ordered, NoDanglingInEdge, LinkedInOrder, EveryEdgeLinked, Unlinked, Linking
<1>4. IndexIsFirst'
  BY DEF IInv, TypeOK, IndexIsFirst
<1> QED BY <1>1, <1>2, <1>3, <1>4 DEF IInv

\* A thread is asked for an edge.
LEMMA CallAddInv ==
  ASSUME IInv, NEW t \in Threads, NEW r \in Requests[t], CallAdd(t, r)
  PROVE  IInv'
<1> USE DEF CallAdd, Goto, store
<1>0. /\ r \in Request
      /\ pc \in [Threads -> Control] /\ edge \in [Threads -> Edge]
  BY DirectedGraphAssumption DEF IInv, TypeOK
<1>1. /\ r.fn \in {"addEdge", "addNewEdge"} /\ r.source \in Nodes /\ r.target \in Nodes
      /\ r = [fn |-> r.fn, source |-> r.source, target |-> r.target]
  BY <1>0 DEF Request
<1>2. /\ pc'[t] = r.fn /\ edge'[t] \in Edge
      /\ edge'[t].source = r.source /\ edge'[t].target = r.target
      /\ \A u \in Threads \ {t} : pc'[u] = pc[u] /\ edge'[u] = edge[u]
      /\ pc' \in [Threads -> Control] /\ edge' \in [Threads -> Edge]
  BY <1>0, <1>1 DEF Control, Edge
<1>3. TypeOK'
  <2>1. nodes' \subseteq Nodes /\ calls' \in Nat
    BY DEF IInv, TypeOK
  <2> QED BY <1>2, <2>1 DEF IInv, TypeOK
<1>4. pc[t] = "idle" /\ ~Linking(t) /\ ~Linking(t)'
  BY <1>1, <1>2 DEF Linking
<1>5. LocksHeld'
  <2>1. \A n \in Nodes : ~Free(n) => edgeMutex[n] \in Threads
    BY DEF Free, IInv, TypeOK
  <2> QED BY <1>1, <1>2, <1>4, <2>1 DEF IInv, LocksHeld, Free
<1>6. Asked'
  <2>1. ASSUME NEW u \in Threads, u # t,
               pc'[u] \in {"addEdge", "linkIn"}
        PROVE  [fn |-> "addEdge", source |-> edge'[u].source, target |-> edge'[u].target]
                 \in Requests[u]
    BY <1>2, <2>1 DEF IInv, Asked
  <2>2. ASSUME NEW u \in Threads, u # t,
               pc'[u] \in {"addNewEdge", "linkNew"}
        PROVE  [fn |-> "addNewEdge", source |-> edge'[u].source, target |-> edge'[u].target]
                 \in Requests[u]
    BY <1>2, <2>2 DEF IInv, Asked
  <2>3. [fn |-> pc'[t], source |-> edge'[t].source, target |-> edge'[t].target] \in Requests[t]
    BY <1>1, <1>2
  <2> QED BY <1>1, <1>2, <2>1, <2>2, <2>3 DEF Asked
<1>7. RemovalAlone'
  BY DEF RemovalAlone
<1>8. \A u \in Threads : (Linking(u) <=> Linking(u)') /\ (Linking(u) => edge'[u] = edge[u])
  BY <1>2, <1>4 DEF Linking
<1> QED BY <1>3, <1>5, <1>6, <1>7, <1>8, ListsKept DEF IInv

\* Indexed or not, lookupOutEdge finds an edge to the target if there is one.
LEMMA LookupExact ==
  ASSUME IInv, NEW n \in Nodes, NEW target
  PROVE  /\ \A e \in LookupOutEdge(n, target) :
              /\ e \in Elements(outEdges[n]) /\ e \in Edge
              /\ e.source = n /\ e.target = target
         /\ LookupOutEdge(n, target) = {} =>
              \A e \in Elements(outEdges[n]) : e.target # target
<1> DEFINE s == outEdges[n]
           found == {s[k] : k \in FindEdgeTo(s, target)}
<1>1. s \in Seq(Edge) /\ \A e \in Elements(s) : e \in Edge /\ e.source = n
  <2>1. s \in Seq(Edge) /\ \A e \in Elements(s) : e.source = n
    BY DEF IInv, TypeOK
  <2> QED BY <2>1, ListTypes
<1> HIDE DEF s
<1>2. LookupOutEdge(n, target) = found
  <2>1. CASE indexed[n]
    <3>1. LookupOutEdge(n, target) = {e \in Firsts(s) : e.target = target}
      BY <2>1 DEF LookupOutEdge, IInv, IndexIsFirst, s
    <3> QED BY <3>1 DEF Firsts, FindEdgeTo, IsFirstTo
  <2>2. CASE ~indexed[n]
    BY <2>2 DEF LookupOutEdge, s
  <2> QED BY <2>1, <2>2
<1>3. \A e \in found : e \in Elements(s) /\ e.target = target
  BY DEF FindEdgeTo, IsFirstTo, Elements
<1>4. ASSUME NEW e \in Elements(s), e.target = target
      PROVE  found # {}
  <2>1. PICK k \in DOMAIN s : IsFirstTo(s, k, e.target)
    BY <1>1, FirstExists
  <2>2. k \in FindEdgeTo(s, target)
    BY <1>4, <2>1 DEF FindEdgeTo
  <2> QED BY <2>2
<1> HIDE DEF found
<1> QED BY <1>1, <1>2, <1>3, <1>4 DEF s

\* A thread that adds an edge shares the graph with no removal.
LEMMA NoRemoval ==
  ASSUME IInv, NEW t \in Threads, pc[t] # "idle"
  PROVE  clearing = {}
BY DEF IInv, RemovalAlone, Quiescent

\* addEdge returns an edge that exists.
LEMMA AddEdgeFoundInv == ASSUME IInv, NEW t \in Threads, AddEdgeFound(t) PROVE IInv'
<1> USE DEF AddEdgeFound, Goto, store
<1>0. pc \in [Threads -> Control] /\ edge \in [Threads -> Edge] /\ edge[t].source \in Nodes
  BY DEF IInv, TypeOK, Edge
<1>1. PICK e \in LookupOutEdge(edge[t].source, edge[t].target) : edge' = [edge EXCEPT ![t] = e]
  OBVIOUS
<1>2. e \in Edge
  BY <1>0, LookupExact
<1>3. /\ pc[t] = "addEdge" /\ pc'[t] = "idle"
      /\ \A u \in Threads \ {t} : pc'[u] = pc[u] /\ edge'[u] = edge[u]
      /\ pc' \in [Threads -> Control] /\ edge' \in [Threads -> Edge]
  BY <1>0, <1>1, <1>2 DEF Control
<1>4. TypeOK'
  BY <1>3 DEF IInv, TypeOK
<1>5. LocksHeld'
  <2>1. \A n \in Nodes : ~Free(n) => edgeMutex[n] \in Threads
    BY DEF Free, IInv, TypeOK
  <2> QED BY <1>3, <2>1 DEF IInv, LocksHeld, Free
<1>6. Asked'
  BY <1>3 DEF IInv, Asked
<1>7. RemovalAlone'
  BY <1>3, NoRemoval DEF RemovalAlone
<1>8. \A u \in Threads : (Linking(u) <=> Linking(u)') /\ (Linking(u) => edge'[u] = edge[u])
  BY <1>3 DEF Linking
<1> QED BY <1>4, <1>5, <1>6, <1>7, <1>8, ListsKept DEF IInv

\* A new self-edge enters both lists at once.
LEMMA SelfEdgeLists ==
  ASSUME IInv, NEW t \in Threads, ~Linking(t), PushOut(t), PushIn(NewEdge(t)),
         edge[t].source = edge[t].target, ~Linking(t)',
         \A u \in Threads \ {t} : pc'[u] = pc[u]
  PROVE  /\ inEdges' \in [Nodes -> Seq(Edge)]
         /\ \A n \in Nodes : /\ \A e \in Elements(outEdges'[n]) : e.source = n
                             /\ \A e \in Elements(inEdges'[n]) : e.target = n
         /\ Ordered' /\ LinkedInOrder' /\ NoDanglingInEdge' /\ EveryEdgeLinked'
<1>0. PICK e : e = NewEdge(t)
  OBVIOUS
<1>1. /\ e \in Edge /\ e.source = edge[t].source /\ e.target = edge[t].target
      /\ e.id = created + 1 /\ created' = created + 1
      /\ edge' = [edge EXCEPT ![t] = e]
  BY <1>0, PushOutEffect
<1>e. /\ \A n \in Nodes : /\ Elements(outEdges[n]) \subseteq Elements(outEdges'[n])
                          /\ \A f \in Elements(outEdges'[n]) :
                               f \in Elements(outEdges[n]) \/ (f = e /\ n = e.source)
      /\ e \in Elements(outEdges'[e.source])
  BY <1>0, PushOutEffect
<1>o. \A n \in Nodes : \A i, j \in DOMAIN outEdges'[n] :
        i < j => outEdges'[n][i].id < outEdges'[n][j].id
  BY <1>0, PushOutEffect
<1>2. created \in Nat /\ e.source \in Nodes /\ e.target \in Nodes
  BY <1>1 DEF IInv, TypeOK, Edge
<1>p. \A n \in Nodes : \A f \in Elements(outEdges[n]) :
        f.source = n /\ f.id \in Nat /\ f.target \in Nodes /\ f.id <= created
  <2>1. \A n \in Nodes : outEdges[n] \in Seq(Edge)
    BY DEF IInv, TypeOK
  <2> QED BY <2>1, ListTypes DEF IInv, TypeOK, Ordered
<1>q. \A n \in Nodes : \A f \in Elements(inEdges[n]) :
        f.source \in Nodes /\ f.target = n /\ f.id \in Nat /\ f \in Elements(outEdges[f.source])
  <2>1. \A n \in Nodes : inEdges[n] \in Seq(Edge)
    BY DEF IInv, TypeOK
  <2> QED BY <2>1, ListTypes DEF IInv, TypeOK, NoDanglingInEdge
<1>3. \A f \in Elements(inEdges[e.target]) : f.source = e.source => f.id < e.id
  BY <1>1, <1>2, <1>p, <1>q
<1>4. PushIn(e)
  BY <1>0
<1>i. /\ \A n \in Nodes : /\ Elements(inEdges[n]) \subseteq Elements(inEdges'[n])
                          /\ \A f \in Elements(inEdges'[n]) :
                               f \in Elements(inEdges[n]) \/ (f = e /\ n = e.target)
      /\ e \in Elements(inEdges'[e.target])
  BY <1>1, <1>3, <1>4, PushInEffect
<1>j. /\ inEdges' \in [Nodes -> Seq(Edge)]
      /\ \A n \in Nodes : \A i, j \in DOMAIN inEdges'[n] :
           i < j /\ inEdges'[n][i].source = inEdges'[n][j].source =>
             inEdges'[n][i].id < inEdges'[n][j].id
  BY <1>1, <1>3, <1>4, PushInEffect
<1>5. Ordered'
  <2>1. \A n \in Nodes : \A f \in Elements(outEdges'[n]) : f.id <= created'
    BY <1>1, <1>2, <1>e, <1>p
  <2> QED BY <1>o, <1>j, <2>1 DEF Ordered
<1>6. /\ \A u \in Threads : Linking(u)' => Linking(u) /\ u # t
      /\ \A u \in Threads \ {t} : edge'[u] = edge[u] /\ (Linking(u) <=> Linking(u)')
  BY <1>1 DEF Linking, IInv, TypeOK
<1>7. LinkedInOrder'
  <2>1. ASSUME NEW u \in Threads, Linking(u)'
        PROVE  /\ edge'[u].source # edge'[u].target
               /\ edge'[u] \in Elements(outEdges'[edge'[u].source])
               /\ \A f \in Elements(inEdges'[edge'[u].target]) :
                    f.source = edge'[u].source => f.id < edge'[u].id
    <3>1. /\ Linking(u) /\ u # t /\ edge'[u] = edge[u]
          /\ edge[u].source \in Nodes /\ edge[u].target \in Nodes
      BY <1>6, <2>1 DEF IInv, TypeOK, Edge
    <3>2. /\ edge[u].source # edge[u].target
          /\ edge[u] \in Elements(outEdges[edge[u].source])
          /\ \A f \in Elements(inEdges[edge[u].target]) :
               f.source = edge[u].source => f.id < edge[u].id
      BY <3>1 DEF IInv, LinkedInOrder
    <3>3. edge[u] \in Elements(outEdges'[edge[u].source])
      BY <1>e, <3>1, <3>2
    <3>4. ASSUME NEW f \in Elements(inEdges'[edge[u].target]), f.source = edge[u].source
          PROVE  f.id < edge[u].id
      <4>1. f \in Elements(inEdges[edge[u].target]) \/ (f = e /\ edge[u].target = e.target)
        BY <1>i, <3>1
      <4> QED BY <1>1, <3>2, <3>4, <4>1
    <3> QED BY <3>1, <3>2, <3>3, <3>4
  <2>2. \A u, v \in Threads : /\ Linking(u)' /\ Linking(v)'
                              /\ edge'[u].source = edge'[v].source
                              /\ edge'[u].target = edge'[v].target
                              => u = v
    BY <1>6 DEF IInv, LinkedInOrder
  <2> QED BY <2>1, <2>2 DEF LinkedInOrder
<1>8. NoDanglingInEdge'
  BY <1>1, <1>2, <1>e, <1>q, <1>i DEF NoDanglingInEdge
<1>9. EveryEdgeLinked'
  <2> SUFFICES ASSUME NEW n \in Nodes, NEW f \in Elements(outEdges'[n])
               PROVE  f \in Elements(inEdges'[f.target]) \/ f \in Unlinked'
    BY DEF EveryEdgeLinked
  <2>1. CASE f = e
    BY <1>2, <1>i, <2>1
  <2>2. CASE f # e
    <3>1. f \in Elements(outEdges[n]) /\ f.target \in Nodes
      BY <1>2, <1>e, <1>p, <2>2
    <3>2. f \in Elements(inEdges[f.target]) \/ f \in Unlinked
      BY <3>1 DEF IInv, EveryEdgeLinked
    <3>3. Unlinked \subseteq Unlinked'
      BY <1>6 DEF Unlinked, Linking
    <3> QED BY <1>i, <3>1, <3>2, <3>3
  <2> QED BY <2>1, <2>2
<1>10. \A n \in Nodes : /\ \A f \in Elements(outEdges'[n]) : f.source = n
                        /\ \A f \in Elements(inEdges'[n]) : f.target = n
  BY <1>2, <1>e, <1>p, <1>q, <1>i
<1> QED BY <1>j, <1>5, <1>7, <1>8, <1>9, <1>10

\* Any other new edge enters its source's list, and its thread goes on to
\* link it: no other thread is linking an edge between the same nodes.
LEMMA NewEdgeLists ==
  ASSUME IInv, NEW t \in Threads, ~Linking(t), PushOut(t), UNCHANGED inEdges,
         edge[t].source # edge[t].target, Linking(t)',
         \A u \in Threads \ {t} : pc'[u] = pc[u],
         \A u \in Threads \ {t} :
           Linking(u) /\ edge[u].source = edge[t].source => edge[u].target # edge[t].target
  PROVE  /\ inEdges' \in [Nodes -> Seq(Edge)]
         /\ \A n \in Nodes : /\ \A e \in Elements(outEdges'[n]) : e.source = n
                             /\ \A e \in Elements(inEdges'[n]) : e.target = n
         /\ Ordered' /\ LinkedInOrder' /\ NoDanglingInEdge' /\ EveryEdgeLinked'
<1>0. PICK e : e = NewEdge(t)
  OBVIOUS
<1>1. /\ e \in Edge /\ e.source = edge[t].source /\ e.target = edge[t].target
      /\ e.id = created + 1 /\ created' = created + 1
      /\ edge' = [edge EXCEPT ![t] = e]
  BY <1>0, PushOutEffect
<1>e. /\ \A n \in Nodes : /\ Elements(outEdges[n]) \subseteq Elements(outEdges'[n])
                          /\ \A f \in Elements(outEdges'[n]) :
                               f \in Elements(outEdges[n]) \/ (f = e /\ n = e.source)
      /\ e \in Elements(outEdges'[e.source])
  BY <1>0, PushOutEffect
<1>o. \A n \in Nodes : \A i, j \in DOMAIN outEdges'[n] :
        i < j => outEdges'[n][i].id < outEdges'[n][j].id
  BY <1>0, PushOutEffect
<1>2. created \in Nat /\ e.source \in Nodes /\ e.target \in Nodes
  BY <1>1 DEF IInv, TypeOK, Edge
<1>p. \A n \in Nodes : \A f \in Elements(outEdges[n]) :
        f.source = n /\ f.id \in Nat /\ f.target \in Nodes /\ f.id <= created
  <2>1. \A n \in Nodes : outEdges[n] \in Seq(Edge)
    BY DEF IInv, TypeOK
  <2> QED BY <2>1, ListTypes DEF IInv, TypeOK, Ordered
<1>q. \A n \in Nodes : \A f \in Elements(inEdges[n]) :
        f.source \in Nodes /\ f.target = n /\ f.id \in Nat /\ f \in Elements(outEdges[f.source])
  <2>1. \A n \in Nodes : inEdges[n] \in Seq(Edge)
    BY DEF IInv, TypeOK
  <2> QED BY <2>1, ListTypes DEF IInv, TypeOK, NoDanglingInEdge
<1>3. edge'[t] = e /\ \A u \in Threads \ {t} : edge'[u] = edge[u] /\ (Linking(u) <=> Linking(u)')
  BY <1>1 DEF Linking, IInv, TypeOK
<1>4. Ordered'
  <2>1. \A n \in Nodes : \A f \in Elements(outEdges'[n]) : f.id <= created'
    BY <1>1, <1>2, <1>e, <1>p
  <2> QED BY <1>o, <2>1 DEF IInv, Ordered
<1>5. LinkedInOrder'
  <2>1. ASSUME NEW u \in Threads, Linking(u)'
        PROVE  /\ edge'[u].source # edge'[u].target
               /\ edge'[u] \in Elements(outEdges'[edge'[u].source])
               /\ \A f \in Elements(inEdges'[edge'[u].target]) :
                    f.source = edge'[u].source => f.id < edge'[u].id
    <3>1. CASE u = t
      <4>1. e \in Elements(outEdges'[e.source])
        BY <1>2, <1>e
      <4>2. \A f \in Elements(inEdges[e.target]) : f.source = e.source => f.id < e.id
        BY <1>1, <1>2, <1>p, <1>q
      <4> QED BY <1>1, <1>3, <3>1, <4>1, <4>2
    <3>2. CASE u # t
      <4>1. Linking(u) /\ edge'[u] = edge[u] /\ edge[u].source \in Nodes
        BY <1>3, <2>1, <3>2 DEF IInv, TypeOK, Edge
      <4> QED BY <1>e, <4>1 DEF IInv, LinkedInOrder
    <3> QED BY <3>1, <3>2
  <2>2. \A u, v \in Threads : /\ Linking(u)' /\ Linking(v)'
                              /\ edge'[u].source = edge'[v].source
                              /\ edge'[u].target = edge'[v].target
                              => u = v
    BY <1>1, <1>3 DEF IInv, LinkedInOrder
  <2> QED BY <2>1, <2>2 DEF LinkedInOrder
<1>6. NoDanglingInEdge'
  BY <1>2, <1>e, <1>q DEF NoDanglingInEdge
<1>7. EveryEdgeLinked'
  <2>1. Unlinked \subseteq Unlinked' /\ e \in Unlinked'
    BY <1>3 DEF Unlinked, Linking
  <2> QED BY <1>e, <2>1 DEF IInv, EveryEdgeLinked
<1>8. \A n \in Nodes : /\ \A f \in Elements(outEdges'[n]) : f.source = n
                       /\ \A f \in Elements(inEdges'[n]) : f.target = n
  BY <1>2, <1>e, <1>p, <1>q
<1> QED BY <1>4, <1>5, <1>6, <1>7, <1>8 DEF IInv, TypeOK

\* addEdge makes an edge: its source had none to the target, not even one that
\* another thread is still linking.
LEMMA AddEdgeCreateInv == ASSUME IInv, NEW t \in Threads, AddEdgeCreate(t) PROVE IInv'
<1> USE DEF Goto
<1>0. /\ pc[t] = "addEdge" /\ Free(edge[t].source) /\ PushOut(t)
      /\ LookupOutEdge(edge[t].source, edge[t].target) = {}
      /\ UNCHANGED <<nodes, calls, clearing>>
  BY DEF AddEdgeCreate
<1>1. /\ pc \in [Threads -> Control] /\ edge \in [Threads -> Edge]
      /\ edge[t].source \in Nodes /\ edge[t].target \in Nodes
      /\ edgeMutex \in [Nodes -> Threads \cup {NoThread}]
      /\ NoThread \notin Threads
  BY DirectedGraphAssumption DEF IInv, TypeOK, Edge
<1>2. PICK e : e = NewEdge(t)
  OBVIOUS
<1>3. /\ e \in Edge /\ e.source = edge[t].source /\ e.target = edge[t].target
      /\ created' = created + 1
      /\ edge' = [edge EXCEPT ![t] = e]
      /\ outEdges' \in [Nodes -> Seq(Edge)]
      /\ outEdgeIndex' \in [Nodes -> SUBSET Edge] /\ indexed' \in [Nodes -> BOOLEAN]
      /\ IndexIsFirst'
  BY <1>0, <1>2, PushOutEffect
<1>4. /\ edge' \in [Threads -> Edge] /\ edge'[t] = e
      /\ \A u \in Threads \ {t} : edge'[u] = edge[u]
  BY <1>1, <1>3
<1>5. clearing' = {}
  BY <1>0, NoRemoval
<1>6. \A u \in Threads : Linking(u) /\ edge[u].source = edge[t].source
                            => edge[u].target # edge[t].target
  <2>1. \A f \in Elements(outEdges[edge[t].source]) : f.target # edge[t].target
    BY <1>0, <1>1, LookupExact
  <2> QED BY <2>1 DEF IInv, LinkedInOrder
<1>7. CASE edge[t].source = edge[t].target
  <2>1. /\ PushIn(NewEdge(t)) /\ pc' = [pc EXCEPT ![t] = "idle"]
        /\ edgeMutex' = edgeMutex
    BY <1>7 DEF AddEdgeCreate
  <2>2. /\ pc' \in [Threads -> Control] /\ pc'[t] = "idle"
        /\ \A u \in Threads \ {t} : pc'[u] = pc[u]
        /\ ~Linking(t) /\ ~Linking(t)'
    BY <1>0, <1>1, <2>1 DEF Control, Linking
  <2>3. /\ inEdges' \in [Nodes -> Seq(Edge)]
        /\ \A n \in Nodes : /\ \A f \in Elements(outEdges'[n]) : f.source = n
                            /\ \A f \in Elements(inEdges'[n]) : f.target = n
        /\ Ordered' /\ LinkedInOrder' /\ NoDanglingInEdge' /\ EveryEdgeLinked'
    BY <1>0, <1>7, <2>1, <2>2, SelfEdgeLists
  <2>4. TypeOK'
    BY <1>0, <1>3, <1>4, <2>1, <2>2, <2>3 DEF IInv, TypeOK
  <2>5. LocksHeld'
    BY <1>0, <1>1, <1>4, <2>1, <2>2 DEF IInv, LocksHeld, Free
  <2>6. Asked'
    BY <1>4, <2>2 DEF IInv, Asked
  <2> QED BY <1>3, <1>5, <2>3, <2>4, <2>5, <2>6 DEF IInv, RemovalAlone
<1>8. CASE edge[t].source # edge[t].target
  <2>1. /\ pc' = [pc EXCEPT ![t] = "linkIn"]
        /\ edgeMutex' = [edgeMutex EXCEPT ![edge[t].source] = t]
        /\ UNCHANGED inEdges
    BY <1>8 DEF AddEdgeCreate
  <2>2. /\ pc' \in [Threads -> Control] /\ pc'[t] = "linkIn"
        /\ \A u \in Threads \ {t} : pc'[u] = pc[u]
        /\ ~Linking(t) /\ Linking(t)'
    BY <1>0, <1>1, <2>1 DEF Control, Linking
  <2>3. /\ inEdges' \in [Nodes -> Seq(Edge)]
        /\ \A n \in Nodes : /\ \A f \in Elements(outEdges'[n]) : f.source = n
                            /\ \A f \in Elements(inEdges'[n]) : f.target = n
        /\ Ordered' /\ LinkedInOrder' /\ NoDanglingInEdge' /\ EveryEdgeLinked'
    BY <1>0, <1>6, <1>8, <2>1, <2>2, NewEdgeLists
  <2>4. /\ edgeMutex' \in [Nodes -> Threads \cup {NoThread}]
        /\ edgeMutex'[edge[t].source] = t
        /\ \A n \in Nodes \ {edge[t].source} : edgeMutex'[n] = edgeMutex[n]
    BY <1>1, <2>1
  <2>5. TypeOK'
    BY <1>0, <1>3, <1>4, <2>2, <2>3, <2>4 DEF IInv, TypeOK
  <2>6. LocksHeld'
    <3>1. ASSUME NEW n \in Nodes, ~Free(n)'
          PROVE  pc'[edgeMutex'[n]] = "linkIn" /\ edge'[edgeMutex'[n]].source = n
      <4>1. CASE n = edge[t].source
        BY <1>3, <1>4, <2>2, <2>4, <4>1
      <4>2. CASE n # edge[t].source
        <5>1. edgeMutex'[n] = edgeMutex[n] /\ ~Free(n) /\ edgeMutex[n] \in Threads
          BY <1>1, <2>4, <3>1, <4>2 DEF Free
        <5>2. pc[edgeMutex[n]] = "linkIn" /\ edge[edgeMutex[n]].source = n
          BY <5>1 DEF IInv, LocksHeld
        <5> QED BY <1>0, <1>4, <2>2, <5>1, <5>2
      <4> QED BY <4>1, <4>2
    <3>2. ASSUME NEW u \in Threads, pc'[u] = "linkIn"
          PROVE  edgeMutex'[edge'[u].source] = u
      <4>1. CASE u = t
        BY <1>3, <1>4, <2>4, <4>1
      <4>2. CASE u # t
        <5>1. /\ pc[u] = "linkIn" /\ edge'[u] = edge[u] /\ edgeMutex[edge[u].source] = u
              /\ edge[u].source \in Nodes
          BY <1>1, <1>4, <2>2, <3>2, <4>2 DEF IInv, LocksHeld, Edge
        <5>2. edge[u].source # edge[t].source
          BY <1>0, <1>1, <5>1 DEF Free
        <5> QED BY <2>4, <5>1, <5>2
      <4> QED BY <4>1, <4>2
    <3> QED BY <3>1, <3>2 DEF LocksHeld
  <2>7. Asked'
    BY <1>0, <1>3, <1>4, <2>2 DEF IInv, Asked
  <2> QED BY <1>3, <1>5, <2>3, <2>5, <2>6, <2>7 DEF IInv, RemovalAlone
<1> QED BY <1>7, <1>8

\* addNewEdge makes an edge, parallel or not: a thread that is linking an edge
\* between the same nodes would hold the source's mutex or be this one.
LEMMA AddNewEdgeInv == ASSUME IInv, NEW t \in Threads, AddNewEdge(t) PROVE IInv'
<1> USE DEF Goto
<1>0. /\ pc[t] = "addNewEdge" /\ Free(edge[t].source) /\ PushOut(t)
      /\ UNCHANGED <<nodes, edgeMutex, calls, clearing>>
  BY DEF AddNewEdge
<1>1. /\ pc \in [Threads -> Control] /\ edge \in [Threads -> Edge]
      /\ edge[t].source \in Nodes /\ edge[t].target \in Nodes
      /\ edgeMutex \in [Nodes -> Threads \cup {NoThread}]
      /\ NoThread \notin Threads
  BY DirectedGraphAssumption DEF IInv, TypeOK, Edge
<1>2. PICK e : e = NewEdge(t)
  OBVIOUS
<1>3. /\ e \in Edge /\ e.source = edge[t].source /\ e.target = edge[t].target
      /\ created' = created + 1
      /\ edge' = [edge EXCEPT ![t] = e]
      /\ outEdges' \in [Nodes -> Seq(Edge)]
      /\ outEdgeIndex' \in [Nodes -> SUBSET Edge] /\ indexed' \in [Nodes -> BOOLEAN]
      /\ IndexIsFirst'
  BY <1>0, <1>2, PushOutEffect
<1>4. /\ edge' \in [Threads -> Edge] /\ edge'[t] = e
      /\ \A u \in Threads \ {t} : edge'[u] = edge[u]
  BY <1>1, <1>3
<1>5. clearing' = {}
  BY <1>0, NoRemoval
<1>6. ASSUME edge[t].source # edge[t].target, NEW u \in Threads, Linking(u), u # t,
             edge[u].source = edge[t].source, edge[u].target = edge[t].target
      PROVE  FALSE
  <2>1. CASE pc[u] = "linkIn"
    BY <1>0, <1>1, <1>6, <2>1 DEF IInv, LocksHeld, Free
  <2>2. CASE pc[u] = "linkNew"
    <3> DEFINE r == [fn |-> "addNewEdge", source |-> edge[t].source, target |-> edge[t].target]
    <3>1. r \in Requests[t] \cap Requests[u]
      BY <1>0, <1>6, <2>2 DEF IInv, Asked
    <3>2. r.fn = "addNewEdge" /\ r.source # r.target
      BY <1>6
    <3> HIDE DEF r
    <3> QED BY <1>6, <3>1, <3>2, ParallelEdgesAssumption
  <2> QED BY <1>6, <2>1, <2>2 DEF Linking
<1>7. CASE edge[t].source = edge[t].target
  <2>1. PushIn(NewEdge(t)) /\ pc' = [pc EXCEPT ![t] = "idle"]
    BY <1>7 DEF AddNewEdge
  <2>2. /\ pc' \in [Threads -> Control] /\ pc'[t] = "idle"
        /\ \A u \in Threads \ {t} : pc'[u] = pc[u]
        /\ ~Linking(t) /\ ~Linking(t)'
    BY <1>0, <1>1, <2>1 DEF Control, Linking
  <2>3. /\ inEdges' \in [Nodes -> Seq(Edge)]
        /\ \A n \in Nodes : /\ \A f \in Elements(outEdges'[n]) : f.source = n
                            /\ \A f \in Elements(inEdges'[n]) : f.target = n
        /\ Ordered' /\ LinkedInOrder' /\ NoDanglingInEdge' /\ EveryEdgeLinked'
    BY <1>0, <1>7, <2>1, <2>2, SelfEdgeLists
  <2>4. TypeOK'
    BY <1>0, <1>3, <1>4, <2>2, <2>3 DEF IInv, TypeOK
  <2>5. LocksHeld'
    BY <1>0, <1>1, <1>4, <2>2 DEF IInv, LocksHeld, Free
  <2>6. Asked'
    BY <1>4, <2>2 DEF IInv, Asked
  <2> QED BY <1>3, <1>5, <2>3, <2>4, <2>5, <2>6 DEF IInv, RemovalAlone
<1>8. CASE edge[t].source # edge[t].target
  <2>1. pc' = [pc EXCEPT ![t] = "linkNew"] /\ UNCHANGED inEdges
    BY <1>8 DEF AddNewEdge
  <2>2. /\ pc' \in [Threads -> Control] /\ pc'[t] = "linkNew"
        /\ \A u \in Threads \ {t} : pc'[u] = pc[u]
        /\ ~Linking(t) /\ Linking(t)'
    BY <1>0, <1>1, <2>1 DEF Control, Linking
  <2>3. /\ inEdges' \in [Nodes -> Seq(Edge)]
        /\ \A n \in Nodes : /\ \A f \in Elements(outEdges'[n]) : f.source = n
                            /\ \A f \in Elements(inEdges'[n]) : f.target = n
        /\ Ordered' /\ LinkedInOrder' /\ NoDanglingInEdge' /\ EveryEdgeLinked'
    BY <1>0, <1>6, <1>8, <2>1, <2>2, NewEdgeLists
  <2>4. TypeOK'
    BY <1>0, <1>3, <1>4, <2>2, <2>3 DEF IInv, TypeOK
  <2>5. LocksHeld'
    BY <1>0, <1>1, <1>4, <2>2 DEF IInv, LocksHeld, Free
  <2>6. Asked'
    BY <1>0, <1>3, <1>4, <2>2 DEF IInv, Asked
  <2> QED BY <1>3, <1>5, <2>3, <2>4, <2>5, <2>6 DEF IInv, RemovalAlone
<1> QED BY <1>7, <1>8

\* A thread puts its edge into the target's list: it is the youngest there
\* from its source, and no thread waits with an older one.
LEMMA LinkLists ==
  ASSUME IInv, NEW t \in Threads, Linking(t), PushIn(edge[t]), ~Linking(t)',
         UNCHANGED <<outEdges, edge, created>>,
         \A u \in Threads \ {t} : pc'[u] = pc[u]
  PROVE  /\ inEdges' \in [Nodes -> Seq(Edge)]
         /\ \A n \in Nodes : \A e \in Elements(inEdges'[n]) : e.target = n
         /\ Ordered' /\ LinkedInOrder' /\ NoDanglingInEdge' /\ EveryEdgeLinked'
<1>0. PICK e : e = edge[t]
  OBVIOUS
<1>1. /\ e \in Edge /\ e.source \in Nodes /\ e.target \in Nodes
      /\ e \in Elements(outEdges[e.source])
      /\ PushIn(e)
      /\ \A f \in Elements(inEdges[e.target]) : f.source = e.source => f.id < e.id
  BY <1>0 DEF IInv, TypeOK, Edge, LinkedInOrder
<1>2. /\ \A n \in Nodes : /\ Elements(inEdges[n]) \subseteq Elements(inEdges'[n])
                          /\ \A f \in Elements(inEdges'[n]) :
                               f \in Elements(inEdges[n]) \/ (f = e /\ n = e.target)
      /\ e \in Elements(inEdges'[e.target])
  BY <1>1, PushInEffect
<1>3. /\ inEdges' \in [Nodes -> Seq(Edge)]
      /\ \A n \in Nodes : \A i, j \in DOMAIN inEdges'[n] :
           i < j /\ inEdges'[n][i].source = inEdges'[n][j].source =>
             inEdges'[n][i].id < inEdges'[n][j].id
  BY <1>1, PushInEffect
<1>4. Ordered'
  BY <1>3 DEF IInv, Ordered
<1>5. \A u \in Threads : Linking(u)' <=> Linking(u) /\ u # t
  BY DEF Linking
<1>6. LinkedInOrder'
  <2>1. ASSUME NEW u \in Threads, Linking(u)'
        PROVE  /\ edge'[u].source # edge'[u].target
               /\ edge'[u] \in Elements(outEdges'[edge'[u].source])
               /\ \A f \in Elements(inEdges'[edge'[u].target]) :
                    f.source = edge'[u].source => f.id < edge'[u].id
    <3>1. /\ Linking(u) /\ u # t /\ edge'[u] = edge[u] /\ edge[u].target \in Nodes
      BY <1>5, <2>1 DEF IInv, TypeOK, Edge
    <3>2. /\ edge[u].source # edge[u].target
          /\ edge[u] \in Elements(outEdges[edge[u].source])
          /\ \A f \in Elements(inEdges[edge[u].target]) :
               f.source = edge[u].source => f.id < edge[u].id
      BY <3>1 DEF IInv, LinkedInOrder
    <3>3. edge[u].source = e.source => edge[u].target # e.target
      BY <1>0, <3>1 DEF IInv, LinkedInOrder
    <3> QED BY <1>2, <3>1, <3>2, <3>3
  <2>2. \A u, v \in Threads : /\ Linking(u)' /\ Linking(v)'
                              /\ edge'[u].source = edge'[v].source
                              /\ edge'[u].target = edge'[v].target
                              => u = v
    BY <1>5 DEF IInv, LinkedInOrder
  <2> QED BY <2>1, <2>2 DEF LinkedInOrder
<1>7. NoDanglingInEdge'
  BY <1>1, <1>2 DEF IInv, NoDanglingInEdge
<1>8. EveryEdgeLinked'
  <2> SUFFICES ASSUME NEW n \in Nodes, NEW f \in Elements(outEdges[n])
               PROVE  f \in Elements(inEdges'[f.target]) \/ f \in Unlinked'
    BY DEF EveryEdgeLinked
  <2>1. f.target \in Nodes
    <3>1. outEdges[n] \in Seq(Edge)
      BY DEF IInv, TypeOK
    <3> QED BY <3>1, ListTypes
  <2>2. f \in Elements(inEdges[f.target]) \/ f \in Unlinked
    BY DEF IInv, EveryEdgeLinked
  <2>3. f \in Unlinked => f \in Unlinked' \/ f = e
    BY <1>0, <1>5 DEF Unlinked, Linking
  <2> QED BY <1>2, <2>1, <2>2, <2>3
<1>9. \A n \in Nodes : \A f \in Elements(inEdges'[n]) : f.target = n
  BY <1>2 DEF IInv, TypeOK
<1> QED BY <1>3, <1>4, <1>6, <1>7, <1>8, <1>9

\* addEdge gets the target's mutex, links its edge and releases both.
LEMMA LinkInInv == ASSUME IInv, NEW t \in Threads, LinkIn(t) PROVE IInv'
<1> USE DEF LinkIn, Goto
<1>1. /\ pc \in [Threads -> Control] /\ edge \in [Threads -> Edge]
      /\ edge[t].source \in Nodes /\ edge' = edge
      /\ edgeMutex \in [Nodes -> Threads \cup {NoThread}]
      /\ NoThread \notin Threads
      /\ edgeMutex[edge[t].source] = t
  BY DirectedGraphAssumption DEF IInv, TypeOK, Edge, LocksHeld
<1>2. /\ pc' \in [Threads -> Control] /\ pc[t] = "linkIn" /\ pc'[t] = "idle"
      /\ \A u \in Threads \ {t} : pc'[u] = pc[u]
      /\ Linking(t) /\ ~Linking(t)'
  BY <1>1 DEF Control, Linking
<1>3. /\ inEdges' \in [Nodes -> Seq(Edge)]
      /\ \A n \in Nodes : \A e \in Elements(inEdges'[n]) : e.target = n
      /\ Ordered' /\ LinkedInOrder' /\ NoDanglingInEdge' /\ EveryEdgeLinked'
  BY <1>1, <1>2, LinkLists
<1>4. /\ edgeMutex' \in [Nodes -> Threads \cup {NoThread}]
      /\ edgeMutex'[edge[t].source] = NoThread
      /\ \A n \in Nodes \ {edge[t].source} : edgeMutex'[n] = edgeMutex[n]
  BY <1>1
<1>5. TypeOK'
  BY <1>2, <1>3, <1>4 DEF IInv, TypeOK
<1>6. LocksHeld'
  <2>1. ASSUME NEW n \in Nodes, ~Free(n)'
        PROVE  pc'[edgeMutex'[n]] = "linkIn" /\ edge'[edgeMutex'[n]].source = n
    <3>1. edgeMutex'[n] = edgeMutex[n] /\ ~Free(n) /\ edgeMutex[n] \in Threads
          /\ n # edge[t].source
      BY <1>1, <1>4, <2>1 DEF Free
    <3>2. pc[edgeMutex[n]] = "linkIn" /\ edge[edgeMutex[n]].source = n
      BY <3>1 DEF IInv, LocksHeld
    <3> QED BY <1>1, <1>2, <3>1, <3>2
  <2>2. ASSUME NEW u \in Threads, pc'[u] = "linkIn"
        PROVE  edgeMutex'[edge'[u].source] = u
    <3>1. /\ u # t /\ edgeMutex[edge[u].source] = u /\ edge[u].source \in Nodes
      BY <1>1, <1>2, <2>2 DEF IInv, LocksHeld, Edge
    <3> QED BY <1>1, <1>4, <3>1
  <2> QED BY <2>1, <2>2 DEF LocksHeld
<1>7. Asked'
  BY <1>1, <1>2 DEF IInv, Asked
<1>8. RemovalAlone' /\ IndexIsFirst'
  BY <1>2, NoRemoval DEF IInv, RemovalAlone, IndexIsFirst
<1> QED BY <1>3, <1>5, <1>6, <1>7, <1>8 DEF IInv

\* addNewEdge links its edge in the target's critical section.
LEMMA LinkNewInv == ASSUME IInv, NEW t \in Threads, LinkNew(t) PROVE IInv'
<1> USE DEF LinkNew, Goto
<1>1. pc \in [Threads -> Control] /\ edge' = edge
  BY DEF IInv, TypeOK
<1>2. /\ pc' \in [Threads -> Control] /\ pc[t] = "linkNew" /\ pc'[t] = "idle"
      /\ \A u \in Threads \ {t} : pc'[u] = pc[u]
      /\ Linking(t) /\ ~Linking(t)'
  BY <1>1 DEF Control, Linking
<1>3. /\ inEdges' \in [Nodes -> Seq(Edge)]
      /\ \A n \in Nodes : \A e \in Elements(inEdges'[n]) : e.target = n
      /\ Ordered' /\ LinkedInOrder' /\ NoDanglingInEdge' /\ EveryEdgeLinked'
  BY <1>1, <1>2, LinkLists
<1>4. TypeOK'
  BY <1>2, <1>3 DEF IInv, TypeOK
<1>5. LocksHeld'
  <2>1. \A n \in Nodes : ~Free(n) => edgeMutex[n] \in Threads
    BY DEF Free, IInv, TypeOK
  <2> QED BY <1>1, <1>2, <2>1 DEF IInv, LocksHeld, Free
<1>6. Asked'
  BY <1>1, <1>2 DEF IInv, Asked
<1>7. RemovalAlone' /\ IndexIsFirst'
  BY <1>2, NoRemoval DEF IInv, RemovalAlone, IndexIsFirst
<1> QED BY <1>3, <1>4, <1>5, <1>6, <1>7 DEF IInv

\* A removal leaves the threads alone, so only the lists and the index matter.
LEMMA RemovalInv ==
  ASSUME IInv, Quiescent, UNCHANGED <<nodes, edgeMutex, pc, edge, created, calls, clearing>>,
         outEdges' \in [Nodes -> Seq(Edge)], inEdges' \in [Nodes -> Seq(Edge)],
         \A n \in Nodes : /\ \A e \in Elements(outEdges'[n]) : e.source = n
                          /\ \A e \in Elements(inEdges'[n]) : e.target = n,
         outEdgeIndex' \in [Nodes -> SUBSET Edge], indexed' \in [Nodes -> BOOLEAN],
         Ordered', NoDanglingInEdge', EveryEdgeLinked', IndexIsFirst'
  PROVE  IInv'
<1>1. TypeOK'
  BY DEF IInv, TypeOK
<1>2. LocksHeld' /\ Asked' /\ RemovalAlone'
  BY DEF IInv, LocksHeld, Asked, RemovalAlone, Quiescent, Free
<1>3. LinkedInOrder'
  BY DEF LinkedInOrder, Linking, Quiescent
<1> QED BY <1>1, <1>2, <1>3 DEF IInv

\* removeEdge takes the first edge to the target from both lists, and the
\* index goes to the edge that is now first.
LEMMA UnlinkInv ==
  ASSUME IInv, Quiescent, NEW source \in Nodes, NEW target \in Nodes, Unlink(source, target),
         UNCHANGED <<nodes, indexed, edgeMutex, pc, edge, created, calls, clearing>>
  PROVE  IInv'
<1>0. PICK k \in FindEdgeTo(outEdges[source], target) :
        /\ RemoveInEdge(source, target)
        /\ outEdges' = [outEdges EXCEPT ![source] = Erase(outEdges[source], k)]
        /\ LET rest == Erase(outEdges[source], k)
               survivor == {rest[j] : j \in FindEdgeTo(rest, target)}
           IN outEdgeIndex' = [outEdgeIndex EXCEPT
                ![source] = IF indexed[source]
                            THEN {f \in @ : f.target # target} \cup survivor
                            ELSE @]
  BY DEF Unlink
<1>1. PICK rest :
        /\ rest = Erase(outEdges[source], k)
        /\ outEdges' = [outEdges EXCEPT ![source] = rest]
        /\ outEdgeIndex' = [outEdgeIndex EXCEPT ![source] =
             IF indexed[source]
             THEN {f \in @ : f.target # target} \cup {rest[j] : j \in FindEdgeTo(rest, target)}
             ELSE @]
  BY <1>0
<1>2. /\ outEdges' \in [Nodes -> Seq(Edge)] /\ inEdges' \in [Nodes -> Seq(Edge)]
      /\ \A n \in Nodes : /\ \A e \in Elements(outEdges'[n]) : e.source = n
                          /\ \A e \in Elements(inEdges'[n]) : e.target = n
      /\ Ordered' /\ NoDanglingInEdge' /\ EveryEdgeLinked'
  BY <1>0, RemovalEffect
<1>3. /\ outEdges \in [Nodes -> Seq(Edge)] /\ indexed \in [Nodes -> BOOLEAN]
      /\ outEdgeIndex \in [Nodes -> SUBSET Edge]
  BY DEF IInv, TypeOK
<1>4. PICK old \in Seq(Edge) : old = outEdges[source]
  BY <1>3
<1>5. Firsts(rest) = {f \in Firsts(old) : f.target # target}
                       \cup {rest[j] : j \in FindEdgeTo(rest, target)}
  BY <1>1, <1>4, EraseFirsts
<1>6. outEdges'[source] = rest /\ \A n \in Nodes \ {source} : outEdges'[n] = outEdges[n]
  BY <1>1, <1>3
<1>7. Firsts(rest) \subseteq Edge
  <2>1. rest \in Seq(Edge)
    BY <1>2, <1>6
  <2> QED BY <2>1 DEF Firsts
<1>8. outEdgeIndex[source] = IF indexed[source] THEN Firsts(old) ELSE {}
  BY <1>4 DEF IInv, IndexIsFirst
<1>9. /\ outEdgeIndex'[source] = IF indexed[source] THEN Firsts(rest) ELSE {}
      /\ \A n \in Nodes \ {source} : outEdgeIndex'[n] = outEdgeIndex[n]
      /\ outEdgeIndex' \in [Nodes -> SUBSET Edge]
  <2>1. CASE indexed[source]
    <3>1. outEdgeIndex' = [outEdgeIndex EXCEPT ![source] =
            {f \in outEdgeIndex[source] : f.target # target}
              \cup {rest[j] : j \in FindEdgeTo(rest, target)}]
      BY <1>1, <2>1
    <3>2. outEdgeIndex' = [outEdgeIndex EXCEPT ![source] = Firsts(rest)]
      BY <1>5, <1>8, <2>1, <3>1
    <3> QED BY <1>3, <1>7, <2>1, <3>2
  <2>2. CASE ~indexed[source]
    BY <1>1, <1>3, <1>8, <2>2
  <2> QED BY <2>1, <2>2
<1>10. IndexIsFirst'
  BY <1>6, <1>9 DEF IInv, IndexIsFirst
<1> QED BY <1>2, <1>3, <1>9, <1>10, RemovalInv

\* removeEdge between two nodes of the graph.
LEMMA RemoveEdgeInv ==
  ASSUME IInv, NEW source \in Nodes, NEW target \in Nodes, RemoveEdge(source, target)
  PROVE  IInv'
BY UnlinkInv DEF RemoveEdge

\* removeNode, second loop.
LEMMA ClearInEdgeInv == ASSUME IInv, NEW n \in Nodes, ClearInEdge(n) PROVE IInv'
<1>1. Quiescent
  BY DEF ClearInEdge, IInv, RemovalAlone
<1>2. inEdges[n][1].source \in Nodes
  <2>1. inEdges[n] \in Seq(Edge) /\ inEdges[n] # <<>>
    BY DEF ClearInEdge, IInv, TypeOK
  <2>2. 1 \in DOMAIN inEdges[n]
    BY <2>1
  <2>3. inEdges[n][1] \in Edge
    BY <2>1, <2>2, ListTypes
  <2> QED BY <2>3 DEF Edge
<1> QED BY <1>1, <1>2, UnlinkInv DEF ClearInEdge

\* removeNode, first loop: the first out-edge is the first to its target, so
\* the edge removeInEdge takes from the target is that very edge.
LEMMA ClearOutEdgeInv == ASSUME IInv, NEW n \in Nodes, ClearOutEdge(n) PROVE IInv'
<1>0. /\ outEdges[n] # <<>>
      /\ RemoveInEdge(n, outEdges[n][1].target)
      /\ outEdges' = [outEdges EXCEPT ![n] = Erase(outEdges[n], 1)]
      /\ outEdgeIndex' = [outEdgeIndex EXCEPT ![n] = {}]
      /\ indexed' = [indexed EXCEPT ![n] = FALSE]
      /\ UNCHANGED <<nodes, edgeMutex, pc, edge, created, calls, clearing>>
  BY DEF ClearOutEdge
<1>1. Quiescent
  BY DEF ClearOutEdge, IInv, RemovalAlone
<1>2. outEdges[n] \in Seq(Edge) /\ 1 \in DOMAIN outEdges[n]
  <2>1. outEdges[n] \in Seq(Edge)
    BY DEF IInv, TypeOK
  <2> QED BY <1>0, <2>1
<1>3. PICK target \in Nodes : target = outEdges[n][1].target
  <2>1. outEdges[n][1] \in Edge
    BY <1>2, ListTypes
  <2> QED BY <2>1 DEF Edge
<1>4. 1 \in FindEdgeTo(outEdges[n], target)
  <2>1. \A j \in DOMAIN outEdges[n] : ~(j < 1)
    BY <1>2
  <2> QED BY <1>2, <1>3, <2>1 DEF FindEdgeTo, IsFirstTo
<1>5. /\ outEdges' \in [Nodes -> Seq(Edge)] /\ inEdges' \in [Nodes -> Seq(Edge)]
      /\ \A m \in Nodes : /\ \A e \in Elements(outEdges'[m]) : e.source = m
                          /\ \A e \in Elements(inEdges'[m]) : e.target = m
      /\ Ordered' /\ NoDanglingInEdge' /\ EveryEdgeLinked'
  BY <1>0, <1>1, <1>3, <1>4, RemovalEffect
<1>6. /\ outEdgeIndex' \in [Nodes -> SUBSET Edge] /\ indexed' \in [Nodes -> BOOLEAN]
      /\ outEdgeIndex'[n] = {} /\ ~indexed'[n]
      /\ \A m \in Nodes \ {n} : /\ outEdgeIndex'[m] = outEdgeIndex[m]
                                /\ indexed'[m] = indexed[m]
                                /\ outEdges'[m] = outEdges[m]
  BY <1>0 DEF IInv, TypeOK
<1>7. IndexIsFirst'
  BY <1>6 DEF IInv, IndexIsFirst
<1> QED BY <1>0, <1>1, <1>5, <1>6, <1>7, RemovalInv

\* Every step keeps the invariant.
LEMMA NextInv == IInv /\ [Next]_vars => IInv'
<1> SUFFICES ASSUME IInv, [Next]_vars PROVE IInv'
  OBVIOUS
<1>1. ASSUME NEW n \in Nodes, AddNode(n) PROVE IInv'
  BY <1>1, AddNodeInv
<1>2. ASSUME NEW n \in Nodes, RemoveNode(n) PROVE IInv'
  BY <1>2, RemoveNodeInv
<1>3. ASSUME NEW n \in Nodes, ClearOutEdge(n) PROVE IInv'
  BY <1>3, ClearOutEdgeInv
<1>4. ASSUME NEW n \in Nodes, ClearInEdge(n) PROVE IInv'
  BY <1>4, ClearInEdgeInv
<1>5. ASSUME NEW n \in Nodes, EraseNode(n) PROVE IInv'
  BY <1>5, EraseNodeInv
<1>6. ASSUME NEW source \in Nodes, NEW target \in Nodes, RemoveEdge(source, target)
      PROVE  IInv'
  BY <1>6, RemoveEdgeInv
<1>7. ASSUME NEW t \in Threads, NEW r \in Requests[t], CallAdd(t, r) PROVE IInv'
  BY <1>7, CallAddInv
<1>8. ASSUME NEW t \in Threads, AddEdgeFound(t) PROVE IInv'
  BY <1>8, AddEdgeFoundInv
<1>9. ASSUME NEW t \in Threads, AddEdgeCreate(t) PROVE IInv'
  BY <1>9, AddEdgeCreateInv
<1>10. ASSUME NEW t \in Threads, LinkIn(t) PROVE IInv'
  BY <1>10, LinkInInv
<1>11. ASSUME NEW t \in Threads, AddNewEdge(t) PROVE IInv'
  BY <1>11, AddNewEdgeInv
<1>12. ASSUME NEW t \in Threads, LinkNew(t) PROVE IInv'
  BY <1>12, LinkNewInv
<1>13. CASE UNCHANGED vars
  <2> USE <1>13 DEF vars
  <2>1. TypeOK'
    BY DEF IInv, TypeOK
  <2>2. LocksHeld' /\ Asked' /\ RemovalAlone'
    BY DEF IInv, LocksHeld, Asked, RemovalAlone, Quiescent, Free
  <2>3. \A t \in Threads : (Linking(t) <=> Linking(t)') /\ edge'[t] = edge[t]
    BY DEF Linking
  <2> QED BY <2>1, <2>2, <2>3, ListsKept DEF IInv
<1> QED BY <1>1, <1>2, <1>3, <1>4, <1>5, <1>6, <1>7, <1>8, <1>9, <1>10, <1>11, <1>12, <1>13
        DEF Next, Work
-----------------------------------------------------------------------------
(***************************************************************************)
(* What the graph guarantees.                                              *)
(***************************************************************************)
\* The inductive invariant holds in every reachable state.
THEOREM GraphInvariant == Spec => []IInv
BY InitInv, NextInv, PTL DEF Spec

\* Everything keeps its type, and an edge is listed only at its endpoints.
THEOREM GraphTypes == Spec => []TypeOK
<1>1. IInv => TypeOK
  BY DEF IInv
<1> QED BY <1>1, GraphInvariant, PTL

\* The raw pointers in inEdges never outlive the edges the source owns.
THEOREM InEdgesLive == Spec => []NoDanglingInEdge
<1>1. IInv => NoDanglingInEdge
  BY DEF IInv
<1> QED BY <1>1, GraphInvariant, PTL

\* A target misses none of the edges to it but those a thread is linking now.
THEOREM OutEdgesLinked == Spec => []EveryEdgeLinked
<1>1. IInv => EveryEdgeLinked
  BY DEF IInv
<1> QED BY <1>1, GraphInvariant, PTL

\* outEdgeIndex agrees with a scan of outEdges, at any threshold.
THEOREM IndexExact == Spec => []IndexIsFirst
<1>1. IInv => IndexIsFirst
  BY DEF IInv
<1> QED BY <1>1, GraphInvariant, PTL

\* The return of addEdge, in any step: the edge is one the source owns
\* afterwards, and owned before if it owned one to the target.
LEMMA AddEdgeReturns ==
  ASSUME IInv, [Next]_vars, NEW t \in Threads, pc[t] = "addEdge", pc'[t] # "addEdge"
  PROVE  /\ edge'[t].source = edge[t].source
         /\ edge'[t].target = edge[t].target
         /\ edge'[t] \in Elements(outEdges'[edge[t].source])
         /\ \A e \in Elements(outEdges[edge[t].source]) :
              e.target = edge[t].target =>
                edge'[t] \in Elements(outEdges[edge[t].source])
<1>0. /\ pc \in [Threads -> Control] /\ edge \in [Threads -> Edge]
      /\ edge[t].source \in Nodes /\ edge[t].target \in Nodes
  BY DEF IInv, TypeOK, Edge
<1>1. AddEdgeFound(t) \/ AddEdgeCreate(t)
  <2>1. ASSUME NEW n \in Nodes,
               AddNode(n) \/ RemoveNode(n) \/ ClearOutEdge(n) \/ ClearInEdge(n) \/ EraseNode(n)
        PROVE  FALSE
    BY <2>1 DEF AddNode, RemoveNode, ClearOutEdge, ClearInEdge, EraseNode
  <2>2. ASSUME NEW source \in Nodes, NEW target \in Nodes, RemoveEdge(source, target)
        PROVE  FALSE
    BY <2>2 DEF RemoveEdge
  <2>3. ASSUME NEW u \in Threads, u # t, \E label : Goto(u, label)
        PROVE  FALSE
    BY <1>0, <2>3 DEF Goto
  <2>4. ASSUME NEW u \in Threads, NEW r \in Requests[u], CallAdd(u, r)
        PROVE  FALSE
    BY <2>3, <2>4 DEF CallAdd
  <2>5. ASSUME NEW u \in Threads, LinkIn(u) \/ AddNewEdge(u) \/ LinkNew(u)
        PROVE  FALSE
    <3>1. pc[u] # "addEdge" /\ \E label : Goto(u, label)
      BY <2>5 DEF LinkIn, AddNewEdge, LinkNew
    <3> QED BY <2>3, <3>1
  <2>6. ASSUME NEW u \in Threads, AddEdgeFound(u) \/ AddEdgeCreate(u)
        PROVE  u = t
    <3>1. \E label : Goto(u, label)
      BY <2>6 DEF AddEdgeFound, AddEdgeCreate
    <3> QED BY <2>3, <3>1
  <2>7. ~UNCHANGED vars
    BY DEF vars
  <2> QED BY <2>1, <2>2, <2>4, <2>5, <2>6, <2>7 DEF Next, Work
<1>2. CASE AddEdgeFound(t)
  <2>1. PICK e \in LookupOutEdge(edge[t].source, edge[t].target) : edge' = [edge EXCEPT ![t] = e]
    BY <1>2 DEF AddEdgeFound
  <2>2. /\ e \in Elements(outEdges[edge[t].source])
        /\ e.source = edge[t].source /\ e.target = edge[t].target
    BY <1>0, LookupExact
  <2>3. edge'[t] = e /\ outEdges' = outEdges
    BY <1>0, <1>2, <2>1 DEF AddEdgeFound, store
  <2> QED BY <2>2, <2>3
<1>3. CASE AddEdgeCreate(t)
  <2>1. PushOut(t) /\ LookupOutEdge(edge[t].source, edge[t].target) = {}
    BY <1>3 DEF AddEdgeCreate
  <2>2. PICK e : e = NewEdge(t)
    OBVIOUS
  <2>3. /\ e.source = edge[t].source /\ e.target = edge[t].target
        /\ edge' = [edge EXCEPT ![t] = e]
        /\ e \in Elements(outEdges'[e.source])
    BY <2>1, <2>2, PushOutEffect
  <2>4. edge'[t] = e
    BY <1>0, <2>3
  <2>5. \A f \in Elements(outEdges[edge[t].source]) : f.target # edge[t].target
    BY <1>0, <2>1, LookupExact
  <2> QED BY <2>3, <2>4, <2>5
<1> QED BY <1>1, <1>2, <1>3

\* addEdge never makes a parallel edge, and what it returns is live.
THEOREM AddEdgeCorrect == Spec => AddEdgeDeduplicates
<1>1. IInv /\ [Next]_vars =>
        [\A t \in Threads :
           pc[t] = "addEdge" /\ pc'[t] # "addEdge" =>
             /\ edge'[t].source = edge[t].source
             /\ edge'[t].target = edge[t].target
             /\ edge'[t] \in Elements(outEdges'[edge[t].source])
             /\ \A e \in Elements(outEdges[edge[t].source]) :
                  e.target = edge[t].target =>
                    edge'[t] \in Elements(outEdges[edge[t].source])]_vars
  BY AddEdgeReturns
<1> QED BY <1>1, GraphInvariant, PTL DEF Spec, AddEdgeDeduplicates

\* The edges asked of addEdge have no cycle but self-edges: every one goes
\* from a higher to a lower rank.
RequestsAcyclic ==
  \E rank \in [Nodes -> Nat] : \A t \in Threads : \A r \in Requests[t] :
    r.fn = "addEdge" /\ r.source # r.target => rank[r.target] < rank[r.source]

\* Threads that wait for each other hold a cycle of edges they were asked for.
LEMMA NoCycleNoWait == RequestsAcyclic /\ IInv => NoWaitCycle
<1> SUFFICES ASSUME RequestsAcyclic, IInv, NEW S \in (SUBSET Threads) \ {{}},
                    \A t \in S : pc[t] = "linkIn" /\ edgeMutex[edge[t].target] \in S
             PROVE  FALSE
  BY DEF NoWaitCycle
<1>1. PICK rank \in [Nodes -> Nat] : \A t \in Threads : \A r \in Requests[t] :
        r.fn = "addEdge" /\ r.source # r.target => rank[r.target] < rank[r.source]
  BY DEF RequestsAcyclic
<1>2. \A t \in Threads : edge[t].source \in Nodes /\ edge[t].target \in Nodes
  BY DEF IInv, TypeOK, Edge
<1>3. PICK t \in S : \A u \in S : rank[edge[t].source] <= rank[edge[u].source]
  <2> DEFINE R == {rank[edge[u].source] : u \in S}
  <2>1. R \in SUBSET Nat /\ R # {}
    BY <1>2
  <2> HIDE DEF R
  <2>2. PICK m \in R : \A n \in R : m <= n
    BY <2>1, LeastExists
  <2> QED BY <2>2 DEF R
<1>4. PICK u \in S : u = edgeMutex[edge[t].target]
  OBVIOUS
<1>5. edge[u].source = edge[t].target
  <2>1. ~Free(edge[t].target)
    BY <1>4, DirectedGraphAssumption DEF Free
  <2> QED BY <1>2, <1>4, <2>1 DEF IInv, LocksHeld
<1>6. rank[edge[t].target] < rank[edge[t].source]
  <2> DEFINE r == [fn |-> "addEdge", source |-> edge[t].source, target |-> edge[t].target]
  <2>1. r \in Requests[t]
    BY DEF IInv, Asked
  <2>2. r.fn = "addEdge" /\ r.source = edge[t].source /\ r.target = edge[t].target
    OBVIOUS
  <2>3. edge[t].source # edge[t].target
    BY DEF IInv, LinkedInOrder, Linking
  <2> HIDE DEF r
  <2> QED BY <1>1, <2>1, <2>2, <2>3
<1>7. rank[edge[t].source] <= rank[edge[t].target]
  BY <1>3, <1>4, <1>5
<1>8. rank[edge[t].source] \in Nat /\ rank[edge[t].target] \in Nat
  BY <1>2
<1> QED BY <1>6, <1>7, <1>8

\* addEdge cannot deadlock when the edges asked for have no cycle, however
\* many threads and nodes there are.  (With a cycle it can.)
THEOREM NoDeadlock == RequestsAcyclic => (Spec => []NoWaitCycle)
<1> SUFFICES ASSUME RequestsAcyclic PROVE Spec => []NoWaitCycle
  OBVIOUS
<1>1. IInv => NoWaitCycle
  BY NoCycleNoWait
<1> QED BY <1>1, GraphInvariant, PTL
=============================================================================
