----------------------- MODULE DepthFirstSearchProofs -----------------------
(***************************************************************************)
(* Proofs about DepthFirstSearch: for every set of nodes, every graph on   *)
(* it and every edge predicate, the stack is a simple path, no node gets   *)
(* two parents, the search visits exactly what it should, and the paths    *)
(* that PathFinder::find reads off its parents are paths of the graph.     *)
(***************************************************************************)
EXTENDS DepthFirstSearch, SequenceTheorems, FiniteSetTheorems, SetInduction, TLAPS

\* The graph never changes its type: arcs are pairs of nodes.
LEMMA ArcsArePairs ==
  ASSUME TypeOK
  PROVE  \A a \in graph.arcs : a \in Nodes \X Nodes /\ a[1] \in Nodes /\ a[2] \in Nodes
BY DepthFirstSearchAssumption DEF TypeOK, Graph

\* Before the search nothing is visited.
LEMMA InitInv == Init => IInv
BY DepthFirstSearchAssumption
   DEF Init, IInv, TypeOK, StackIsPath, OneParent, ExaminedLeadsToVisited,
       VisitsFromStart, VisitsOnlyReachable, Graph

\* The start node alone is visited, and all its edges are to be examined.
LEMMA SetupInv ==
  ASSUME IInv, NEW n \in Nodes, Setup(n)
  PROVE  IInv'
<1> USE DEF IInv
<1>1. TypeOK'
  BY ArcsArePairs DEF TypeOK, Setup, ArcsFrom, VisitsFromStart
<1>2. StackIsPath'
  BY DEF TypeOK, Setup, StackIsPath
<1>3. OneParent'
  BY DEF Setup, OneParent, VisitsFromStart
<1>4. ExaminedLeadsToVisited'
  BY DEF TypeOK, Setup, ExaminedLeadsToVisited, ArcsFrom, Selected
<1>5. VisitsFromStart'
  BY DEF Setup, VisitsFromStart
<1>6. VisitsOnlyReachable'
  BY DEF Setup, VisitsOnlyReachable, Reachable, Closed, Selected
<1> QED BY <1>1, <1>2, <1>3, <1>4, <1>5, <1>6

\* The top of a stack that is not empty is a node, and visited.
LEMMA TopVisited ==
  ASSUME IInv, visitStack # <<>>
  PROVE  /\ Len(visitStack) \in DOMAIN visitStack
         /\ Top \in Nodes
         /\ Top \in visited
BY DEF IInv, TypeOK, StackIsPath, Top

\* An edge that is not followed loses nothing: it is not selected, or leads
\* to a visited node.
LEMMA PassInv ==
  ASSUME IInv, NEW a \in graph.arcs, SkipEdge(a) \/ SeenNode(a)
  PROVE  IInv'
<1> USE DEF IInv
<1>0. /\ visitStack # <<>> /\ a \in unexamined[Top]
      /\ Selected(a) => a[2] \in visited
      /\ unexamined' = [unexamined EXCEPT ![Top] = @ \ {a}]
      /\ UNCHANGED <<graph, visitStack, visited, parent, start>>
  BY DEF SkipEdge, SeenNode, Examine
<1>1. TypeOK'
  <2>1. unexamined' \in [Nodes -> SUBSET (Nodes \X Nodes)]
    BY <1>0, TopVisited DEF TypeOK
  <2>2. \A n \in Nodes : unexamined'[n] \subseteq unexamined[n]
    BY <1>0, TopVisited DEF TypeOK
  <2> QED BY <1>0, <2>1, <2>2 DEF TypeOK, ArcsFrom
<1>2. StackIsPath'
  BY <1>0 DEF StackIsPath
<1>3. OneParent'
  BY <1>0 DEF OneParent
<1>4. ExaminedLeadsToVisited'
  BY <1>0, TopVisited DEF TypeOK, ExaminedLeadsToVisited, ArcsFrom, Selected
<1>5. VisitsFromStart'
  BY <1>0 DEF VisitsFromStart
<1>6. VisitsOnlyReachable'
  BY <1>0 DEF VisitsOnlyReachable, Reachable, Closed, Selected
<1> QED BY <1>1, <1>2, <1>3, <1>4, <1>5, <1>6

\* A new node extends the path, and is reachable since the top is.
LEMMA VisitNodeInv ==
  ASSUME IInv, NEW a \in graph.arcs, VisitNode(a)
  PROVE  IInv'
<1> USE DEF IInv
<1> DEFINE len == Len(visitStack)
<1>0. /\ visitStack # <<>> /\ a \in unexamined[Top] /\ Selected(a)
      /\ a[2] \notin visited
      /\ a[1] = Top /\ a[2] \in Nodes /\ a \in Nodes \X Nodes /\ a = <<Top, a[2]>>
  <2>1. visitStack # <<>> /\ a \in unexamined[Top] /\ Selected(a) /\ a[2] \notin visited
    BY DEF VisitNode, Examine
  <2>2. a[1] = Top
    BY <2>1, TopVisited DEF TypeOK, ArcsFrom
  <2> QED BY <2>1, <2>2, ArcsArePairs
<1>u. /\ unexamined' = [unexamined EXCEPT ![Top] = @ \ {a}, ![a[2]] = ArcsFrom(a[2])]
      /\ visitStack' = Append(visitStack, a[2])
      /\ visited' = visited \cup {a[2]}
      /\ parent' = parent \cup {a}
      /\ UNCHANGED <<graph, start>>
  BY DEF VisitNode
<1>s. /\ len \in Nat \ {0} /\ Len(visitStack') = len + 1
      /\ DOMAIN visitStack = 1 .. len /\ DOMAIN visitStack' = 1 .. len + 1
      /\ \A i \in 1 .. len : visitStack'[i] = visitStack[i]
      /\ visitStack'[len + 1] = a[2]
      /\ visitStack' \in Seq(Nodes)
  BY <1>0, <1>u DEF TypeOK
<1>1. TypeOK'
  <2>1. ArcsFrom(a[2]) \subseteq Nodes \X Nodes
    BY ArcsArePairs DEF ArcsFrom
  <2>2. unexamined' \in [Nodes -> SUBSET (Nodes \X Nodes)]
    BY <1>0, <1>u, <2>1, TopVisited DEF TypeOK
  <2>3. \A n \in Nodes : \/ unexamined'[n] \subseteq unexamined[n]
                         \/ n = a[2] /\ unexamined'[n] = ArcsFrom(n)
    BY <1>0, <1>u, TopVisited DEF TypeOK
  <2>4. \A n \in Nodes : /\ unexamined'[n] \subseteq ArcsFrom(n)'
                         /\ unexamined'[n] # {} => \E i \in DOMAIN visitStack' :
                                                     visitStack'[i] = n
    BY <1>u, <1>s, <2>3 DEF TypeOK, ArcsFrom
  <2> QED BY <1>0, <1>u, <1>s, <2>2, <2>4 DEF TypeOK
<1>2. StackIsPath'
  <2>1. visitStack'[1] \in start'
    BY <1>0, <1>u, <1>s DEF StackIsPath
  <2>2. \A i \in DOMAIN visitStack' : visitStack'[i] \in visited'
    BY <1>0, <1>u, <1>s DEF StackIsPath
  <2>3. \A i, j \in DOMAIN visitStack' : i # j => visitStack'[i] # visitStack'[j]
    BY <1>0, <1>u, <1>s DEF StackIsPath
  <2>4. \A i \in 1 .. Len(visitStack') - 1 :
          <<visitStack'[i], visitStack'[i + 1]>> \in parent'
    <3> SUFFICES ASSUME NEW i \in 1 .. len
                 PROVE  <<visitStack'[i], visitStack'[i + 1]>> \in parent'
      BY <1>s
    <3>1. CASE i < len
      <4>1. i \in 1 .. Len(visitStack) - 1 /\ i + 1 \in 1 .. len
        BY <1>s, <3>1
      <4> QED BY <1>u, <1>s, <4>1 DEF StackIsPath
    <3>2. CASE i = len
      BY <1>0, <1>u, <1>s, <3>2 DEF Top
    <3>3. len \in Nat
      BY <1>s
    <3>4. i < len \/ i = len
      BY <3>3
    <3> QED BY <3>1, <3>2, <3>4
  <2> QED BY <2>1, <2>2, <2>3, <2>4 DEF StackIsPath
<1>3. OneParent'
  BY <1>0, <1>u DEF OneParent, VisitsFromStart
<1>4. ExaminedLeadsToVisited'
  BY <1>0, <1>u, TopVisited DEF TypeOK, ExaminedLeadsToVisited, ArcsFrom, Selected
<1>5. VisitsFromStart'
  BY <1>0, <1>u, TopVisited DEF VisitsFromStart
<1>6. VisitsOnlyReachable'
  <2>1. Top \in Reachable
    BY <1>0, TopVisited DEF VisitsOnlyReachable
  <2>2. a[2] \in Reachable
    BY <1>0, <2>1 DEF Reachable, Closed
  <2>3. Reachable' = Reachable
    BY <1>u DEF Reachable, Closed, Selected
  <2> QED BY <1>u, <2>2, <2>3 DEF VisitsOnlyReachable
<1> QED BY <1>1, <1>2, <1>3, <1>4, <1>5, <1>6

\* A node is popped only when its edges have all been examined.
LEMMA PopInv ==
  ASSUME IInv, Pop
  PROVE  IInv'
<1> USE DEF IInv
<1> DEFINE len == Len(visitStack)
<1>0. /\ visitStack # <<>> /\ unexamined[Top] = {}
      /\ visitStack' = SubSeq(visitStack, 1, len - 1)
      /\ UNCHANGED <<graph, unexamined, visited, parent, start>>
  BY DEF Pop
<1>s. /\ len \in Nat \ {0} /\ Len(visitStack') = len - 1
      /\ DOMAIN visitStack = 1 .. len /\ DOMAIN visitStack' = 1 .. len - 1
      /\ \A i \in 1 .. len - 1 : visitStack'[i] = visitStack[i]
      /\ visitStack' \in Seq(Nodes)
  <2>1. visitStack \in Seq(Nodes)
    BY DEF TypeOK
  <2>2. len \in Nat \ {0} /\ DOMAIN visitStack = 1 .. len
    BY <1>0, <2>1
  <2>3. 1 \in Int /\ len - 1 \in Int /\ \A i \in 1 .. len - 1 : visitStack[i] \in Nodes
    BY <2>1, <2>2
  <2>4. /\ SubSeq(visitStack, 1, len - 1) \in Seq(Nodes)
        /\ Len(SubSeq(visitStack, 1, len - 1))
             = IF 1 <= len - 1 THEN len - 1 - 1 + 1 ELSE 0
        /\ \A i \in 1 .. len - 1 - 1 + 1 :
             SubSeq(visitStack, 1, len - 1)[i] = visitStack[1 + i - 1]
    BY <2>3, SubSeqProperties
  <2> QED BY <1>0, <2>2, <2>4
<1>1. TypeOK'
  <2>1. ASSUME NEW n \in Nodes, unexamined[n] # {}
        PROVE  \E i \in DOMAIN visitStack' : visitStack'[i] = n
    <3>1. PICK i \in DOMAIN visitStack : visitStack[i] = n
      BY <2>1 DEF TypeOK
    <3>2. i # len
      BY <1>0, <2>1, <3>1 DEF Top
    <3>3. i \in 1 .. len - 1
      BY <1>s, <3>1, <3>2
    <3> QED BY <1>s, <3>1, <3>3
  <2> QED BY <1>0, <1>s, <2>1 DEF TypeOK, ArcsFrom
<1>2. StackIsPath'
  <2>1. visitStack' # <<>> => visitStack'[1] \in start
    <3> SUFFICES ASSUME visitStack' # <<>> PROVE visitStack'[1] \in start
      OBVIOUS
    <3>1. 1 \in 1 .. len - 1
      BY <1>s
    <3> QED BY <1>0, <1>s, <3>1 DEF StackIsPath
  <2>2. \A i \in 1 .. len - 1 : i \in 1 .. len
    BY <1>s
  <2>3. /\ \A i \in DOMAIN visitStack' : visitStack'[i] \in visited'
        /\ \A i, j \in DOMAIN visitStack' : i # j => visitStack'[i] # visitStack'[j]
    BY <1>0, <1>s, <2>2 DEF StackIsPath
  <2>4. \A i \in 1 .. Len(visitStack') - 1 :
          <<visitStack'[i], visitStack'[i + 1]>> \in parent'
    <3> SUFFICES ASSUME NEW i \in 1 .. len - 2
                 PROVE  <<visitStack'[i], visitStack'[i + 1]>> \in parent'
      BY <1>s
    <3>1. i \in 1 .. len - 1 /\ i + 1 \in 1 .. len - 1
      BY <1>s
    <3> QED BY <1>0, <1>s, <3>1 DEF StackIsPath
  <2> QED BY <1>0, <2>1, <2>3, <2>4 DEF StackIsPath
<1>3. OneParent'
  BY <1>0 DEF OneParent
<1>4. ExaminedLeadsToVisited'
  BY <1>0 DEF ExaminedLeadsToVisited, ArcsFrom, Selected
<1>5. VisitsFromStart'
  BY <1>0, TopVisited DEF VisitsFromStart
<1>6. VisitsOnlyReachable'
  BY <1>0 DEF VisitsOnlyReachable, Reachable, Closed, Selected
<1> QED BY <1>1, <1>2, <1>3, <1>4, <1>5, <1>6

\* A stuttering step changes nothing.
LEMMA StutterInv ==
  ASSUME IInv, UNCHANGED vars
  PROVE  IInv'
BY DEF IInv, vars, TypeOK, StackIsPath, OneParent, ExaminedLeadsToVisited,
       VisitsFromStart, VisitsOnlyReachable, Reachable, Closed, Selected, ArcsFrom

\* The inductive invariant: every step of the search keeps it.
THEOREM SearchInvariant == Spec => []IInv
<1>1. Init => IInv
  BY InitInv
<1>2. IInv /\ [Next]_vars => IInv'
  BY SetupInv, PassInv, VisitNodeInv, PopInv, StutterInv DEF Next, Step
<1> QED BY <1>1, <1>2, PTL DEF Spec

\* Every variable keeps its type, and only stacked nodes have edges left.
THEOREM SearchTypes == Spec => []TypeOK
<1>1. IInv => TypeOK
  BY DEF IInv
<1> QED BY <1>1, SearchInvariant, PTL

\* The stack is always a simple path from the start, each node the parent of
\* the next: the cycles that CycleDetector reads off it are simple.
THEOREM StackPath == Spec => []StackIsPath
<1>1. IInv => StackIsPath
  BY DEF IInv
<1> QED BY <1>1, SearchInvariant, PTL

\* PathFinder's assertion "node cannot have two parents" never fails.
THEOREM ParentsUnique == Spec => []OneParent
<1>1. IInv => OneParent
  BY DEF IInv
<1> QED BY <1>1, SearchInvariant, PTL

\* The nodes that a finished search has visited are closed under selected
\* edges, so they are all that can be reached.
LEMMA DoneReachable ==
  ASSUME IInv, Done
  PROVE  visited = Reachable
<1>1. \A n \in Nodes : unexamined[n] = {}
  BY DEF IInv, TypeOK, Done
<1>2. visited \in SUBSET Nodes /\ start \subseteq visited
  BY DEF IInv, TypeOK, VisitsFromStart
<1>3. Closed(visited)
  BY <1>1, <1>2 DEF IInv, ExaminedLeadsToVisited, ArcsFrom, Closed
<1>4. Reachable \subseteq visited
  BY <1>2, <1>3 DEF Reachable
<1> QED BY <1>4 DEF IInv, VisitsOnlyReachable

\* On every graph the finished search has visited exactly the nodes that
\* selected edges reach.
THEOREM SearchComplete == Spec => []VisitsReachable
<1>1. IInv => VisitsReachable
  BY DoneReachable DEF IInv, VisitsOnlyReachable, VisitsReachable
<1> QED BY <1>1, SearchInvariant, PTL
-----------------------------------------------------------------------------
(***************************************************************************)
(* PathFinder::find on a finished search: there is a path exactly if the   *)
(* end node can be reached, and it has at most as many steps as there are  *)
(* nodes.                                                                  *)
(***************************************************************************)
\* Parents are selected edges out of visited nodes.
ParentsSelected ==
  \A a \in parent : a \in graph.arcs /\ Selected(a) /\ a[1] \in visited

\* Every visited node but the start has a parent.
VisitedHaveParents == \A n \in visited \ start : \E a \in parent : a[2] = n

\* Nobody is an ancestor of himself: the nodes can be numbered so that every
\* parent comes before its children.
ParentsAcyclic ==
  \E rank \in [Nodes -> Nat] : \A a \in parent : rank[a[1]] < rank[a[2]]

PInv ==
  /\ IInv
  /\ ParentsSelected
  /\ VisitedHaveParents
  /\ ParentsAcyclic

\* Before the search there are no parents.
LEMMA PathInitInv == Init => PInv
<1> SUFFICES ASSUME Init PROVE PInv
  OBVIOUS
<1>1. [n \in Nodes |-> 0] \in [Nodes -> Nat]
  OBVIOUS
<1> QED BY <1>1, InitInv DEF Init, PInv, ParentsSelected, VisitedHaveParents, ParentsAcyclic

\* Only a visit makes a parent; it gives a new node a number above that of
\* its parent, and the new node is nobody's parent yet.
LEMMA PathVisitInv ==
  ASSUME PInv, NEW a \in graph.arcs, VisitNode(a)
  PROVE  PInv'
<1> USE DEF PInv
<1>0. /\ a[2] \notin visited /\ a[1] \in visited /\ Selected(a)
      /\ a[1] \in Nodes /\ a[2] \in Nodes
      /\ visited' = visited \cup {a[2]} /\ parent' = parent \cup {a}
      /\ graph' = graph /\ start' = start
  BY TopVisited, ArcsArePairs DEF IInv, TypeOK, VisitNode, Examine, ArcsFrom
<1>1. IInv'
  BY VisitNodeInv
<1>2. ParentsSelected'
  BY <1>0 DEF ParentsSelected, Selected
<1>3. VisitedHaveParents'
  BY <1>0 DEF VisitedHaveParents
<1>4. ParentsAcyclic'
  <2>1. PICK rank \in [Nodes -> Nat] : \A b \in parent : rank[b[1]] < rank[b[2]]
    BY DEF ParentsAcyclic
  <2> DEFINE new == [rank EXCEPT ![a[2]] = rank[a[1]] + 1]
  <2>2. new \in [Nodes -> Nat]
    BY <1>0
  <2>3. new[a[1]] < new[a[2]]
    BY <1>0
  <2>4. ASSUME NEW b \in parent
        PROVE  new[b[1]] < new[b[2]]
    <3>1. b[1] \in visited /\ b[2] \in visited /\ b[1] \in Nodes /\ b[2] \in Nodes
      BY DEF ParentsSelected, IInv, TypeOK, VisitsFromStart
    <3> QED BY <1>0, <2>1, <3>1
  <2> HIDE DEF new
  <2> QED BY <1>0, <2>2, <2>3, <2>4 DEF ParentsAcyclic
<1> QED BY <1>1, <1>2, <1>3, <1>4

\* The inductive invariant of the search with its parents.
THEOREM ParentInvariant == Spec => []PInv
<1>1. PInv /\ [Next]_vars => PInv'
  <2> SUFFICES ASSUME PInv, [Next]_vars PROVE PInv'
    OBVIOUS
  <2> USE DEF PInv
  <2>1. ASSUME NEW n \in Nodes, Setup(n)
        PROVE  PInv'
    <3>1. IInv'
      BY <2>1, SetupInv
    <3> QED BY <2>1, <3>1 DEF Setup, ParentsSelected, VisitedHaveParents, ParentsAcyclic,
                              Selected, IInv, VisitsFromStart
  <2>2. ASSUME \/ Pop \/ UNCHANGED vars
               \/ \E a \in graph.arcs : SkipEdge(a) \/ SeenNode(a)
        PROVE  PInv'
    <3>1. IInv'
      BY <2>2, PopInv, PassInv, StutterInv
    <3>2. UNCHANGED <<graph, visited, parent, start>>
      BY <2>2 DEF Pop, vars, SkipEdge, SeenNode
    <3> QED BY <3>1, <3>2 DEF ParentsSelected, VisitedHaveParents, ParentsAcyclic, Selected
  <2> QED BY <2>1, <2>2, PathVisitInv DEF Next, Step
<1> QED BY <1>1, PathInitInv, PTL DEF Spec
-----------------------------------------------------------------------------
\* A sequence with one more element in front.
LEMMA PrependProperties ==
  ASSUME NEW S, NEW w \in Seq(S), NEW p \in S
  PROVE  /\ <<p>> \o w \in Seq(S)
         /\ Len(<<p>> \o w) = Len(w) + 1
         /\ (<<p>> \o w)[1] = p
         /\ \A i \in 1 .. Len(w) : (<<p>> \o w)[i + 1] = w[i]
<1>1. <<p>> \in Seq(S) /\ Len(<<p>>) = 1 /\ <<p>>[1] = p /\ Len(w) \in Nat
  OBVIOUS
<1>2. /\ <<p>> \o w \in Seq(S)
      /\ Len(<<p>> \o w) = Len(<<p>>) + Len(w)
      /\ \A i \in 1 .. Len(<<p>>) + Len(w) :
           (<<p>> \o w)[i] = IF i <= Len(<<p>>) THEN <<p>>[i] ELSE w[i - Len(<<p>>)]
  BY <1>1, ConcatProperties
<1>3. (<<p>> \o w)[1] = p
  BY <1>1, <1>2
<1>4. ASSUME NEW i \in 1 .. Len(w)
      PROVE  (<<p>> \o w)[i + 1] = w[i]
  <2>1. i + 1 \in 1 .. 1 + Len(w) /\ ~(i + 1 <= 1) /\ i + 1 - 1 = i
    BY <1>1
  <2> QED BY <1>1, <1>2, <2>1
<1> QED BY <1>1, <1>2, <1>3, <1>4

\* What buildPath has put together so far: a way along parents to the end
\* node, on which a numbering of the nodes rises.
Trail(end, rank) ==
  {w \in Seq(visited) :
     /\ w # <<>>
     /\ w[Len(w)] = end
     /\ \A i \in 1 .. Len(w) - 1 : <<w[i], w[i + 1]>> \in parent
     /\ \A i, j \in 1 .. Len(w) : i < j => rank[w[i]] < rank[w[j]]}

\* The parent of its first node extends a trail.
LEMMA TrailExtends ==
  ASSUME PInv, NEW end, NEW rank \in [Nodes -> Nat],
         \A a \in parent : rank[a[1]] < rank[a[2]],
         NEW w \in Trail(end, rank),
         NEW a \in parent, a[2] = w[1]
  PROVE  <<a[1]>> \o w \in Trail(end, rank)
<1> USE DEF PInv
<1> DEFINE v == <<a[1]>> \o w
<1>1. PICK len \in Nat \ {0} : len = Len(w)
  BY DEF Trail
<1>2. a[1] \in visited /\ a = <<a[1], w[1]>> /\ w \in Seq(visited) /\ visited \subseteq Nodes
  BY DEF Trail, ParentsSelected, IInv, TypeOK
<1>3. /\ v \in Seq(visited) /\ Len(v) = len + 1 /\ v[1] = a[1]
      /\ \A i \in 1 .. len : v[i + 1] = w[i]
  BY <1>1, <1>2, PrependProperties
<1>4. \A i \in 1 .. len : w[i] \in Nodes /\ rank[w[i]] \in Nat
  BY <1>1, <1>2
<1>5. w[len] = end /\ (\A i \in 1 .. len - 1 : <<w[i], w[i + 1]>> \in parent)
      /\ \A i, j \in 1 .. len : i < j => rank[w[i]] < rank[w[j]]
  BY <1>1 DEF Trail
<1> HIDE DEF v
<1>6. v # <<>> /\ v[len + 1] = end
  BY <1>3, <1>5
<1>7. ASSUME NEW i \in 1 .. len
      PROVE  <<v[i], v[i + 1]>> \in parent
  <2>1. CASE i = 1
    BY <1>2, <1>3, <2>1
  <2>2. CASE i # 1
    <3>1. i - 1 \in 1 .. len - 1 /\ i - 1 \in 1 .. len /\ i - 1 + 1 = i
      BY <2>2
    <3> QED BY <1>3, <1>5, <3>1
  <2> QED BY <2>1, <2>2
<1>8. ASSUME NEW i \in 1 .. len + 1, NEW j \in 1 .. len + 1, i < j
      PROVE  rank[v[i]] < rank[v[j]]
  <2>1. j - 1 \in 1 .. len /\ j - 1 + 1 = j
    BY <1>8
  <2>2. v[j] = w[j - 1]
    BY <1>3, <2>1
  <2>3. CASE i # 1
    <3>1. i - 1 \in 1 .. len /\ i - 1 + 1 = i /\ i - 1 < j - 1
      BY <1>8, <2>3
    <3> QED BY <1>3, <1>5, <2>1, <2>2, <3>1
  <2>4. CASE i = 1
    <3>1. rank[a[1]] < rank[w[1]] /\ a[1] \in Nodes /\ rank[a[1]] \in Nat
      BY <1>2
    <3>2. j - 1 = 1 \/ rank[w[1]] < rank[w[j - 1]]
      BY <1>5, <2>1
    <3>3. 1 \in 1 .. len
      OBVIOUS
    <3> QED BY <1>3, <1>4, <2>1, <2>2, <2>4, <3>1, <3>2, <3>3
  <2> QED BY <2>3, <2>4
<1>9. Len(v) - 1 = len
  BY <1>3
<1>10. v \in Trail(end, rank)
  BY <1>3, <1>6, <1>7, <1>8, <1>9 DEF Trail
<1> QED BY <1>10 DEF v

\* A trail visits no node twice, so it is no longer than there are nodes.
LEMMA TrailBounded ==
  ASSUME PInv, NEW end, NEW rank \in [Nodes -> Nat], NEW w \in Trail(end, rank)
  PROVE  Len(w) <= Cardinality(Nodes)
<1>1. Cardinality(Nodes) \in Nat /\ IsFiniteSet(Nodes)
  BY DepthFirstSearchAssumption, FS_CardinalityType
<1>2. w \in Seq(visited) /\ Len(w) \in Nat /\ visited \subseteq Nodes
  BY DEF Trail, PInv, IInv, TypeOK
<1>3. w \in [1 .. Len(w) -> Nodes]
  BY <1>2
<1>4. IsFiniteSet(1 .. Len(w)) /\ Cardinality(1 .. Len(w)) = Len(w)
  <2>1. PICK n \in Nat : n = Len(w)
    BY <1>2
  <2>2. /\ IsFiniteSet(1 .. n)
        /\ Cardinality(1 .. n) = IF 1 > n THEN 0 ELSE n - 1 + 1
    <3>1. 1 \in Int /\ n \in Int
      OBVIOUS
    <3> QED BY <3>1, FS_Interval, Zenon
  <2>3. Cardinality(1 .. n) = n
    BY <2>2
  <2> QED BY <2>1, <2>2, <2>3
<1>5. SUFFICES ASSUME Cardinality(Nodes) < Len(w) PROVE FALSE
  BY <1>1, <1>2
<1>6. PICK i \in 1 .. Len(w), j \in 1 .. Len(w) : i # j /\ w[i] = w[j]
  BY <1>1, <1>3, <1>4, <1>5, FS_PigeonHole
<1>7. i < j \/ j < i
  BY <1>2, <1>6
<1>8. rank[w[i]] < rank[w[j]] \/ rank[w[j]] < rank[w[i]]
  BY <1>7 DEF Trail
<1>9. rank[w[i]] \in Nat /\ rank[w[i]] = rank[w[j]]
  BY <1>3, <1>6
<1> QED BY <1>8, <1>9

\* buildPath's loop ends at the start node: it follows parents for at most as
\* many steps as there are nodes.
LEMMA PathIsTrail ==
  ASSUME PInv, NEW end \in visited \ start
  PROVE  \E rank \in [Nodes -> Nat] :
           BuildPath(end) \in Trail(end, rank) /\ BuildPath(end)[1] \in start
<1> USE DEF PInv
<1> DEFINE size == Cardinality(Nodes)
           ParentOf(n) == (CHOOSE a \in parent : a[2] = n)[1]
           Extended(w) == IF Head(w) \in start THEN w ELSE <<ParentOf(Head(w))>> \o w
           IsWalk(g) == g = [k \in 0 .. size |-> IF k = 0 THEN <<end>>
                                                 ELSE Extended(g[k - 1])]
           walk == CHOOSE g : IsWalk(g)
<1>1. size \in Nat
  BY DepthFirstSearchAssumption, FS_CardinalityType
<1>2. BuildPath(end) = walk[size]
  <2>1. \E a \in parent : a[2] = end
    BY DEF VisitedHaveParents
  <2> QED BY <2>1 DEF BuildPath
<1>3. PICK rank \in [Nodes -> Nat] : \A a \in parent : rank[a[1]] < rank[a[2]]
  BY DEF ParentsAcyclic
<1> DEFINE Trails == Trail(end, rank)
<1>4. ASSUME NEW w \in Trails
      PROVE  /\ Extended(w) \in Trails
             /\ w[1] \notin start => Len(Extended(w)) = Len(w) + 1
             /\ w[1] \in start => Extended(w) = w
  <2>1. w \in Seq(visited) /\ w # <<>> /\ Head(w) = w[1] /\ w[1] \in visited
    BY DEF Trail
  <2>2. CASE w[1] \in start
    BY <2>1, <2>2
  <2>3. CASE w[1] \notin start
    <3>1. \E a \in parent : a[2] = w[1]
      BY <2>1, <2>3 DEF VisitedHaveParents
    <3>2. PICK a \in parent : a[2] = w[1] /\ ParentOf(w[1]) = a[1]
      BY <3>1
    <3>3. Extended(w) = <<a[1]>> \o w
      BY <2>1, <2>3, <3>2
    <3>4. <<a[1]>> \o w \in Trails
      BY <1>3, <3>2, TrailExtends
    <3>5. a[1] \in visited
      BY DEF ParentsSelected
    <3>6. Len(<<a[1]>> \o w) = Len(w) + 1
      BY <2>1, <3>5, PrependProperties
    <3> QED BY <2>3, <3>3, <3>4, <3>6
  <2> QED BY <2>2, <2>3
<1>5. <<end>> \in Trails /\ Len(<<end>>) = 1
  BY DEF Trail
<1> HIDE DEF Extended, Trails, size
<1>6. IsWalk(walk)
  <2> DEFINE next == [w \in Trails |-> Extended(w)]
  <2>1. next \in [Trails -> Trails]
    BY <1>4
  <2>2. PICK f \in [0 .. size -> Trails] : IsIteration(f, <<end>>, next, size)
    <3> HIDE DEF next
    <3> QED BY <1>1, <1>5, <2>1, IterationExists
  <2>3. \A k \in 0 .. size : f[k] = IF k = 0 THEN <<end>> ELSE Extended(f[k - 1])
    <3> SUFFICES ASSUME NEW k \in 0 .. size, k # 0
                 PROVE  f[k] = Extended(f[k - 1])
      BY <2>2 DEF IsIteration
    <3>1. k \in 1 .. size /\ k - 1 \in 0 .. size
      BY <1>1
    <3> QED BY <2>2, <3>1 DEF IsIteration
  <2>4. IsWalk(f)
    BY <2>3
  <2> QED BY <2>4
<1> DEFINE Steps == {k \in Nat : k <= size =>
                       /\ walk[k] \in Trails
                       /\ walk[k][1] \in start \/ Len(walk[k]) = k + 1}
<1> HIDE DEF walk
<1>7. walk[0] = <<end>> /\ \A k \in 1 .. size : walk[k] = Extended(walk[k - 1])
  BY <1>1, <1>6
<1>8. 0 \in Steps
  BY <1>1, <1>5, <1>7
<1>9. ASSUME NEW k \in Nat, k \in Steps
      PROVE  k + 1 \in Steps
  <2> SUFFICES ASSUME k + 1 <= size
               PROVE  /\ walk[k + 1] \in Trails
                      /\ walk[k + 1][1] \in start \/ Len(walk[k + 1]) = k + 1 + 1
    OBVIOUS
  <2>1. walk[k] \in Trails /\ (walk[k][1] \in start \/ Len(walk[k]) = k + 1)
    BY <1>1, <1>9
  <2>2. walk[k + 1] = Extended(walk[k])
    <3>1. k + 1 \in 1 .. size /\ k + 1 - 1 = k
      BY <1>1
    <3> QED BY <1>7, <3>1
  <2> QED BY <1>4, <2>1, <2>2
<1>10. Nat \subseteq Steps
  <2> HIDE DEF Steps
  <2> QED BY <1>8, <1>9, InductionOnSet
<1>11. walk[size] \in Trails /\ (walk[size][1] \in start \/ Len(walk[size]) = size + 1)
  BY <1>1, <1>10
<1>12. walk[size] \in Trails => Len(walk[size]) <= size
  BY TrailBounded DEF Trails, size
<1>13. walk[size][1] \in start
  BY <1>1, <1>11, <1>12
<1> QED BY <1>2, <1>11, <1>13 DEF Trails

\* PathFinder::find returns a path for exactly the nodes the search reaches,
\* from the start to the end along selected edges: on every graph.
THEOREM PathsCorrect == Spec => []PathsExact
<1>1. PInv => PathsExact
  <2> SUFFICES ASSUME PInv, Done, NEW end \in Nodes \ start
               PROVE  LET path == BuildPath(end) IN
                      /\ path # <<>> <=> end \in Reachable
                      /\ path # <<>> =>
                           /\ path[1] \in start
                           /\ path[Len(path)] = end
                           /\ \A i \in 1 .. Len(path) - 1 :
                                /\ <<path[i], path[i + 1]>> \in graph.arcs
                                /\ Selected(<<path[i], path[i + 1]>>)
    BY DEF PathsExact
  <2>1. visited = Reachable
    BY DoneReachable DEF PInv
  <2>2. CASE end \in visited
    <3>1. PICK rank \in [Nodes -> Nat] :
            BuildPath(end) \in Trail(end, rank) /\ BuildPath(end)[1] \in start
      BY <2>2, PathIsTrail
    <3> QED BY <2>1, <2>2, <3>1 DEF Trail, PInv, ParentsSelected
  <2>3. CASE end \notin visited
    <3>1. ~\E a \in parent : a[2] = end
      BY <2>3 DEF PInv, IInv, VisitsFromStart
    <3>2. BuildPath(end) = <<>>
      BY <3>1 DEF BuildPath
    <3> QED BY <2>1, <2>3, <3>2
  <2> QED BY <2>2, <2>3
<1> QED BY <1>1, ParentInvariant, PTL
=============================================================================
