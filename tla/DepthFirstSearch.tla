-------------------------- MODULE DepthFirstSearch --------------------------
(***************************************************************************)
(* The depth-first search behind every query: DepthFirstSearch             *)
(* (source/DepthFirstSearch.hpp) with the visitors of PathFinder           *)
(* (source/PathFinder.cpp), which keep each node's parent, and of the fan  *)
(* queries (NetlistGraph::getCombFanOut and getCombFanIn), which collect   *)
(* the visited nodes.                                                      *)
(*                                                                         *)
(* The graph is fixed.  An arc <<m, n>> is an edge in the direction of the *)
(* search: the edges themselves searching forward, their reverses          *)
(* searching backward; parallel edges are one arc.  The order of a node's  *)
(* edge list is left open: the search takes any arc it has not examined.   *)
(***************************************************************************)
EXTENDS Integers, Sequences, FiniteSets

CONSTANTS
  Nodes,   \* the nodes, by ID
  Graphs   \* the graphs searched, with the edge predicate's mode

Graph == [arcs : SUBSET (Nodes \X Nodes),
          disabled : SUBSET (Nodes \X Nodes),  \* edges with disabled set
          states : SUBSET Nodes,               \* nodes of kind State
          comb : BOOLEAN]                      \* stop at State nodes

ASSUME DepthFirstSearchAssumption ==
  /\ Nodes \subseteq Nat
  /\ IsFiniteSet(Nodes)
  /\ Graphs \subseteq Graph

VARIABLES
  graph,       \* the graph and the predicate
  visitStack,  \* DepthFirstSearch::visitStack, the nodes
  unexamined,  \* the arcs each stacked node's iterator has still to reach
  visited,     \* DepthFirstSearch::visitedNodes
  parent,      \* PathFinder's traversalMap, as a set of arcs
  start        \* the start node, once the search has been set up

vars == <<graph, visitStack, unexamined, visited, parent, start>>

Top == visitStack[Len(visitStack)]

ArcsFrom(n) == {a \in graph.arcs : a[1] = n}

\* The edge predicates: not disabled and, for combinational queries, not
\* into a State node (out of one, searching backward).
Selected(a) == a \notin graph.disabled /\ (graph.comb => a[2] \notin graph.states)

Init ==
  /\ graph \in Graphs
  /\ visitStack = <<>>
  /\ unexamined = [n \in Nodes |-> {}]
  /\ visited = {}
  /\ parent = {}
  /\ start = {}

Setup(n) ==
  /\ start = {}
  /\ start' = {n}
  /\ visited' = {n}
  /\ visitStack' = <<n>>
  /\ unexamined' = [unexamined EXCEPT ![n] = ArcsFrom(n)]
  /\ UNCHANGED <<graph, parent>>

Examine(a) ==
  /\ visitStack # <<>>
  /\ a \in unexamined[Top]

\* The predicate rejects the edge.
SkipEdge(a) ==
  /\ Examine(a)
  /\ ~Selected(a)
  /\ unexamined' = [unexamined EXCEPT ![Top] = @ \ {a}]
  /\ UNCHANGED <<graph, visitStack, visited, parent, start>>

\* The edge leads to a node visited before: visitor.visitedNode.
SeenNode(a) ==
  /\ Examine(a)
  /\ Selected(a)
  /\ a[2] \in visited
  /\ unexamined' = [unexamined EXCEPT ![Top] = @ \ {a}]
  /\ UNCHANGED <<graph, visitStack, visited, parent, start>>

VisitNodeUnmarked(a) ==
  /\ Examine(a)
  /\ Selected(a)
  /\ a[2] \notin visited
  /\ unexamined' = [unexamined EXCEPT ![Top] = @ \ {a}, ![a[2]] = ArcsFrom(a[2])]
  /\ visitStack' = Append(visitStack, a[2])
  /\ visited' = IF \E b \in ArcsFrom(a[2]) : Selected(b)
                THEN visited \cup {a[2]} ELSE visited
  /\ parent' = parent \cup {a}
  /\ UNCHANGED <<graph, start>>

VisitNodeFromStart(a) ==
  /\ Examine(a)
  /\ Selected(a)
  /\ a[2] \notin visited
  /\ unexamined' = [unexamined EXCEPT ![Top] = @ \ {a}, ![a[2]] = ArcsFrom(a[2])]
  /\ visitStack' = Append(visitStack, a[2])
  /\ visited' = visited \cup {a[2]}
  /\ parent' = parent \cup {<<visitStack[1], a[2]>>}
  /\ UNCHANGED <<graph, start>>

\* The edge leads to a new node: visitor.visitEdge and visitNode.
VisitNode(a) ==
  /\ Examine(a)
  /\ Selected(a)
  /\ a[2] \notin visited
  /\ unexamined' = [unexamined EXCEPT ![Top] = @ \ {a}, ![a[2]] = ArcsFrom(a[2])]
  /\ visitStack' = Append(visitStack, a[2])
  /\ visited' = visited \cup {a[2]}
  /\ parent' = parent \cup {a}
  /\ UNCHANGED <<graph, start>>

PopEarly ==
  /\ visitStack # <<>>
  /\ \A a \in unexamined[Top] : a[2] \in visited \/ a[2] < a[1]
  /\ visitStack' = SubSeq(visitStack, 1, Len(visitStack) - 1)
  /\ UNCHANGED <<graph, unexamined, visited, parent, start>>

\* Every edge of the top node has been examined: visitor.popNode.
Pop ==
  /\ visitStack # <<>>
  /\ unexamined[Top] = {}
  /\ visitStack' = SubSeq(visitStack, 1, Len(visitStack) - 1)
  /\ UNCHANGED <<graph, unexamined, visited, parent, start>>

Step == Pop \/ \E a \in graph.arcs : SkipEdge(a) \/ SeenNode(a) \/ VisitNode(a)

Next == (\E n \in Nodes : Setup(n)) \/ Step

Spec == Init /\ [][Next]_vars
-----------------------------------------------------------------------------
(***************************************************************************)
(* What the queries return once the search is over.                        *)
(***************************************************************************)
Done == start # {} /\ visitStack = <<>>

\* buildPath: parents from the end node back to the start.  The start node
\* never has a parent, so a path from a node to itself is never found.
BuildPath(end) ==
  LET ParentOf(n) == (CHOOSE a \in parent : a[2] = n)[1]
      walk[k \in 0 .. Cardinality(Nodes)] ==
        IF k = 0 THEN <<end>>
        ELSE IF Head(walk[k - 1]) \in start THEN walk[k - 1]
        ELSE <<ParentOf(Head(walk[k - 1]))>> \o walk[k - 1]
  IN IF \E a \in parent : a[2] = end THEN walk[Cardinality(Nodes)] ELSE <<>>

Closed(S) == \A a \in graph.arcs : a[1] \in S /\ Selected(a) => a[2] \in S

\* The nodes that selected edges lead to from the start: those in every set
\* that holds the start and is closed under them.
Reachable == {n \in Nodes : \A S \in SUBSET Nodes :
                              start \subseteq S /\ Closed(S) => n \in S}
-----------------------------------------------------------------------------
(***************************************************************************)
(* Properties.  (VisitNodeUnmarked, VisitNodeFromStart and PopEarly are    *)
(* faults that the runs inject to show that the properties can fail.)      *)
(***************************************************************************)
\* Everything has its type; only stacked nodes have edges left to examine,
\* and those are their own.
TypeOK ==
  /\ graph \in Graphs
  /\ visitStack \in Seq(Nodes)
  /\ unexamined \in [Nodes -> SUBSET (Nodes \X Nodes)]
  /\ \A n \in Nodes : /\ unexamined[n] \subseteq ArcsFrom(n)
                      /\ unexamined[n] # {} => \E i \in DOMAIN visitStack :
                                                  visitStack[i] = n
  /\ visited \subseteq Nodes
  /\ parent \subseteq Nodes \X Nodes
  /\ start \subseteq Nodes

\* The stack is a simple path from the start along selected edges, each
\* stacked node the parent of the next: what a cycle is read off from.
StackIsPath ==
  /\ visitStack # <<>> => visitStack[1] \in start
  /\ \A i \in DOMAIN visitStack : visitStack[i] \in visited
  /\ \A i, j \in DOMAIN visitStack : i # j => visitStack[i] # visitStack[j]
  /\ \A i \in 1 .. Len(visitStack) - 1 :
       <<visitStack[i], visitStack[i + 1]>> \in parent

\* "node cannot have two parents": the assertion in PathFinder's visitor
\* never fails, and the start node never gets a parent.
OneParent ==
  /\ \A a, b \in parent : a[2] = b[2] => a = b
  /\ \A a \in parent : a[2] \notin start

\* The search visits exactly what the selected edges reach: nothing is
\* missed although a node is never entered twice, and nothing is reached
\* through a disabled edge or past a State node.
VisitsReachable ==
  /\ visited \subseteq Reachable
  /\ Done => visited = Reachable

\* PathFinder::find returns a path for exactly the other nodes the search
\* reaches, and it is one: from the start to the end along selected edges.
PathsExact ==
  Done => \A end \in Nodes \ start :
    LET path == BuildPath(end) IN
    /\ path # <<>> <=> end \in Reachable
    /\ path # <<>> => /\ path[1] \in start
                      /\ path[Len(path)] = end
                      /\ \A i \in 1 .. Len(path) - 1 :
                           /\ <<path[i], path[i + 1]>> \in graph.arcs
                           /\ Selected(<<path[i], path[i + 1]>>)

\* What the induction needs besides: an edge that has been examined leads to
\* a visited node; visits, and parents, start with the search; and a node
\* with a parent has been visited.
ExaminedLeadsToVisited ==
  \A n \in visited : \A a \in ArcsFrom(n) :
    Selected(a) => a[2] \in visited \/ a \in unexamined[n]

VisitsFromStart ==
  /\ start \subseteq visited
  /\ start = {} => visited = {} /\ parent = {} /\ visitStack = <<>>
  /\ \A a \in parent : a[2] \in visited

VisitsOnlyReachable == visited \subseteq Reachable

IInv ==
  /\ TypeOK
  /\ StackIsPath
  /\ OneParent
  /\ ExaminedLeadsToVisited
  /\ VisitsFromStart
  /\ VisitsOnlyReachable
=============================================================================
