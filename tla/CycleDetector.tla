--------------------------- MODULE CycleDetector ---------------------------
(***************************************************************************)
(* Combinational loops: CycleDetector (source/CycleDetector.hpp) as        *)
(* CombLoops::getAllLoops (source/CombLoops.cpp) uses it.  One search per  *)
(* node of the graph, in any order, but from none that is already known to *)
(* be on a cycle.  The visitor's recursionStack is the search's stack.     *)
(***************************************************************************)
EXTENDS DepthFirstSearch

VARIABLES
  remaining,  \* the nodes detectCycles' loop has still to come to
  marked,     \* CycleDetector::visitedNodes
  found,      \* CycleDetectionVisitor::cycles of the current search
  cycles      \* the result

cvars == <<graph, visitStack, unexamined, visited, parent, start,
           remaining, marked, found, cycles>>

CycleInit ==
  /\ Init
  /\ remaining = Nodes
  /\ marked = {}
  /\ found = {}
  /\ cycles = {}

NextStart == start = {} /\ remaining # {}

\* A node that was marked by an earlier search is passed over.
PassOver(n) ==
  /\ NextStart
  /\ n \in remaining \cap marked
  /\ remaining' = remaining \ {n}
  /\ UNCHANGED <<vars, marked, found, cycles>>

StartSearch(n) ==
  /\ NextStart
  /\ n \in remaining \ marked
  /\ Setup(n)
  /\ remaining' = remaining \ {n}
  /\ marked' = marked \cup {n}
  /\ UNCHANGED <<found, cycles>>

NotRotated(c) == c

\* std::rotate to the lowest ID.
Canonical(c) ==
  LET k == CHOOSE i \in DOMAIN c : \A j \in DOMAIN c : c[i] <= c[j]
  IN SubSeq(c, k, Len(c)) \o SubSeq(c, 1, k - 1)

\* visitedNode: a node on the stack closes a cycle.
CycleThrough(n) ==
  {Canonical(SubSeq(visitStack, i, Len(visitStack))) :
     i \in {j \in DOMAIN visitStack : visitStack[j] = n}}

DetectSeen(a) ==
  /\ SeenNode(a)
  /\ found' = found \cup CycleThrough(a[2])
  /\ UNCHANGED <<remaining, marked, cycles>>

DetectStep ==
  /\ \/ Pop
     \/ \E a \in graph.arcs : SkipEdge(a) \/ VisitNode(a)
  /\ UNCHANGED <<remaining, marked, found, cycles>>

MarkAllReached == marked \cup visited

\* markAllVisitedNodes: the nodes of the cycles this search found.
Marks == marked \cup UNION {{c[i] : i \in DOMAIN c} : c \in found}

\* The search is over; the next has a new visitor and new sets.
EndSearch ==
  /\ Done
  /\ marked' = Marks
  /\ cycles' = cycles \cup found
  /\ found' = {}
  /\ start' = {}
  /\ visited' = {}
  /\ parent' = {}
  /\ UNCHANGED <<graph, visitStack, unexamined, remaining>>

CycleNext ==
  \/ \E n \in Nodes : PassOver(n) \/ StartSearch(n)
  \/ \E a \in graph.arcs : DetectSeen(a)
  \/ DetectStep
  \/ EndSearch

CycleSpec == CycleInit /\ [][CycleNext]_cvars
-----------------------------------------------------------------------------
(***************************************************************************)
(* Properties.  (NotRotated and MarkAllReached are faults injected to show *)
(* that the properties can fail.)                                          *)
(***************************************************************************)
Detected == remaining = {} /\ start = {}

\* Node n reaches node m along one selected edge or more.
ReachesFrom(n, m) ==
  \A S \in SUBSET Nodes :
    /\ \A a \in graph.arcs : a[1] = n /\ Selected(a) => a[2] \in S
    /\ Closed(S)
    => m \in S

OnCycle(n) == ReachesFrom(n, n)

IsCycle(c) ==
  /\ c # <<>>
  /\ \A i, j \in DOMAIN c : i # j => c[i] # c[j]
  /\ \A i \in DOMAIN c :
       LET a == <<c[i], c[IF i = Len(c) THEN 1 ELSE i + 1]>>
       IN a \in graph.arcs /\ Selected(a)

\* Every reported loop is one: a simple cycle of combinational edges, listed
\* once, from its lowest ID.
LoopsAreCycles ==
  \A c \in found \cup cycles :
    /\ IsCycle(c)
    /\ \A i \in DOMAIN c : c[1] <= c[i]

\* No loop escapes: although searches are skipped for nodes known to be on a
\* cycle and never enter a node twice, in the end every node on some cycle is
\* on a reported one; so a graph with no report has no loop.
NoLoopEscapes ==
  Detected =>
    \A n \in Nodes : OnCycle(n) => \E c \in cycles : n \in {c[i] : i \in DOMAIN c}
=============================================================================
