--------------------------- MODULE DirectedGraph ---------------------------
(***************************************************************************)
(* The graph store: Node and DirectedGraph of                              *)
(* include/netlist/DirectedGraph.hpp.                                      *)
(*                                                                         *)
(* A node owns its outEdges and keeps raw pointers to its inEdges; past a  *)
(* threshold it also keeps outEdgeIndex, the first out-edge to each        *)
(* target.  Worker threads add edges concurrently, under the edgeMutex of  *)
(* the source and of the target; nodes and edges are removed without       *)
(* locking, so only while no edge is being added.                          *)
(*                                                                         *)
(* A critical section that takes no second lock is one action.  addEdge    *)
(* takes the target's mutex while it holds the source's: that wait is the  *)
(* state "linkIn", and edgeMutex records who holds what across it.         *)
(***************************************************************************)
EXTENDS Integers, Sequences

CONSTANTS
  Nodes,     \* the addresses of nodes
  Threads,   \* the worker threads
  NoThread,  \* the holder of a free mutex
  Requests,  \* Requests[t]: the calls thread t may make
  Threshold, \* outEdgeIndexThreshold
  MaxCalls   \* bound on the number of edge-adding calls

Request == [fn : {"addEdge", "addNewEdge"}, source : Nodes, target : Nodes]

ASSUME DirectedGraphAssumption ==
  /\ Nodes # {}
  /\ NoThread \notin Threads
  /\ Requests \in [Threads -> SUBSET Request]
  /\ Threshold \in Nat
  /\ MaxCalls \in Nat

\* The parallel edges between two nodes are made by one thread: a worker
\* resolves all pending references to a target.
ASSUME ParallelEdgesAssumption ==
  \A t, u \in Threads : \A r \in Requests[t] \cap Requests[u] :
    r.fn = "addNewEdge" /\ r.source # r.target => t = u

VARIABLES
  nodes,         \* DirectedGraph::nodes
  outEdges,      \* Node::outEdges, in the order of insertion
  inEdges,       \* Node::inEdges
  outEdgeIndex,  \* Node::outEdgeIndex, the edges it maps targets to
  indexed,       \* Node::outEdgeIndex != nullptr
  edgeMutex,     \* Node::edgeMutex, the thread that holds it
  pc,            \* where each thread is in its call
  edge,          \* each thread's edge: asked for, created or returned
  created,       \* how many edges have been allocated
  calls,         \* how many calls have started (the bound)
  clearing       \* the node that removeNode is clearing, as a set

store == <<nodes, outEdges, inEdges, outEdgeIndex, indexed>>
vars == <<nodes, outEdges, inEdges, outEdgeIndex, indexed,
          edgeMutex, pc, edge, created, calls, clearing>>

\* An edge with its address; address 0 is that of an edge not yet allocated.
Edge == [source : Nodes, target : Nodes, id : Nat]

\* What a thread that has made no call yet has.
NoEdge == LET n == CHOOSE n \in Nodes : TRUE
          IN [source |-> n, target |-> n, id |-> 0]

Control == {"idle", "addEdge", "addNewEdge", "linkIn", "linkNew"}

Elements(s) == {s[k] : k \in DOMAIN s}

\* vector::erase of the element at k.
Erase(s, k) == [j \in 1 .. Len(s) - 1 |-> IF j < k THEN s[j] ELSE s[j + 1]]

IsFirstTo(s, k, target) ==
  /\ k \in DOMAIN s
  /\ s[k].target = target
  /\ \A j \in DOMAIN s : j < k => s[j].target # target

IsFirstFrom(s, k, source) ==
  /\ k \in DOMAIN s
  /\ s[k].source = source
  /\ \A j \in DOMAIN s : j < k => s[j].source # source

\* findEdgeTo: the position of the first edge to the target, if there is one.
FindEdgeTo(s, target) == {k \in DOMAIN s : IsFirstTo(s, k, target)}

\* findEdgeFrom: likewise in a list of in-edges.
FindEdgeFrom(s, source) == {k \in DOMAIN s : IsFirstFrom(s, k, source)}

\* The first edge to each target that a list of out-edges has.
Firsts(s) == {s[k] : k \in {j \in DOMAIN s : IsFirstTo(s, j, s[j].target)}}
-----------------------------------------------------------------------------
(***************************************************************************)
(* The index.                                                              *)
(***************************************************************************)
\* lookupOutEdge: the existing edge, as a set of at most one.
LookupOutEdge(n, target) ==
  IF indexed[n]
  THEN {e \in outEdgeIndex[n] : e.target = target}
  ELSE {outEdges[n][k] : k \in FindEdgeTo(outEdges[n], target)}

InsertOverwrites(n, e) ==
  LET list == Append(outEdges[n], e) IN
  IF indexed[n]
  THEN /\ outEdgeIndex' = [outEdgeIndex EXCEPT
            ![n] = {f \in @ : f.target # e.target} \cup {e}]
       /\ UNCHANGED indexed
  ELSE /\ indexed' = [indexed EXCEPT ![n] = Len(list) > Threshold]
       /\ outEdgeIndex' = [outEdgeIndex EXCEPT
            ![n] = IF Len(list) > Threshold THEN Firsts(list) ELSE @]

InsertForgets(n, e) ==
  LET list == Append(outEdges[n], e) IN
  /\ indexed' = [indexed EXCEPT ![n] = @ \/ Len(list) > Threshold]
  /\ outEdgeIndex' = [outEdgeIndex EXCEPT
       ![n] = IF ~indexed[n] /\ Len(list) > Threshold THEN Firsts(list) ELSE @]

\* insertOutEdgeIndex and tryInsertOutEdgeIndex, given the list the new edge
\* has been pushed onto: emplace and try_emplace keep an entry that exists;
\* the index is built when the list outgrows the threshold.
InsertOutEdgeIndex(n, e) ==
  LET list == Append(outEdges[n], e) IN
  IF indexed[n]
  THEN /\ outEdgeIndex' = [outEdgeIndex EXCEPT
            ![n] = IF \E f \in @ : f.target = e.target THEN @ ELSE @ \cup {e}]
       /\ UNCHANGED indexed
  ELSE /\ indexed' = [indexed EXCEPT ![n] = Len(list) > Threshold]
       /\ outEdgeIndex' = [outEdgeIndex EXCEPT
            ![n] = IF Len(list) > Threshold THEN Firsts(list) ELSE @]
-----------------------------------------------------------------------------
Init ==
  /\ nodes = {}
  /\ outEdges = [n \in Nodes |-> <<>>]
  /\ inEdges = [n \in Nodes |-> <<>>]
  /\ outEdgeIndex = [n \in Nodes |-> {}]
  /\ indexed = [n \in Nodes |-> FALSE]
  /\ edgeMutex = [n \in Nodes |-> NoThread]
  /\ pc = [t \in Threads |-> "idle"]
  /\ edge = [t \in Threads |-> NoEdge]
  /\ created = 0
  /\ calls = 0
  /\ clearing = {}

Free(n) == edgeMutex[n] = NoThread

Goto(t, label) == pc' = [pc EXCEPT ![t] = label]

\* addNode, under nodesMutex: concurrent with everything but a removal.
AddNode(n) ==
  /\ clearing = {}
  /\ n \notin nodes
  /\ nodes' = nodes \cup {n}
  /\ UNCHANGED <<outEdges, inEdges, outEdgeIndex, indexed, edgeMutex,
                 pc, edge, created, calls, clearing>>

\* A thread calls addEdge or addNewEdge.
CallAdd(t, r) ==
  /\ pc[t] = "idle"
  /\ clearing = {}
  /\ calls < MaxCalls
  /\ {r.source, r.target} \subseteq nodes
  /\ Goto(t, r.fn)
  /\ edge' = [edge EXCEPT ![t] = [source |-> r.source, target |-> r.target,
                                  id |-> 0]]
  /\ calls' = calls + 1
  /\ UNCHANGED <<store, edgeMutex, created, clearing>>

\* addEdge: the edge exists and is returned.
AddEdgeFound(t) ==
  /\ pc[t] = "addEdge"
  /\ Free(edge[t].source)
  /\ \E e \in LookupOutEdge(edge[t].source, edge[t].target) :
       edge' = [edge EXCEPT ![t] = e]
  /\ Goto(t, "idle")
  /\ UNCHANGED <<store, edgeMutex, created, calls, clearing>>

NewEdge(t) == [edge[t] EXCEPT !.id = created + 1]

\* outEdges.emplace_back of a new edge and its entry in the index.
PushOut(t) ==
  LET e == NewEdge(t) IN
  /\ outEdges' = [outEdges EXCEPT ![e.source] = Append(@, e)]
  /\ InsertOutEdgeIndex(e.source, e)
  /\ edge' = [edge EXCEPT ![t] = e]
  /\ created' = created + 1

PushInAtSource(e) == inEdges' = [inEdges EXCEPT ![e.source] = Append(@, e)]

PushIn(e) == inEdges' = [inEdges EXCEPT ![e.target] = Append(@, e)]

AddEdgeCreateLocksTwice(t) ==
  /\ pc[t] = "addEdge"
  /\ Free(edge[t].source)
  /\ LookupOutEdge(edge[t].source, edge[t].target) = {}
  /\ PushOut(t)
  /\ Goto(t, "linkIn")
  /\ edgeMutex' = [edgeMutex EXCEPT ![edge[t].source] = t]
  /\ UNCHANGED <<inEdges, nodes, calls, clearing>>

\* addEdge: a new edge.  A self-edge is linked at once; otherwise the source
\* stays locked while the thread waits for the target's mutex.
AddEdgeCreate(t) ==
  /\ pc[t] = "addEdge"
  /\ Free(edge[t].source)
  /\ LookupOutEdge(edge[t].source, edge[t].target) = {}
  /\ PushOut(t)
  /\ IF edge[t].source = edge[t].target
     THEN /\ PushIn(NewEdge(t))
          /\ Goto(t, "idle")
          /\ UNCHANGED edgeMutex
     ELSE /\ Goto(t, "linkIn")
          /\ edgeMutex' = [edgeMutex EXCEPT ![edge[t].source] = t]
          /\ UNCHANGED inEdges
  /\ UNCHANGED <<nodes, calls, clearing>>

LinkInKeepsLock(t) ==
  /\ pc[t] = "linkIn"
  /\ Free(edge[t].target)
  /\ PushIn(edge[t])
  /\ Goto(t, "idle")
  /\ UNCHANGED <<nodes, outEdges, outEdgeIndex, indexed, edgeMutex, edge,
                 created, calls, clearing>>

LinkInForgets(t) ==
  /\ pc[t] = "linkIn"
  /\ Free(edge[t].target)
  /\ edgeMutex' = [edgeMutex EXCEPT ![edge[t].source] = NoThread]
  /\ Goto(t, "idle")
  /\ UNCHANGED <<store, edge, created, calls, clearing>>

\* addEdge: the target's mutex is free; both are released on return.
LinkIn(t) ==
  /\ pc[t] = "linkIn"
  /\ Free(edge[t].target)
  /\ PushIn(edge[t])
  /\ edgeMutex' = [edgeMutex EXCEPT ![edge[t].source] = NoThread]
  /\ Goto(t, "idle")
  /\ UNCHANGED <<nodes, outEdges, outEdgeIndex, indexed, edge, created,
                 calls, clearing>>

\* addNewEdge: the source's critical section (both lists for a self-edge).
AddNewEdge(t) ==
  /\ pc[t] = "addNewEdge"
  /\ Free(edge[t].source)
  /\ PushOut(t)
  /\ IF edge[t].source = edge[t].target
     THEN PushIn(NewEdge(t)) /\ Goto(t, "idle")
     ELSE Goto(t, "linkNew") /\ UNCHANGED inEdges
  /\ UNCHANGED <<nodes, edgeMutex, calls, clearing>>

\* addNewEdge: the target's critical section.
LinkNew(t) ==
  /\ pc[t] = "linkNew"
  /\ Free(edge[t].target)
  /\ PushIn(edge[t])
  /\ Goto(t, "idle")
  /\ UNCHANGED <<nodes, outEdges, outEdgeIndex, indexed, edgeMutex, edge,
                 created, calls, clearing>>
-----------------------------------------------------------------------------
(***************************************************************************)
(* Removal, which takes no lock.                                           *)
(***************************************************************************)
Quiescent == \A t \in Threads : pc[t] = "idle"

\* removeInEdge: the first in-edge from the source goes, if there is one.
RemoveInEdge(source, target) ==
  LET found == FindEdgeFrom(inEdges[target], source) IN
  IF found = {} THEN UNCHANGED inEdges
  ELSE \E k \in found :
         inEdges' = [inEdges EXCEPT ![target] = Erase(@, k)]

UnlinkForgetsTarget(source, target) ==
  \E k \in FindEdgeTo(outEdges[source], target) :
    LET rest == Erase(outEdges[source], k)
        survivor == {rest[j] : j \in FindEdgeTo(rest, target)}
    IN /\ outEdges' = [outEdges EXCEPT ![source] = rest]
       /\ outEdgeIndex' = [outEdgeIndex EXCEPT
            ![source] = IF indexed[source]
                        THEN {f \in @ : f.target # target} \cup survivor
                        ELSE @]
       /\ UNCHANGED inEdges

\* Node::removeEdge when it finds an edge.
Unlink(source, target) ==
  \E k \in FindEdgeTo(outEdges[source], target) :
    LET rest == Erase(outEdges[source], k)
        survivor == {rest[j] : j \in FindEdgeTo(rest, target)}
    IN /\ RemoveInEdge(source, target)
       /\ outEdges' = [outEdges EXCEPT ![source] = rest]
       /\ outEdgeIndex' = [outEdgeIndex EXCEPT
            ![source] = IF indexed[source]
                        THEN {f \in @ : f.target # target} \cup survivor
                        ELSE @]

RemoveEdge(source, target) ==
  /\ Quiescent
  /\ clearing = {}
  /\ {source, target} \subseteq nodes
  /\ Unlink(source, target)
  /\ UNCHANGED <<nodes, indexed, edgeMutex, pc, edge, created, calls, clearing>>

\* DirectedGraph::removeNode begins clearAllEdges.
RemoveNode(n) ==
  /\ Quiescent
  /\ clearing = {}
  /\ n \in nodes
  /\ clearing' = {n}
  /\ UNCHANGED <<store, edgeMutex, pc, edge, created, calls>>

\* clearAllEdges, first loop: an out-edge leaves its target's inEdges.
\* outEdges.clear() and outEdgeIndex.reset() end the loop; nothing reads
\* either before.
ClearOutEdge(n) ==
  /\ n \in clearing
  /\ outEdges[n] # <<>>
  /\ RemoveInEdge(n, outEdges[n][1].target)
  /\ outEdges' = [outEdges EXCEPT ![n] = Erase(@, 1)]
  /\ outEdgeIndex' = [outEdgeIndex EXCEPT ![n] = {}]
  /\ indexed' = [indexed EXCEPT ![n] = FALSE]
  /\ UNCHANGED <<nodes, edgeMutex, pc, edge, created, calls, clearing>>

\* clearAllEdges, second loop: removeEdge on the source of an in-edge.
ClearInEdge(n) ==
  /\ n \in clearing
  /\ outEdges[n] = <<>>
  /\ inEdges[n] # <<>>
  /\ Unlink(inEdges[n][1].source, n)
  /\ UNCHANGED <<nodes, indexed, edgeMutex, pc, edge, created, calls, clearing>>

\* The node leaves the graph.
EraseNode(n) ==
  /\ n \in clearing
  /\ outEdges[n] = <<>>
  /\ inEdges[n] = <<>>
  /\ nodes' = nodes \ {n}
  /\ clearing' = {}
  /\ outEdgeIndex' = [outEdgeIndex EXCEPT ![n] = {}]
  /\ indexed' = [indexed EXCEPT ![n] = FALSE]
  /\ UNCHANGED <<outEdges, inEdges, edgeMutex, pc, edge, created, calls>>

Work(t) ==
  \/ AddEdgeFound(t)
  \/ AddEdgeCreate(t)
  \/ LinkIn(t)
  \/ AddNewEdge(t)
  \/ LinkNew(t)

Next ==
  \/ \E n \in Nodes : \/ AddNode(n)
                      \/ RemoveNode(n)
                      \/ ClearOutEdge(n)
                      \/ ClearInEdge(n)
                      \/ EraseNode(n)
  \/ \E source, target \in Nodes : RemoveEdge(source, target)
  \/ \E t \in Threads : \/ \E r \in Requests[t] : CallAdd(t, r)
                        \/ Work(t)

Spec == Init /\ [][Next]_vars

\* The operating system runs every worker thread, and a thread that waits for
\* a mutex gets it once the mutex stays free.
FairSpec == Spec /\ \A t \in Threads : WF_vars(Work(t))
-----------------------------------------------------------------------------
(***************************************************************************)
(* Properties.  (InsertOverwrites, InsertForgets, PushInAtSource,          *)
(* AddEdgeCreateLocksTwice, LinkInKeepsLock, LinkInForgets and             *)
(* UnlinkForgetsTarget are faults that the runs inject to show that the    *)
(* properties can fail; Next uses none of them.)                           *)
(***************************************************************************)
\* Everything has its type, and every edge is listed at its own endpoints.
TypeOK ==
  /\ nodes \subseteq Nodes
  /\ outEdges \in [Nodes -> Seq(Edge)]
  /\ inEdges \in [Nodes -> Seq(Edge)]
  /\ \A n \in Nodes : /\ \A e \in Elements(outEdges[n]) : e.source = n
                      /\ \A e \in Elements(inEdges[n]) : e.target = n
  /\ outEdgeIndex \in [Nodes -> SUBSET Edge]
  /\ indexed \in [Nodes -> BOOLEAN]
  /\ edgeMutex \in [Nodes -> Threads \cup {NoThread}]
  /\ pc \in [Threads -> Control]
  /\ edge \in [Threads -> Edge]
  /\ created \in Nat
  /\ calls \in Nat
  /\ clearing \subseteq Nodes

\* The edges some thread has pushed onto outEdges and not yet onto inEdges.
Unlinked == {edge[t] : t \in {u \in Threads : pc[u] \in {"linkIn", "linkNew"}}}

\* "lifetime is bounded by the source's outEdges entry": a raw pointer in
\* inEdges points to an edge its source still owns, so that it never dangles,
\* whatever was added concurrently and removed since.
NoDanglingInEdge ==
  \A n \in Nodes : \A e \in Elements(inEdges[n]) :
    e \in Elements(outEdges[e.source])

\* The other half: an edge its source owns is known to its target, unless
\* the thread that creates it is between the two critical sections.
EveryEdgeLinked ==
  \A n \in Nodes : \A e \in Elements(outEdges[n]) :
    e \in Elements(inEdges[e.target]) \/ e \in Unlinked

\* outEdgeIndex always maps exactly the targets of outEdges, each to the
\* first edge to it, however additions, the lazy construction and removals
\* (which must re-point the entry to a surviving parallel edge) mix.
IndexIsFirst ==
  \A n \in Nodes : outEdgeIndex[n] = IF indexed[n] THEN Firsts(outEdges[n]) ELSE {}

\* No set of threads waits each for a mutex that a member of it holds.
NoWaitCycle ==
  \A S \in (SUBSET Threads) \ {{}} :
    ~ \A t \in S : pc[t] = "linkIn" /\ edgeMutex[edge[t].target] \in S

\* What addEdge promises its caller: a live edge between the two nodes, and
\* never a parallel one: if outEdges held an edge to the target when the call
\* took effect, indexed or not, the result is one that was there.
AddEdgeDeduplicates ==
  [][\A t \in Threads :
       pc[t] = "addEdge" /\ pc'[t] # "addEdge" =>
         /\ edge'[t].source = edge[t].source
         /\ edge'[t].target = edge[t].target
         /\ edge'[t] \in Elements(outEdges'[edge[t].source])
         /\ \A e \in Elements(outEdges[edge[t].source]) :
              e.target = edge[t].target =>
                edge'[t] \in Elements(outEdges[edge[t].source])]_vars

\* Every call to addEdge or addNewEdge returns.
EveryCallReturns == \A t \in Threads : pc[t] # "idle" ~> pc[t] = "idle"
=============================================================================
