------------------------------ MODULE Netlist ------------------------------
(***************************************************************************)
(* A netlist in use: NetlistGraph's name index and queries, the answers of *)
(* the command-line driver to fan-in and fan-out queries, and              *)
(* NetlistSerializer's save and load.                                      *)
(*                                                                         *)
(* A graph is [nodes, edges]: nodes is the list of nodes, each             *)
(* [id, kind, path, lo, hi] with an empty path where it has none, and      *)
(* edges[i] is the list of out-edges of the i-th node, each                *)
(* [to, sym, lo, hi, kind, role].  disable() has no caller, so no edge is  *)
(* disabled.  Queries return sets where the order is that of the graph's   *)
(* hash tables or of the in-edges.                                         *)
(***************************************************************************)
EXTENDS Names, FiniteSets, FiniteSetsExt

CONSTANTS
  NodeList,    \* the nodes of the design, in the order of their creation
  Calls,       \* the addDependency calls that building it may make
  MaxCalls,    \* bound: how many it makes
  FirstId,     \* NetlistNode::nextID before the build
  BlackBoxes,  \* the paths of the black-boxed instances
  Patterns,    \* the glob patterns to look for, each a list of segments
  Queries      \* the fan-in and fan-out queries to ask

VARIABLES
  g,           \* the graph
  calls,       \* the calls of addDependency so far
  index,       \* indexBuilt and nodeIndex, a function from paths
  seen,        \* history: how many nodes there were at the first lookup
  file,        \* the saved netlist, or NoFile
  loaded       \* what loading it has given: a status and a graph

vars == <<g, calls, index, seen, file, loaded>>

NotBuilt == [built |-> FALSE, of |-> <<>>]
NoFile == [version |-> 0, nodes |-> <<>>, edges |-> <<>>]
NoSym == "none"
EmptyGraph == [nodes |-> <<>>, edges |-> <<>>]
NotLoaded == [status |-> "none", graph |-> EmptyGraph]
FormatVersion == 4

ASSUME NetlistAssumption ==
  /\ FirstId \in Nat
  /\ \A c \in Calls : {c.from, c.to} \subseteq DOMAIN NodeList /\ c.lo <= c.hi

Bounded(n) == n.kind \in {"port", "variable", "state"}
Overlaps(a, b) == a.lo <= b.hi /\ b.lo <= a.hi
Intersection(a, b) == [lo |-> Max({a.lo, b.lo}), hi |-> Min({a.hi, b.hi})]
-----------------------------------------------------------------------------
(***************************************************************************)
(* Building.                                                               *)
(***************************************************************************)
AddNode(G, n) == [nodes |-> Append(G.nodes, n), edges |-> Append(G.edges, <<>>)]

\* addEdge: the first edge to the target, made if there is none.
AddEdge(out, to) ==
  IF \E k \in DOMAIN out : out[k].to = to THEN out
  ELSE Append(out, [to |-> to, sym |-> NoSym, lo |-> 0, hi |-> 0,
                    kind |-> "none", role |-> "data"])
EdgeTo(out, to) == Min({k \in DOMAIN out : out[k].to = to})

\* addDependency and setVariable.  A call without a symbol sets only the role.
AddDependency(G, c) ==
  LET source == G.nodes[c.from]
      bounds == IF Bounded(source) /\ Overlaps(c, source) THEN Intersection(c, source)
                ELSE [lo |-> c.lo, hi |-> c.hi]
      role == IF c.kind # "none" /\ c.role = "data" THEN "event" ELSE c.role
      out == AddEdge(G.edges[c.from], c.to)
      k == EdgeTo(out, c.to)
      Annotated(lo, hi) == [to |-> c.to, sym |-> c.sym, lo |-> lo, hi |-> hi,
                            kind |-> c.kind, role |-> role]
      contiguous == out[k].hi + 1 >= bounds.lo /\ bounds.hi + 1 >= out[k].lo
      result == IF c.sym = NoSym THEN [out EXCEPT ![k].role = c.role]
                ELSE IF c.sym # out[k].sym
                THEN [out EXCEPT ![k] = Annotated(bounds.lo, bounds.hi)]
                ELSE IF contiguous
                THEN [out EXCEPT ![k] = Annotated(Min({@.lo, bounds.lo}),
                                                  Max({@.hi, bounds.hi}))]
                ELSE Append(out, Annotated(bounds.lo, bounds.hi))
  IN [G EXCEPT !.edges[c.from] = result]
-----------------------------------------------------------------------------
(***************************************************************************)
(* Lookups by name.                                                        *)
(***************************************************************************)
\* The nodes of each path, in order; `old' is what the index held.
Extended(old, nodes) ==
  LET Named(path) == SelectSeq([n \in DOMAIN nodes |-> n],
                               LAMBDA n : nodes[n].path = path)
      Before(path) == IF path \in DOMAIN old THEN old[path] ELSE <<>>
      paths == ({n.path : n \in Range(nodes)} \ {<<>>}) \cup DOMAIN old
  IN [path \in paths |-> Before(path) \o Named(path)]

BuildIndexAgain(idx, nodes) == [built |-> TRUE, of |-> Extended(idx.of, nodes)]

\* buildIndex does nothing once the index is built.
BuildIndex(idx, nodes) ==
  IF idx.built THEN idx ELSE [built |-> TRUE, of |-> Extended(idx.of, nodes)]

LookupById(G, id) == {n \in DOMAIN G.nodes : G.nodes[n].id = id}

\* findNodes: how often the answer lists node n.
FoundTimes(idx, pattern, n) ==
  MapThenSumSet(LAMBDA path : Cardinality({k \in DOMAIN idx.of[path] : idx.of[path][k] = n}),
                {x \in DOMAIN idx.of : WildcardMatch(x, pattern)})
-----------------------------------------------------------------------------
(***************************************************************************)
(* Drivers and cones.                                                      *)
(***************************************************************************)
OutEdges(G, n) == Range(G.edges[n])
Carries(e, sym, bounds) == e.sym = sym /\ Overlaps(e, bounds)

GetBitDrivers(G, sym, bounds) ==
  {[at |-> Intersection(e, bounds), driver |-> n] :
     <<n, e>> \in UNION {{n} \X {e \in OutEdges(G, n) : Carries(e, sym, bounds)} :
                           n \in DOMAIN G.nodes}}

GetDrivers(G, sym, bounds) ==
  {n \in DOMAIN G.nodes : \E e \in OutEdges(G, n) : Carries(e, sym, bounds)}

Consumers(G, sym, bounds) ==
  UNION {{e.to : e \in {x \in OutEdges(G, n) : Carries(x, sym, bounds)}} :
           n \in DOMAIN G.nodes}

IsState(G, n) == G.nodes[n].kind = "state"
Targets(G, n) == {e.to : e \in OutEdges(G, n)}
Sources(G, n) == {m \in DOMAIN G.nodes : n \in Targets(G, m)}

\* Where the searches for a signal's cones go from a node.
FanInSteps(G) ==
  [n \in DOMAIN G.nodes |-> IF IsState(G, n) THEN {} ELSE Sources(G, n)]
FanOutSteps(G) ==
  [n \in DOMAIN G.nodes |-> {m \in Targets(G, n) : ~IsState(G, m)}]

InOrder(S) == SetToSortSeq(S, <)

RECURSIVE ConeLastFirst(_, _, _, _)
ConeLastFirst(steps, found, work, maxDepth) ==
  IF work = <<>> THEN found
  ELSE LET item == Last(work)
           new == IF maxDepth # 0 /\ item.depth >= maxDepth THEN {}
                  ELSE steps[item.node] \ Range(found)
       IN ConeLastFirst(steps, found \o InOrder(new),
                        Front(work) \o [k \in 1 .. Cardinality(new) |->
                                          [node |-> InOrder(new)[k],
                                           depth |-> item.depth + 1]],
                        maxDepth)

\* The worklist of getSignalCombFanIn and getSignalCombFanOut: first in,
\* first out, a node found once, not expanded at depth maxDepth.
RECURSIVE Cone(_, _, _, _)
Cone(steps, found, work, maxDepth) ==
  IF work = <<>> THEN found
  ELSE LET item == Head(work)
           new == IF maxDepth # 0 /\ item.depth >= maxDepth THEN {}
                  ELSE steps[item.node] \ Range(found)
       IN Cone(steps, found \o InOrder(new),
               Tail(work) \o [k \in 1 .. Cardinality(new) |->
                                [node |-> InOrder(new)[k], depth |-> item.depth + 1]],
               maxDepth)

ConeFrom(steps, starts, maxDepth) ==
  Cone(steps, InOrder(starts),
       [k \in 1 .. Cardinality(starts) |-> [node |-> InOrder(starts)[k], depth |-> 0]],
       maxDepth)

GetSignalCombFanIn(G, sym, bounds, maxDepth) ==
  ConeFrom(FanInSteps(G), {d.driver : d \in GetBitDrivers(G, sym, bounds)}, maxDepth)

GetSignalCombFanOut(G, sym, bounds, maxDepth) ==
  ConeFrom(FanOutSteps(G), Consumers(G, sym, bounds), maxDepth)

\* Everything that n steps reach.
RECURSIVE Within(_, _, _)
Within(steps, S, n) ==
  IF n = 0 THEN S ELSE Within(steps, S \cup UNION {steps[m] : m \in S}, n - 1)
Reach(steps, S) == Within(steps, S, Cardinality(DOMAIN steps))

\* getCombFanOut and getCombFanIn: depth-first searches, which visit what is
\* reachable (module DepthFirstSearch); neither enters a State.
GetCombFanOut(G, n) == Reach(FanOutSteps(G), {n})
GetCombFanIn(G, n) ==
  Reach([m \in DOMAIN G.nodes |-> {s \in Sources(G, m) : ~IsState(G, s)}], {n})

\* getSensitivity: the edges with an edge kind into n, or into the States
\* that a forward search from n meets without entering them.
CollectFromState(G, s) ==
  UNION {{[source |-> m, kind |-> e.kind] :
            e \in {x \in OutEdges(G, m) : x.to = s /\ x.kind # "none"}} :
           m \in DOMAIN G.nodes}

RECURSIVE StatesAhead(_, _, _)
StatesAhead(G, visited, stack) ==
  IF stack = <<>> THEN {}
  ELSE LET targets == Targets(G, Last(stack))
           new == {m \in targets : ~IsState(G, m)} \ visited
       IN {m \in targets : IsState(G, m)}
            \cup StatesAhead(G, visited \cup new, Front(stack) \o InOrder(new))

GetSensitivity(G, n) ==
  IF IsState(G, n) THEN CollectFromState(G, n)
  ELSE UNION {CollectFromState(G, s) : s \in StatesAhead(G, {n}, <<n>>)}

\* getConstantDrivers: none if a State, or a port without a driver, is in
\* the fan-in.
GetConstantDrivers(G, n) ==
  LET fanIn == GetCombFanIn(G, n) \ {n}
      Source(m) == \/ IsState(G, m)
                   \/ G.nodes[m].kind = "port" /\ Sources(G, m) = {}
  IN IF \E m \in fanIn : Source(m) THEN {}
     ELSE {m \in fanIn : G.nodes[m].kind = "constant"}
-----------------------------------------------------------------------------
(***************************************************************************)
(* The driver's answer to a fan-in or fan-out query in JSON: the cone at   *)
(* the depth limit, filtered, cut to the result limit.  The total is that  *)
(* of the cone without limits and filters, if the depth was limited.       *)
(***************************************************************************)
PassesFilters(path, scopes, names) ==
  /\ scopes = {} \/ \E s \in scopes : PathInScope(path, s)
  /\ names = {} \/ \E p \in names : WildcardMatch(path, p)

AnswerByDepth(G, q, cone, all) ==
  LET Kept(n) == G.nodes[n].path = <<>> \/ PassesFilters(G.nodes[n].path, q.scopes, q.names)
      input == SelectSeq(cone, Kept)
      count == IF q.limit = 0 THEN Len(input) ELSE Min({Len(input), q.limit})
  IN [items |-> SubSeq(input, 1, count), complete |-> count = Len(input)]

Answer(G, q, cone, all) ==
  LET Kept(n) == G.nodes[n].path = <<>> \/ PassesFilters(G.nodes[n].path, q.scopes, q.names)
      input == SelectSeq(cone, Kept)
      count == IF q.limit = 0 THEN Len(input) ELSE Min({Len(input), q.limit})
      total == IF q.depth # 0 THEN Len(all) ELSE Len(input)
  IN [items |-> SubSeq(input, 1, count),
      complete |-> count = Len(input) /\ total = Len(input)]

FanOutAnswer(G, q) ==
  Answer(G, q, GetSignalCombFanOut(G, q.sym, q.bounds, q.depth),
         GetSignalCombFanOut(G, q.sym, q.bounds, 0))
FanInAnswer(G, q) ==
  Answer(G, q, GetSignalCombFanIn(G, q.sym, q.bounds, q.depth),
         GetSignalCombFanIn(G, q.sym, q.bounds, 0))
-----------------------------------------------------------------------------
(***************************************************************************)
(* Save and load.  A file lists the nodes, and the edges by the IDs of     *)
(* their nodes.                                                            *)
(***************************************************************************)
Serialized(G) ==
  [version |-> FormatVersion, nodes |-> G.nodes,
   edges |-> FlattenSeq([n \in DOMAIN G.nodes |->
               [k \in DOMAIN G.edges[n] |->
                  [source |-> G.nodes[n].id, target |-> G.nodes[G.edges[n][k].to].id,
                   edge |-> G.edges[n][k]]]])]

KnownNodes(f) == {f.nodes[n].id : n \in DOMAIN f.nodes}

\* idMap: the last node with the ID.
IdMap(f, id) == Max({n \in DOMAIN f.nodes : f.nodes[n].id = id})

LoadEdgeWithoutKind(f, G, e) ==
  LET from == IdMap(f, e.source)
      to == IdMap(f, e.target)
      out == AddEdge(G.edges[from], to)
      role == IF f.version >= 4 THEN e.edge.role ELSE "unknown"
  IN [G EXCEPT !.edges[from] = [out EXCEPT ![EdgeTo(out, to)] =
                     [e.edge EXCEPT !.to = to, !.role = role, !.kind = "none"]]]

\* One edge of the file: addEdge, then every field is set.  The second of two
\* parallel edges finds the first and overwrites it.
LoadEdge(f, G, e) ==
  LET from == IdMap(f, e.source)
      to == IdMap(f, e.target)
      out == AddEdge(G.edges[from], to)
      role == IF f.version >= 4 THEN e.edge.role ELSE "unknown"
  IN [G EXCEPT !.edges[from] = [out EXCEPT ![EdgeTo(out, to)] =
                                  [e.edge EXCEPT !.to = to, !.role = role]]]

\* An unknown ID stops the load where it is met, with what was loaded before.
Deserialized(f) ==
  LET nodes == FoldLeft(AddNode, EmptyGraph, f.nodes)
      dangling == {k \in DOMAIN f.edges :
                     ~({f.edges[k].source, f.edges[k].target} \subseteq KnownNodes(f))}
      edges == IF dangling = {} THEN f.edges ELSE SubSeq(f.edges, 1, Min(dangling) - 1)
  IN IF f.version \notin {3, FormatVersion}
     THEN [status |-> "error", graph |-> EmptyGraph]
     ELSE [status |-> IF dangling = {} THEN "ok" ELSE "error",
           graph |-> FoldLeft(LAMBDA G, e : LoadEdge(f, G, e), nodes, edges)]
-----------------------------------------------------------------------------
Init ==
  /\ g = EmptyGraph
  /\ calls = {}
  /\ index = NotBuilt
  /\ seen = 0
  /\ file = NoFile
  /\ loaded = NotLoaded

\* The saving command saves what it has built and ends, so nothing is looked
\* up before it and nothing is added afterwards.
Building == file = NoFile

Create ==
  /\ Building /\ Len(g.nodes) < Len(NodeList)
  /\ LET n == Len(g.nodes) + 1
     IN g' = AddNode(g, NodeList[n] @@ [id |-> FirstId + n])
  /\ UNCHANGED <<calls, index, seen, file, loaded>>

\* Edges come after the nodes: they do not affect the index.
Connect(c) ==
  /\ Building /\ Len(g.nodes) = Len(NodeList)
  /\ Cardinality(calls) < MaxCalls /\ c \notin calls
  /\ g' = AddDependency(g, c)
  /\ calls' = calls \cup {c}
  /\ UNCHANGED <<index, seen, file, loaded>>

\* A lookup by name or pattern.
LookUp ==
  /\ Building
  /\ index' = BuildIndex(index, g.nodes)
  /\ seen' = IF ~index.built THEN Len(g.nodes) ELSE seen
  /\ UNCHANGED <<g, calls, file, loaded>>

Serialize ==
  /\ Building /\ ~index.built /\ Len(g.nodes) = Len(NodeList)
  /\ file' = Serialized(g)
  /\ UNCHANGED <<g, calls, index, seen, loaded>>

\* A file of another release, or one that has lost a node, for a later load.
OtherRelease(v) ==
  /\ file.version = FormatVersion /\ file.nodes = g.nodes /\ loaded = NotLoaded
  /\ file' = [file EXCEPT !.version = v]
  /\ UNCHANGED <<g, calls, index, seen, loaded>>

LoseNode ==
  /\ file.version = FormatVersion /\ file.nodes = g.nodes /\ loaded = NotLoaded
  /\ file' = [file EXCEPT !.nodes = Front(@)]
  /\ UNCHANGED <<g, calls, index, seen, loaded>>

Deserialize ==
  /\ file # NoFile /\ loaded = NotLoaded
  /\ loaded' = Deserialized(file)
  /\ UNCHANGED <<g, calls, index, seen, file>>

Next ==
  \/ Create
  \/ \E c \in Calls : Connect(c)
  \/ LookUp
  \/ Serialize
  \/ \E v \in {2, 3} : OtherRelease(v)
  \/ LoseNode
  \/ Deserialize

Spec == Init /\ [][Next]_vars
-----------------------------------------------------------------------------
\* Names are compared by segments.  A lookup by pattern lists every node that
\* was there at the first lookup and whose path the pattern matches, exactly
\* once, however often lookups are made and nodes added in between, and no
\* other (buildIndex, NetlistGraph.cpp:78; wildcardMatch).  And a node's
\* black-box coverage is the same in whatever order the instances were
\* recorded: a common prefix of letters is no containment, and a port on the
\* boundary of one black box may be inside another (getBlackBoxCoverage).
NamesExact ==
  /\ (index.built /\ calls = {}) =>
       \A pats \in Patterns : \A n \in DOMAIN g.nodes :
         LET path == g.nodes[n].path
             hit == n <= seen /\ path # <<>> /\ SegmentsMatch(Segments(path), pats)
         IN FoundTimes(index, Joined(pats), n) = (IF hit THEN 1 ELSE 0)
  /\ calls = {} =>
       \A n \in Range(g.nodes) : \A order \in {BlackBoxes, Reverse(BlackBoxes)} :
         BlackBoxCoverage(n.kind, n.path, order, "outside") =
           Coverage(n.kind, n.path, order)

\* The answers below do not depend on the index and the file.
Asking == ~index.built /\ file = NoFile
Cones == {[sym |-> q.sym, bounds |-> q.bounds, depth |-> q.depth] : q \in Queries}
Depth(d) == IF d = 0 THEN Len(g.nodes) ELSE d

\* A node is in a signal's fan-in at a depth exactly if its own fan-out,
\* as deep, meets a driver of the signal, and in the fan-out exactly if its
\* fan-in meets a consumer; and a clock gates a node exactly if the node's
\* fan-out holds what feeds a State of that clock.  The breadth-first
\* searches must not lose a node that a longer way finds first
\* (NetlistGraph.cpp:214), nor stop or go on at the wrong side of a State.
ConesConverse ==
  Asking =>
    /\ \A q \in Cones :
         /\ Range(GetSignalCombFanIn(g, q.sym, q.bounds, q.depth)) =
              {m \in DOMAIN g.nodes :
                 Within(FanOutSteps(g), {m}, Depth(q.depth))
                   \cap GetDrivers(g, q.sym, q.bounds) # {}}
         /\ Range(GetSignalCombFanOut(g, q.sym, q.bounds, q.depth)) =
              {n \in DOMAIN g.nodes :
                 Within(FanInSteps(g), {n}, Depth(q.depth))
                   \cap Consumers(g, q.sym, q.bounds) # {}}
    /\ \A n \in {x \in DOMAIN g.nodes : ~IsState(g, x)} :
         GetSensitivity(g, n) =
           UNION {CollectFromState(g, s) :
                    s \in {x \in DOMAIN g.nodes :
                            /\ IsState(g, x)
                            /\ \E m \in Sources(g, x) :
                                 ~IsState(g, m) /\ m \in GetCombFanOut(g, n)}}

\* An answer that calls itself complete holds every node of the cone that
\* passes the filters, and without filters an answer that calls itself
\* truncated lacks one: "A truncated response sets summary.complete=false"
\* (docs/user-guide.dox:441), for limits on depth and on results together
\* (driver.cpp:948).
AnswersComplete ==
  Asking =>
    \A q \in Queries :
      LET Wanted(cone) ==
            {n \in Range(cone) :
               g.nodes[n].path = <<>> \/ PassesFilters(g.nodes[n].path, q.scopes, q.names)}
          Honest(a, cone) ==
            /\ a.complete => Range(a.items) = Wanted(cone)
            /\ (~a.complete /\ q.scopes = {} /\ q.names = {}) =>
                 Range(a.items) # Wanted(cone)
      IN /\ Honest(FanOutAnswer(g, q), GetSignalCombFanOut(g, q.sym, q.bounds, 0))
         /\ Honest(FanInAnswer(g, q), GetSignalCombFanIn(g, q.sym, q.bounds, 0))

Parallel(G) == \E n \in DOMAIN G.nodes : Cardinality(Targets(G, n)) # Len(G.edges[n])

\* A file that is loaded gives back every node it has with its ID, exactly
\* the pairs of nodes that were linked, and on each an annotation that one of
\* the edges of the pair had (of its role only if the file has roles); where
\* no pair had two edges, signals keep their drivers and registers their
\* clocks (LoadEdge, NetlistSerializer.cpp:428).  It is loaded unless it is
\* of a release that is not known or has lost a node that was linked: no link
\* is dropped in silence.
RoundTrip ==
  /\ (loaded.status = "error" /\ file.version # 2) =>
       \E n, m \in DOMAIN g.nodes :
         m \in Targets(g, n) /\ ~({g.nodes[n].id, g.nodes[m].id} \subseteq KnownNodes(file))
  /\ loaded.status = "ok" =>
    /\ file.version # 2
    /\ \A id \in KnownNodes(file) : LookupById(loaded.graph, id) = LookupById(g, id)
    /\ \A n \in DOMAIN file.nodes :
         /\ loaded.graph.nodes[n] = g.nodes[n]
         /\ Targets(loaded.graph, n) = Targets(g, n)
         /\ \A e \in OutEdges(loaded.graph, n) :
              \E e0 \in OutEdges(g, n) :
                e = IF file.version = 3 THEN [e0 EXCEPT !.role = "unknown"] ELSE e0
    /\ (file.nodes = g.nodes /\ ~Parallel(g)) =>
         /\ \A q \in Cones : GetBitDrivers(loaded.graph, q.sym, q.bounds) =
                                  GetBitDrivers(g, q.sym, q.bounds)
         /\ \A n \in DOMAIN g.nodes : GetSensitivity(loaded.graph, n) = GetSensitivity(g, n)

\* "Returns an empty vector if any non-constant source reaches node, namely a
\* State node (depends on a register) or an undriven top-level input Port"
\* (getConstantDrivers, NetlistGraph.hpp:156).
ConstantDriversOnly ==
  \A n \in DOMAIN g.nodes :
    (\E s \in DOMAIN g.nodes : IsState(g, s) /\ n \in Targets(g, s)) =>
      GetConstantDrivers(g, n) = {}
=============================================================================
