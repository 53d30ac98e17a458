-------------------------- MODULE PortConnections --------------------------
(***************************************************************************)
(* Wiring an instance hierarchy: NetlistBuilder's handlers of instances,   *)
(* ports and continuous assignments, PortConnectionHandler, CutRegistry    *)
(* and VariableTracker.                                                    *)
(*                                                                         *)
(* A design is a record:                                                   *)
(*   resolve, prop   the options resolveAssignBits, propCutsAcrossPorts    *)
(*   ports[i], children[i], assigns[i]   the members of the body of i      *)
(*   black           the instances that a black-box pattern matches        *)
(*   width[s]        the width of symbol s                                 *)
(*   conn[p]         the connection of port p: an expression, or NoExpr    *)
(*   dir[p]          its direction: "in", "out" or "inout"                 *)
(* A port and its internal symbol have one name, unique in the design, so  *)
(* no symbol is behind two ports.  All types are integral, and instances   *)
(* that are not instantiated are not among the children.                   *)
(*                                                                         *)
(* The traversal (phase 1) is a list of what is still to be visited, in    *)
(* order; continuous assignments are deferred to phase 2 and references    *)
(* resolved in phase 4, both in any order.                                 *)
(***************************************************************************)
EXTENDS BitSlices, FiniteSets

CONSTANTS
  Designs,  \* the designs to build
  Root      \* the top instance

VARIABLES
  design,   \* the design that is built
  todo,     \* phase 1: what the traversal has still to visit
  blocks,   \* the deferred continuous assignments
  cuts,     \* CutRegistry: cuts[s] is the set of cuts of symbol s
  g         \* nodes, edges, drivers[s][b], pending rvalues

vars == <<design, todo, blocks, cuts, g>>

NoExpr == [k |-> "none"]

Symbols == DOMAIN design.width
BitsOfSymbol(s) == 0 .. design.width[s] - 1
AllPorts == UNION {Range(design.ports[i]) : i \in DOMAIN design.ports}
NoCuts == [s \in Symbols |-> {}]

\* The connection of an output port is an assignment to the actual.
IsOutput(p) == design.dir[p] = "out"

\* getDrivers of slang's analysis: the whole of an input, and each path that
\* an assignment or the connection of another instance writes.
AnalysisDrivers(p) ==
  LET written == UNION {Paths(a.lhs) : a \in UNION {Range(design.assigns[i]) :
                                                    i \in DOMAIN design.assigns}}
                   \cup UNION {Paths(design.conn[q]) :
                                 q \in {x \in AllPorts : IsOutput(x)}}
      Driver(lo, hi, input) == [lo |-> lo, hi |-> hi, input |-> input]
  IN (IF IsOutput(p) THEN {} ELSE {Driver(0, design.width[p] - 1, TRUE)})
       \cup {Driver(r.lo, r.hi, FALSE) : r \in {x \in written : x.sym = p}}

ASSUME DesignsWellFormed ==
  \A d \in Designs :
    /\ Root \in DOMAIN d.ports
    /\ DOMAIN d.children = DOMAIN d.ports /\ DOMAIN d.assigns = DOMAIN d.ports
    /\ \A p \in DOMAIN d.conn : \A e \in Paths(d.conn[p]) :
         0 <= e.lo /\ e.lo <= e.hi /\ e.hi < d.width[e.sym]
-----------------------------------------------------------------------------
(***************************************************************************)
(* Nodes, drivers and edges.  A node is [k, at]: at are the bit ranges it  *)
(* stands for.                                                             *)
(***************************************************************************)
At(s, lo, hi) == [sym |-> s, lo |-> lo, hi |-> hi]

AddNode(c, k, at) == [c EXCEPT !.nodes = Append(@, [k |-> k, at |-> at])]

AddDependency(c, from, to) == [c EXCEPT !.edges = @ \cup {<<from, to>>}]

AddRvalue(c, r, n) == [c EXCEPT !.pending = @ \cup {[at |-> r, node |-> n]}]

\* mergeDrivers and, as no bit of an input has a driver yet, addDriver.
MergeDrivers(c, r, n) ==
  [c EXCEPT !.drivers[r.sym] =
     [b \in DOMAIN @ |-> IF b \in r.lo .. r.hi THEN @[b] \cup {n} ELSE @[b]]]

\* VariableTracker: the nodes of a port, and the one with exact bounds.
PortRange(c, n) == CHOOSE r \in c.nodes[n].at : TRUE
Lookup(c, p) ==
  {n \in DOMAIN c.nodes : c.nodes[n].k = "port" /\ PortRange(c, n).sym = p}
LookupExact(c, r) == {n \in Lookup(c, r.sym) : PortRange(c, n) = r}

Encloses(outer, r) == outer.lo <= r.lo /\ r.hi <= outer.hi

\* The port node for a range: with exactly its bounds, else the first that
\* contains it; none if the range straddles the nodes.
PortNodeFor(c, r) ==
  IF LookupExact(c, r) # {} THEN LookupExact(c, r)
  ELSE {n \in Lookup(c, r.sym) : Encloses(PortRange(c, n), r)}

HookupOutputPort(c, r, n) ==
  IF PortNodeFor(c, r) = {} THEN c
  ELSE AddDependency(c, n, Min(PortNodeFor(c, r)))

\* The parts of lo .. hi between the cuts strictly inside it.
SplitAt(s, lo, hi, hints) ==
  LET gaps == Gaps({lo, hi + 1} \cup {h \in hints : lo < h /\ h <= hi})
  IN [n \in DOMAIN gaps |-> At(s, gaps[n][1], gaps[n][2] - 1)]
-----------------------------------------------------------------------------
(***************************************************************************)
(* Cuts.                                                                   *)
(***************************************************************************)
RECURSIVE CollectActualCuts(_, _)
CollectActualCuts(e, registry) ==
  LET From(op, at) == {at + c : c \in CollectActualCuts(op, registry)} IN
  CASE e.k = "lsp" ->
         {h - e.lo : h \in {c \in registry[e.sym] : e.lo < c /\ c <= e.hi}}
    [] e.k = "concat" ->
         FoldLeft(LAMBDA acc, op :
                    [at |-> acc.at + ExprWidth(op),
                     cuts |-> acc.cuts \cup From(op, acc.at)
                                \cup {acc.at + ExprWidth(op)}],
                  [at |-> 0, cuts |-> {}], Reverse(e.ops)).cuts \ {ExprWidth(e)}
    [] e.k = "repl" /\ e.known ->
         LET unit == ExprWidth(e.op)
         IN UNION {From(e.op, n * unit) \cup {(n + 1) * unit} :
                     n \in 0 .. e.count - 1} \ {ExprWidth(e)}
    [] e.k = "conv" /\ e.w >= ExprWidth(e.op) ->
         From(e.op, 0) \cup ({ExprWidth(e.op)} \ {e.w})
    [] OTHER -> {}

CutsWithoutHints(p, registry) ==
  LET e == design.conn[p]
  IN IF e = NoExpr \/ ExprWidth(e) # design.width[p] THEN {}
     ELSE {c \in CollectActualCuts(e, NoCuts) : 0 < c /\ c < design.width[p]}

\* What a port's connection adds to the cuts of its internal symbol; nothing
\* if the widths differ.  addCuts drops the endpoints.
CutsFromConnection(p, registry) ==
  LET e == design.conn[p]
  IN IF e = NoExpr \/ ExprWidth(e) # design.width[p] THEN {}
     ELSE {c \in CollectActualCuts(e, registry) : 0 < c /\ c < design.width[p]}
-----------------------------------------------------------------------------
(***************************************************************************)
(* Port nodes and connections.                                             *)
(***************************************************************************)
\* materializePortNodes: one node per driver and cut segment; those of input
\* drivers drive the internal symbol.
MaterializePortNodes(c, p) ==
  LET hints == IF design.prop THEN cuts[p] ELSE {}
      Segment(input, d, r) ==
        LET e == AddNode(d, "port", {r})
        IN IF input THEN MergeDrivers(e, r, Len(e.nodes)) ELSE e
  IN FoldLeft(LAMBDA d, v :
                FoldLeft(LAMBDA x, r : Segment(v.input, x, r), d,
                         SplitAt(p, v.lo, v.hi, hints)),
              c, SetToSortSeq(AnalysisDrivers(p), LAMBDA u, v : u.lo < v.lo))

PortSliceListWhole(c, p) ==
  <<Slice(0, design.width[p], {MakePortNode(n, 0, 0) : n \in Lookup(c, p)})>>

\* buildPortSliceList: the port over the grid of its nodes' bounds.
PortSliceList(c, p) ==
  LET nodes == Lookup(c, p)
      gaps == Gaps({0, design.width[p]}
                     \cup {PortRange(c, n).lo : n \in nodes}
                     \cup {PortRange(c, n).hi + 1 : n \in nodes})
      Over(lo, hi) == {n \in nodes : Encloses(PortRange(c, n), At(p, lo, hi - 1))}
  IN [m \in DOMAIN gaps |->
        Slice(gaps[m][1], gaps[m][2],
              {MakePortNode(n, 0, gaps[m][1]) : n \in Over(gaps[m][1], gaps[m][2])})]

\* A port node and a range of the actual: the node drives it or is driven.
ConnectRange(c, n, r, isOutput) ==
  IF isOutput THEN HookupOutputPort(MergeDrivers(c, r, n), r, n)
  ELSE AddRvalue(c, r, n)

\* One aligned segment; an output is never bound to a constant.
DrivePortSegment(c, seg, isOutput) ==
  LET portNodes == {s.node : s \in seg.lhs}
      Constant(d, src) ==
        LET e == AddNode(d, "const", {SegmentRange(src, seg)})
        IN FoldSet(LAMBDA n, x : AddDependency(x, Len(e.nodes), n), e, portNodes)
      Drive(d, src) ==
        CASE src.k = "lsp" ->
               FoldSet(LAMBDA n, x : ConnectRange(x, n, SegmentRange(src, seg),
                                                  isOutput), d, portNodes)
          [] src.k = "opaque" ->
               FoldSet(LAMBDA pair, x : AddRvalue(x, pair[1], pair[2]), d,
                       Paths(src.expr) \X portNodes)
          [] src.k = "const" /\ ~isOutput -> Constant(d, src)
          [] OTHER -> d
  IN IF portNodes = {} THEN c ELSE FoldSet(LAMBDA s, d : Drive(d, s), c, seg.rhs)

\* handlePortConnectionLegacy: every path of the actual and every node.
ConnectLegacy(c, p) ==
  FoldSet(LAMBDA pair, d : ConnectRange(d, pair[2], pair[1], IsOutput(p)), c,
          Paths(design.conn[p]) \X Lookup(c, p))

\* The widths agree, and the options ask for it.
Aligned(p) == design.resolve /\ ExprWidth(design.conn[p]) = design.width[p]

HandlePortConnection(c, p) ==
  IF design.conn[p] = NoExpr THEN c
  ELSE IF ~Aligned(p) THEN ConnectLegacy(c, p)
  ELSE FoldLeft(LAMBDA d, seg : DrivePortSegment(d, seg, IsOutput(p)), c,
                AlignSegments(PortSliceList(c, p), Build(design.conn[p], NoCuts)))
-----------------------------------------------------------------------------
(***************************************************************************)
(* A continuous assignment: DataFlowAnalysis of it (module DataFlow has    *)
(* the whole), then mergeDrivers.  It does not read what it writes.        *)
(***************************************************************************)
WriteRangeOnly(c, r) == MergeDrivers(c, r, Len(c.nodes))

WriteRange(c, r) ==
  HookupOutputPort(MergeDrivers(c, r, Len(c.nodes)), r, Len(c.nodes))

ReadSource(c, n, src, seg) ==
  CASE src.k = "lsp"    -> AddRvalue(c, SegmentRange(src, seg), n)
    [] src.k = "opaque" -> FoldSet(LAMBDA r, d : AddRvalue(d, r, n), c,
                                   Paths(src.expr))
    [] src.k = "const"  -> LET d == AddNode(c, "const", {SegmentRange(src, seg)})
                           IN AddDependency(d, Len(d.nodes), n)
    [] OTHER            -> c

AssignSegment(c, seg) ==
  LET targets == {SegmentRange(s, seg) : s \in seg.lhs}
      d == AddNode(c, "assign", targets)
      e == FoldSet(LAMBDA r, x : WriteRange(x, r), d, targets)
  IN FoldSet(LAMBDA s, x : ReadSource(x, Len(d.nodes), s, seg), e, seg.rhs)

AssignLegacy(c, a) ==
  LET d == AddNode(c, "coarse", Paths(a.lhs))
      e == FoldSet(LAMBDA r, x : WriteRange(x, r), d, Paths(a.lhs))
  IN FoldSet(LAMBDA r, x : AddRvalue(x, r, Len(d.nodes)), e, Paths(a.rhs))

HandleContinuousAssign(c, a) ==
  LET hints == IF design.prop THEN cuts ELSE NoCuts
      lhs == Build(a.lhs, hints)
      rhs == Build(a.rhs, hints)
  IN IF ~design.resolve \/ ListWidth(lhs) # ListWidth(rhs) THEN AssignLegacy(c, a)
     ELSE FoldLeft(AssignSegment, c, AlignSegments(lhs, rhs))
-----------------------------------------------------------------------------
Step(op, x) == [op |-> op, x |-> x]
Steps(op, seq) == [n \in DOMAIN seq |-> Step(op, seq[n])]

Init ==
  /\ design \in Designs
  /\ todo = <<Step("instance", Root)>>
  /\ blocks = {}
  /\ cuts = NoCuts
  /\ g = [nodes |-> <<>>, edges |-> {}, pending |-> {},
          drivers |-> [s \in Symbols |-> [b \in BitsOfSymbol(s) |-> {}]]]

Visiting(op) == todo # <<>> /\ Head(todo).op = op

\* handle(InstanceSymbol): the cuts first, then the body, or the ports of a
\* black box, then the connections.
HandleInstance ==
  /\ Visiting("instance")
  /\ LET i == Head(todo).x
         ports == design.ports[i]
         body == Steps("port", ports) \o
                 IF i \in design.black THEN <<>>
                 ELSE Steps("instance", design.children[i])
                        \o Steps("assign", design.assigns[i])
     IN /\ cuts' = IF ~design.prop THEN cuts
                   ELSE [s \in Symbols |->
                           IF s \notin Range(ports) THEN cuts[s]
                           ELSE cuts[s] \cup CutsFromConnection(s, cuts)]
        /\ todo' = body \o Steps("connect", ports) \o Tail(todo)
  /\ UNCHANGED <<design, blocks, g>>

\* handle(PortSymbol)
HandlePort ==
  /\ Visiting("port")
  /\ g' = MaterializePortNodes(g, Head(todo).x)
  /\ todo' = Tail(todo)
  /\ UNCHANGED <<design, blocks, cuts>>

\* handle(ContinuousAssignSymbol): left to phase 2.
DeferBlock ==
  /\ Visiting("assign")
  /\ blocks' = blocks \cup {Head(todo).x}
  /\ todo' = Tail(todo)
  /\ UNCHANGED <<design, cuts, g>>

HandleConnection ==
  /\ Visiting("connect")
  /\ g' = HandlePortConnection(g, Head(todo).x)
  /\ todo' = Tail(todo)
  /\ UNCHANGED <<design, blocks, cuts>>

\* Phase 2.
RunBlock(a) ==
  /\ todo = <<>>
  /\ blocks' = blocks \ {a}
  /\ g' = HandleContinuousAssign(g, a)
  /\ UNCHANGED <<design, todo, cuts>>

\* Phase 4: every reference is linked to the drivers of its bits.
ResolvePending ==
  /\ todo = <<>> /\ blocks = {} /\ g.pending # {}
  /\ g' = [g EXCEPT !.pending = {},
             !.edges = @ \cup
               UNION {(UNION {g.drivers[r.at.sym][b] : b \in r.at.lo .. r.at.hi})
                        \X {r.node} : r \in g.pending}]
  /\ UNCHANGED <<design, todo, blocks, cuts>>

Next ==
  \/ HandleInstance \/ HandlePort \/ DeferBlock \/ HandleConnection
  \/ \E a \in blocks : RunBlock(a)
  \/ ResolvePending

Spec == Init /\ [][Next]_vars
-----------------------------------------------------------------------------
Built == todo = <<>> /\ blocks = {} /\ g.pending = {}

\* The ports that were visited and are connected.
Connected == {p \in AllPorts : Lookup(g, p) # {} /\ design.conn[p] # NoExpr}

BitsOfRange(r) == {<<r.sym, b>> : b \in r.lo .. r.hi}
Sources(n) == {e[1] : e \in {x \in g.edges : x[2] = n}}
ConstBits(n) == UNION {UNION {BitsOfRange(r) : r \in g.nodes[m].at} :
                         m \in {x \in Sources(n) : g.nodes[x].k = "const"}}

\* The bits that the bits of port node n are connected to, none through the
\* bits of a sign extension.
Opposite(p, n) ==
  UNION {TracedBits(design.conn[p], k) : k \in PortRange(g, n).lo .. PortRange(g, n).hi}
OppositeSignals(p, n) == {x \in Opposite(p, n) : x[1] \in Symbols}

InputExact(p, n) ==
  /\ {m \in Sources(n) : g.nodes[m].k # "const"} =
       UNION {g.drivers[x[1]][x[2]] : x \in OppositeSignals(p, n)}
  /\ ConstBits(n) = Opposite(p, n) \ OppositeSignals(p, n)

OutputExact(p, n) ==
  /\ {x \in UNION {{s} \X BitsOfSymbol(s) : s \in Symbols} :
        n \in g.drivers[x[1]][x[2]]} = OppositeSignals(p, n)
  /\ {m \in UNION {Lookup(g, q) : q \in AllPorts} : <<n, m>> \in g.edges} =
       {m \in UNION {Lookup(g, q) : q \in AllPorts} :
          BitsOfRange(PortRange(g, m)) \cap OppositeSignals(p, n) # {}}

\* Every node of a bit-aligned connection is fed by exactly the drivers of
\* the bits its own bits are connected to and by exactly their constants, or
\* drives exactly those bits and is linked to exactly the nodes of the outer
\* port that hold them, whatever the grid of the port's nodes and however
\* deep the instance is (drivePortSegment, PortConnectionHandler.cpp:388).
ConnectionsExact ==
  Built => \A p \in Connected : Aligned(p) =>
             \A n \in Lookup(g, p) :
               IF IsOutput(p) THEN OutputExact(p, n) ELSE InputExact(p, n)

\* Are bits b and b + 1 of s neighbours all the way up the hierarchy?  The
\* bits of an operator are taken together.
RECURSIVE Contiguous(_, _)
Contiguous(s, b) ==
  \/ s \notin Connected
  \/ ~Aligned(s)
  \/ LET low == TracedBits(design.conn[s], b)
         high == TracedBits(design.conn[s], b + 1)
     IN \/ Cardinality(low) > 1 \/ Cardinality(high) > 1
        \/ low = {} /\ high = {}
        \/ \E x \in low : high = {<<x[1], x[2] + 1>>} /\ Contiguous(x[1], x[2])

\* With both options on, no port node and no assignment inside an instance
\* spans a boundary that a connection of the instance, or of any instance
\* around it, introduces: the cuts are known before the port's nodes are
\* made, at every level (NetlistBuilder.cpp:504).
CutsReachEveryLevel ==
  (design.resolve /\ design.prop) =>
    \A n \in DOMAIN g.nodes : g.nodes[n].k \in {"port", "assign"} =>
      \A r \in g.nodes[n].at : \A b \in r.lo .. r.hi - 1 : Contiguous(r.sym, b)

\* Reference: the bits a bit flows into, if Made says what a bit of an
\* expression is made of.
Flow(Made(_, _)) ==
  LET Links(p) ==
        LET e == design.conn[p]
            bits == 0 .. Min({ExprWidth(e), design.width[p]}) - 1
        IN UNION {IF IsOutput(p) THEN {<<p, k>>} \X Made(e, k)
                  ELSE Made(e, k) \X {<<p, k>>} : k \in bits}
      Assigned(a) ==
        UNION {Made(a.rhs, k) \X Made(a.lhs, k) : k \in 0 .. ExprWidth(a.lhs) - 1}
      inside == {i \in DOMAIN design.ports : i \notin design.black}
  IN UNION {Links(p) : p \in Connected}
       \cup UNION {UNION {Assigned(a) : a \in Range(design.assigns[i])} : i \in inside}

RECURSIVE Closure(_, _)
Closure(rel, S) ==
  LET next == S \cup {e[2] : e \in {x \in rel : x[1] \in S}}
  IN IF next = S THEN S ELSE Closure(rel, next)

RootBits(dir) ==
  UNION {{p} \X BitsOfSymbol(p) :
           p \in {q \in Range(design.ports[Root]) : design.dir[q] = dir}}
NodesAt(x) == {n \in Lookup(g, x[1]) : x \in BitsOfRange(PortRange(g, n))}

Reaches(x, y) == Closure(g.edges, NodesAt(x)) \cap NodesAt(y) # {}

\* "In every fallback case the resulting graph is still sound (no real
\* connection is missed)" (docs/user-guide.dox:558): wherever a bit of an
\* input flows into a bit of an output, by the meaning of the language, the
\* graph has a path.
NoConnectionMissed ==
  Built => \A x \in RootBits("in") :
             \A y \in Closure(Flow(BitsOf), {x}) \cap RootBits("out") : Reaches(x, y)

\* Some connection or assignment is not decomposed.
Coarse == ~design.resolve \/ \E p \in Connected : ~Aligned(p)

\* All that flows from x to y takes a bit of a sign extension on its way, and
\* those have no driver where expressions are decomposed.
OnlyBySign(x, y) == design.resolve /\ y \notin Closure(Flow(TracedBits), {x})

\* When everything is decomposed, or when no port has been cut, no connection
\* is missed but those that depend on a sign extension, and none at all with
\* decomposition off: with cuts, hookupOutputPort finds a node for every
\* range that is written (NetlistBuilder.cpp:308).
ConnectionsReach ==
  Built /\ (~Coarse \/ \A s \in Symbols : cuts[s] = {}) =>
    \A x \in RootBits("in") :
      \A y \in Closure(Flow(BitsOf), {x}) \cap RootBits("out") :
        Reaches(x, y) \/ OnlyBySign(x, y)
=============================================================================
