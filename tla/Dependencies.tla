---------------------------- MODULE Dependencies ----------------------------
(***************************************************************************)
(* How a reference becomes annotated edges: PendingRvalueQueue::           *)
(* emitEdgesFor, NetlistBuilder::addDependency and NetlistEdge::           *)
(* setVariable, as operators on values.                                    *)
(*                                                                         *)
(* The edges between two nodes are a sequence, the first being the one     *)
(* that addEdge returns (see DirectedGraph); an edge is its annotation.    *)
(* A node is its address, 0 the null pointer.                              *)
(***************************************************************************)
EXTENDS Integers, Sequences, FiniteSets

CONSTANTS
  Symbols,    \* the value symbols
  Width,      \* each has bits 0 .. Width - 1
  Nodes,      \* addresses of netlist nodes
  NodeBounds  \* NetlistNode::getBounds, of the nodes that have bounds

\* A DriverBitRange has at least one bit.
NonEmpty(ranges) == {r \in ranges : r.lo <= r.hi}

ASSUME DependenciesAssumption ==
  /\ Width \in Nat \ {0}
  /\ Nodes \subseteq Nat \ {0}
  /\ DOMAIN NodeBounds \subseteq Nodes
  /\ \A n \in DOMAIN NodeBounds : NodeBounds[n] \in NonEmpty([lo : Nat, hi : Nat])

Bits == 0 .. Width - 1
Null == 0

\* What an edge says: bits lo .. hi of sym.
Annotation == NonEmpty([sym : Symbols, lo : Bits, hi : Bits])

\* PendingRvalue: node reads bits lo .. hi of sym.
Reference == NonEmpty([sym : Symbols, lo : Bits, hi : Bits, node : Nodes \cup {Null}])

\* A set of numbers in ascending order.
Ascending(S) ==
  [k \in 1 .. Cardinality(S) |->
     CHOOSE i \in S : Cardinality({j \in S : j < i}) = k - 1]

Least(a, b) == IF a <= b THEN a ELSE b
Greatest(a, b) == IF a <= b THEN b ELSE a

IsContiguousWith(a, b) == a.hi + 1 >= b.lo /\ b.hi + 1 >= a.lo

UnionWith(a, b) ==
  [sym |-> a.sym, lo |-> Least(a.lo, b.lo), hi |-> Greatest(a.hi, b.hi)]

SetVariableDropsGap(edges, a) ==
  IF edges = <<>> THEN <<a>>
  ELSE IF edges[1].sym # a.sym THEN [edges EXCEPT ![1] = a]
  ELSE IF IsContiguousWith(edges[1], a)
       THEN [edges EXCEPT ![1] = UnionWith(@, a)]
       ELSE edges

\* The end of addDependency on the edges between two nodes: addEdge creates
\* an edge or returns the first; setVariable annotates it: a contiguous
\* range of the same symbol is united with it, any other symbol takes the
\* annotation over, and where setVariable refuses addNewEdge makes a
\* parallel edge.
SetVariable(edges, a) ==
  IF edges = <<>> THEN <<a>>
  ELSE IF edges[1].sym # a.sym THEN [edges EXCEPT ![1] = a]
  ELSE IF IsContiguousWith(edges[1], a)
       THEN [edges EXCEPT ![1] = UnionWith(@, a)]
       ELSE Append(edges, a)

\* The bounds of the source and a range have a bit in common.
InBounds(source, a) ==
  /\ source \in DOMAIN NodeBounds
  /\ a.lo <= NodeBounds[source].hi /\ NodeBounds[source].lo <= a.hi

\* The beginning of addDependency: an annotation that overlaps the bounds of
\* the source is cut to them, whatever symbol they are bounds of.
Narrowed(source, a) ==
  IF InBounds(source, a)
  THEN [a EXCEPT !.lo = Greatest(@, NodeBounds[source].lo),
                 !.hi = Least(@, NodeBounds[source].hi)]
  ELSE a

\* addDependency on the edges from source to another node.
AddDependency(edges, source, a) == SetVariable(edges, Narrowed(source, a))

\* One annotation of source after the other.
AddDependencies(edges, source, more) ==
  LET after[k \in 0 .. Len(more)] ==
        IF k = 0 THEN edges ELSE AddDependency(after[k - 1], source, more[k])
  IN after[Len(more)]

\* getVariable: an exact match, if there is one.
GetVariable(variables, r) ==
  {v.node : v \in {w \in variables : w.sym = r.sym /\ w.lo = r.lo /\ w.hi = r.hi}}

Covering(drivers, sym, bit) == {d \in drivers : d.sym = sym /\ bit \in d.lo .. d.hi}

DriversOf(drivers, sym, bit) == {d.node : d \in Covering(drivers, sym, bit)}

\* forEachDriverInterval: the intervals of the symbol's driver map that
\* overlap the reference, cut to it.  Nothing joins the intervals that
\* addDrivers made, so an interval is a longest run of bits that the same
\* merged ranges cover.
DriverIntervals(drivers, r) ==
  LET same(lo, hi) == \A b \in lo .. hi :
                        Covering(drivers, r.sym, b) = Covering(drivers, r.sym, lo)
  IN {i \in [lo : r.lo .. r.hi, hi : r.lo .. r.hi] :
        /\ i.lo <= i.hi
        /\ Covering(drivers, r.sym, i.lo) # {}
        /\ same(i.lo, i.hi)
        /\ i.lo > r.lo => ~same(i.lo - 1, i.hi)
        /\ i.hi < r.hi => ~same(i.lo, i.hi + 1)}

\* The annotations the reference asks for on edges from one source, in order:
\* its own bounds if a variable matches, else the intervals source drives.
Annotations(drivers, variables, intervals, r, source) ==
  LET at(i) == [sym |-> r.sym, lo |-> i.lo, hi |-> i.hi]
      found == {i \in intervals : source \in DriversOf(drivers, r.sym, i.lo)}
      order == Ascending({i.lo : i \in found})
      matching == GetVariable(variables, r)
  IN IF matching = {}
     THEN [k \in DOMAIN order |-> at(CHOOSE i \in found : i.lo = order[k])]
     ELSE IF source = CHOOSE n \in matching : TRUE THEN <<at(r)>>
     ELSE <<>>

\* emitEdgesFor one pending reference.
EmitEdgesFor(edges, drivers, variables, r) ==
  LET intervals == DriverIntervals(drivers, r)
  IN [p \in DOMAIN edges |->
        IF p[2] # r.node THEN edges[p]
        ELSE AddDependencies(edges[p],
                             p[1], Annotations(drivers, variables, intervals, r, p[1]))]
-----------------------------------------------------------------------------
\* What it should amount to: the bits of the reference that come from source.
BitsFrom(drivers, variables, r, source) ==
  IF GetVariable(variables, r) # {}
  THEN {b \in r.lo .. r.hi : source \in GetVariable(variables, r)}
  ELSE {b \in r.lo .. r.hi : source \in DriversOf(drivers, r.sym, b)}

\* Bounds of n that cut nothing off the range d: none, none of its bits, or
\* all of them.
Kept(n, d) ==
  InBounds(n, d) => NodeBounds[n].lo <= d.lo /\ d.hi <= NodeBounds[n].hi

\* All that n drives or holds it drives or holds in the frame of its bounds.
Unnarrowed(drivers, variables, n) ==
  \A d \in drivers \cup variables : d.node = n => Kept(n, d)
=============================================================================
