------------------------------ MODULE DataFlow ------------------------------
(***************************************************************************)
(* The data-flow analysis of one procedural block: DataFlowAnalysis        *)
(* (source/DataFlowAnalysis.cpp, .hpp), with IntervalMapUtils::difference, *)
(* and NetlistBuilder::mergeDrivers for what the block leaves behind.      *)
(*                                                                         *)
(* slang's AbstractFlowAnalysis walks the statements and calls the         *)
(* handlers; it is external, so here the handlers are called in every      *)
(* order that nests.  "st" is the AnalysisState of the walk, "stack" the   *)
(* states it has saved at the branch statements it is inside.  Netlist     *)
(* nodes are numbered as they are created; 0 is the null pointer.          *)
(*                                                                         *)
(* A driver map is that of module ValueTracker: intervals that name driver *)
(* lists by handle.  addDrivers is one step here, the recursive operator   *)
(* AddDrivers, because the map is local to the walk.                       *)
(***************************************************************************)
EXTENDS BitSlices, DriverLists

CONSTANTS
  Symbols,      \* the value symbols
  Width,        \* their width in bits
  Cuts,         \* Cuts[s]: the cut hints of symbol s
  Blocks,       \* the blocks, each the set of assignments it is made of
  Expressions,  \* the other expressions that a block may evaluate
  Conditions,   \* the conditions its branch statements may have
  MaxStmts,     \* bound on the number of statements
  MaxDepth,     \* bound on the nesting of branch statements
  MaxArms       \* bound on the arms of each

Bits == 0 .. Width - 1

ASSUME DataFlowAssumption ==
  /\ Width \in Nat \ {0}
  /\ Cuts \in [Symbols -> SUBSET Bits]
  /\ \A block \in Blocks : \A a \in block : a.blocking \in BOOLEAN /\ a.force \in BOOLEAN
  /\ MaxStmts \in Nat /\ MaxDepth \in Nat /\ MaxArms \in Nat

VARIABLES
  assignments,  \* those of the block that is analysed
  st,      \* AnalysisState: defs, node, condition, reachable, and the
           \* history ref: the blocking assignments that may have written
           \* each bit last, 0 for none
  stack,   \* the enclosing branch statements
  built,   \* the effects: nodes, edges, pending rvalues, pendingLValues,
           \* whether every driver list asked for was there (ok), and the
           \* history of reads, writes, constants and wins, the non-blocking
           \* assignment of each bit that was visited last
  stmts,   \* how many statements have been visited
  done,    \* the block has been finished
  handed,  \* the drivers it then hands to NetlistBuilder
  last     \* history: the assignment handled last, and its first node

vars == <<assignments, st, stack, built, stmts, done, handed, last>>
-----------------------------------------------------------------------------
(***************************************************************************)
(* Driver maps.                                                            *)
(***************************************************************************)
\* ok falls when a freed list is asked for; split is history: some interval
\* was split around new bounds, and its two remainders share a list.
EmptyMap == [intervals |-> {}, lists |-> [slots |-> <<>>, freeList |-> <<>>],
             ok |-> TRUE, split |-> FALSE]

Interval(lo, hi, h) == [lo |-> lo, hi |-> hi, h |-> h]

Covers(i, j) == i.lo <= j.lo /\ j.hi <= i.hi
StrictlyCovers(i, j) == Covers(i, j) /\ ~Covers(j, i)
Overlapping(m, lo, hi) == {i \in m.intervals : i.lo <= hi /\ lo <= i.hi}
ListOf(m, i) == GetDriverList(m.lists, i.h)

Erase(m, i) == [m EXCEPT !.intervals = @ \ {i}]
Keep(m, lo, hi, h) ==
  IF lo <= hi THEN [m EXCEPT !.intervals = @ \cup {Interval(lo, hi, h)}] ELSE m
Insert(m, lo, hi, list) ==
  [m EXCEPT !.intervals = @ \cup {Interval(lo, hi, NewHandle(m.lists))},
            !.lists = AddDriverList(@, list)]
Access(m, i) == [m EXCEPT !.ok = @ /\ ValidHandle(m.lists, i.h)]

\* ValueTracker::addDrivers: the first interval that overlaps lo .. hi, by
\* how it does.  Beyond it the search goes on with what is left of lo .. hi.
RECURSIVE AddDrivers(_, _, _, _, _)
AddDrivers(m, lo, hi, list, merge) ==
  LET found == Overlapping(m, lo, hi)
      i == CHOOSE x \in found : \A y \in found : x.lo <= y.lo
      Both(n) == IF merge THEN ListOf(n, i) \cup list ELSE list
      Used(n) == IF merge THEN Access(n, i) ELSE n
      Set(n) == [Access(n, i) EXCEPT !.lists = SetDriverList(@, i.h, Both(n))]
      Left(n) == Keep(n, i.lo, lo - 1, i.h)
      Right(n) == Keep(n, hi + 1, i.hi, i.h)
      Beyond(n) == IF i.hi + 1 > hi THEN n
                   ELSE AddDrivers(n, i.hi + 1, hi, list, merge)
      new == Interval(lo, hi, 0)
  IN IF found = {} THEN Insert(m, lo, hi, list)
     ELSE CASE i.lo = lo /\ i.hi = hi -> Set(m)
       [] StrictlyCovers(i, new) ->
            [Insert(Used(Right(Left(Erase(m, i)))), lo, hi, Both(m))
               EXCEPT !.split = @ \/ (i.lo < lo /\ hi < i.hi)]
       [] StrictlyCovers(new, i) /\ ~merge ->
            AddDrivers([Erase(m, i) EXCEPT !.lists =
                          IF ValidHandle(@, i.h) THEN EraseDriverList(@, i.h) ELSE @],
                       lo, hi, list, merge)
       [] StrictlyCovers(new, i) /\ merge ->
            Beyond(IF lo < i.lo THEN Insert(Set(m), lo, i.lo - 1, list) ELSE Set(m))
       [] i.lo < lo /\ i.hi < hi ->
            Beyond(Insert(Used(Left(Erase(m, i))), lo, i.hi, Both(m)))
       [] lo < i.lo /\ hi < i.hi /\ ~merge ->
            Right(Insert(Erase(m, i), lo, hi, list))
       [] lo < i.lo /\ hi < i.hi /\ merge ->
            LET n == Used(Insert(Erase(m, i), lo, i.lo - 1, list))
            IN Right(Insert(n, i.lo, hi, Both(n)))

Bounds(lo, hi) == IF lo <= hi THEN {[lo |-> lo, hi |-> hi]} ELSE {}

InOrder(intervals) == SetToSortSeq(intervals, LAMBDA i, j : i.lo < j.lo)

\* IntervalMapUtils::difference of lo .. hi and a map.  It stops when one
\* bit is left, and keeps that bit without a look at the next interval.
Difference(lo, hi, m) ==
  LET Subtract(acc, r) ==
        IF acc.stop \/ r.hi < acc.cur \/ r.lo > hi THEN acc
        ELSE LET cur == Max({acc.cur, r.hi + 1})
             IN [cur |-> cur, stop |-> cur >= hi,
                 out |-> acc.out \cup Bounds(acc.cur, Min({hi, r.lo - 1}))]
      end == FoldLeft(Subtract, [cur |-> lo, stop |-> FALSE, out |-> {}],
                      InOrder(m.intervals))
  IN end.out \cup Bounds(end.cur, hi)
-----------------------------------------------------------------------------
(***************************************************************************)
(* The handlers are functions on a context c = [st, b], the analysis state *)
(* and what has been built.                                                *)
(***************************************************************************)
NoSymbol == "none"

AddEdges(c, froms, sym) ==
  [c EXCEPT !.b.edges = @ \cup {[from |-> f, to |-> c.st.node, sym |-> sym] :
                                  f \in froms \ {0}}]

\* addRvalue: the reference is resolved when all drivers are known.
AddRvalue(c, sym, lo, hi) ==
  [c EXCEPT !.b.pending =
     @ \cup {[sym |-> sym, lo |-> lo, hi |-> hi, node |-> c.st.node]}]

\* The history of a reference: "before" is what reaches it by the semantics
\* of the language, which evaluates the right side of an assignment before
\* it writes the left; own are the bits that the same assignment writes, and
\* its nodes are numbered from since + 1.
\* A bit is torn if its definition has bits outside the reference and the
\* reference has bits outside the definition.
NoteRead(c, p, before) ==
  LET m == c.st.defs[p.sym]
      Torn(b) == \E i \in Overlapping(m, b, b) : ~Covers(i, p) /\ ~Covers(p, i)
  IN [c EXCEPT !.b.reads = @ \cup
        {[node |-> c.st.node, sym |-> p.sym, bit |-> b,
          from |-> before.ref[p.sym][b], own |-> <<p.sym, b>> \in before.own,
          since |-> before.nodes,
          torn |-> Torn(b), split |-> m.split] : b \in p.lo .. p.hi}]

NoteWrite(c, p) ==
  [c EXCEPT !.b.writes = @ \cup {[node |-> c.st.node, sym |-> p.sym, bit |-> b] :
                                   b \in p.lo .. p.hi}]

Before(c, own) == [ref |-> c.st.ref, own |-> own, nodes |-> c.b.nodes]

DefsCovering(c, p) == {i \in c.st.defs[p.sym].intervals : Covers(i, p)}

\* The definitions that cover the reference or contribute to it; one that
\* overlaps it only in part is passed over.
DefsOf(c, p) ==
  {i \in c.st.defs[p.sym].intervals : Covers(i, p) \/ Covers(p, i)}

\* Every definition that overlaps the reference is looked up.
HandleRvalue(c, p) ==
  LET m == c.st.defs[p.sym]
      looked == [c EXCEPT !.b.ok = @ /\ \A i \in Overlapping(m, p.lo, p.hi) :
                                          ValidHandle(m.lists, i.h)]
      linked == AddEdges(looked, UNION {ListOf(m, i) : i \in DefsOf(c, p)}, p.sym)
  IN IF m.intervals = {} \/ c.st.node = 0 THEN AddRvalue(c, p.sym, p.lo, p.hi)
     ELSE IF \E i \in m.intervals : Covers(i, p) THEN linked
     ELSE FoldSet(LAMBDA i, d : AddRvalue(d, p.sym, i.lo, i.hi), linked,
                  Difference(p.lo, p.hi, m))

Written(history, p, value) ==
  [history EXCEPT ![p.sym] = [b \in Bits |-> IF b \in p.lo .. p.hi
                                             THEN value ELSE @[b]]]

\* A non-blocking assignment is deferred to the end of the block.
HandleLvalue(c, p, blocking) ==
  IF blocking
  THEN LET m == AddDrivers(c.st.defs[p.sym], p.lo, p.hi, {c.st.node}, FALSE)
       IN [c EXCEPT !.st.defs[p.sym] = m, !.b.ok = @ /\ m.ok,
                    !.st.ref = Written(@, p, {c.st.node})]
  ELSE [c EXCEPT !.b.lvalues = Append(@, [sym |-> p.sym, lo |-> p.lo,
                                          hi |-> p.hi, node |-> c.st.node]),
                 !.b.wins = Written(@, p, {c.st.node})]

\* noteReference, for the references of a visited expression.
NoteReferences(c, paths, before) ==
  IF ~c.st.reachable THEN c
  ELSE FoldSet(LAMBDA p, d : HandleRvalue(NoteRead(d, p, before), p), c, paths)

\* NodeFactory creates the node; updateNode links and installs it.
UpdateNode(c, conditional) ==
  LET n == c.b.nodes + 1
      d == [c EXCEPT !.b.nodes = n, !.st.node = n,
                     !.st.condition = IF conditional THEN n ELSE 0]
  IN AddEdges(d, {c.st.condition}, NoSymbol)

\* createConstantForSegment, and the edge from the constant.
AddConstant(c, p) ==
  LET n == c.b.nodes + 1 IN
  AddEdges([c EXCEPT !.b.nodes = n,
                     !.b.constants = @ \cup {[node |-> c.st.node, sym |-> p.sym,
                                              bit |-> b] : b \in p.lo .. p.hi}],
           {n}, NoSymbol)

DriveRhs(c, seg, src, before) ==
  CASE src.k = "lsp"    -> LET p == SegmentRange(src, seg)
                           IN HandleRvalue(NoteRead(c, p, before), p)
    [] src.k = "opaque" -> NoteReferences(c, Paths(src.expr), before)
    [] src.k = "const"  -> AddConstant(c, SegmentRange(src, seg))
    [] OTHER            -> c

\* One aligned segment: its own node, from the state before the assignment;
\* first the left side, then the right.
DriveSegment(c, seg, a, saved, before) ==
  LET own == UpdateNode([c EXCEPT !.st.node = saved.node,
                                  !.st.condition = saved.condition], FALSE)
      driven == IF a.force THEN own
                ELSE FoldSet(LAMBDA s, d : LET p == SegmentRange(s, seg) IN
                               HandleLvalue(NoteWrite(d, p), p, a.blocking),
                             own, seg.lhs)
  IN FoldSet(LAMBDA s, d : DriveRhs(d, seg, s, before), driven, seg.rhs)

\* The whole-expression path, taken when the widths differ.
AssignLegacy(c, a, before) ==
  LET own == UpdateNode(c, FALSE)
      driven == IF ~c.st.reachable THEN own
                ELSE IF a.force THEN NoteReferences(own, Paths(a.lhs), before)
                ELSE FoldSet(LAMBDA p, d : HandleLvalue(d, p, a.blocking), own,
                             Paths(a.lhs))
  IN NoteReferences(driven, Paths(a.rhs), before)

Assign(c, a) ==
  LET lhs == Build(a.lhs, Cuts)
      rhs == Build(a.rhs, Cuts)
      before == Before(c, IF a.blocking /\ ~a.force THEN AllBits(a.lhs) ELSE {})
  IN IF ListWidth(lhs) # ListWidth(rhs) THEN AssignLegacy(c, a, before)
     ELSE FoldLeft(LAMBDA d, seg : DriveSegment(d, seg, a, c.st, before),
                   c, AlignSegments(lhs, rhs))
-----------------------------------------------------------------------------
(***************************************************************************)
(* States at control-flow joins.  b is what has been built.                *)
(***************************************************************************)
NoDefs == [s \in Symbols |-> EmptyMap]
FromOutside == [s \in Symbols |-> [b \in Bits |-> {0}]]

TopState == [defs |-> NoDefs, node |-> 0, condition |-> 0, reachable |-> TRUE,
             ref |-> FromOutside]

UnreachableState == [TopState EXCEPT !.reachable = FALSE]

\* mergeNodes: two different nodes meet in a new Merge node.
MergeNodes(b, m, n) ==
  IF m = 0 \/ n = 0 \/ m = n THEN [b |-> b, node |-> Max({m, n})]
  ELSE [node |-> b.nodes + 1,
        b |-> [b EXCEPT !.nodes = @ + 1,
                        !.edges = @ \cup {[from |-> f, to |-> b.nodes + 1,
                                           sym |-> NoSymbol] : f \in {m, n}}]]

MergeWith(m, other, merge) ==
  LET AddIn(n, i) == [AddDrivers(n, i.lo, i.hi, ListOf(other, i), merge)
                        EXCEPT !.ok = @ /\ ValidHandle(other.lists, i.h)]
  IN [FoldLeft(AddIn, m, InOrder(other.intervals)) EXCEPT !.split = @ \/ other.split]

MergeDefsReplacing(m, other) == MergeWith(m, other, FALSE)

\* Each interval of the other state is merged into the result's map.
MergeDefs(m, other) == MergeWith(m, other, TRUE)

Union(f, g) == [x \in Symbols |-> [i \in Bits |-> f[x][i] \cup g[x][i]]]

MergeStates(b, s, t) ==
  LET n == MergeNodes(b, s.node, t.node)
      k == MergeNodes(n.b, s.condition, t.condition)
      defs == [x \in Symbols |-> MergeDefs(s.defs[x], t.defs[x])]
  IN [b |-> [k.b EXCEPT !.ok = @ /\ \A x \in Symbols : defs[x].ok],
      st |-> [defs |-> defs, node |-> n.node, condition |-> k.node,
              reachable |-> s.reachable, ref |-> Union(s.ref, t.ref)]]

\* joinState: only states of equal reachability are merged; otherwise the
\* reachable one stays.
JoinState(b, s, t) ==
  IF s.reachable = t.reachable THEN MergeStates(b, s, t)
  ELSE [b |-> b, st |-> IF s.reachable THEN s ELSE t]
-----------------------------------------------------------------------------
Init ==
  /\ assignments \in Blocks
  /\ st = TopState
  /\ stack = <<>>
  /\ built = [nodes |-> 0, edges |-> {}, pending |-> {}, lvalues |-> <<>>,
              ok |-> TRUE, reads |-> {}, writes |-> {}, constants |-> {},
              wins |-> FromOutside]
  /\ stmts = 0
  /\ done = FALSE
  /\ handed = {}
  /\ last = <<>>

\* A driver list that was freed fails an assertion, and nothing follows.
Running == ~done /\ built.ok

Becomes(c) == st' = c.st /\ built' = c.b

\* handle(AssignmentExpression), under handle(ProceduralAssignStatement) if
\* it is a force.
HandleAssignment(a) ==
  /\ Running /\ stmts < MaxStmts
  /\ Becomes(Assign([st |-> st, b |-> built], a))
  /\ stmts' = stmts + 1
  /\ last' = <<a, built.nodes + 1>>
  /\ UNCHANGED <<assignments, stack, done, handed>>

\* An expression statement: its references attach to the current node.
HandleExpression(e) ==
  /\ Running /\ stmts < MaxStmts
  /\ LET c == [st |-> st, b |-> built]
     IN Becomes(NoteReferences(c, Paths(e), Before(c, {})))
  /\ stmts' = stmts + 1
  /\ last' = <<>>
  /\ UNCHANGED <<assignments, stack, done, handed>>

\* handle(ConditionalStatement) and handle(CaseStatement): a node, except for
\* an if whose condition is constant; then the first arm, on a copy of the
\* state.  An if has two arms, and so has here what a constant decides.
HandleBranch(cond) ==
  /\ Running /\ stmts < MaxStmts /\ Len(stack) < MaxDepth
  /\ LET c == [st |-> st, b |-> built]
         d == IF cond.kind = "if" /\ cond.constant THEN c
              ELSE NoteReferences(UpdateNode(c, TRUE), Paths(cond.expr),
                                  Before(c, {}))
         first == IF cond.constant /\ ~cond.value THEN UnreachableState ELSE d.st
         rest == IF cond.constant /\ cond.value THEN UnreachableState ELSE d.st
     IN /\ Becomes([d EXCEPT !.st = first])
        /\ stack' = Append(stack, [rest |-> rest, arms |-> 1,
                                  twoWay |-> cond.kind = "if" \/ cond.constant,
                                  final |-> UnreachableState])
  /\ stmts' = stmts + 1
  /\ last' = <<>>
  /\ UNCHANGED <<assignments, done, handed>>

\* The end of an arm: its state joins the final state; the next arm starts
\* where the first did.
NextArm ==
  /\ Running /\ stack # <<>>
  /\ Last(stack).arms < (IF Last(stack).twoWay THEN 2 ELSE MaxArms)
  /\ LET joined == JoinState(built, Last(stack).final, st)
     IN /\ stack' = [stack EXCEPT ![Len(stack)].final = joined.st,
                                  ![Len(stack)].arms = @ + 1]
        /\ st' = Last(stack).rest
        /\ built' = joined.b
  /\ last' = <<>>
  /\ UNCHANGED <<assignments, stmts, done, handed>>

\* The end of the statement.  Without an else or default arm the state in
\* which no arm was taken joins in.
CloseBranch(covered) ==
  /\ Running /\ stack # <<>>
  /\ Last(stack).twoWay => (covered <=> Last(stack).arms = 2)
  /\ LET joined == JoinState(built, Last(stack).final, st)
     IN Becomes(IF covered THEN joined
                ELSE JoinState(joined.b, joined.st, Last(stack).rest))
  /\ stack' = Front(stack)
  /\ last' = <<>>
  /\ UNCHANGED <<assignments, stmts, done, handed>>

ProcessLvalueMerging(defs, l) ==
  [defs EXCEPT ![l.sym] = AddDrivers(@, l.lo, l.hi, {l.node}, TRUE)]

\* processNonBlockingLvalues, for one of them.
ProcessLvalue(defs, l) ==
  [defs EXCEPT ![l.sym] = AddDrivers(@, l.lo, l.hi, {l.node}, FALSE)]

\* mergeDrivers, for one interval: in a sequential block a State node takes
\* the place of its drivers.
HandOver(c, x, sequential) ==
  LET n == c.b.nodes + 1
      entry == [sym |-> x.sym, lo |-> x.i.lo, hi |-> x.i.hi]
  IN IF sequential
     THEN [b |-> [c.b EXCEPT !.nodes = n,
                             !.edges = @ \cup {[from |-> f, to |-> n, sym |-> x.sym] :
                                                 f \in x.list}],
           out |-> c.out \cup {entry @@ [list |-> {n}, state |-> TRUE]}]
     ELSE [c EXCEPT !.out = @ \cup {entry @@ [list |-> x.list, state |-> FALSE]}]

\* finalize: the non-blocking assignments take effect, in order; then
\* mergeDrivers hands the drivers of the block to the builder.
Finish(sequential) ==
  /\ Running /\ stack = <<>> /\ stmts > 0
  /\ LET final == FoldLeft(ProcessLvalue, st.defs, built.lvalues)
         all == UNION {{[sym |-> s, i |-> i, list |-> ListOf(final[s], i)] :
                          i \in final[s].intervals} : s \in Symbols}
         merged == FoldSet(LAMBDA x, c : HandOver(c, x, sequential),
                           [b |-> built, out |-> {}], all)
         ok == \A s \in Symbols : /\ final[s].ok
                                  /\ \A i \in final[s].intervals :
                                       ValidHandle(final[s].lists, i.h)
     IN /\ built' = [merged.b EXCEPT !.lvalues = <<>>, !.ok = ok]
        /\ st' = [st EXCEPT !.defs = final]
        /\ handed' = merged.out
  /\ done' = TRUE
  /\ last' = <<>>
  /\ UNCHANGED <<assignments, stack, stmts>>

Next ==
  \/ \E a \in assignments : HandleAssignment(a)
  \/ \E e \in Expressions : HandleExpression(e)
  \/ \E cond \in Conditions : HandleBranch(cond)
  \/ NextArm
  \/ \E covered \in BOOLEAN : CloseBranch(covered)
  \/ \E sequential \in BOOLEAN : Finish(sequential)

Spec == Init /\ [][Next]_vars
-----------------------------------------------------------------------------
DriversAt(m, b) == UNION {ListOf(m, i) : i \in Overlapping(m, b, b)}

\* The driver map m of symbol s holds what the history says.
IsExact(state, s) ==
  \A b \in Bits : DriversAt(state.defs[s], b) = state.ref[s][b] \ {0}

\* The state of the walk, and those that the finished arms have left.
WalkStates == {st} \cup {stack[n].final : n \in DOMAIN stack}

\* At every point of the block the drivers of each bit are exactly the
\* blocking assignments that may have written it last, on some path to that
\* point, for a symbol none of whose definitions was split around a write in
\* its middle: the other cuts, overlaps and joins lose none and invent none
\* (mergeStates, DataFlowAnalysis.cpp:393).  And no list is missed that was
\* freed, unless a split left two intervals on it.
DefinitionsExact ==
  /\ Running => \A state \in WalkStates, s \in Symbols :
       ~state.defs[s].split => IsExact(state, s)
  /\ ~built.ok => \E state \in WalkStates, s \in Symbols : state.defs[s].split

LinkedTo(n, s) == {e.from : e \in {x \in built.edges : x.to = n /\ x.sym = s}}

ReadsBy(n, s) == {r \in built.reads : r.node = n /\ r.sym = s}

DefinitionsLinked(r) == r.from \ {0} \subseteq LinkedTo(r.node, r.sym)

\* A bit that nothing in the block has written.
LeftPending(r) ==
  \E q \in built.pending : q.node = r.node /\ q.sym = r.sym /\ r.bit \in q.lo .. q.hi

\* What may be linked for a read: the definitions that reach it and, if the
\* same assignment writes the bit, that assignment.
MayBeLinked(r) ==
  r.from \cup (IF r.own THEN r.since + 1 .. built.nodes ELSE {})

\* A read of a bit is linked to all the definitions that reach it and to
\* none that does not: not to one that was overwritten, not to one of another
\* branch, and not to a non-blocking assignment, whose value is not visible
\* in the block.  What the block has not written is left pending, whatever
\* difference() makes of the last bit (IntervalMapUtils.hpp:43).  The code is
\* wrong in three cases, for which this asks less.  A bit that the same
\* assignment writes may be linked to that assignment, whose left side is
\* noted first (DataFlowAnalysis.cpp:304), and need not be to what was there
\* before.  A definition that overlaps the reference with bits outside on
\* both sides need not be linked (:104).  After a split all is open.
ReadsResolved ==
  \A r \in built.reads :
    /\ ~(r.own \/ r.torn \/ r.split) => DefinitionsLinked(r)
    /\ r.from = {0} /\ ~r.own => LeftPending(r)
    /\ (\A q \in ReadsBy(r.node, r.sym) : ~q.split) =>
         LinkedTo(r.node, r.sym) \subseteq
           UNION {MayBeLinked(q) : q \in ReadsBy(r.node, r.sym)}

\* The drivers that the block hands over for a bit, through its State node in
\* a sequential block.
DriversHanded(s, b) ==
  UNION {IF h.state THEN UNION {LinkedTo(n, s) : n \in h.list} ELSE h.list :
           h \in {x \in handed : x.sym = s /\ b \in x.lo .. x.hi}}

Ended == done /\ built.ok

\* When the block ends, each bit is handed over with exactly the non-blocking
\* assignment to it that was visited last, "The last non-blocking assignment
\* wins" (NonblockingAssignmentTests.cpp:45), or else with the blocking
\* assignments that reach the end; a State node takes the place of one
\* interval's drivers and no others (processNonBlockingLvalues,
\* DataFlowAnalysis.cpp:24, and mergeDrivers, NetlistBuilder.cpp:339).
HandedExact ==
  Ended => \A s \in Symbols, b \in Bits :
    ~st.defs[s].split =>
      DriversHanded(s, b) = (IF built.wins[s][b] = {0} THEN st.ref[s][b]
                             ELSE built.wins[s][b]) \ {0}

BitsAt(history, n) == {<<r.sym, r.bit>> : r \in {x \in history : x.node = n}}
BitsRead(n) == BitsAt(built.reads, n) \cup BitsAt(built.constants, n)
BitsWritten(n) == BitsAt(built.writes, n)

\* After a bit-aligned assignment, the node that drives a bit of the left
\* side reads the bits that this bit of the right side is made of, and only
\* bits that the bits it drives are made of, through any nesting of
\* concatenation, replication, conversion and conditional; and no node
\* drives bits on both sides of a cut (BitSliceList.cpp:188).
AlignmentExact ==
  last # <<>> =>
    LET a == last[1]
        positions == 0 .. ExprWidth(a.lhs) - 1
    IN (st.reachable /\ ~a.force /\ ExprWidth(a.lhs) = ExprWidth(a.rhs)) =>
         /\ \A k \in positions : \E n \in last[2] .. built.nodes :
              /\ TracedBits(a.lhs, k) \subseteq BitsWritten(n)
              /\ TracedBits(a.rhs, k) \subseteq BitsRead(n)
              /\ BitsRead(n) \subseteq
                   UNION {TracedBits(a.rhs, j) :
                     j \in {i \in positions : TracedBits(a.lhs, i) \subseteq BitsWritten(n)}}
         /\ \A v, w \in built.writes : v.node = w.node /\ v.sym = w.sym =>
              \A cut \in Cuts[v.sym] : v.bit < cut <=> w.bit < cut
=============================================================================
