# A TLA+ model of slang-netlist

slang-netlist turns an elaborated SystemVerilog design (slang's AST) into a
bit-accurate dependency graph and answers questions about it: paths, fan-in and
fan-out, combinational loops, drivers, registers.  This directory models the
parts of it whose correctness is hard to see in a test: the driver map and the
tables threads share it through, the concurrent graph, the four-phase build
with its thread pool, the data-flow analysis of a block, the wiring of ports
through a hierarchy, and what is asked of, saved from and loaded into the
result.

## 1. Inventory

| Component (source) | State | Operations | What makes it correct |
|---|---|---|---|
| Value tracker (`ValueTracker`, `DriverMap`, `ExternalManager`) | per symbol an interval map to handles, per handle a driver list, a free list; a slot table shared by threads | `addDrivers` (replace or merge), `getDrivers`, `forEachDriverInterval` | intervals disjoint, exactly the driven bits covered, the right drivers per bit; concurrent calls act as if one after the other |
| Directed graph (`DirectedGraph.hpp`) | nodes; per node out-edges (owned), in-edges (raw pointers), an optional index, a mutex | `addNode`, `addEdge`, `addNewEdge`, `removeEdge`, `removeNode`, `clearAllEdges` | both edge lists agree, index exact, no duplicate, no dangling pointer, no deadlock |
| Dependency edges (`NetlistEdge`, `DriverBitRange`, `NetlistBuilder::addDependency`) | the symbol and bits an edge carries | `setVariable`, `isContiguousWith`, `unionWith` | no bit lost or invented when ranges unite or edges split |
| Pending rvalue queue | references waiting for their drivers, per task and central | `enqueue`, `drain`, `resolve` | every reference resolved once, against the complete driver map |
| Build pipeline | phase, deferred blocks, pool, pending exception | `run` (phases 1-3), `finalize` (phase 4) | the same graph under every schedule; every failure reported; it ends |
| Netlist builder, node factory, variable tracker | the AST visitor; registered ports, variables and states | `mergeDrivers`, `hookupOutputPort`, `addRvalue`, `createState` ... | every reader connected to what it reads |
| Data-flow analysis, interval map utilities | per block: the drivers so far, current node and condition, pending non-blocking assignments | `handleLvalue`, `handleRvalue`, `mergeStates`, `finalize`; `difference` | a read sees the assignments that reach it, and no others |
| Bit-slice lists | partitions of expressions | `build`, `alignSegments` | each bit of the left is driven by what its bit of the right is made of |
| Cut registry, port connections | the cuts of each symbol; the nodes of each port | recording cuts, making port nodes, aligned and legacy connection | every level of the hierarchy splits a signal on one grid; connections link the right bits; none is lost |
| Canonical body resolver | two memo tables | `getCanonicalBody`, `getCanonicalValueSymbol` | the memo never changes an answer |
| Depth-first search, path finder, cycle detector | stack, visited set, parents, cycles found | `run`, `find`, `detectCycles` | exactly the reachable nodes, paths are paths, loops are loops and none escapes |
| Graph queries, wildcards | a name index built on first use | lookups, drivers, fan-in and fan-out, sensitivity, constant drivers, black-box coverage | lookups match by segments; cones agree with each other |
| Serializer | the numbering of nodes in a file | `serialize`, `deserialize` | a reloaded netlist answers as the saved one |
| Driver tool | limits and filters of a query | fan-in and fan-out answers; other commands | an answer says whether it is complete |
| Report tool, DOT, diagnostics, Python bindings, symbol and file tables | | printing, glue, interning | out of scope |

How they interact: `NetlistGraph::build` makes a `NetlistBuilder`, whose
`BuildPipeline` first visits the AST in the main thread (Phase 1: cuts are
recorded, ports created and connected, procedural blocks and continuous
assignments deferred); then runs each deferred block through a data-flow
analysis of its own, in a loop or as tasks of a thread pool (Phase 2).  The
tasks share the value tracker, the variable tracker and the graph, all
internally locked, and queue their references in thread-local buffers, which
Phase 3 drains.  Phase 4 looks every reference up and adds edges, again in a
loop or in the pool, partitioned by target node.  Searches, queries and the
serializer run afterwards on the finished graph.

The hard behaviours are the interleavings of Phases 2 and 4 (locks, order of
the queue, exceptions in one task of many), the case analysis of `addDrivers`
over long sequences of calls, the sharing of handles and edges, and the offset
arithmetic of aligning partitions across assignments and levels of hierarchy.
Nothing is persisted during a build and there are no messages or timeouts; the
one fault model is exceptions thrown by tasks, and files of other versions or
with missing nodes.  `PROJECT.json` lists the hazards one by one.

## 2. Modules

| Module | Models | Extends |
|---|---|---|
| `DriverLists` | `ExternalManager`: the slots, the free list, handles | |
| `ValueTracker` | `addDrivers` on one symbol, one action per case of its loop | `DriverLists` |
| `ValueTrackerProofs` | proofs | `ValueTracker` |
| `DriverStore` | abstract: `addDrivers` as an atomic operation on a store | |
| `SlotTable` | `addDrivers` as several threads run it: slots, resizing, locks | (instance of `DriverStore`) |
| `SlotTableProofs` | proofs | `SlotTable` |
| `DirectedGraph`, `MCDirectedGraph` | the graph with its mutexes, an operation split where a lock is taken or given up | |
| `DirectedGraphProofs` | proofs | `DirectedGraph`, `SetInduction` |
| `Dependencies` | `addDependency` with its intersection with the source's bounds, `setVariable`, `emitEdgesFor`, as operators | |
| `DependenciesProofs` | proofs about these operators | `Dependencies`, `SetInduction` |
| `BuildPipeline`, `MCBuildPipeline` | the four phases and the queue | `Dependencies` |
| `BuildPipelineProofs` | proofs | `BuildPipeline`, `DependenciesProofs` |
| `BitSlices` | `BitSliceList::build`, cut hints, `alignSegments`, and what a bit of an expression is made of | |
| `DataFlow`, `MCDataFlow` | `DataFlowAnalysis` of one block, `difference`, what the block hands to the builder | `BitSlices`, `DriverLists` |
| `PortConnections`, `MCPortConnections` | instances, ports, continuous assignments, the cut registry, `PortConnectionHandler`, `VariableTracker`, over a hierarchy | `BitSlices` |
| `DepthFirstSearch` | the search, `PathFinder` | |
| `DepthFirstSearchProofs` | proofs | `DepthFirstSearch`, `SetInduction` |
| `CycleDetector`, `MCCycleDetector` | `detectCycles` over many searches | `DepthFirstSearch` |
| `CycleDetectorProofs` | proofs | `CycleDetector`, `DepthFirstSearchProofs` |
| `SetInduction` | lemmas: induction on a set of naturals, least and greatest elements, recursion | |
| `Names` | wildcards, scopes and black-box coverage on characters, and the same by segments | |
| `Netlist`, `MCNetlist` | the name index, queries, bounded answers, save and load | `Names` |

**ValueTracker.** `intervals` is the `IntervalMap` as a set of records
(`lo`, `hi`, handle); `driverLists` is the `ExternalManager` with its slots and
FIFO free list, because sharing, freeing and reusing handles is where the
code can go wrong; `call` is the running call with the part of its bounds still
to do.  The code holds the slot's mutex for the whole call, so one call runs at
a time; the model still shows every iteration as a step.  `get` on a freed
handle fails an assertion, which is the action `AssertFails`.  Two history
variables say what should be so: `ref` (the drivers each bit should have) and
`replaced`.

**SlotTable and DriverStore.** What happens around that mutex: the fast lookup,
`fetch_add` for a candidate, `try_emplace_or_cvisit`, the reverse table, the
length check under the shared lock, the resize under the exclusive one, and
relocking.  Each is an action, in the order of the code; a lock is held exactly
where `pc` says so.  A driver map is the set of its drivers here.  A tracker is
either shared by the pool, and then used with one vector, or owned by one
thread's analysis, which passes the vectors of several states; `active` chooses.
`DriverStore` says what a caller may rely on: a call takes effect at one
instant, on its own symbol and vector, and nothing else changes a map.
`ImplementsStore` maps the store to what a lookup finds.

**DirectedGraph.** Each node has its two edge lists, its index and its mutex; a
thread is in the middle of a call wherever the code waits for a lock.  Edges
carry an address, so a destroyed edge is told from a new one.  `removeEdge` and
`removeNode` take no locks in the code and are called when no other thread is
at work: their guard is `Quiescent`.

**Dependencies and BuildPipeline.** A block is the sequence of effects its
analysis has on shared state: drive a range, register a state, read a range,
link two nodes at once.  Any block or target in `Faults` may throw at any
point.  Tasks start in order on any thread of the pool, as `BS::thread_pool`
(external) does.  `addDependency` cuts the bits of a reference to the bounds
of the source node (`Narrowed`), which are `NodeBounds`: for the node of an
output port they are bits of the port, although the node drives bits of the
actual.  `std::ranges::sort` is not stable, so `SortedByNode` is any
order of the references of one target.  Driven ranges of a symbol are equal or
disjoint here (`BuildPipelineAssumption`); what happens when they overlap in
part is the subject of `ValueTracker`.  One node registers a range: two clocked
blocks that assign the same bits register two State nodes for them, and which
one `lookup` finds depends on the order of the tasks.  Edge kinds, roles and
precisions are not modelled, nothing decides on them.  Emitting one reference is
one step: `OneWriterPerTarget` is what makes this sound, and the locks below it
are the subject of `DirectedGraph`.

**BitSlices.** A bit-slice list is a sequence of segments with the sources of
each; `build` follows the code over paths, concatenations, replications,
conversions, conditionals, constants and opaque operators.  There are two
references for what one bit of an expression is made of.  `BitsOf` is the
language's meaning of each operator.  `TracedBits` is the tool's documented
rule, which differs from it in one point: the extension bits of a signed
conversion, copies of the sign bit, are made of nothing (`makePadding`,
user-guide.dox:502).  Alignment is judged by `TracedBits`, whether a
connection is missed by `BitsOf`.

**DataFlow.** slang's flow analysis (external) walks the statements and calls
the handlers; the model calls them in every order that nests: assignments,
expressions, branch statements with arms, joins, the end of the block.  `st` is
`AnalysisState`, `stack` the states saved at enclosing branches, `built` the
effects on the graph and the pending lists.  Driver maps are those of
`ValueTracker`: intervals with handles into `DriverLists`, so that the
remainders of a split share a list here as they do in the code.  `AddDrivers`
is the loop of `addDrivers` as one recursive operator, case for case; an access
to a freed list clears `built.ok` and ends the walk, as the assertion does.
The history `st.ref` is the set of blocking assignments that may have written
each bit last, kept by the textbook rule (an assignment replaces, a join
unites), independent of the interval maps;
`built.wins` is the non-blocking assignment to each bit that was visited last.
`Finish` is `finalize` and `mergeDrivers`: what it hands over is `handed`.

**PortConnections.** A design is a value chosen in `Init`.  Phase 1 is a list
of what the traversal has still to visit: an instance records its cuts, then
its ports, body and connections follow, in the order of
`NetlistBuilder::handle`.  Blocks of Phase 2 and references of Phase 4 come in
any order.  What slang's analysis reports as drivers of a port
(`AnalysisDrivers`) is external.

**DepthFirstSearch and CycleDetector.** The search with its stack of nodes and,
for each, the edges not yet examined, taken in any order; the predicate of the
path finder and of combinational loops (disabled edges, edges into State nodes).
The graph is a value chosen in `Init`.  Backward searches are forward searches of
the reversed graph.

**Names and Netlist.** Paths are sequences of characters, because the hazard is
that letters are compared where segments are meant.  `Netlist` builds a graph
(nodes, then `addDependency` calls in any selection), looks names up at any
point, saves, loses a node of the file or takes it for another version, and
loads.  A load that meets an unknown node ID fails and leaves what it had
filled in.  Queries are operators that follow the code's searches, and properties
relate them to each other and to `Within`, plain reachability in steps.

In every module the operators whose name says how they misbehave
(`PieceUnguarded`, `LinkInForgets` ...) are faults to be put in the place of a
definition, to show that a property can fail; the specifications use none.

## 3. Runs

| Run | Module, configuration | Shows |
|---|---|---|
| `value_tracker_mixed` | `ValueTracker`, `ValueTracker_mixed.cfg` | every sequence of four calls on four bits, replacing and merging mixed: `IntervalsDisjoint`, `CoverageExact`, `NoDriverLost` |
| `value_tracker_freed` | `ValueTracker`, `ValueTracker_freed.cfg` | violated: `NeverFreedHandle` |
| `slot_table` | `SlotTable`, `SlotTable.cfg` | two threads on one vector, or one on two, four calls on two symbols: `InBounds`, `VisitAllExact`, `ReferencesStayValid`, `EveryAddReturns`, and the refinement `ImplementsStore` |
| `graph_acyclic` | `MCDirectedGraph`, `DirectedGraph_acyclic.cfg` | two threads, three nodes, edges without a cycle, removals between: `NoDanglingInEdge`, `EveryEdgeLinked`, `IndexIsFirst`, `NoWaitCycle`, `AddEdgeDeduplicates`, `EveryCallReturns` |
| `graph_reciprocal` | `DirectedGraph_reciprocal.cfg` | violated: `NoWaitCycle` |
| `build_pipeline` | `MCBuildPipeline`, `BuildPipeline.cfg` | a design of four blocks, sequential and with two workers, with faults: `EdgesExact`, `AnnotationsExact`, `OneWriterPerTarget`, `TasksJoined`, `FailureReported`, `BuildEnds` |
| `data_flow` | `MCDataFlow`, `DataFlow.cfg` | every block of four statements, over assignments to overlapping ranges or through one kind of expression, branches two deep: `DefinitionsExact`, `ReadsResolved`, `HandedExact`, `AlignmentExact` |
| `ports` | `MCPortConnections`, `PortConnections.cfg` | three levels of instances, all options: `ConnectionsReach` (judged by `BitsOf`), `CutsReachEveryLevel`, `ConnectionsExact` |
| `ports_fallback` | `PortConnections_fallback.cfg` | violated: `NoConnectionMissed` |
| `cycles` | `MCCycleDetector`, `CycleDetector.cfg` | every graph of three nodes, with disabled edges and states: `StackIsPath`, `OneParent`, `VisitsReachable`, `PathsExact`, `LoopsAreCycles`, `NoLoopEscapes` |
| `netlist` | `MCNetlist`, `Netlist.cfg` | a register with short and long ways around it, up to six of eleven dependencies: `NamesExact`, `ConesConverse`, `AnswersComplete`, `RoundTrip` |
| `constant_drivers` | `Netlist_constants.cfg` | violated: `ConstantDriversOnly` |

Bounds.

- `ValueTracker`: four bits are enough for every relation of two intervals with
  room on both sides; four calls for a split, the erasure of one half and an
  access to the other; the proofs need no bound.
- `SlotTable`: two threads are the least that race for a slot, two symbols the
  least whose slots are allocated in one order and used in the other; four calls
  let each thread replace and merge after a race.
- `DirectedGraph`: two threads are the least that interleave, three nodes the
  least with a diamond of sources; the index threshold is lowered so that the
  index is built.
- `BuildPipeline`: two workers, more blocks than workers, a target with
  references of several blocks, a range split by another driver, a null target,
  more references than the threshold and, in sequential mode, the other path.
  Two instances' ports drive ranges that their own bounds overlap in part, in
  full and not at all.
- `DataFlow`: three bits are the fewest in which a write splits a definition
  in the middle and two ranges overlap in part; four statements hold a
  definition, a branch that overwrites part of it, the join and a read.  Eight
  assignments write whole, overlapping and single ranges, blocking and not, and
  read them; conditions are open, constantly true and constantly false, of `if`
  and of `case`.  Ten other blocks are made of one assignment each, through
  every kind of expression and `force`, which is all that alignment depends on.
  Two arms and a missing default make the three-way joins.
- `PortConnections`: three bits and seven by four pairs of actuals put cuts
  inside, at the edges of and across ports; six bodies pass them on by
  assignment, whole, in parts, and at another width; a black box with a written
  inout port is at the bottom.
- `CycleDetector`: three nodes hold self-loops, two-cycles, three-cycles and
  cross edges, and every graph on them is an initial state.
- `Netlist`: the merge is reached from the register in two steps and in three,
  so a depth of two tells them apart; paths `ab`, `a.b`, `a.b.a` share prefixes
  of letters and of segments; patterns have up to three segments.

Runs with `CHECK_DEADLOCK FALSE` are of systems that stop: a build ends, a
search ends, a bounded number of calls or statements has been made.

Fairness.  `DirectedGraph` and `SlotTable`: weak fairness of each thread's steps
inside a call: a thread that can take its mutex or holds it goes on (mutexes are
held for a bounded number of statements); the locks need not be fair, because
the calls are finitely many, as the blocks of a design are.  `BuildPipeline`:
weak fairness of the main thread and of every thread with a task; the pool wakes
an idle thread while tasks wait.

### What the violated runs show

1. `graph_reciprocal`: source-before-target is not a lock order for edges in
   both directions.  Phase 4 in the pool reaches it with two nodes that read
   each other (`assign x = y; assign y = x;`): a combinational loop, which the
   tool is meant to report, may hang the parallel build.
2. `value_tracker_freed`: erasing one remainder frees the list that the other
   still names.  Assigning `a[2:0]`, `a[1]`, `a[3:1]` in one block leaves bit 0
   with a freed handle; the next access fails an assertion.
3. `ports_fallback`: a connection of unequal widths falls back to driving the
   whole actual; if the actual is an output port whose nodes were split at a
   cut, no node contains the range and no edge is made, although the user guide
   says that no connection is missed in a fallback.
4. `constant_drivers`: `getConstantDrivers` looks for registers in a fan-in that
   already stops before them, so a node fed by a register and a constant is
   reported as driven by the constant.

### Other differences met while modelling

These are not runs of their own.  The properties named leave out exactly these
cases, and ask the rest.

- `ValueTracker.cpp:116`: the remainders of a split share a driver list, so a
  later call on one rewrites the drivers of the other, against "overwrites any
  existing drivers for the specified bit range" (`ValueTracker.hpp:93`).  After
  `x = a; x[1] = b; x[0] = c`, `c` is taken for the driver of `x[2]` as well; at
  a join the same happens with a driver of the other branch.
  `DefinitionsExact`, `ReadsResolved` and `HandedExact` say nothing of a symbol
  after such a split; `value_tracker_freed` shows what it leads to at worst.
- `DataFlowAnalysis.cpp:104`: with `x[1:0]` written and `x[2:1]` read, neither
  branch of the loop links the definition, and `difference()` takes bit 1 out of
  what is left pending: the dependency is lost.  `ReadsResolved` does not ask
  for that link.
- `DataFlowAnalysis.cpp:304`: the left side is noted first, so in `x = x + a` the
  right side finds the assignment itself in place of the definition before it.
  `ReadsResolved` allows that link and no other wrong one.
- `DataFlowAnalysis.cpp:28`: non-blocking assignments replace each other in the
  order of the text, also when they are in different branches: of `if (rst) b <=
  0; else b <= a;` only the second reaches the register, as the expected graph
  of `SequentialStateTests.cpp:25` has it.  Those in a branch that a constant
  condition rules out take part (`:150`), while blocking ones do not
  (`ConditionalTests.cpp:188`).  `HandedExact` follows the order of the text.
- `NetlistBuilder.cpp:94`: an edge is cut to the bounds of its source.  The node
  of an output port has the bounds of the port but drives bits of what is
  connected to it (`PortConnectionHandler.cpp:399`), so with `o[1:0]` on
  `y[2:1]` a reader of `y` is annotated with bit 1 alone.  `AnnotationsExact`
  asks for all bits only of a source whose bounds cut off none (`OwnFrame`).

- `DirectedGraph.hpp:188`: `addNewEdge` links its two ends under different
  locks; with parallel edges of one pair added by two threads, `removeEdge`
  could unlink another edge than it destroys.  The build adds the edges of a
  pair from one thread (`OneWriterPerTarget`).
- `NetlistBuilder.cpp:383`: a register is found by its exact bounds only, so a
  reader of a part of it gets no edge from the State node, while the comment at
  `:379` says that the State becomes the new driver for the range.
- `CycleDetector.hpp:70`: `detectCycles` finds some cycle through every loop
  (`NoLoopEscapes`), not all cycles, as the comment at `:67` has it.
- `BitSliceList.cpp`: the extension bits of a signed conversion are padding, so
  a flow through them (`v[1]` into bit 2 of a sign-extended `v[1:0]`) has no
  path; user-guide.dox:502 documents it.  `ConnectionsReach` is judged by the
  language (`BitsOf`) and leaves out, where bits are resolved, the pairs of bits
  all of whose flow passes an extended sign (`OnlyBySign`).
- `NetlistSerializer.cpp:428`: parallel edges of one pair are one edge after a
  reload.  `RoundTrip` compares answers where no pair has two.
- `driver.cpp:1187`: the total is that of the cone before filters, so a filtered
  answer may call itself truncated though nothing is missing.
  `AnswersComplete` asks the converse without filters only.
- `Wildcard`: two adjacent recursive wildcards both claim the dot between them
  (`a.**.**` does not match `a`), and a pattern that starts with `...` followed
  by a separator is read as `.` first; the patterns of the run avoid both.
- `NetlistGraph.cpp:78`: nodes added after the first lookup are not in the name
  index.

## 4. Proofs

All proofs are checked by TLAPS, for every value of the constants.

**ValueTrackerProofs** proves `TypeOK`, `IntervalsDisjoint`, `CoverageExact` and
`NoDriverLost` for any width, any drivers, any number and mix of calls.
Assumption: `ValueTrackerAssumption` (a positive width).  Neither the coverage
nor the merge property is inductive.  `IInv` adds `GapsAreNew` (a bit still to
do, if it has no interval or is to be replaced, is owed only the call's own
drivers) and `NothingFreed` (as long as every call merged, no list was ever
freed, so no handle is reused under an interval that names it).  The argument
goes case by case: `OthersAreClear` (any other interval lies clear of the one
found and of the range), then `DisjointAfter`, `CoverageAfter`, `GapsAfter` and
`NotLostAfter`, which reduce each invariant to what the pieces of one case are,
and one lemma per case of the loop that supplies it.

**SlotTableProofs** proves `InBounds`, `VisitAllExact`, `ReferencesStayValid` and
the refinement `ImplementsStore`, for any number of threads, vectors, symbols
and calls.  `IInv` says what the code relies on between its locks:
`SlotsDistinct` (slots in use and the candidates of racing threads all come
from the counter and differ, so a loser's slot is never anyone's),
`SlotsRight` (who goes on to the vectors has the slot of its symbol, winner or
loser), `TablesAgree` (the two tables are inverse but for the entry a thread
is about to make), `RoomStays` (who has seen that an index fits still finds it
fits after relocking), `SlotExclusive` (one thread updates a map, and what it
read is still there) and `UnusedEmpty` (a map without a symbol has no
drivers).  The last is what the refinement needs: giving a symbol a slot must
not change what a lookup finds.  Every step but `Update` is then a stutter of
the store, and `Update` is its operation.

**DepthFirstSearchProofs** proves `TypeOK`, `StackIsPath`, `OneParent` and
`VisitsReachable` for any finite set of nodes and any graph.  `IInv` adds
`ExaminedLeadsToVisited` (every examined and selected edge of a visited node
leads to a visited node),
`VisitsFromStart` and `VisitsOnlyReachable`.  When the stack is empty the
visited set is then closed under selected edges and contains the start, hence
all of `Reachable`, which is defined as the intersection of all such sets.

Its second part proves `PathsExact`.  `PInv` adds to the invariant of the
search that parents are selected edges, that every visited node but the start
has one, and `ParentsAcyclic`: the nodes can be numbered so that parents come
before their children.  `buildPath` walks up the parents; the numbering goes
down along the walk, so it ends, and only the start has no parent.

**CycleDetectorProofs** proves `LoopsAreCycles` and `NoLoopEscapes` under
`CycleSpec`.  `CInv` adds to the invariant of the search `ReturnsFound` (once
an edge back to the start node of a search has been examined, a cycle through
that node has been found, because the start node stays on the stack to the
end) and `Settled` (a node that will not be searched from is on no cycle or on
one that is known).  For a start node on a cycle, the finished search has
visited all the cycle and so has examined the edge that closes it.

**DirectedGraphProofs** proves `TypeOK`, `NoDanglingInEdge`, `EveryEdgeLinked`,
`IndexIsFirst`, `AddEdgeDeduplicates` and `NoWaitCycle`, for any nodes,
threads, requests and index threshold.  The first four are not inductive:
`removeEdge` destroys the first edge of a pair in `outEdges` and unlinks the
first of the pair in `inEdges`, so the two must be the same one.  `Ordered`
(both lists have the edges of a pair in the order of their creation) and
`LinkedInOrder` (an edge between its two critical sections is younger than what
its target has from that source, and there is one such edge of a pair) say
so; `LocksHeld` and `RemovalAlone` say who may change a list meanwhile.
Assumptions: `DirectedGraphAssumption`, and `ParallelEdgesAssumption`, that the
parallel edges of one pair (`addNewEdge`) are one thread's work.  The build
makes it so, by its partition by target (`OneWriterPerTarget`, proved below);
without it the lists may disagree, as section 3 notes.  `NoDeadlock` has the
hypothesis `RequestsAcyclic`, that the edges asked of `addEdge` go down some
numbering of the nodes; the run `graph_acyclic` satisfies it, and
`graph_reciprocal` shows what happens without it.  The argument: of a circle of
waiting threads take the one whose source is lowest; its target is lower, and
is the source of another thread of the circle.

**DependenciesProofs** is about the operators of `Dependencies`, for any
symbols, width and nodes; `BuildPipelineProofs` rests on it.  `IsSum` says what
adding annotations must come to: no bit is named that was not named before or
added, and where all annotations are about one symbol none is lost.  It holds
for one annotation (`AddDependencySum`: uniting contiguous ranges leaves no gap
and fills none, `UnionSays`) and by induction for a list of them
(`AddDependenciesSum`).  The driver intervals of a reference are uniform, begin
at different bits and cover its driven bits (`IntervalUniform`,
`IntervalExists`, by the longest run of equally driven bits around a bit); so
the annotations from one source name exactly the bits that it drives
(`AnnotationsSay`), and so do the edges emitted (`EmitEdgesSum`).  The cut to the
source's bounds takes bits away and adds none, so "no bit too many" holds of
every source, and "no bit lost" has the hypothesis `Unnarrowed`: the bounds of
the source cut nothing off what it drives.

**BuildPipelineProofs** proves `EdgesExact`, `AnnotationsExact`,
`OneWriterPerTarget`, `TasksJoined` and `FailureReported`, for every design,
number of workers and set of faults, in both modes.  Assumption:
`BuildPipelineAssumption`.  The invariant has two parts.

The first, `IInv`, is `Types`, `Working` (tasks of the kind of the phase, on
the threads of the phase, and none between the phases), `Separate` (no two
tasks, waiting or running, have a target in common) and `Reported` (what
threw is kept until it is rethrown).  `Separate` is about the waiting tasks
too, since any thread may take any of them next.  What establishes it is the
arithmetic of Phase 4: a list sorted by target changes target only at run
starts (`Between`), the run starts are ascending and none is left out
(`AscendingOrder`), and the blocks handed to the pool begin and end at run
starts, follow each other and leave no reference with a target out
(`FirstRunOrder`, `RunBlocksApart`), whichever order the unstable sort gives
equal targets.

The second, `BInv`, follows the effects of the design.  `Sound`: the trackers
and the edges say nothing that the design does not.  `Complete`: until something
throws, every effect is `Ahead` (in a block or task still to come), or
`Effected`; a reference is effected while it is `Held` (in the queue, a buffer
or the rest of a task) and once it is `Emitted`.  `Buffered` (a task has its
buffer) and `Whole` (Phase 4 starts with all drivers and variables) connect the
phases.  `Settled` is chosen so that no step undoes it: an edge exists, and if
one symbol only relates the two nodes and the source's bounds cut nothing off
(`OwnFrame`), the bit is named.  With several symbols
`setVariable` may overwrite what another reference wrote, which is why
`AnnotationsExact` has that hypothesis; `Sound` is needed to know that no other
symbol can turn up (`JustifiedOnly`, `SumSettles`).  When the last phase is
joined nothing is ahead or held, so everything is recorded (`DoneSettled`), and
`Sound` gives the converse.

`SetInduction` states induction for a set of naturals rather than for a
predicate, in which form the provers can use it, and with it the existence of
functions defined by recursion (`RecursionExists`), which is what the recursive
function in `AddDependencies` needs.

Only model-checked:

- all liveness (out of this prover's reach, as is `ENABLED`);
- everything about `DataFlow`, `PortConnections` and `Netlist`: `BitSlices`,
  `Names` and the modules that extend them follow recursive C++ functions with
  RECURSIVE operators, which the prover does not support.

## 5. Not modelled, and the plan

Inside the modelled components:

- `DataFlow`: the selectors of dynamic selects (their bounds are slang's) and
  `meetState` (only slang's loops call it).  The early exit of
  `difference()` may leave a bit pending that is covered, which only adds a
  lookup.
- `PortConnections`: interfaces and modports; types that are not integral; a
  symbol behind two ports; inout ports outside black boxes.
- `Netlist`: `disable()`, which has no caller; edges are added after the nodes;
  regular expressions, locations, constant values, the artifact ID and the JSON
  text; of the driver's commands only fan-in and fan-out.
- `Dependencies`: edge roles and precisions.
- `Dependencies`, `BuildPipeline`: two nodes registered for one range of one
  variable (two clocked blocks that assign it).  `VariableTracker::lookup`
  returns whichever its map finds first, so what a reader is connected to
  depends on the order of the tasks; a design has one node per range here, and
  the theorems say nothing of the other designs.

Not modelled at all: the canonical body resolver (its result depends on which
bodies slang marks as canonical, and no code in the repository states that
contract); the report tool, DOT output, diagnostics and Python bindings (I/O and
glue); the symbol and file tables (interning under a mutex: symbols are model
values); profile timings; slang itself and `BS::thread_pool` (external).

Next, in this order:

1. Theorems for `Netlist` and `DataFlow`, whose recursive operators (a wildcard
   match, the partition of an expression) would first be written as recursive
   functions: that the index of names is complete for the nodes it was built
   from, and that joins and assignments keep definitions exact.
2. The path and cross-register commands of the driver, on `DepthFirstSearch`.
