--------------------------- MODULE BuildPipeline ---------------------------
(***************************************************************************)
(* The four phases of a build: BuildPipeline (source/BuildPipeline.cpp)    *)
(* and PendingRvalueQueue (source/PendingRvalueQueue.cpp).                 *)
(*                                                                         *)
(* The main thread collects the deferred blocks (1); they are analysed,    *)
(* one after the other or as tasks of a thread pool, each task recording   *)
(* drivers in the shared trackers and queueing references in a buffer of   *)
(* its own (2); the buffers are drained into the queue (3); and the queue  *)
(* is resolved into edges against the complete driver map, again in one    *)
(* thread or in the pool, partitioned by target node (4).                  *)
(*                                                                         *)
(* A block is the sequence of effects its analysis has on shared state;    *)
(* any block in Faults may throw at any point of it.  The thread pool is   *)
(* external: tasks start in the order they were detached, on any thread.   *)
(***************************************************************************)
EXTENDS Dependencies, SequencesExt

CONSTANTS
  Main,       \* the thread that calls NetlistGraph::build
  Workers,    \* the threads of the pool
  Ports,      \* the effects of the Phase 1 traversal
  Blocks,     \* the deferred blocks, a sequence of sequences of effects
  Faults,     \* the blocks, and the targets (Phase 4), that may throw
  Parallel,   \* the values of options.parallel
  Threshold   \* options.parallelRValueThreshold

\* node drives (mergeDrivers), holds (createState) or reads (addRvalue) bits
\* lo .. hi of sym, or depends on source through them (hookupOutputPort, the
\* drivers of a State, modports: addDependency at once).
Effect == NonEmpty([op : {"drive", "state", "read", "link"}, sym : Symbols,
                    lo : Bits, hi : Bits, node : Nodes \cup {Null},
                    source : Nodes \cup {Null}])

All(effects, op) == {e \in {effects[k] : k \in DOMAIN effects} : e.op = op}

\* What the ports and the blocks say, whatever the schedule.
AllEffects(op) ==
  All(Ports, op) \cup UNION {All(Blocks[b], op) : b \in DOMAIN Blocks}

Disjoint(e, f) == e.sym = f.sym => e.hi < f.lo \/ f.hi < e.lo

\* A reader may be absent, nothing else.  An edge of Phases 1 and 2 starts
\* from a node of the port or block that adds it.  Ports drive disjoint
\* ranges; blocks may drive the same range, but none that overlaps another
\* in part, where driver lists get shared (see ValueTracker).  One node
\* registers a range: of two, lookup() would find the one inserted first.
ASSUME BuildPipelineAssumption ==
  /\ Main \notin Workers
  /\ IsFiniteSet(Workers) /\ Workers # {}
  /\ Ports \in Seq(Effect)
  /\ Blocks \in Seq(Seq(Effect))
  /\ Faults \in [blocks : SUBSET DOMAIN Blocks, targets : SUBSET Nodes]
  /\ Parallel \subseteq BOOLEAN
  /\ Threshold \in Nat
  /\ \A op \in {"drive", "state", "link"} : \A e \in AllEffects(op) :
       e.node # Null /\ (op = "link" => e.source # Null)
  /\ \A b, c \in DOMAIN Blocks : b # c =>
       \A e \in All(Blocks[b], "link"), f \in All(Blocks[c], "link") :
         e.source # f.source
  /\ \A e, f \in AllEffects("state") :
       e.sym = f.sym /\ e.lo = f.lo /\ e.hi = f.hi => e.node = f.node
  /\ \A e, f \in All(Ports, "drive") : e = f \/ Disjoint(e, f)
  /\ \A e, f \in AllEffects("drive") :
       (e.lo = f.lo /\ e.hi = f.hi) \/ Disjoint(e, f)

VARIABLES
  parallel,   \* options.parallel
  phase,      \* how far the main thread is
  deferred,   \* BuildPipeline::deferredBlocks, indexes of Blocks
  pool,       \* threadPool # nullptr
  tasks,      \* the tasks detached and not yet started
  job,        \* what each thread is running
  buffers,    \* allWork: the references of each task
  queue,      \* PendingRvalueQueue::queue
  exception,  \* pendingException is set
  threw,      \* history: something has thrown
  drivers,    \* the shared ValueTracker
  variables,  \* the VariableTracker
  edges       \* the edges between each two nodes

shared == <<drivers, variables, edges>>
vars == <<parallel, phase, deferred, pool, tasks, job, buffers, queue,
          exception, threw, drivers, variables, edges>>

AllThreads == Workers \cup {Main}

\* A task is a deferred block, by its number, or a block of runs of the
\* sorted queue, with what it has still to do.
NoJob == [block |-> 0, todo |-> <<>>]
NoEdges == [p \in Nodes \X Nodes |-> <<>>]

AsReference(e) == [sym |-> e.sym, lo |-> e.lo, hi |-> e.hi, node |-> e.node]
AsAnnotation(e) == [sym |-> e.sym, lo |-> e.lo, hi |-> e.hi]
AsVariable(e) == AsReference(e)
AsDrive(e) == AsReference(e)

Reads(effects) ==
  LET reads == Ascending({k \in DOMAIN effects : effects[k].op = "read"})
  IN [k \in DOMAIN reads |-> AsReference(effects[reads[k]])]
Links(effects, p) ==
  LET links == Ascending({k \in DOMAIN effects :
                            /\ effects[k].op = "link"
                            /\ <<effects[k].source, effects[k].node>> = p})
  IN [k \in DOMAIN links |-> AsAnnotation(effects[links[k]])]

Init ==
  /\ parallel \in Parallel
  /\ phase = "start"
  /\ deferred = <<>>
  /\ pool = FALSE
  /\ tasks = <<>>
  /\ job = [t \in AllThreads |-> NoJob]
  /\ buffers = <<>>
  /\ queue = <<>>
  /\ exception = FALSE
  /\ threw = FALSE
  /\ drivers = {}
  /\ variables = {}
  /\ edges = NoEdges

\* runPhase1: one traversal by the main thread, which drives, hooks up and
\* queues the references of ports directly and defers every block.  (The
\* addDriver calls of port nodes replace, the others merge; it is the same
\* thing, as ports drive disjoint ranges.)
Collect ==
  /\ phase = "start"
  /\ phase' = "collected"
  /\ deferred' = [b \in DOMAIN Blocks |-> b]
  /\ drivers' = {AsDrive(e) : e \in All(Ports, "drive")}
  /\ variables' = {AsVariable(e) : e \in All(Ports, "state")}
  /\ queue' = Reads(Ports)
  /\ edges' = [p \in Nodes \X Nodes |->
                AddDependencies(<<>>, p[1], Links(Ports, p))]
  /\ UNCHANGED <<parallel, pool, tasks, job, buffers, exception, threw>>

Detached(bs) == [k \in DOMAIN bs |-> [block |-> bs[k], todo |-> Blocks[bs[k]]]]

\* runPhase2: a pool and one task per block, or the main thread's loop.
StartAnalysis ==
  /\ phase = "collected"
  /\ phase' = "analyse"
  /\ pool' = parallel
  /\ tasks' = Detached(deferred)
  /\ buffers' = [b \in DOMAIN deferred |-> <<>>]
  /\ UNCHANGED <<parallel, deferred, job, queue, exception, threw, shared>>

\* The threads that take tasks, in this phase and with this queue.
Pooled == IF phase = "analyse" THEN pool ELSE phase = "resolvePool"
Runners == IF Pooled THEN Workers ELSE {Main}

StartTask(t) ==
  /\ phase \in {"analyse", "resolve", "resolvePool"}
  /\ t \in Runners
  /\ job[t] = NoJob
  /\ tasks # <<>>
  /\ job' = [job EXCEPT ![t] = Head(tasks)]
  /\ tasks' = Tail(tasks)
  /\ UNCHANGED <<parallel, phase, deferred, pool, buffers, queue, exception,
                 threw, shared>>

\* enqueue: into the task's buffer if the thread has one.
Enqueue(t, r) ==
  IF t \in Workers
  THEN /\ buffers' = [buffers EXCEPT ![job[t].block] = Append(@, r)]
       /\ UNCHANGED queue
  ELSE queue' = Append(queue, r) /\ UNCHANGED buffers

Advance(t) == job' = [job EXCEPT ![t].todo = Tail(@)]

\* One effect of a block's analysis.
Analyse(t) ==
  /\ phase = "analyse"
  /\ job[t].todo # <<>>
  /\ LET e == Head(job[t].todo) IN
     \/ /\ e.op = "read"
        /\ Enqueue(t, AsReference(e))
        /\ UNCHANGED <<drivers, variables, edges>>
     \/ /\ e.op = "drive"
        /\ drivers' = drivers \cup {AsDrive(e)}
        /\ UNCHANGED <<variables, queue, buffers, edges>>
     \/ /\ e.op = "state"
        /\ variables' = variables \cup {AsVariable(e)}
        /\ UNCHANGED <<drivers, queue, buffers, edges>>
     \/ /\ e.op = "link"
        /\ edges' = [edges EXCEPT ![<<e.source, e.node>>] =
                            AddDependency(@, e.source, AsAnnotation(e))]
        /\ UNCHANGED <<drivers, variables, queue, buffers>>
  /\ Advance(t)
  /\ UNCHANGED <<parallel, phase, deferred, pool, tasks, exception, threw>>

AnalysisThrowsSilently(t) ==
  /\ phase = "analyse"
  /\ job[t].block \in Faults.blocks
  /\ threw' = TRUE
  /\ IF pool
     THEN /\ job' = [job EXCEPT ![t].todo = <<>>]
          /\ UNCHANGED <<phase, tasks, exception>>
     ELSE /\ phase' = "failed"
          /\ job' = [job EXCEPT ![t] = NoJob]
          /\ tasks' = <<>>
          /\ UNCHANGED exception
  /\ UNCHANGED <<parallel, deferred, pool, buffers, queue, shared>>

\* The analysis of a block throws: caught in a task, which keeps the first
\* exception and ends; leaves run() at once in the main thread.
AnalysisThrows(t) ==
  /\ phase = "analyse"
  /\ job[t].block \in Faults.blocks
  /\ threw' = TRUE
  /\ IF pool
     THEN /\ job' = [job EXCEPT ![t].todo = <<>>]
          /\ exception' = TRUE
          /\ UNCHANGED <<phase, tasks>>
     ELSE /\ phase' = "failed"
          /\ job' = [job EXCEPT ![t] = NoJob]
          /\ tasks' = <<>>
          /\ UNCHANGED exception
  /\ UNCHANGED <<parallel, deferred, pool, buffers, queue, shared>>

EndTaskUnlessThrown(t) ==
  /\ job[t] # NoJob
  /\ job[t].todo = <<>>
  /\ ~exception
  /\ job' = [job EXCEPT ![t] = NoJob]
  /\ UNCHANGED <<parallel, phase, deferred, pool, tasks, buffers, queue,
                 exception, threw, shared>>

EndTask(t) ==
  /\ job[t] # NoJob
  /\ job[t].todo = <<>>
  /\ job' = [job EXCEPT ![t] = NoJob]
  /\ UNCHANGED <<parallel, phase, deferred, pool, tasks, buffers, queue,
                 exception, threw, shared>>

JoinedEarly == tasks = <<>>

\* threadPool->wait(), or the end of the main thread's loop.
Joined == tasks = <<>> /\ \A t \in AllThreads : job[t] = NoJob

\* A task's exception is rethrown from run(), past drain and clear().
RethrowAnalysis ==
  /\ phase = "analyse"
  /\ Joined
  /\ exception
  /\ phase' = "failed"
  /\ UNCHANGED <<parallel, deferred, pool, tasks, job, buffers, queue,
                 exception, threw, shared>>

DrainedLast == queue \o FlattenSeq(IF buffers = <<>> THEN <<>> ELSE <<Last(buffers)>>)

\* drain: the buffers go behind the queue in the order of the blocks.
Drained == queue \o FlattenSeq(buffers)

FinishAnalysis ==
  /\ phase = "analyse"
  /\ Joined
  /\ ~exception
  /\ queue' = Drained
  /\ buffers' = <<>>
  /\ deferred' = <<>>
  /\ phase' = "built"
  /\ UNCHANGED <<parallel, pool, tasks, job, exception, threw, shared>>

\* resolveSequential, entered when resolve() finds no reason for the pool.
ResolveSequential ==
  /\ phase = "built"
  /\ ~parallel \/ ~pool \/ Len(queue) < Threshold
  /\ tasks' = <<[block |-> 1, todo |-> queue]>>
  /\ phase' = "resolve"
  /\ UNCHANGED <<parallel, deferred, pool, job, buffers, queue, exception,
                 threw, shared>>

\* std::ranges::sort by target address: not stable, so any order of the
\* references of one target; a null target sorts first.  (That an order is a
\* function from positions onto positions is said for the proofs: tlapm has no
\* Permutations.)
SortedByNode(q) ==
  LET orders == {p \in Permutations(DOMAIN q) :
                   /\ \A k \in 1 .. Len(q) - 1 : q[p[k]].node <= q[p[k + 1]].node
                   /\ p \in [DOMAIN q -> DOMAIN q]
                   /\ \A i \in DOMAIN q : \E k \in DOMAIN q : p[k] = i}
  IN {[k \in DOMAIN q |-> q[p[k]]] : p \in orders}

RunStartsPerEntry(s) ==
  Ascending({k \in DOMAIN s : s[k].node # Null} \cup {Len(s) + 1})

\* runStarts: where each target's references begin, and the end.
RunStarts(s) ==
  Ascending({k \in DOMAIN s : /\ s[k].node # Null
                              /\ k > 1 => s[k].node # s[k - 1].node}
              \cup {Len(s) + 1})

\* BS::thread_pool::detach_blocks over numRuns: as many blocks as threads,
\* if there are that many runs, the first ones longer by one.
RunBlocks(s, starts) ==
  LET n == Len(starts) - 1
      k == Least(n, Cardinality(Workers))
      first(b) == (b - 1) * (n \div k) + Least(b - 1, n % k) + 1
  IN IF n = 0 THEN <<>>
     ELSE [b \in 1 .. k |->
             [block |-> b,
              todo |-> SubSeq(s, starts[first(b)], starts[first(b + 1)] - 1)]]

\* resolveParallel up to wait().
ResolveParallel ==
  /\ phase = "built"
  /\ parallel /\ pool /\ Len(queue) >= Threshold
  /\ \E s \in SortedByNode(queue) :
       /\ queue' = s
       /\ tasks' = RunBlocks(s, RunStarts(s))
  /\ phase' = "resolvePool"
  /\ UNCHANGED <<parallel, deferred, pool, job, buffers, exception, threw,
                 shared>>

Resolving == phase \in {"resolve", "resolvePool"}

\* One reference becomes edges; a null target has none.
EmitEdges(t) ==
  /\ Resolving
  /\ job[t].todo # <<>>
  /\ edges' = EmitEdgesFor(edges, drivers, variables, Head(job[t].todo))
  /\ Advance(t)
  /\ UNCHANGED <<parallel, phase, deferred, pool, tasks, buffers, queue,
                 exception, threw, drivers, variables>>

\* Emitting throws: a task keeps the first exception and goes on with its
\* next reference; the main thread leaves finalize().
EmitThrows(t) ==
  /\ Resolving
  /\ job[t].todo # <<>>
  /\ Head(job[t].todo).node \in Faults.targets
  /\ threw' = TRUE
  /\ IF phase = "resolvePool"
     THEN Advance(t) /\ exception' = TRUE /\ UNCHANGED <<phase, tasks>>
     ELSE /\ phase' = "failed"
          /\ job' = [job EXCEPT ![t] = NoJob]
          /\ tasks' = <<>>
          /\ UNCHANGED exception
  /\ UNCHANGED <<parallel, deferred, pool, buffers, queue, shared>>

\* wait(), then the exception, or queue.clear() and threadPool.reset().
FinishResolve ==
  /\ Resolving
  /\ Joined
  /\ IF exception
     THEN phase' = "failed" /\ UNCHANGED <<queue, pool>>
     ELSE phase' = "done" /\ queue' = <<>> /\ pool' = FALSE
  /\ UNCHANGED <<parallel, deferred, tasks, job, buffers, exception, threw,
                 shared>>

Run(t) ==
  \/ StartTask(t)
  \/ Analyse(t)
  \/ AnalysisThrows(t)
  \/ EmitEdges(t)
  \/ EmitThrows(t)
  \/ EndTask(t)

Control ==
  \/ Collect
  \/ StartAnalysis
  \/ RethrowAnalysis
  \/ FinishAnalysis
  \/ ResolveSequential
  \/ ResolveParallel
  \/ FinishResolve

Next == Control \/ \E t \in AllThreads : Run(t)

Spec == Init /\ [][Next]_vars

\* The main thread runs, and so does every thread that has a task; an idle
\* thread of the pool is woken while tasks wait.
FairSpec == Spec /\ WF_vars(Control) /\ \A t \in AllThreads : WF_vars(Run(t))
-----------------------------------------------------------------------------
(***************************************************************************)
(* Properties.  (AnalysisThrowsSilently, EndTaskUnlessThrown, JoinedEarly, *)
(* DrainedLast and RunStartsPerEntry, and in Dependencies                  *)
(* SetVariableDropsGap, are faults that the runs inject to show that the *)
(* properties can fail; Next uses none of them.)                           *)
(***************************************************************************)
States == {AsVariable(e) : e \in AllEffects("state")}
Driven == {AsDrive(e) : e \in AllEffects("drive")}

\* The bits of each symbol through which p[2] should depend on p[1].
Expected ==
  [p \in Nodes \X Nodes |-> [sym \in Symbols |->
     (UNION {BitsFrom(Driven, States, AsReference(e), p[1]) : e \in
               {f \in AllEffects("read") : f.sym = sym /\ f.node = p[2]}})
     \cup (UNION {e.lo .. e.hi : e \in
               {f \in AllEffects("link") : f.sym = sym /\ <<f.source, f.node>> = p}})]]

Via(p) == {s \in Symbols : Expected[p][s] # {}}

\* A build that finishes has an edge between two nodes exactly where the
\* design says one reads what the other drives: the same edges in one thread
\* and in the pool, whatever the interleaving of the tasks, the order of the
\* drained buffers and the (unstable) sort of the queue.
EdgesExact ==
  phase = "done" => \A p \in Nodes \X Nodes : edges[p] # <<>> <=> Via(p) # {}

AnnotatedBits(es, sym) ==
  UNION {es[k].lo .. es[k].hi : k \in {j \in DOMAIN es : es[j].sym = sym}}

\* What n drives, holds or is linked by lies in the frame of n's own bounds,
\* so that addDependency cuts nothing off.  It need not: the node of an output
\* port has bounds in the port and drives bits of what is connected to it.
OwnFrame(n) ==
  /\ Unnarrowed(Driven, States, n)
  /\ \A e \in AllEffects("link") : e.source = n => Kept(n, e)

\* Uniting contiguous ranges and adding parallel edges for the others keeps
\* bit accuracy: no annotation names a bit that is not read, and where two
\* nodes are related through one symbol only, the annotations of their edges
\* name all of them, in every order.  A source with bounds in another frame is
\* left out: there the cut of NetlistBuilder.cpp:94 loses bits that are read.
AnnotationsExact ==
  phase = "done" => \A p \in Nodes \X Nodes : \A s \in Symbols :
    /\ AnnotatedBits(edges[p], s) \subseteq Expected[p][s]
    /\ Via(p) = {s} /\ OwnFrame(p[1]) =>
         AnnotatedBits(edges[p], s) = Expected[p][s]

\* Edges are annotated outside any lock, so no two threads may resolve
\* references of the same target at the same time.
OneWriterPerTarget ==
  Resolving => \A t, u \in AllThreads : t # u =>
    \A i \in DOMAIN job[t].todo, j \in DOMAIN job[u].todo :
      job[t].todo[i].node # job[u].todo[j].node

\* run() and finalize() return, normally or by an exception, only when no
\* task is left that refers to the locals of their frames (the exception,
\* its mutex, allWork, the run starts).
TasksJoined ==
  phase \in {"collected", "built", "done", "failed"} =>
    tasks = <<>> /\ \A t \in AllThreads : job[t] = NoJob

\* No exception is swallowed, and none is invented.
FailureReported ==
  /\ phase = "done" => ~threw
  /\ phase = "failed" => threw

\* Every build ends, in a graph or in an exception.
BuildEnds == <>(phase \in {"done", "failed"})
=============================================================================
