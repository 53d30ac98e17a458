----------------------------- MODULE SlotTable -----------------------------
(***************************************************************************)
(* The concurrent part of ValueTracker::addDrivers: how a call finds the   *)
(* slot of its symbol, makes the vectors long enough for it, and updates   *)
(* the driver map of the slot.  What the update does to the intervals of   *)
(* one map is module ValueTracker; here a map is its set of drivers.       *)
(*                                                                         *)
(* The tracker of NetlistBuilder is shared by the worker threads, which    *)
(* all pass the builder's own vector.  The tracker of a DataFlowAnalysis   *)
(* belongs to one thread, which passes the vectors of several analysis     *)
(* states.  Both are instances of this module: "active" are the threads    *)
(* that use the tracker, and only a lone thread has several vectors.       *)
(*                                                                         *)
(* Locks are read off pc: a thread holds driversMutex shared in "slot" and *)
(* "update", exclusively within Resize alone, and the mutex of its slot in *)
(* "update".                                                               *)
(***************************************************************************)
EXTENDS Naturals, FiniteSets

CONSTANTS
  Threads,
  Vectors,
  Shared,    \* NetlistBuilder::drivers
  Symbols,
  NoCall,
  MaxCalls   \* bound on the number of calls

ASSUME SlotTableAssumption ==
  /\ Shared \in Vectors
  /\ Symbols # {}
  /\ MaxCalls \in Nat
  /\ NoCall \notin [vec : Vectors, sym : Symbols, merge : BOOLEAN, driver : Nat]

VARIABLES
  active,       \* the threads that share this tracker
  valueToSlot,  \* symbol to slot; its domain are the symbols with a slot
  slotToValue,  \* slot to symbol
  nextSlot,     \* the counter slots are taken from
  slotMutexes,  \* the indices slotMutexes and slotAllocators have
  drivers,      \* drivers[v][i]: the driver map at index i of vector v
  pc,           \* where each thread is in addDrivers
  request,      \* the call it executes
  index,        \* its local variable index, or candidate
  seen,         \* the driver map as it read it
  calls         \* how many calls have been made

vars == <<active, valueToSlot, slotToValue, nextSlot, slotMutexes, drivers,
          pc, request, index, seen, calls>>
tables == <<valueToSlot, slotToValue, nextSlot>>
vectors == <<slotMutexes, drivers>>

Range(f) == {f[x] : x \in DOMAIN f}

\* f with x mapped to y, whether or not x is in its domain.
Extend(f, x, y) == [z \in DOMAIN f \cup {x} |-> IF z = x THEN y ELSE f[z]]

Goto(t, where) == pc' = [pc EXCEPT ![t] = where]

Init ==
  /\ active \in {Threads} \cup {{t} : t \in Threads}
  /\ valueToSlot = [s \in {} |-> 0]
  /\ slotToValue = [i \in {} |-> CHOOSE s \in Symbols : TRUE]
  /\ nextSlot = 0
  /\ slotMutexes = {}
  /\ drivers = [v \in Vectors |-> [i \in {} |-> {}]]
  /\ pc = [t \in Threads |-> "idle"]
  /\ request = [t \in Threads |-> NoCall]
  /\ index = [t \in Threads |-> 0]
  /\ seen = [t \in Threads |-> {}]
  /\ calls = 0

\* A thread of this tracker calls addDrivers.
Begin(t) ==
  /\ pc[t] = "idle" /\ t \in active /\ calls < MaxCalls
  /\ \E v \in (IF Cardinality(active) > 1 THEN {Shared} ELSE Vectors),
        s \in Symbols, merge \in BOOLEAN :
       request' = [request EXCEPT ![t] =
         [vec |-> v, sym |-> s, merge |-> merge, driver |-> calls + 1]]
  /\ calls' = calls + 1
  /\ Goto(t, "lookup")
  /\ UNCHANGED <<active, tables, vectors, index, seen>>

\* The fast path: valueToSlot.cvisit.
Lookup(t) ==
  /\ pc[t] = "lookup"
  /\ LET s == request[t].sym IN
     IF s \in DOMAIN valueToSlot
     THEN index' = [index EXCEPT ![t] = valueToSlot[s]] /\ Goto(t, "check")
     ELSE UNCHANGED index /\ Goto(t, "allocate")
  /\ UNCHANGED <<active, tables, vectors, request, seen, calls>>

\* nextSlot.fetch_add.
Allocate(t) ==
  /\ pc[t] = "allocate"
  /\ index' = [index EXCEPT ![t] = nextSlot]
  /\ nextSlot' = nextSlot + 1
  /\ Goto(t, "emplace")
  /\ UNCHANGED <<active, valueToSlot, slotToValue, vectors, request, seen,
                 calls>>

\* valueToSlot.try_emplace_or_cvisit: the first thread's candidate is the
\* slot, a later thread takes that one and wastes its candidate.
Emplace(t) ==
  /\ pc[t] = "emplace"
  /\ LET s == request[t].sym IN
     IF s \in DOMAIN valueToSlot
     THEN /\ index' = [index EXCEPT ![t] = valueToSlot[s]]
          /\ Goto(t, "check")
          /\ UNCHANGED valueToSlot
     ELSE /\ valueToSlot' = Extend(valueToSlot, s, index[t])
          /\ Goto(t, "reverse")
          /\ UNCHANGED index
  /\ UNCHANGED <<active, slotToValue, nextSlot, vectors, request, seen, calls>>

ReverseForgotten(t) ==
  /\ pc[t] = "reverse"
  /\ Goto(t, "check")
  /\ UNCHANGED <<active, tables, vectors, request, index, seen, calls>>

\* slotToValue.emplace, by the thread that won.
Reverse(t) ==
  /\ pc[t] = "reverse"
  /\ slotToValue' = Extend(slotToValue, index[t], request[t].sym)
  /\ Goto(t, "check")
  /\ UNCHANGED <<active, valueToSlot, nextSlot, vectors, request, index, seen,
                 calls>>
-----------------------------------------------------------------------------
\* Neither the caller's vector nor the tracker's own need be resized.
Fits(t) ==
  index[t] \in DOMAIN drivers[request[t].vec] /\ index[t] \in slotMutexes

\* The shared lock is taken, and given up again if a vector is too short.
\* Nobody holds the lock exclusively between two actions.
CheckSize(t) ==
  /\ pc[t] = "check"
  /\ Goto(t, IF Fits(t) THEN "slot" ELSE "resize")
  /\ UNCHANGED <<active, tables, vectors, request, index, seen, calls>>

ReadersUpgrading == {t \in Threads : pc[t] \in {"resize", "slot", "update"}}

NoReaders == {}

\* The threads that hold driversMutex shared.
Readers == {t \in Threads : pc[t] \in {"slot", "update"}}

ResizeShrinks(t) ==
  /\ pc[t] = "resize"
  /\ Readers = {}
  /\ LET v == request[t].vec
         size == 0 .. index[t]
     IN /\ drivers' = [drivers EXCEPT ![v] =
             [i \in size |-> IF i \in DOMAIN @ THEN @[i] ELSE {}]]
        /\ slotMutexes' = size
  /\ Goto(t, "relock")
  /\ UNCHANGED <<active, tables, request, index, seen, calls>>

\* The exclusive lock: both sizes are looked at again, and each vector that
\* is still too short grows, new entries empty.
Resize(t) ==
  /\ pc[t] = "resize"
  /\ Readers = {}
  /\ LET v == request[t].vec
         size == 0 .. index[t]
     IN /\ drivers' = [drivers EXCEPT ![v] =
             IF index[t] \in DOMAIN @ THEN @
             ELSE [i \in size |-> IF i \in DOMAIN @ THEN @[i] ELSE {}]]
        /\ slotMutexes' = IF index[t] \in slotMutexes THEN slotMutexes ELSE size
  /\ Goto(t, "relock")
  /\ UNCHANGED <<active, tables, request, index, seen, calls>>

\* The shared lock again; the sizes are not checked again.
Relock(t) ==
  /\ pc[t] = "relock"
  /\ Goto(t, "slot")
  /\ UNCHANGED <<active, tables, vectors, request, index, seen, calls>>

SlotNeverHeld(i) == FALSE

\* Some thread holds slotMutexes[i].
SlotHeld(i) == \E u \in Threads : pc[u] = "update" /\ index[u] = i

\* The slot's mutex is taken, and the map at the index is read.
LockSlot(t) ==
  /\ pc[t] = "slot"
  /\ ~SlotHeld(index[t])
  /\ seen' = [seen EXCEPT ![t] = drivers[request[t].vec][index[t]]]
  /\ Goto(t, "update")
  /\ UNCHANGED <<active, tables, vectors, request, index, calls>>

\* The updated map is in place; the locks are released and the call returns.
Update(t) ==
  /\ pc[t] = "update"
  /\ LET c == request[t] IN
       drivers' = [drivers EXCEPT ![c.vec][index[t]] =
         IF c.merge THEN seen[t] \cup {c.driver} ELSE {c.driver}]
  /\ request' = [request EXCEPT ![t] = NoCall]
  /\ seen' = [seen EXCEPT ![t] = {}]
  /\ index' = [index EXCEPT ![t] = 0]
  /\ Goto(t, "idle")
  /\ UNCHANGED <<active, tables, slotMutexes, calls>>

Step(t) ==
  \/ Lookup(t) \/ Allocate(t) \/ Emplace(t) \/ Reverse(t) \/ CheckSize(t)
  \/ Resize(t) \/ Relock(t) \/ LockSlot(t) \/ Update(t)

Next == \E t \in Threads : Begin(t) \/ Step(t)

\* A thread inside a call goes on.  The locks need not be fair: the calls
\* are finitely many, so a waiting thread cannot be overtaken for ever.
Fairness == \A t \in Threads : WF_vars(Step(t))

Spec == Init /\ [][Next]_vars /\ Fairness
-----------------------------------------------------------------------------
\* getSlot, then the map at that slot: forEachDriverInterval and
\* mergeDrivers find no driver when the vector has no such index.
DriversOf(v, s) ==
  IF s \in DOMAIN valueToSlot /\ valueToSlot[s] \in DOMAIN drivers[v]
  THEN drivers[v][valueToSlot[s]]
  ELSE {}

\* A thread that indexes slotMutexes and drivers is within both, although
\* it gave up the lock between the resize and the use, and although other
\* threads resize them to their own needs in between (ValueTracker.cpp:50).
InBounds ==
  \A t \in Threads : pc[t] \in {"slot", "update"} =>
    /\ index[t] \in slotMutexes
    /\ index[t] \in DOMAIN drivers[request[t].vec]

\* Between calls, visitAll finds every symbol with a slot once, under the
\* slot the other table gives it: the race for a slot leaves no symbol with
\* two slots, no slot with two symbols, and no entry missing
\* (ValueTracker.cpp:28).
VisitAllExact ==
  (\A t \in Threads : pc[t] = "idle") =>
    /\ DOMAIN slotToValue = Range(valueToSlot)
    /\ \A s \in DOMAIN valueToSlot : slotToValue[valueToSlot[s]] = s

\* While a thread holds a reference into the vector, nobody reallocates it
\* (the comment at ValueTracker.cpp:40).
ReferencesStayValid ==
  [][\A t \in Threads : pc[t] = "update" /\ pc'[t] = "update" =>
       DOMAIN drivers'[request[t].vec] = DOMAIN drivers[request[t].vec]]_vars

\* Every call of addDrivers returns: no thread waits for ever for the
\* driversMutex or the mutex of a slot.
EveryAddReturns == \A t \in Threads : (pc[t] # "idle") ~> (pc[t] = "idle")

Abstract == INSTANCE DriverStore WITH
  store <- [v \in Vectors |-> [s \in Symbols |-> DriversOf(v, s)]]

\* addDrivers is linearizable: whatever the threads do to the tables and the
\* vectors, what can be looked up changes only by whole calls, each taking
\* effect once, on its own symbol and in its own vector.
ImplementsStore == Abstract!StoreSpec
=============================================================================
