-------------------------- MODULE SlotTableProofs --------------------------
(***************************************************************************)
(* Proofs about SlotTable: for any number of threads, vectors, symbols and *)
(* calls, no index is out of bounds, both tables agree, no reference       *)
(* dangles, and concurrent calls of addDrivers act as calls made one after *)
(* the other (DriverStore).                                                *)
(***************************************************************************)
EXTENDS SlotTable, TLAPS

Call == [vec : Vectors, sym : Symbols, merge : BOOLEAN, driver : Nat]

Control == {"idle", "lookup", "allocate", "emplace", "reverse", "check",
            "resize", "relock", "slot", "update"}

\* Where a thread has the slot of its symbol, and where it has seen that both
\* vectors hold it.
HasSlot == {"reverse", "check", "resize", "relock", "slot", "update"}
HasRoom == {"relock", "slot", "update"}

\* The indices of a vector: all below its size.
IsPrefix(S) == S \subseteq Nat /\ \A i \in S, j \in Nat : j < i => j \in S

\* Type correctness of the tracker's tables, vectors and locals.
TypeOK ==
  /\ nextSlot \in Nat
  /\ DOMAIN valueToSlot \subseteq Symbols
  /\ valueToSlot \in [DOMAIN valueToSlot -> Nat]
  /\ slotToValue \in [DOMAIN slotToValue -> Symbols]
  /\ IsPrefix(slotMutexes)
  /\ DOMAIN drivers = Vectors
  /\ \A v \in Vectors : /\ drivers[v] \in [DOMAIN drivers[v] -> SUBSET Nat]
                        /\ IsPrefix(DOMAIN drivers[v])
  /\ drivers = [v \in Vectors |-> drivers[v]]
  /\ pc \in [Threads -> Control]
  /\ request \in [Threads -> Call \cup {NoCall}]
  /\ \A t \in Threads : request[t] \in Call <=> pc[t] # "idle"
  /\ index \in [Threads -> Nat]
  /\ seen \in [Threads -> SUBSET Nat]
  /\ calls \in Nat

\* The race for a slot: all slots in use and all candidates come from the
\* counter and are different.
SlotsDistinct ==
  /\ \A s \in DOMAIN valueToSlot : valueToSlot[s] < nextSlot
  /\ \A r, s \in DOMAIN valueToSlot : valueToSlot[r] = valueToSlot[s] => r = s
  /\ \A t \in Threads : pc[t] = "emplace" =>
       /\ index[t] < nextSlot
       /\ \A s \in DOMAIN valueToSlot : valueToSlot[s] # index[t]
  /\ \A t, u \in Threads :
       pc[t] = "emplace" /\ pc[u] = "emplace" /\ index[t] = index[u] => t = u

\* A thread that goes on to the vectors has the slot of its symbol.
SlotsRight ==
  \A t \in Threads : pc[t] \in HasSlot =>
    /\ request[t].sym \in DOMAIN valueToSlot
    /\ index[t] = valueToSlot[request[t].sym]

\* slotToValue is the inverse of valueToSlot, but for the entries that a
\* thread is about to make.
TablesAgree ==
  /\ \A i \in DOMAIN slotToValue :
       slotToValue[i] \in DOMAIN valueToSlot /\ valueToSlot[slotToValue[i]] = i
  /\ \A s \in DOMAIN valueToSlot :
       \/ valueToSlot[s] \in DOMAIN slotToValue
       \/ \E t \in Threads : pc[t] = "reverse" /\ request[t].sym = s

\* Vectors never shrink: who has seen that an index fits may use it.
RoomStays ==
  \A t \in Threads : pc[t] \in HasRoom =>
    /\ index[t] \in slotMutexes
    /\ index[t] \in DOMAIN drivers[request[t].vec]

\* The mutex of a slot: one thread updates the map at an index, and what it
\* has read is still there.
SlotExclusive ==
  /\ \A t, u \in Threads :
       pc[t] = "update" /\ pc[u] = "update" /\ index[t] = index[u] => t = u
  /\ \A t \in Threads : pc[t] = "update" =>
       seen[t] = drivers[request[t].vec][index[t]]

\* A map that belongs to no symbol is empty, so that a symbol has no driver
\* when it gets its slot.
UnusedEmpty ==
  \A v \in Vectors : \A i \in DOMAIN drivers[v] :
    (\A s \in DOMAIN valueToSlot : valueToSlot[s] # i) => drivers[v][i] = {}

IInv ==
  /\ TypeOK
  /\ SlotsDistinct
  /\ SlotsRight
  /\ TablesAgree
  /\ RoomStays
  /\ SlotExclusive
  /\ UnusedEmpty
-----------------------------------------------------------------------------
\* No thread, slot or driver is there at first.
LEMMA InitInv == Init => IInv
BY SlotTableAssumption
   DEF Init, IInv, TypeOK, SlotsDistinct, SlotsRight, TablesAgree, RoomStays,
       SlotExclusive, UnusedEmpty, IsPrefix, Call, Control, HasSlot, HasRoom

\* A call begins: only the thread's own control and request change.
LEMMA BeginInv ==
  ASSUME IInv, NEW t \in Threads, Begin(t)
  PROVE  IInv'
<1> USE DEF IInv, TypeOK, Begin, Goto, tables, vectors
<1>1. TypeOK'
  <2>1. PICK v \in Vectors, s \in Symbols, merge \in BOOLEAN :
          request' = [request EXCEPT ![t] =
            [vec |-> v, sym |-> s, merge |-> merge, driver |-> calls + 1]]
    BY SlotTableAssumption
  <2>2. [vec |-> v, sym |-> s, merge |-> merge, driver |-> calls + 1] \in Call
    BY DEF Call
  <2>3. request' \in [Threads -> Call \cup {NoCall}]
    BY <2>1, <2>2
  <2>4. \A u \in Threads : request'[u] \in Call <=> pc'[u] # "idle"
    BY <2>1, <2>2
  <2> QED BY <2>3, <2>4 DEF Control
<1>2. SlotsDistinct'
  BY DEF SlotsDistinct
<1>3. SlotsRight'
  BY DEF SlotsRight, HasSlot
<1>4. TablesAgree'
  BY DEF TablesAgree
<1>5. RoomStays'
  BY DEF RoomStays, HasRoom, IsPrefix
<1>6. SlotExclusive'
  BY DEF SlotExclusive
<1>7. UnusedEmpty'
  BY DEF UnusedEmpty
<1> QED BY <1>1, <1>2, <1>3, <1>4, <1>5, <1>6, <1>7

\* The fast path: a slot that is found is the slot of the symbol.
LEMMA LookupInv ==
  ASSUME IInv, NEW t \in Threads, Lookup(t)
  PROVE  IInv'
<1> USE DEF IInv, TypeOK, Lookup, Goto, tables, vectors
<1>1. TypeOK'
  BY DEF Call, Control, IsPrefix
<1>2. SlotsDistinct'
  BY DEF SlotsDistinct
<1>3. SlotsRight'
  BY DEF SlotsRight, HasSlot
<1>4. TablesAgree'
  BY DEF TablesAgree
<1>5. RoomStays'
  BY DEF RoomStays, HasRoom, IsPrefix
<1>6. SlotExclusive'
  BY DEF SlotExclusive
<1>7. UnusedEmpty'
  BY DEF UnusedEmpty
<1> QED BY <1>1, <1>2, <1>3, <1>4, <1>5, <1>6, <1>7

\* The counter gives a candidate no symbol and no other thread has.
LEMMA AllocateInv ==
  ASSUME IInv, NEW t \in Threads, Allocate(t)
  PROVE  IInv'
<1> USE DEF IInv, TypeOK, Allocate, Goto, tables, vectors
<1>1. TypeOK'
  BY DEF Call, Control, IsPrefix
<1>2. SlotsDistinct'
  BY DEF SlotsDistinct
<1>3. SlotsRight'
  BY DEF SlotsRight, HasSlot
<1>4. TablesAgree'
  BY DEF TablesAgree
<1>5. RoomStays'
  BY DEF RoomStays, HasRoom, IsPrefix
<1>6. SlotExclusive'
  BY DEF SlotExclusive
<1>7. UnusedEmpty'
  BY DEF UnusedEmpty
<1> QED BY <1>1, <1>2, <1>3, <1>4, <1>5, <1>6, <1>7

\* The race for a slot: the first candidate becomes the slot, a later thread
\* takes that one, and in neither case do two symbols share a slot.
LEMMA EmplaceInv ==
  ASSUME IInv, NEW t \in Threads, Emplace(t)
  PROVE  IInv'
<1> USE DEF IInv, TypeOK, Goto, tables, vectors
<1> DEFINE s == request[t].sym
<1>0. s \in Symbols /\ pc[t] = "emplace" /\ request[t] \in Call
  BY DEF Emplace, Call
<1>1. CASE s \in DOMAIN valueToSlot
  <2>0. /\ index' = [index EXCEPT ![t] = valueToSlot[s]]
        /\ pc' = [pc EXCEPT ![t] = "check"]
        /\ UNCHANGED <<valueToSlot, slotToValue, nextSlot, slotMutexes, drivers,
                       request, seen, calls>>
    BY <1>1 DEF Emplace
  <2>1. TypeOK'
    BY <1>0, <1>1, <2>0 DEF Control
  <2>2. SlotsDistinct'
    BY <1>0, <1>1, <2>0 DEF SlotsDistinct
  <2>3. SlotsRight'
    BY <1>0, <1>1, <2>0 DEF SlotsRight, HasSlot
  <2>4. TablesAgree'
    BY <1>0, <1>1, <2>0 DEF TablesAgree
  <2>5. RoomStays'
    BY <1>0, <1>1, <2>0 DEF RoomStays, HasRoom
  <2>6. SlotExclusive'
    BY <1>0, <1>1, <2>0 DEF SlotExclusive
  <2>7. UnusedEmpty'
    BY <1>0, <1>1, <2>0 DEF UnusedEmpty
  <2> QED BY <2>1, <2>2, <2>3, <2>4, <2>5, <2>6, <2>7
<1>2. CASE s \notin DOMAIN valueToSlot
  <2>0. /\ pc' = [pc EXCEPT ![t] = "reverse"]
        /\ UNCHANGED <<slotToValue, nextSlot, slotMutexes, drivers, request,
                       index, seen, calls>>
    BY <1>2 DEF Emplace
  <2>v. /\ DOMAIN valueToSlot' = DOMAIN valueToSlot \cup {s}
        /\ valueToSlot'[s] = index[t]
        /\ \A r \in DOMAIN valueToSlot : valueToSlot'[r] = valueToSlot[r]
        /\ valueToSlot' \in [DOMAIN valueToSlot' -> Nat]
    BY <1>0, <1>2 DEF Emplace, Extend
  <2>1. TypeOK'
    BY <1>0, <2>0, <2>v DEF Control
  <2>2. SlotsDistinct'
    BY <1>0, <2>0, <2>v DEF SlotsDistinct
  <2>3. SlotsRight'
    BY <1>0, <2>0, <2>v DEF SlotsRight, HasSlot
  <2>4. TablesAgree'
    BY <1>0, <1>2, <2>0, <2>v DEF TablesAgree
  <2>5. RoomStays'
    BY <1>0, <2>0 DEF RoomStays, HasRoom
  <2>6. SlotExclusive'
    BY <1>0, <2>0 DEF SlotExclusive
  <2>7. UnusedEmpty'
    BY <1>0, <2>0, <2>v DEF UnusedEmpty
  <2> QED BY <2>1, <2>2, <2>3, <2>4, <2>5, <2>6, <2>7
<1> QED BY <1>1, <1>2

\* The winner completes the inverse table.
LEMMA ReverseInv ==
  ASSUME IInv, NEW t \in Threads, Reverse(t)
  PROVE  IInv'
<1> USE DEF IInv, TypeOK, Reverse, Goto, tables, vectors
<1>0. /\ DOMAIN slotToValue' = DOMAIN slotToValue \cup {index[t]}
      /\ slotToValue'[index[t]] = request[t].sym
      /\ \A i \in DOMAIN slotToValue \ {index[t]} : slotToValue'[i] = slotToValue[i]
      /\ slotToValue' \in [DOMAIN slotToValue' -> Symbols]
  BY DEF Call, Extend
<1>1. TypeOK'
  BY <1>0 DEF Control
<1>2. SlotsDistinct'
  BY DEF SlotsDistinct
<1>3. SlotsRight'
  BY DEF SlotsRight, HasSlot
<1>4. TablesAgree'
  BY <1>0 DEF TablesAgree, SlotsRight, HasSlot
<1>5. RoomStays'
  BY DEF RoomStays, HasRoom, IsPrefix
<1>6. SlotExclusive'
  BY DEF SlotExclusive
<1>7. UnusedEmpty'
  BY DEF UnusedEmpty
<1> QED BY <1>1, <1>2, <1>3, <1>4, <1>5, <1>6, <1>7

\* A thread that finds both vectors long enough may use its index.
LEMMA CheckSizeInv ==
  ASSUME IInv, NEW t \in Threads, CheckSize(t)
  PROVE  IInv'
<1> USE DEF IInv, TypeOK, CheckSize, Goto, tables, vectors
<1>1. TypeOK'
  BY DEF Call, Control, IsPrefix
<1>2. SlotsDistinct'
  BY DEF SlotsDistinct
<1>3. SlotsRight'
  BY DEF SlotsRight, HasSlot
<1>4. TablesAgree'
  BY DEF TablesAgree
<1>5. RoomStays'
  BY DEF RoomStays, HasRoom, Fits
<1>6. SlotExclusive'
  BY DEF SlotExclusive
<1>7. UnusedEmpty'
  BY DEF UnusedEmpty
<1> QED BY <1>1, <1>2, <1>3, <1>4, <1>5, <1>6, <1>7

\* Under the exclusive lock nobody holds a reference; vectors grow, keep
\* what they hold, and get empty maps only.
LEMMA ResizeInv ==
  ASSUME IInv, NEW t \in Threads, Resize(t)
  PROVE  IInv'
<1> USE DEF IInv, TypeOK, Goto, tables, vectors
<1> DEFINE v == request[t].vec
           size == 0 .. index[t]
<1>0. /\ pc[t] = "resize" /\ v \in Vectors /\ index[t] \in Nat
      /\ pc' = [pc EXCEPT ![t] = "relock"]
      /\ \A u \in Threads : pc[u] \notin {"slot", "update"}
      /\ UNCHANGED <<valueToSlot, slotToValue, nextSlot, request, index, seen, calls>>
  BY DEF Resize, Call, Readers
<1>m. /\ IsPrefix(slotMutexes') /\ slotMutexes \subseteq slotMutexes'
      /\ index[t] \in slotMutexes'
  BY <1>0 DEF Resize, IsPrefix
<1>d. /\ drivers' = [w \in Vectors |-> drivers'[w]] /\ DOMAIN drivers' = Vectors
      /\ \A w \in Vectors \ {v} : drivers'[w] = drivers[w]
      /\ drivers'[v] = IF index[t] \in DOMAIN drivers[v] THEN drivers[v]
                       ELSE [i \in size |-> IF i \in DOMAIN drivers[v]
                                            THEN drivers[v][i] ELSE {}]
  BY <1>0 DEF Resize
<1>p. /\ IsPrefix(DOMAIN drivers'[v]) /\ index[t] \in DOMAIN drivers'[v]
      /\ DOMAIN drivers[v] \subseteq DOMAIN drivers'[v]
      /\ \A i \in DOMAIN drivers[v] : drivers'[v][i] = drivers[v][i]
      /\ \A i \in DOMAIN drivers'[v] \ DOMAIN drivers[v] : drivers'[v][i] = {}
      /\ drivers'[v] \in [DOMAIN drivers'[v] -> SUBSET Nat]
  <2>1. CASE index[t] \in DOMAIN drivers[v]
    BY <1>0, <1>d, <2>1
  <2>2. CASE index[t] \notin DOMAIN drivers[v]
    <3>1. DOMAIN drivers[v] \subseteq size
      BY <1>0, <2>2 DEF IsPrefix
    <3>2. IsPrefix(size) /\ index[t] \in size
      BY <1>0 DEF IsPrefix
    <3> HIDE DEF size
    <3> QED BY <1>0, <1>d, <2>2, <3>1, <3>2
  <2> QED BY <2>1, <2>2
<1>1. TypeOK'
  BY <1>0, <1>m, <1>d, <1>p DEF Control
<1>2. SlotsDistinct'
  BY <1>0 DEF SlotsDistinct
<1>3. SlotsRight'
  BY <1>0 DEF SlotsRight, HasSlot
<1>4. TablesAgree'
  BY <1>0 DEF TablesAgree
<1>5. RoomStays'
  <2>1. \A u \in Threads : pc[u] # "idle" => request[u].vec \in Vectors
    BY DEF Call
  <2>2. \A w \in Vectors : DOMAIN drivers[w] \subseteq DOMAIN drivers'[w]
    BY <1>d, <1>p
  <2> QED BY <1>0, <1>m, <1>p, <2>1, <2>2 DEF RoomStays, HasRoom
<1>6. SlotExclusive'
  BY <1>0 DEF SlotExclusive
<1>7. UnusedEmpty'
  <2>1. ASSUME NEW w \in Vectors, NEW i \in DOMAIN drivers'[w],
               \A r \in DOMAIN valueToSlot : valueToSlot[r] # i
        PROVE  drivers'[w][i] = {}
    <3>1. CASE w = v
      BY <1>p, <2>1, <3>1 DEF UnusedEmpty
    <3>2. CASE w # v
      BY <1>d, <2>1, <3>2 DEF UnusedEmpty
    <3> QED BY <3>1, <3>2
  <2> QED BY <1>0, <2>1 DEF UnusedEmpty
<1> QED BY <1>1, <1>2, <1>3, <1>4, <1>5, <1>6, <1>7

\* The shared lock is taken without a second check: the room is still there.
LEMMA RelockInv ==
  ASSUME IInv, NEW t \in Threads, Relock(t)
  PROVE  IInv'
<1> USE DEF IInv, TypeOK, Relock, Goto, tables, vectors
<1>1. TypeOK'
  BY DEF Call, Control, IsPrefix
<1>2. SlotsDistinct'
  BY DEF SlotsDistinct
<1>3. SlotsRight'
  BY DEF SlotsRight, HasSlot
<1>4. TablesAgree'
  BY DEF TablesAgree
<1>5. RoomStays'
  BY DEF RoomStays, HasRoom, IsPrefix
<1>6. SlotExclusive'
  BY DEF SlotExclusive
<1>7. UnusedEmpty'
  BY DEF UnusedEmpty
<1> QED BY <1>1, <1>2, <1>3, <1>4, <1>5, <1>6, <1>7

\* The mutex of the slot gives its holder the only up-to-date copy.
LEMMA LockSlotInv ==
  ASSUME IInv, NEW t \in Threads, LockSlot(t)
  PROVE  IInv'
<1> USE DEF IInv, TypeOK, LockSlot, Goto, tables, vectors
<1>1. TypeOK'
  BY DEF Call, Control, IsPrefix, RoomStays, HasRoom
<1>2. SlotsDistinct'
  BY DEF SlotsDistinct
<1>3. SlotsRight'
  BY DEF SlotsRight, HasSlot
<1>4. TablesAgree'
  BY DEF TablesAgree
<1>5. RoomStays'
  BY DEF RoomStays, HasRoom, IsPrefix
<1>6. SlotExclusive'
  BY DEF SlotExclusive, SlotHeld
<1>7. UnusedEmpty'
  BY DEF UnusedEmpty
<1> QED BY <1>1, <1>2, <1>3, <1>4, <1>5, <1>6, <1>7

\* An update changes one map of one vector, which no other thread has read.
LEMMA UpdateInv ==
  ASSUME IInv, NEW t \in Threads, Update(t)
  PROVE  IInv'
<1> USE DEF IInv, TypeOK, Goto, tables, vectors
<1> DEFINE c == request[t]
           new == IF c.merge THEN seen[t] \cup {c.driver} ELSE {c.driver}
<1>0. /\ pc[t] = "update" /\ c \in Call /\ c.vec \in Vectors /\ new \in SUBSET Nat
      /\ index[t] \in DOMAIN drivers[c.vec]
      /\ pc' = [pc EXCEPT ![t] = "idle"]
      /\ request' = [request EXCEPT ![t] = NoCall]
      /\ seen' = [seen EXCEPT ![t] = {}]
      /\ index' = [index EXCEPT ![t] = 0]
      /\ UNCHANGED <<valueToSlot, slotToValue, nextSlot, slotMutexes, calls>>
  BY DEF Update, Call, RoomStays, HasRoom
<1>d. /\ drivers' = [w \in Vectors |-> drivers'[w]] /\ DOMAIN drivers' = Vectors
      /\ \A w \in Vectors : DOMAIN drivers'[w] = DOMAIN drivers[w]
      /\ \A w \in Vectors \ {c.vec} : drivers'[w] = drivers[w]
      /\ drivers'[c.vec] = [drivers[c.vec] EXCEPT ![index[t]] = new]
  <2>1. drivers' = [drivers EXCEPT ![c.vec] = [drivers[c.vec] EXCEPT ![index[t]] = new]]
    BY <1>0 DEF Update
  <2> HIDE DEF new
  <2> QED BY <1>0, <2>1
<1> HIDE DEF new
<1>1. TypeOK'
  <2>1. NoCall \notin Call
    BY SlotTableAssumption DEF Call
  <2>2. \A w \in Vectors : drivers'[w] \in [DOMAIN drivers'[w] -> SUBSET Nat]
    BY <1>0, <1>d
  <2> QED BY <1>0, <1>d, <2>1, <2>2 DEF Control
<1>2. SlotsDistinct'
  BY <1>0, <1>d DEF SlotsDistinct
<1>3. SlotsRight'
  BY <1>0, <1>d DEF SlotsRight, HasSlot
<1>4. TablesAgree'
  BY <1>0, <1>d DEF TablesAgree
<1>5. RoomStays'
  <2>1. \A u \in Threads : pc[u] # "idle" => request[u].vec \in Vectors
    BY DEF Call
  <2> QED BY <1>0, <1>d, <2>1 DEF RoomStays, HasRoom
<1>6. SlotExclusive'
  <2>1. ASSUME NEW u \in Threads, pc'[u] = "update"
        PROVE  seen'[u] = drivers'[request'[u].vec][index'[u]]
    <3>1. u # t /\ pc[u] = "update"
      BY <1>0, <2>1
    <3>2. request[u].vec \in Vectors /\ index[u] # index[t]
      BY <1>0, <3>1 DEF SlotExclusive, Call
    <3>3. index[u] \in DOMAIN drivers[request[u].vec]
      BY <3>1 DEF RoomStays, HasRoom
    <3>4. drivers'[request[u].vec][index[u]] = drivers[request[u].vec][index[u]]
      BY <1>0, <1>d, <3>2, <3>3
    <3> QED BY <1>0, <3>1, <3>4 DEF SlotExclusive
  <2> QED BY <1>0, <2>1 DEF SlotExclusive
<1>7. UnusedEmpty'
  BY <1>0, <1>d DEF UnusedEmpty, SlotsRight, HasSlot
<1> QED BY <1>1, <1>2, <1>3, <1>4, <1>5, <1>6, <1>7

\* A stuttering step changes nothing.
LEMMA StutterInv ==
  ASSUME IInv, UNCHANGED vars
  PROVE  IInv'
BY DEF IInv, vars, TypeOK, SlotsDistinct, SlotsRight, TablesAgree, RoomStays,
       SlotExclusive, UnusedEmpty

\* Every step of every thread preserves the inductive invariant.
LEMMA NextInv == IInv /\ [Next]_vars => IInv'
BY BeginInv, LookupInv, AllocateInv, EmplaceInv, ReverseInv, CheckSizeInv,
   ResizeInv, RelockInv, LockSlotInv, UpdateInv, StutterInv DEF Next, Step

\* The inductive invariant: every step of every thread keeps it.
THEOREM SlotInvariant == Spec => []IInv
BY InitInv, NextInv, PTL DEF Spec

\* A thread never indexes slotMutexes or drivers beyond their ends, although
\* it gave up the lock after it made them long enough.
THEOREM IndexInBounds == Spec => []InBounds
<1>1. IInv => InBounds
  BY DEF IInv, RoomStays, HasRoom, InBounds
<1> QED BY <1>1, SlotInvariant, PTL

\* Whatever races for slots there were, when no call is running the two
\* tables are inverse to each other.
THEOREM VisitAllComplete == Spec => []VisitAllExact
<1>1. IInv => VisitAllExact
  <2> SUFFICES ASSUME IInv, \A t \in Threads : pc[t] = "idle"
               PROVE  /\ DOMAIN slotToValue = Range(valueToSlot)
                      /\ \A s \in DOMAIN valueToSlot : slotToValue[valueToSlot[s]] = s
    BY DEF VisitAllExact
  <2>1. \A s \in DOMAIN valueToSlot : valueToSlot[s] \in DOMAIN slotToValue
    BY DEF IInv, TablesAgree
  <2>2. \A i \in DOMAIN slotToValue :
          slotToValue[i] \in DOMAIN valueToSlot /\ valueToSlot[slotToValue[i]] = i
    BY DEF IInv, TablesAgree
  <2>3. \A r, s \in DOMAIN valueToSlot : valueToSlot[r] = valueToSlot[s] => r = s
    BY DEF IInv, SlotsDistinct
  <2> QED BY <2>1, <2>2, <2>3 DEF Range
<1> QED BY <1>1, SlotInvariant, PTL
-----------------------------------------------------------------------------
\* While some thread holds a reference into a vector, a step leaves the
\* indices of all vectors alone.
LEMMA NoReallocation ==
  ASSUME IInv, [Next]_vars, NEW t \in Threads, pc[t] = "update"
  PROVE  \A v \in Vectors : DOMAIN drivers'[v] = DOMAIN drivers[v]
<1>1. CASE UNCHANGED drivers
  BY <1>1
<1>2. ASSUME NEW u \in Threads, Resize(u)
      PROVE  FALSE
  BY <1>2 DEF Resize, Readers
<1>3. ASSUME NEW u \in Threads, Update(u)
      PROVE  \A v \in Vectors : DOMAIN drivers'[v] = DOMAIN drivers[v]
  BY <1>3 DEF IInv, TypeOK, Update
<1> QED BY <1>1, <1>2, <1>3
     DEF Next, Step, vars, tables, vectors, Begin, Lookup, Allocate, Emplace,
         Reverse, CheckSize, Relock, LockSlot

\* No reference into a vector is invalidated while a thread uses it.
THEOREM ReferencesValid == Spec => ReferencesStayValid
<1>1. IInv /\ [Next]_vars =>
        [\A t \in Threads : pc[t] = "update" /\ pc'[t] = "update" =>
           DOMAIN drivers'[request[t].vec] = DOMAIN drivers[request[t].vec]]_vars
  <2> SUFFICES ASSUME IInv, [Next]_vars, NEW t \in Threads, pc[t] = "update"
               PROVE  DOMAIN drivers'[request[t].vec] = DOMAIN drivers[request[t].vec]
    OBVIOUS
  <2>1. request[t].vec \in Vectors
    BY DEF IInv, TypeOK, Call
  <2> QED BY <2>1, NoReallocation
<1> QED BY <1>1, SlotInvariant, PTL DEF Spec, ReferencesStayValid
-----------------------------------------------------------------------------
(***************************************************************************)
(* The refinement.  The abstract store is what lookups find.  Only Begin   *)
(* (Invoke) and Update (TakeEffect) are visible in it.                     *)
(***************************************************************************)
Store == [v \in Vectors |-> [s \in Symbols |-> DriversOf(v, s)]]

\* Giving a symbol its slot, and making vectors longer, is not visible: the
\* maps that come into view are empty.
LEMMA StoreUnchanged ==
  ASSUME IInv, NEW t \in Threads,
         Begin(t) \/ Lookup(t) \/ Allocate(t) \/ Emplace(t) \/ Reverse(t)
           \/ CheckSize(t) \/ Resize(t) \/ Relock(t) \/ LockSlot(t)
  PROVE  Store' = Store
<1>1. SUFFICES ASSUME NEW v \in Vectors, NEW s \in Symbols
               PROVE  DriversOf(v, s)' = DriversOf(v, s)
  BY DEF Store
<1>2. CASE UNCHANGED <<valueToSlot, drivers>>
  BY <1>2 DEF DriversOf
<1>3. CASE Emplace(t)
  <2>1. CASE request[t].sym \in DOMAIN valueToSlot
    BY <1>2, <1>3, <2>1 DEF Emplace, vectors
  <2>2. CASE request[t].sym \notin DOMAIN valueToSlot
    <3>1. /\ DOMAIN valueToSlot' = DOMAIN valueToSlot \cup {request[t].sym}
          /\ valueToSlot'[request[t].sym] = index[t]
          /\ \A r \in DOMAIN valueToSlot : valueToSlot'[r] = valueToSlot[r]
          /\ drivers' = drivers
      BY <1>3, <2>2 DEF IInv, TypeOK, Emplace, Extend, vectors
    <3>2. \A r \in DOMAIN valueToSlot : valueToSlot[r] # index[t]
      BY <1>3 DEF IInv, SlotsDistinct, Emplace
    <3>3. index[t] \in DOMAIN drivers[v] => drivers[v][index[t]] = {}
      BY <3>2 DEF IInv, UnusedEmpty
    <3> QED BY <2>2, <3>1, <3>3 DEF DriversOf
  <2> QED BY <2>1, <2>2
<1>4. CASE Resize(t)
  <2>1. valueToSlot' = valueToSlot /\ index[t] \in Nat
    BY <1>4 DEF Resize, tables, IInv, TypeOK
  <2>2. CASE v # request[t].vec \/ index[t] \in DOMAIN drivers[v]
    BY <1>4, <2>1, <2>2 DEF Resize, IInv, TypeOK, DriversOf
  <2>3. CASE v = request[t].vec /\ index[t] \notin DOMAIN drivers[v]
    <3>1. drivers'[v] = [i \in 0 .. index[t] |->
                           IF i \in DOMAIN drivers[v] THEN drivers[v][i] ELSE {}]
      BY <1>4, <2>3 DEF Resize, IInv, TypeOK
    <3>2. DOMAIN drivers[v] \subseteq 0 .. index[t]
      BY <2>1, <2>3 DEF IInv, TypeOK, IsPrefix
    <3> QED BY <2>1, <3>1, <3>2 DEF DriversOf
  <2> QED BY <2>2, <2>3
<1> QED BY <1>2, <1>3, <1>4
     DEF tables, vectors, Begin, Lookup, Allocate, Reverse, CheckSize, Relock,
         LockSlot

\* An update replaces, or adds to, the drivers of its own symbol in its own
\* vector: the slot belongs to no other symbol, and nobody has changed the
\* map since it was read.
LEMMA UpdateTakesEffect ==
  ASSUME IInv, NEW t \in Threads, Update(t), NEW c, c = request[t]
  PROVE  Store' = [Store EXCEPT ![c.vec][c.sym] =
                     IF c.merge THEN @ \cup {c.driver} ELSE {c.driver}]
<1>0. /\ pc[t] = "update" /\ c.vec \in Vectors /\ c.sym \in DOMAIN valueToSlot
      /\ index[t] = valueToSlot[c.sym] /\ index[t] \in DOMAIN drivers[c.vec]
      /\ seen[t] = drivers[c.vec][index[t]]
      /\ c.sym \in Symbols /\ valueToSlot' = valueToSlot
  BY DEF IInv, TypeOK, Update, tables, Call, SlotsRight, HasSlot, RoomStays,
         HasRoom, SlotExclusive
<1> DEFINE updated(d) == IF c.merge THEN d \cup {c.driver} ELSE {c.driver}
<1>1. drivers' = [drivers EXCEPT ![c.vec] =
                    [drivers[c.vec] EXCEPT ![index[t]] = updated(seen[t])]]
  BY <1>0 DEF Update
<1>2. DriversOf(c.vec, c.sym) = seen[t]
  BY <1>0 DEF DriversOf
<1>3. DriversOf(c.vec, c.sym)' = updated(seen[t])
  <2>1. drivers'[c.vec] = [drivers[c.vec] EXCEPT ![index[t]] = updated(seen[t])]
    BY <1>0, <1>1 DEF IInv, TypeOK
  <2>2. /\ valueToSlot'[c.sym] \in DOMAIN drivers'[c.vec]
        /\ drivers'[c.vec][valueToSlot'[c.sym]] = updated(seen[t])
    BY <1>0, <2>1
  <2> QED BY <1>0, <2>2 DEF DriversOf
<1>4. ASSUME NEW v \in Vectors, NEW s \in Symbols, v # c.vec \/ s # c.sym
      PROVE  DriversOf(v, s)' = DriversOf(v, s)
  <2> HIDE DEF updated
  <2>1. CASE v # c.vec
    BY <1>0, <1>1, <2>1 DEF DriversOf, IInv, TypeOK
  <2>2. CASE v = c.vec /\ s # c.sym
    <3>1. s \in DOMAIN valueToSlot => valueToSlot[s] # index[t]
      BY <1>0, <2>2 DEF IInv, SlotsDistinct
    <3> QED BY <1>0, <1>1, <2>2, <3>1 DEF DriversOf, IInv, TypeOK
  <2> QED BY <1>4, <2>1, <2>2
<1>5. Store' = [v \in Vectors |-> [s \in Symbols |->
                  IF v = c.vec /\ s = c.sym THEN updated(DriversOf(v, s))
                                            ELSE DriversOf(v, s)]]
  <2> HIDE DEF updated
  <2>1. ASSUME NEW v \in Vectors, NEW s \in Symbols
        PROVE  DriversOf(v, s)' = IF v = c.vec /\ s = c.sym
                                  THEN updated(DriversOf(v, s)) ELSE DriversOf(v, s)
    BY <1>2, <1>3, <1>4
  <2> QED BY <2>1 DEF Store
<1>6. Store[c.vec][c.sym] = DriversOf(c.vec, c.sym)
  BY <1>0 DEF Store
<1>7. [Store EXCEPT ![c.vec][c.sym] = updated(Store[c.vec][c.sym])]
        = [v \in Vectors |-> [s \in Symbols |->
             IF v = c.vec /\ s = c.sym THEN updated(DriversOf(v, s))
                                       ELSE DriversOf(v, s)]]
  <2> HIDE DEF updated
  <2> QED BY <1>0, <1>6 DEF Store
<1> QED BY <1>5, <1>7

\* addDrivers is linearizable, for every number of threads, vectors, symbols
\* and calls.
THEOREM Linearizable == Spec => ImplementsStore
<1>1. Init => Abstract!StoreInit
  BY DEF Init, Abstract!StoreInit, DriversOf
<1>2. IInv /\ [Next]_vars => [Abstract!StoreNext]_Abstract!storeVars
  <2> SUFFICES ASSUME IInv, [Next]_vars
               PROVE  Abstract!StoreNext \/ UNCHANGED Abstract!storeVars
    OBVIOUS
  <2>1. ASSUME NEW t \in Threads, Begin(t)
        PROVE  Abstract!Invoke(t)
    BY <2>1, StoreUnchanged, SlotTableAssumption
       DEF Begin, Abstract!Invoke, Store, IInv, TypeOK, Call
  <2>2. ASSUME NEW t \in Threads, Update(t)
        PROVE  Abstract!TakeEffect(t)
    <3>1. PICK c : c = request[t]
      OBVIOUS
    <3>2. request[t] # NoCall
      BY <2>2, SlotTableAssumption DEF Update, IInv, TypeOK, Call
    <3>3. Store' = [Store EXCEPT ![c.vec][c.sym] =
                      IF c.merge THEN @ \cup {c.driver} ELSE {c.driver}]
      BY <2>2, <3>1, UpdateTakesEffect
    <3> QED BY <2>2, <3>1, <3>2, <3>3 DEF Update, Abstract!TakeEffect, Store
  <2>3. ASSUME NEW t \in Threads,
               Lookup(t) \/ Allocate(t) \/ Emplace(t) \/ Reverse(t) \/ CheckSize(t)
                 \/ Resize(t) \/ Relock(t) \/ LockSlot(t)
        PROVE  UNCHANGED Abstract!storeVars
    BY <2>3, StoreUnchanged
       DEF Abstract!storeVars, Store, Lookup, Allocate, Emplace, Reverse,
           CheckSize, Resize, Relock, LockSlot
  <2>4. CASE UNCHANGED vars
    BY <2>4 DEF vars, Abstract!storeVars, DriversOf
  <2> QED BY <2>1, <2>2, <2>3, <2>4 DEF Next, Step, Abstract!StoreNext
<1> QED BY <1>1, <1>2, SlotInvariant, PTL DEF Spec, ImplementsStore, Abstract!StoreSpec
=============================================================================
