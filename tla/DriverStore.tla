---------------------------- MODULE DriverStore ----------------------------
(***************************************************************************)
(* What ValueTracker::addDrivers promises its callers: each call takes     *)
(* effect on the driver map of its symbol at one instant between the call  *)
(* and the return, on that map alone, and nothing else changes a map.      *)
(*                                                                         *)
(* Slots, the resizing of vectors and the three kinds of lock do not       *)
(* appear: SlotTable has them, and implements this specification.          *)
(***************************************************************************)
EXTENDS Naturals

CONSTANTS
  Threads,  \* the callers
  Vectors,  \* the ValueDrivers objects that callers pass
  Symbols,  \* the value symbols
  NoCall    \* what an idle thread is doing

VARIABLES
  store,    \* store[v][s]: the drivers of symbol s recorded in v
  request,  \* each thread's call, until it takes effect
  calls     \* how many calls have been made; call k adds driver k

storeVars == <<store, request, calls>>

StoreInit ==
  /\ store = [v \in Vectors |-> [s \in Symbols |-> {}]]
  /\ request = [t \in Threads |-> NoCall]
  /\ calls = 0

\* A thread calls addDrivers.
Invoke(t) ==
  /\ request[t] = NoCall
  /\ \E v \in Vectors, s \in Symbols, merge \in BOOLEAN :
       request' = [request EXCEPT ![t] =
         [vec |-> v, sym |-> s, merge |-> merge, driver |-> calls + 1]]
  /\ calls' = calls + 1
  /\ UNCHANGED store

\* The call takes effect: its driver joins the symbol's, or replaces them.
TakeEffect(t) ==
  /\ request[t] # NoCall
  /\ LET c == request[t] IN
       store' = [store EXCEPT ![c.vec][c.sym] =
         IF c.merge THEN @ \cup {c.driver} ELSE {c.driver}]
  /\ request' = [request EXCEPT ![t] = NoCall]
  /\ UNCHANGED calls

StoreNext == \E t \in Threads : Invoke(t) \/ TakeEffect(t)

StoreSpec == StoreInit /\ [][StoreNext]_storeVars
=============================================================================
