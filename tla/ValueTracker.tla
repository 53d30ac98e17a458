---------------------------- MODULE ValueTracker ----------------------------
(***************************************************************************)
(* The driver map of one value symbol: ValueTracker::addDrivers            *)
(* (source/ValueTracker.cpp) over DriverMap (source/DriverMap.hpp) and     *)
(* ExternalManager (source/ExternalManager.hpp).                           *)
(*                                                                         *)
(* A driver map is a set of intervals, each naming by handle a driver list *)
(* kept in a slot vector with a FIFO free list.  addDrivers walks the      *)
(* intervals that overlap its range; each case of its loop body is one     *)
(* action here, and the variable call is the state of that loop.  The code *)
(* holds the slot's mutex for the whole loop, so no other addDrivers on    *)
(* the same symbol runs between a Call and its return.                     *)
(***************************************************************************)
EXTENDS DriverLists

CONSTANTS
  Width,    \* the symbol has bits 0 .. Width - 1
  Drivers,  \* the netlist nodes that can drive it
  Merges,   \* the values of the argument "merge" that callers pass
  MaxCalls  \* bound on the number of addDrivers calls

ASSUME ValueTrackerAssumption ==
  /\ Width \in Nat \ {0}
  /\ Merges \subseteq BOOLEAN
  /\ MaxCalls \in Nat

VARIABLES
  intervals,    \* DriverMap::driverIntervals, a set of Interval
  driverLists,  \* DriverMap::driverLists, an ExternalManager<DriverList>
  call,         \* the addDrivers call in progress
  calls,        \* how many calls have started (the bound)
  replaced,     \* history: some call so far did not merge
  ref           \* history: the drivers each bit should have

vars == <<intervals, driverLists, call, calls, replaced, ref>>

Bits == 0 .. Width - 1

Interval == [lo : Bits, hi : Bits, h : Nat \ {0}]

DriverList == (SUBSET Drivers) \ {{}}

Slot == [live : BOOLEAN, list : SUBSET Drivers]

\* Every index on the free list is an index of the slot vector.
Manager ==
  {m \in [slots : Seq(Slot), freeList : Seq(Nat \ {0})] :
     \A k \in DOMAIN m.freeList : m.freeList[k] \in DOMAIN m.slots}

Call == [pc : {"idle", "scan", "aborted"}, lo : Int, hi : Int,
         list : SUBSET Drivers, merge : BOOLEAN]

Idle == [pc |-> "idle", lo |-> 0, hi |-> 0, list |-> {}, merge |-> FALSE]
-----------------------------------------------------------------------------
(***************************************************************************)
(* IntervalMap::find(bounds): the overlapping interval that starts first.  *)
(***************************************************************************)
Overlaps(i, lo, hi) == i.lo <= hi /\ lo <= i.hi

Found == {i \in intervals : Overlaps(i, call.lo, call.hi)}

IsFirst(i) == i \in Found /\ \A j \in Found : i.lo <= j.lo

Scanning == call.pc = "scan"

(***************************************************************************)
(* The five relations between an existing interval and the new bounds, in  *)
(* the order addDrivers tests them.                                        *)
(***************************************************************************)
Matches(i) == i.lo = call.lo /\ i.hi = call.hi

ContainsNew(i) == ~Matches(i) /\ i.lo <= call.lo /\ call.hi <= i.hi

InsideNew(i) == ~Matches(i) /\ call.lo <= i.lo /\ i.hi <= call.hi

LeftOverlaps(i) == i.lo < call.lo /\ call.lo <= i.hi /\ i.hi < call.hi

RightOverlaps(i) == call.lo < i.lo /\ i.lo <= call.hi /\ call.hi < i.hi

PieceUnguarded(lo, hi, h) == {[lo |-> lo, hi |-> hi, h |-> h]}

Piece(lo, hi, h) == IF lo <= hi THEN {[lo |-> lo, hi |-> hi, h |-> h]} ELSE {}

CombinedDropsOld(old) == call.list

\* What a list becomes where the new drivers meet existing ones.
Combined(old) == IF call.merge THEN old \cup call.list ELSE call.list

Return == call' = Idle

AdvanceTooFar(i) ==
  call' = IF i.hi + 2 > call.hi THEN Idle ELSE [call EXCEPT !.lo = i.hi + 2]

\* bounds.left = itBounds.second + 1, and the return when nothing is left.
AdvancePast(i) ==
  call' = IF i.hi + 1 > call.hi THEN Idle ELSE [call EXCEPT !.lo = i.hi + 1]
-----------------------------------------------------------------------------
Init ==
  /\ intervals = {}
  /\ driverLists = [slots |-> <<>>, freeList |-> <<>>]
  /\ call = Idle
  /\ calls = 0
  /\ replaced = FALSE
  /\ ref = [b \in Bits |-> {}]

(***************************************************************************)
(* Entry: the declared range [left:right] is normalised to ascending.      *)
(***************************************************************************)
AddDrivers(left, right, list, merge) ==
  /\ call.pc = "idle"
  /\ calls < MaxCalls
  /\ LET lo == IF left <= right THEN left ELSE right
         hi == IF left <= right THEN right ELSE left
     IN /\ call' = [pc |-> "scan", lo |-> lo, hi |-> hi,
                    list |-> list, merge |-> merge]
        /\ ref' = [b \in Bits |->
                     IF b \notin lo .. hi THEN ref[b]
                     ELSE IF merge THEN ref[b] \cup list ELSE list]
  /\ calls' = calls + 1
  /\ replaced' = (replaced \/ ~merge)
  /\ UNCHANGED <<intervals, driverLists>>

\* The existing interval is exactly the new bounds.
ExactMatch(i) ==
  /\ Matches(i)
  /\ ValidHandle(driverLists, i.h)
  /\ driverLists' = SetDriverList(driverLists, i.h,
                                  Combined(GetDriverList(driverLists, i.h)))
  /\ Return
  /\ UNCHANGED intervals

\* The existing interval strictly contains the new bounds: both remainders
\* keep the existing handle, the middle gets a list of its own.
SplitExisting(i) ==
  /\ ContainsNew(i)
  /\ call.merge => ValidHandle(driverLists, i.h)
  /\ driverLists' = AddDriverList(driverLists,
                                  Combined(GetDriverList(driverLists, i.h)))
  /\ intervals' = (intervals \ {i})
                    \cup Piece(i.lo, call.lo - 1, i.h)
                    \cup Piece(call.hi + 1, i.hi, i.h)
                    \cup Piece(call.lo, call.hi, NewHandle(driverLists))
  /\ Return

\* Replacing: an interval inside the new bounds is erased, and its list
\* freed if the handle still refers to one; the search starts again.
EraseInside(i) ==
  /\ InsideNew(i)
  /\ ~call.merge
  /\ intervals' = intervals \ {i}
  /\ driverLists' = IF ValidHandle(driverLists, i.h)
                    THEN EraseDriverList(driverLists, i.h)
                    ELSE driverLists
  /\ UNCHANGED call

\* Merging: an interval inside the new bounds gains the new drivers, the
\* gap before it becomes an interval of the new drivers alone.
MergeInside(i) ==
  /\ InsideNew(i)
  /\ call.merge
  /\ ValidHandle(driverLists, i.h)
  /\ LET m == SetDriverList(driverLists, i.h,
                            Combined(GetDriverList(driverLists, i.h)))
     IN IF call.lo < i.lo
        THEN /\ driverLists' = AddDriverList(m, call.list)
             /\ intervals' = intervals \cup Piece(call.lo, i.lo - 1, NewHandle(m))
        ELSE driverLists' = m /\ UNCHANGED intervals
  /\ AdvancePast(i)

\* The existing interval starts before the new bounds and ends inside them.
SplitLeftOverlap(i) ==
  /\ LeftOverlaps(i)
  /\ call.merge => ValidHandle(driverLists, i.h)
  /\ driverLists' = AddDriverList(driverLists,
                                  Combined(GetDriverList(driverLists, i.h)))
  /\ intervals' = (intervals \ {i})
                    \cup Piece(i.lo, call.lo - 1, i.h)
                    \cup Piece(call.lo, i.hi, NewHandle(driverLists))
  /\ AdvancePast(i)

ReplaceRightOverlapKeepsOld(i) ==
  /\ RightOverlaps(i)
  /\ ~call.merge
  /\ driverLists' = AddDriverList(driverLists, call.list)
  /\ intervals' = intervals \cup Piece(call.lo, call.hi, NewHandle(driverLists))
  /\ Return

\* The existing interval starts inside the new bounds and ends after them.
ReplaceRightOverlap(i) ==
  /\ RightOverlaps(i)
  /\ ~call.merge
  /\ driverLists' = AddDriverList(driverLists, call.list)
  /\ intervals' = (intervals \ {i})
                    \cup Piece(call.lo, call.hi, NewHandle(driverLists))
                    \cup Piece(call.hi + 1, i.hi, i.h)
  /\ Return

MergeRightOverlap(i) ==
  /\ RightOverlaps(i)
  /\ call.merge
  /\ LET m == AddDriverList(driverLists, call.list)
     IN /\ ValidHandle(m, i.h)
        /\ driverLists' = AddDriverList(m, Combined(GetDriverList(m, i.h)))
        /\ intervals' = (intervals \ {i})
                          \cup Piece(call.lo, i.lo - 1, NewHandle(driverLists))
                          \cup Piece(i.lo, call.hi, NewHandle(m))
                          \cup Piece(call.hi + 1, i.hi, i.h)
  /\ Return

\* ExternalManager::get is reached with a freed handle: its SLANG_ASSERT
\* fails and the call does not return.
AssertFails(i) ==
  /\ Matches(i) \/ call.merge
  /\ ~ValidHandle(IF RightOverlaps(i) THEN AddDriverList(driverLists, call.list)
                  ELSE driverLists, i.h)
  /\ call' = [call EXCEPT !.pc = "aborted"]
  /\ UNCHANGED <<intervals, driverLists>>

\* Nothing overlaps what is left of the bounds.
InsertRemainder ==
  /\ Found = {}
  /\ driverLists' = AddDriverList(driverLists, call.list)
  /\ intervals' = intervals \cup Piece(call.lo, call.hi, NewHandle(driverLists))
  /\ Return

Step ==
  /\ Scanning
  /\ \/ InsertRemainder
     \/ \E i \in intervals :
          /\ IsFirst(i)
          /\ \/ ExactMatch(i)
             \/ SplitExisting(i)
             \/ EraseInside(i)
             \/ MergeInside(i)
             \/ SplitLeftOverlap(i)
             \/ ReplaceRightOverlap(i)
             \/ MergeRightOverlap(i)
             \/ AssertFails(i)
  /\ UNCHANGED <<calls, replaced, ref>>

Next ==
  \/ \E left, right \in Bits, list \in DriverList, merge \in Merges :
       AddDrivers(left, right, list, merge)
  \/ Step

Spec == Init /\ [][Next]_vars
-----------------------------------------------------------------------------
(***************************************************************************)
(* Properties.  (The definitions named ...Unguarded, ...DropsOld,          *)
(* ...TooFar and ...KeepsOld above are faults that the runs inject to show *)
(* that the properties can fail; Next uses none of them.)                  *)
(***************************************************************************)
\* Everything has its type; every interval is ascending and its handle, and
\* every free index, is an index of the slot vector.
TypeOK ==
  /\ intervals \subseteq {i \in Interval : i.lo <= i.hi}
  /\ driverLists \in Manager
  /\ \A i \in intervals : i.h \in DOMAIN driverLists.slots
  /\ call \in Call
  /\ Scanning => call.lo \in Bits /\ call.hi \in Bits /\ call.lo <= call.hi
  /\ calls \in 0 .. MaxCalls
  /\ replaced \in BOOLEAN
  /\ ref \in [Bits -> SUBSET Drivers]

Covered(b) == \E i \in intervals : b \in i.lo .. i.hi

ToDo(b) == call.pc # "idle" /\ b \in call.lo .. call.hi

\* "Intervals are non-overlapping" (ValueTracker.hpp): no sequence of splits,
\* erasures and insertions, in either mode, ever leaves two intervals of the
\* map sharing a bit, not even between two iterations of the loop.
IntervalsDisjoint ==
  \A i, j \in intervals : i # j => i.hi < j.lo \/ j.hi < i.lo

\* No driven bit falls out of the map and none appears in it that nobody
\* drove: a bit is covered by an interval, or is still to be handled by the
\* call in progress, exactly when some call has driven it.
CoverageExact ==
  \A b \in Bits : ref[b] # {} <=> Covered(b) \/ ToDo(b)

\* As long as callers only merge, no driver is ever lost: the list of the
\* interval that covers a bit holds every driver merged into that bit, the
\* drivers of the call in progress excepted where it has not got to yet.
NoDriverLost ==
  ~replaced => \A i \in intervals : \A b \in i.lo .. i.hi :
    /\ ValidHandle(driverLists, i.h)
    /\ ref[b] \ (IF ToDo(b) THEN call.list ELSE {})
         \subseteq GetDriverList(driverLists, i.h)

\* What the induction needs besides: a bit the call has still to handle has
\* no driver but the call's, unless the call merges and an interval covers
\* the bit; and while callers only merge, no list has been freed.
GapsAreNew ==
  \A b \in Bits : ToDo(b) /\ (~Covered(b) \/ ~call.merge) => ref[b] \subseteq call.list

NothingFreed ==
  ~replaced => /\ Scanning => call.merge
               /\ driverLists.freeList = <<>>
               /\ \A h \in DOMAIN driverLists.slots : driverLists.slots[h].live

IInv ==
  /\ TypeOK
  /\ IntervalsDisjoint
  /\ CoverageExact
  /\ GapsAreNew
  /\ NothingFreed
  /\ NoDriverLost

\* The assertion of ExternalManager::get: no call reaches a freed handle.
NeverFreedHandle == call.pc # "aborted"
=============================================================================
