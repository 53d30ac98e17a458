------------------------- MODULE ValueTrackerProofs -------------------------
(***************************************************************************)
(* Proofs about ValueTracker, for every width, set of drivers and bound.   *)
(***************************************************************************)
EXTENDS ValueTracker, TLAPS

-----------------------------------------------------------------------------
(***************************************************************************)
(* ExternalManager.                                                        *)
(***************************************************************************)
\* What it takes to build a well-formed manager.
LEMMA MakeManager ==
  ASSUME NEW s \in Seq(Slot), NEW f \in Seq(Nat \ {0}),
         \A k \in DOMAIN f : f[k] \in DOMAIN s
  PROVE  [slots |-> s, freeList |-> f] \in Manager
BY DEF Manager

\* Allocation yields a manager in which the new handle holds the list, no
\* index disappears and no other index changes.
LEMMA AddDriverListFacts ==
  ASSUME NEW m \in Manager, NEW list \in SUBSET Drivers
  PROVE  /\ AddDriverList(m, list) \in Manager
         /\ NewHandle(m) \in Nat \ {0}
         /\ NewHandle(m) \in DOMAIN AddDriverList(m, list).slots
         /\ DOMAIN m.slots \subseteq DOMAIN AddDriverList(m, list).slots
         /\ \A h \in DOMAIN m.slots : h # NewHandle(m) =>
              AddDriverList(m, list).slots[h] = m.slots[h]
         /\ AddDriverList(m, list).slots[NewHandle(m)] = Live(list)
<1>1. CASE m.freeList = <<>>
  <2>1. m.slots \in Seq(Slot) /\ Live(list) \in Slot
    BY DEF Manager, Live, Slot
  <2>2. AddDriverList(m, list) = [slots |-> Append(m.slots, Live(list)), freeList |-> <<>>]
    BY <1>1 DEF AddDriverList
  <2>3. NewHandle(m) = Len(m.slots) + 1
    BY <1>1 DEF NewHandle
  <2>. QED BY <2>1, <2>2, <2>3 DEF Manager
<1>2. CASE m.freeList # <<>>
  <2>1. m.slots \in Seq(Slot) /\ Live(list) \in Slot /\ m.freeList \in Seq(Nat \ {0})
    BY DEF Manager, Live, Slot
  <2>2. Head(m.freeList) \in DOMAIN m.slots
    BY <1>2, <2>1 DEF Manager
  <2>3. AddDriverList(m, list) =
          [slots |-> [m.slots EXCEPT ![Head(m.freeList)] = Live(list)],
           freeList |-> Tail(m.freeList)]
    BY <1>2 DEF AddDriverList
  <2>4. NewHandle(m) = Head(m.freeList)
    BY <1>2 DEF NewHandle
  <2>5. /\ [m.slots EXCEPT ![Head(m.freeList)] = Live(list)] \in Seq(Slot)
        /\ DOMAIN [m.slots EXCEPT ![Head(m.freeList)] = Live(list)] = DOMAIN m.slots
    BY <2>1, <2>2
  <2>6. /\ Tail(m.freeList) \in Seq(Nat \ {0})
        /\ \A k \in DOMAIN Tail(m.freeList) : Tail(m.freeList)[k] \in DOMAIN m.slots
    BY <1>2, <2>1 DEF Manager
  <2>7. AddDriverList(m, list) \in Manager
    <3> DEFINE s == [m.slots EXCEPT ![Head(m.freeList)] = Live(list)]
               f == Tail(m.freeList)
    <3>1. s \in Seq(Slot) /\ f \in Seq(Nat \ {0}) /\ \A k \in DOMAIN f : f[k] \in DOMAIN s
      BY <2>5, <2>6
    <3>2. AddDriverList(m, list) = [slots |-> s, freeList |-> f]
      BY <2>3
    <3> HIDE DEF s, f
    <3>. QED BY <3>1, <3>2, MakeManager
  <2>. QED BY <2>1, <2>2, <2>3, <2>4, <2>5, <2>7
<1>. QED BY <1>1, <1>2

\* Overwriting a list and freeing one keep the manager well formed.
LEMMA SetAndEraseFacts ==
  ASSUME NEW m \in Manager, NEW h \in DOMAIN m.slots, NEW list \in SUBSET Drivers
  PROVE  /\ SetDriverList(m, h, list) \in Manager
         /\ DOMAIN SetDriverList(m, h, list).slots = DOMAIN m.slots
         /\ SetDriverList(m, h, list).freeList = m.freeList
         /\ \A k \in DOMAIN m.slots :
              SetDriverList(m, h, list).slots[k] =
                IF k = h THEN Live(list) ELSE m.slots[k]
         /\ EraseDriverList(m, h) \in Manager
         /\ DOMAIN EraseDriverList(m, h).slots = DOMAIN m.slots
<1>1. /\ m.slots \in Seq(Slot) /\ m.freeList \in Seq(Nat \ {0})
      /\ Live(list) \in Slot /\ Freed \in Slot /\ h \in Nat \ {0}
  BY DEF Manager, Live, Freed, Slot
<1>2. /\ [m.slots EXCEPT ![h] = Live(list)] \in Seq(Slot)
      /\ [m.slots EXCEPT ![h] = Freed] \in Seq(Slot)
  BY <1>1
<1>3. /\ Append(m.freeList, h) \in Seq(Nat \ {0})
      /\ \A k \in DOMAIN Append(m.freeList, h) :
           Append(m.freeList, h)[k] \in DOMAIN m.slots
  BY <1>1 DEF Manager
<1>. QED BY <1>1, <1>2, <1>3 DEF Manager, SetDriverList, EraseDriverList
-----------------------------------------------------------------------------
(***************************************************************************)
(* Type correctness.                                                       *)
(***************************************************************************)
WellFormed == {i \in Interval : i.lo <= i.hi}

\* A piece is empty or one ascending interval with the given ends.
LEMMA PieceFacts ==
  ASSUME NEW lo \in Int, NEW hi \in Int, NEW h \in Nat \ {0},
         lo <= hi => lo \in Bits /\ hi \in Bits
  PROVE  /\ Piece(lo, hi, h) \subseteq WellFormed
         /\ \A x \in Piece(lo, hi, h) : x.lo = lo /\ x.hi = hi /\ x.h = h
BY DEF Piece, WellFormed, Interval

\* The combination of two driver lists is a driver list.
LEMMA CombinedType ==
  ASSUME TypeOK, NEW old \in SUBSET Drivers
  PROVE  Combined(old) \in SUBSET Drivers
BY DEF TypeOK, Call, Combined

\* The range an iteration works on and the interval it found.
LEMMA FoundFacts ==
  ASSUME TypeOK, Scanning, NEW i \in intervals, IsFirst(i)
  PROVE  /\ call.lo \in Bits /\ call.hi \in Bits /\ call.lo <= call.hi
         /\ i.lo \in Bits /\ i.hi \in Bits /\ i.lo <= i.hi
         /\ i.lo <= call.hi /\ call.lo <= i.hi
         /\ i.h \in Nat \ {0} /\ i.h \in DOMAIN driverLists.slots
         /\ driverLists \in Manager
         /\ GetDriverList(driverLists, i.h) \in SUBSET Drivers
         /\ call.list \in SUBSET Drivers
         /\ call.lo \in Int /\ call.hi \in Int /\ i.lo \in Int /\ i.hi \in Int
<1>1. i \in WellFormed /\ i \in Found
  BY DEF TypeOK, WellFormed, IsFirst
<1>2. driverLists.slots[i.h] \in Slot
  BY DEF TypeOK, Manager
<1>. QED BY <1>1, <1>2 DEF TypeOK, WellFormed, Interval, Found, Overlaps, Call,
            GetDriverList, Slot, Bits

\* Returning, and moving the lower bound past an interval, keep call typed.
LEMMA CallType ==
  ASSUME TypeOK, Scanning, NEW i \in intervals, IsFirst(i),
         Return \/ AdvancePast(i) \/ UNCHANGED call
  PROVE  /\ call' \in Call
         /\ call'.pc = "scan" =>
              call'.lo \in Bits /\ call'.hi \in Bits /\ call'.lo <= call'.hi
<1>1. CASE call' = call
  BY <1>1 DEF TypeOK, Scanning
<1>2. CASE call' = Idle
  BY <1>2 DEF Idle, Call
<1>3. CASE i.hi + 1 <= call.hi /\ call' = [call EXCEPT !.lo = i.hi + 1]
  <2>1. i.hi + 1 \in Bits
    BY <1>3, FoundFacts, ValueTrackerAssumption DEF Bits
  <2>. QED BY <1>3, <2>1, FoundFacts DEF TypeOK, Call, Bits
<1>. QED BY <1>1, <1>2, <1>3, FoundFacts DEF Return, AdvancePast

\* Each iteration of the loop keeps the map and the lists typed.
LEMMA StepType ==
  ASSUME TypeOK, Scanning, NEW i \in intervals, IsFirst(i),
         \/ ExactMatch(i)
         \/ SplitExisting(i)
         \/ EraseInside(i)
         \/ MergeInside(i)
         \/ SplitLeftOverlap(i)
         \/ ReplaceRightOverlap(i)
         \/ MergeRightOverlap(i)
         \/ AssertFails(i)
  PROVE  /\ intervals' \subseteq WellFormed
         /\ driverLists' \in Manager
         /\ \A j \in intervals' : j.h \in DOMAIN driverLists'.slots
         /\ DOMAIN driverLists.slots \subseteq DOMAIN driverLists'.slots
<1> DEFINE old == GetDriverList(driverLists, i.h)
           m1 == AddDriverList(driverLists, Combined(old))
           m2 == AddDriverList(driverLists, call.list)
           m3 == SetDriverList(driverLists, i.h, Combined(old))
           n == NewHandle(driverLists)
<1>1. /\ Combined(old) \in SUBSET Drivers /\ intervals \subseteq WellFormed
      /\ \A j \in intervals : j.h \in DOMAIN driverLists.slots
  BY FoundFacts, CombinedType DEF TypeOK, WellFormed
<1>2. /\ m1 \in Manager /\ m2 \in Manager /\ n \in Nat \ {0}
      /\ n \in DOMAIN m1.slots /\ n \in DOMAIN m2.slots
      /\ DOMAIN driverLists.slots \subseteq DOMAIN m1.slots
      /\ DOMAIN driverLists.slots \subseteq DOMAIN m2.slots
  BY <1>1, FoundFacts, AddDriverListFacts
<1>3. m3 \in Manager /\ DOMAIN m3.slots = DOMAIN driverLists.slots
  BY <1>1, FoundFacts, SetAndEraseFacts
<1>4. CASE ExactMatch(i)
  BY <1>1, <1>3, <1>4 DEF ExactMatch
<1>5. CASE SplitExisting(i)
  <2>1. /\ Piece(i.lo, call.lo - 1, i.h) \subseteq WellFormed
        /\ \A x \in Piece(i.lo, call.lo - 1, i.h) : x.h = i.h
    BY FoundFacts, PieceFacts, ValueTrackerAssumption DEF Bits
  <2>2. /\ Piece(call.hi + 1, i.hi, i.h) \subseteq WellFormed
        /\ \A x \in Piece(call.hi + 1, i.hi, i.h) : x.h = i.h
    BY FoundFacts, PieceFacts, ValueTrackerAssumption DEF Bits
  <2>3. /\ Piece(call.lo, call.hi, n) \subseteq WellFormed
        /\ \A x \in Piece(call.lo, call.hi, n) : x.h = n
    BY FoundFacts, PieceFacts, <1>2, ValueTrackerAssumption DEF Bits
  <2> HIDE DEF n, m1, m2, m3
  <2>4. driverLists' = m1 /\ intervals' = (intervals \ {i})
                    \cup Piece(i.lo, call.lo - 1, i.h)
                    \cup Piece(call.hi + 1, i.hi, i.h)
                    \cup Piece(call.lo, call.hi, n)
    BY <1>5 DEF SplitExisting, m1, n
  <2>. QED BY <1>1, <1>2, <2>1, <2>2, <2>3, <2>4, FoundFacts
<1>6. CASE EraseInside(i)
  BY <1>1, <1>6, FoundFacts, SetAndEraseFacts DEF EraseInside
<1>7. CASE MergeInside(i)
  <2> DEFINE m4 == AddDriverList(m3, call.list)
             k == NewHandle(m3)
  <2>1. /\ m4 \in Manager /\ k \in Nat \ {0} /\ k \in DOMAIN m4.slots
        /\ DOMAIN driverLists.slots \subseteq DOMAIN m4.slots
    BY <1>3, FoundFacts, AddDriverListFacts
  <2>2. /\ Piece(call.lo, i.lo - 1, k) \subseteq WellFormed
        /\ \A x \in Piece(call.lo, i.lo - 1, k) : x.h = k
    BY <2>1, FoundFacts, PieceFacts, ValueTrackerAssumption DEF Bits
  <2> HIDE DEF m3, m4, k
  <2>3. \/ driverLists' = m4 /\ intervals' = intervals \cup Piece(call.lo, i.lo - 1, k)
        \/ driverLists' = m3 /\ intervals' = intervals
    BY <1>7 DEF MergeInside, m3, m4, k
  <2>. QED BY <1>1, <1>3, <2>1, <2>2, <2>3
<1>8. CASE SplitLeftOverlap(i)
  <2>1. /\ Piece(i.lo, call.lo - 1, i.h) \subseteq WellFormed
        /\ \A x \in Piece(i.lo, call.lo - 1, i.h) : x.h = i.h
    BY FoundFacts, PieceFacts, ValueTrackerAssumption DEF Bits
  <2>2. /\ Piece(call.lo, i.hi, n) \subseteq WellFormed
        /\ \A x \in Piece(call.lo, i.hi, n) : x.h = n
    BY FoundFacts, PieceFacts, <1>2, ValueTrackerAssumption DEF Bits
  <2> HIDE DEF n, m1, m2, m3
  <2>3. driverLists' = m1 /\ intervals' = (intervals \ {i})
                    \cup Piece(i.lo, call.lo - 1, i.h)
                    \cup Piece(call.lo, i.hi, n)
    BY <1>8 DEF SplitLeftOverlap, m1, n
  <2>. QED BY <1>1, <1>2, <2>1, <2>2, <2>3, FoundFacts
<1>9. CASE ReplaceRightOverlap(i)
  <2>1. /\ Piece(call.hi + 1, i.hi, i.h) \subseteq WellFormed
        /\ \A x \in Piece(call.hi + 1, i.hi, i.h) : x.h = i.h
    BY FoundFacts, PieceFacts, ValueTrackerAssumption DEF Bits
  <2>2. /\ Piece(call.lo, call.hi, n) \subseteq WellFormed
        /\ \A x \in Piece(call.lo, call.hi, n) : x.h = n
    BY FoundFacts, PieceFacts, <1>2, ValueTrackerAssumption DEF Bits
  <2> HIDE DEF n, m1, m2, m3
  <2>3. driverLists' = m2 /\ intervals' = (intervals \ {i})
                    \cup Piece(call.lo, call.hi, n)
                    \cup Piece(call.hi + 1, i.hi, i.h)
    BY <1>9 DEF ReplaceRightOverlap, m2, n
  <2>. QED BY <1>1, <1>2, <2>1, <2>2, <2>3, FoundFacts
<1>10. CASE MergeRightOverlap(i)
  <2> DEFINE m4 == AddDriverList(m2, Combined(GetDriverList(m2, i.h)))
             k == NewHandle(m2)
  <2>0. Combined(GetDriverList(m2, i.h)) \in SUBSET Drivers
    <3>1. m2.slots[i.h] \in Slot
      BY <1>2, FoundFacts DEF Manager
    <3>. QED BY <3>1, CombinedType DEF GetDriverList, Slot
  <2>1. /\ m4 \in Manager /\ k \in Nat \ {0} /\ k \in DOMAIN m4.slots
        /\ DOMAIN m2.slots \subseteq DOMAIN m4.slots
    BY <1>2, <2>0, AddDriverListFacts
  <2>2. /\ Piece(call.lo, i.lo - 1, n) \subseteq WellFormed
        /\ \A x \in Piece(call.lo, i.lo - 1, n) : x.h = n
    BY <1>2, FoundFacts, PieceFacts, ValueTrackerAssumption DEF Bits
  <2>3. /\ Piece(i.lo, call.hi, k) \subseteq WellFormed
        /\ \A x \in Piece(i.lo, call.hi, k) : x.h = k
    BY <2>1, FoundFacts, PieceFacts, ValueTrackerAssumption DEF Bits
  <2>4. /\ Piece(call.hi + 1, i.hi, i.h) \subseteq WellFormed
        /\ \A x \in Piece(call.hi + 1, i.hi, i.h) : x.h = i.h
    BY FoundFacts, PieceFacts, ValueTrackerAssumption DEF Bits
  <2> HIDE DEF m2, m4, k, n
  <2>5. driverLists' = m4 /\ intervals' = (intervals \ {i})
                          \cup Piece(call.lo, i.lo - 1, n)
                          \cup Piece(i.lo, call.hi, k)
                          \cup Piece(call.hi + 1, i.hi, i.h)
    BY <1>10 DEF MergeRightOverlap, m2, m4, k, n
  <2>. QED BY <1>1, <1>2, <2>1, <2>2, <2>3, <2>4, <2>5, FoundFacts
<1>11. CASE AssertFails(i)
  BY <1>1, <1>11, FoundFacts DEF AssertFails
<1>. QED BY <1>4, <1>5, <1>6, <1>7, <1>8, <1>9, <1>10, <1>11

-----------------------------------------------------------------------------
(***************************************************************************)
(* Geometry of the driver map: every iteration that found an interval i    *)
(* replaces it by a set P of pieces inside the span of i and the bounds.   *)
(***************************************************************************)
Bit(x, b) == b \in x.lo .. x.hi

\* The bits of a piece are those between its ends.
LEMMA PieceBits ==
  ASSUME NEW lo \in Int, NEW hi \in Int, NEW h, NEW b \in Int
  PROVE  (\E x \in Piece(lo, hi, h) : Bit(x, b)) <=> lo <= b /\ b <= hi
<1>1. ASSUME lo <= b, b <= hi PROVE \E x \in Piece(lo, hi, h) : Bit(x, b)
  <2>1. [lo |-> lo, hi |-> hi, h |-> h] \in Piece(lo, hi, h)
    BY <1>1 DEF Piece
  <2>. QED BY <1>1, <2>1 DEF Bit
<1>2. ASSUME NEW x \in Piece(lo, hi, h), Bit(x, b) PROVE lo <= b /\ b <= hi
  BY <1>2 DEF Piece, Bit
<1>. QED BY <1>1, <1>2

\* Every other interval lies before both the bounds and i, or after i.
LEMMA OthersAreClear ==
  ASSUME TypeOK, IntervalsDisjoint, Scanning, NEW i \in intervals, IsFirst(i)
  PROVE  \A j \in intervals \ {i} :
           (j.hi < i.lo /\ j.hi < call.lo) \/ i.hi < j.lo
<1> TAKE j \in intervals \ {i}
<1>1. j.lo \in Int /\ j.hi \in Int /\ j.lo <= j.hi
  BY DEF TypeOK, Interval, Bits
<1>2. j.hi < i.lo \/ i.hi < j.lo
  BY DEF IntervalsDisjoint
<1>3. ASSUME j.hi < i.lo, call.lo <= j.hi PROVE FALSE
  <2>1. j \in Found
    BY <1>1, <1>3, FoundFacts DEF Found, Overlaps
  <2>. QED BY <1>1, <1>3, <2>1, FoundFacts DEF IsFirst
<1>. QED BY <1>1, <1>2, <1>3, FoundFacts

\* Replacing i by pieces that are disjoint and within the span keeps the
\* map disjoint.
LEMMA DisjointAfter ==
  ASSUME TypeOK, IntervalsDisjoint, Scanning, NEW i \in intervals, IsFirst(i),
         NEW P \in SUBSET WellFormed,
         \A x \in P : (i.lo <= x.lo \/ call.lo <= x.lo) /\ x.hi <= i.hi,
         \A x, y \in P : x # y => x.hi < y.lo \/ y.hi < x.lo,
         intervals' = (intervals \ {i}) \cup P
  PROVE  IntervalsDisjoint'
<1> SUFFICES ASSUME NEW x \in intervals', NEW y \in intervals', x # y
             PROVE  x.hi < y.lo \/ y.hi < x.lo
  BY DEF IntervalsDisjoint
<1>1. \A z \in intervals \cup P : z.lo \in Int /\ z.hi \in Int /\ z.lo <= z.hi
  BY DEF TypeOK, WellFormed, Interval, Bits
<1>2. CASE x \in intervals \ {i} /\ y \in intervals \ {i}
  BY <1>2 DEF IntervalsDisjoint
<1>3. CASE x \in P /\ y \in P
  BY <1>3
<1>4. CASE x \in intervals \ {i} /\ y \in P
  BY <1>1, <1>4, OthersAreClear, FoundFacts
<1>5. CASE x \in P /\ y \in intervals \ {i}
  BY <1>1, <1>5, OthersAreClear, FoundFacts
<1>. QED BY <1>2, <1>3, <1>4, <1>5

\* If the pieces and what is left to do make up the span of i and of the
\* bounds, coverage is exact after the step.
LEMMA CoverageAfter ==
  ASSUME TypeOK, CoverageExact, Scanning, NEW i \in intervals, NEW P,
         intervals' = (intervals \ {i}) \cup P, ref' = ref,
         \A b \in Bits : (\E x \in P : Bit(x, b)) \/ ToDo(b)' <=>
                         Bit(i, b) \/ b \in call.lo .. call.hi
  PROVE  CoverageExact'
<1> SUFFICES ASSUME NEW b \in Bits
             PROVE  ref[b] # {} <=> Covered(b)' \/ ToDo(b)'
  BY DEF CoverageExact
<1>1. Covered(b)' <=> (\E j \in intervals \ {i} : Bit(j, b)) \/ \E x \in P : Bit(x, b)
  BY DEF Covered, Bit
<1>2. Covered(b) <=> (\E j \in intervals \ {i} : Bit(j, b)) \/ Bit(i, b)
  BY DEF Covered, Bit
<1>3. ToDo(b) <=> b \in call.lo .. call.hi
  BY DEF ToDo, Scanning
<1>. QED BY <1>1, <1>2, <1>3 DEF CoverageExact

\* If the step leaves less to do and uncovers a bit only when replacing, the
\* bits left to do still have no driver but the call's.
LEMMA GapsAfter ==
  ASSUME GapsAreNew, Scanning, ref' = ref,
         \A b \in Bits : ToDo(b)' => /\ ToDo(b)
                                     /\ call'.list = call.list
                                     /\ call'.merge = call.merge
                                     /\ Covered(b) /\ ~Covered(b)' => ~call.merge
  PROVE  GapsAreNew'
<1> SUFFICES ASSUME NEW b \in Bits, ToDo(b)', Covered(b)' => ~call'.merge
             PROVE  ref[b] \subseteq call.list /\ call'.list = call.list
  BY DEF GapsAreNew
<1>. QED BY DEF GapsAreNew

\* If lists only grow, every piece holds the drivers of its bits, and only
\* bits up to the end of i are done, then no driver is lost.
LEMMA NotLostAfter ==
  ASSUME TypeOK, IntervalsDisjoint, Scanning, NEW i \in intervals, IsFirst(i), NEW P,
         intervals' = (intervals \ {i}) \cup P, ref' = ref,
         NoDriverLost, ~replaced,
         \A h \in DOMAIN driverLists.slots :
           /\ h \in DOMAIN driverLists'.slots
           /\ driverLists'.slots[h].live
           /\ driverLists.slots[h].list \subseteq driverLists'.slots[h].list,
         \A x \in P : \A b \in x.lo .. x.hi :
           /\ ValidHandle(driverLists', x.h)
           /\ ref[b] \subseteq GetDriverList(driverLists', x.h),
         call'.pc # "idle" => /\ call'.lo = i.hi + 1
                              /\ call'.hi = call.hi /\ call'.list = call.list,
         call'.pc = "idle" => call.hi <= i.hi
  PROVE  NoDriverLost'
<1> SUFFICES ASSUME NEW x \in intervals', NEW b \in x.lo .. x.hi
             PROVE  /\ ValidHandle(driverLists', x.h)
                    /\ ref[b] \ (IF ToDo(b)' THEN call'.list ELSE {})
                         \subseteq GetDriverList(driverLists', x.h)
  BY DEF NoDriverLost
<1>1. CASE x \in P
  BY <1>1
<1>2. CASE x \in intervals \ {i}
  <2>1. x.h \in DOMAIN driverLists.slots /\ x.lo \in Int /\ x.hi \in Int /\ b \in Int
    BY <1>2 DEF TypeOK, Interval, Bits
  <2>2. ref[b] \ (IF ToDo(b) THEN call.list ELSE {}) \subseteq driverLists.slots[x.h].list
    BY <1>2 DEF NoDriverLost, GetDriverList
  <2>3. ToDo(b) => ToDo(b)' /\ call'.list = call.list
    <3>1. (x.hi < i.lo /\ x.hi < call.lo) \/ i.hi < x.lo
      BY <1>2, OthersAreClear
    <3>. QED BY <2>1, <3>1, FoundFacts DEF ToDo
  <2>. QED BY <2>1, <2>2, <2>3 DEF ValidHandle, GetDriverList
<1>. QED BY <1>1, <1>2

-----------------------------------------------------------------------------
(***************************************************************************)
(* One lemma per action: it preserves the rest of the inductive invariant. *)
(***************************************************************************)
Rest == /\ IntervalsDisjoint
        /\ CoverageExact
        /\ GapsAreNew
        /\ NothingFreed
        /\ NoDriverLost

Quiet == UNCHANGED <<calls, replaced, ref>>

\* While only merging, allocation takes an index no interval uses, and keeps
\* every list alive.
LEMMA FreshAllocation ==
  ASSUME TypeOK, NothingFreed, ~replaced, NEW list \in SUBSET Drivers
  PROVE  LET m == AddDriverList(driverLists, list)
             n == NewHandle(driverLists)
         IN /\ m.freeList = <<>>
            /\ \A h \in DOMAIN m.slots : m.slots[h].live
            /\ \A h \in DOMAIN driverLists.slots :
                 h # n /\ h \in DOMAIN m.slots /\ m.slots[h] = driverLists.slots[h]
            /\ n \in DOMAIN m.slots /\ m.slots[n].list = list
            /\ DOMAIN m.slots = DOMAIN driverLists.slots \cup {n}
<1>1. driverLists.slots \in Seq(Slot) /\ driverLists.freeList = <<>>
  BY DEF TypeOK, Manager, NothingFreed
<1>2. \A h \in DOMAIN driverLists.slots : driverLists.slots[h].live
  BY DEF NothingFreed
<1>. QED BY <1>1, <1>2 DEF AddDriverList, NewHandle, Live

\* An exact match replaces or merges one list and preserves the rest.
LEMMA ExactMatchRest ==
  ASSUME TypeOK, Rest, Scanning, NEW i \in intervals, IsFirst(i), ExactMatch(i), Quiet
  PROVE  Rest'
<1> DEFINE new == Combined(GetDriverList(driverLists, i.h))
<1>1. /\ intervals' = (intervals \ {i}) \cup {i} /\ call' = Idle /\ ref' = ref
      /\ replaced' = replaced /\ i.lo = call.lo /\ i.hi = call.hi
      /\ driverLists' = SetDriverList(driverLists, i.h, new)
  BY DEF ExactMatch, Return, Quiet, Matches
<1>2. new \in SUBSET Drivers
  BY FoundFacts, CombinedType
<1>3. /\ DOMAIN driverLists'.slots = DOMAIN driverLists.slots
      /\ driverLists'.freeList = driverLists.freeList
      /\ \A k \in DOMAIN driverLists.slots :
           driverLists'.slots[k] = IF k = i.h THEN Live(new) ELSE driverLists.slots[k]
  BY <1>1, <1>2, FoundFacts, SetAndEraseFacts
<1>4. IntervalsDisjoint'
  BY <1>1 DEF Rest, IntervalsDisjoint
<1>5. \A b \in Bits : ~ToDo(b)'
  BY <1>1 DEF ToDo, Idle
<1>6. CoverageExact'
  <2>1. \A b \in Bits : (\E x \in {i} : Bit(x, b)) \/ ToDo(b)' <=>
                        Bit(i, b) \/ b \in call.lo .. call.hi
    BY <1>1, <1>5 DEF Bit
  <2>. QED BY <1>1, <2>1, CoverageAfter DEF Rest
<1>7. GapsAreNew'
  BY <1>5 DEF GapsAreNew
<1>8. NothingFreed'
  BY <1>1, <1>3 DEF Rest, NothingFreed, Idle, Scanning, Live
<1>9. NoDriverLost'
  <2> SUFFICES ASSUME ~replaced PROVE NoDriverLost'
    BY <1>1 DEF NoDriverLost
  <2>1. call.merge /\ new = driverLists.slots[i.h].list \cup call.list
    BY DEF Rest, NothingFreed, Combined, GetDriverList
  <2>2. \A h \in DOMAIN driverLists.slots :
          /\ h \in DOMAIN driverLists'.slots
          /\ driverLists'.slots[h].live
          /\ driverLists.slots[h].list \subseteq driverLists'.slots[h].list
    BY <1>3, <2>1 DEF Rest, NothingFreed, Live
  <2>3. \A x \in {i} : \A b \in x.lo .. x.hi :
          /\ ValidHandle(driverLists', x.h)
          /\ ref[b] \subseteq GetDriverList(driverLists', x.h)
    BY <1>3, <2>1, FoundFacts DEF Rest, NoDriverLost, ValidHandle, GetDriverList, Live
  <2>4. call'.pc = "idle" /\ call.hi <= i.hi
    BY <1>1, FoundFacts DEF Idle
  <2>. QED BY <1>1, <2>2, <2>3, <2>4, NotLostAfter DEF Rest
<1>. QED BY <1>4, <1>6, <1>7, <1>8, <1>9 DEF Rest

\* Splitting a containing interval around the new range preserves the rest.
LEMMA SplitExistingRest ==
  ASSUME TypeOK, Rest, Scanning, NEW i \in intervals, IsFirst(i), SplitExisting(i), Quiet
  PROVE  Rest'
<1> DEFINE new == Combined(GetDriverList(driverLists, i.h))
           n == NewHandle(driverLists)
           A == Piece(i.lo, call.lo - 1, i.h)
           B == Piece(call.hi + 1, i.hi, i.h)
           C == Piece(call.lo, call.hi, n)
           P == A \cup B \cup C
<1>1. /\ intervals' = (intervals \ {i}) \cup P /\ call' = Idle /\ ref' = ref
      /\ replaced' = replaced /\ i.lo <= call.lo /\ call.hi <= i.hi
      /\ driverLists' = AddDriverList(driverLists, new)
  BY DEF SplitExisting, Return, Quiet, ContainsNew
<1>2. new \in SUBSET Drivers /\ n \in Nat \ {0}
  BY FoundFacts, CombinedType, AddDriverListFacts
<1>3. P \in SUBSET WellFormed
  BY <1>2, FoundFacts, PieceFacts, ValueTrackerAssumption DEF Bits
<1>4. /\ \A x \in A : x.lo = i.lo /\ x.hi = call.lo - 1 /\ x.h = i.h
      /\ \A x \in B : x.lo = call.hi + 1 /\ x.hi = i.hi /\ x.h = i.h
      /\ \A x \in C : x.lo = call.lo /\ x.hi = call.hi /\ x.h = n
  BY DEF Piece
<1>5. IntervalsDisjoint'
  <2>1. \A x \in P : (i.lo <= x.lo \/ call.lo <= x.lo) /\ x.hi <= i.hi
    BY <1>1, <1>4, FoundFacts
  <2>2. \A x, y \in P : x # y => x.hi < y.lo \/ y.hi < x.lo
    BY <1>4, FoundFacts DEF Piece
  <2>3. P \in SUBSET WellFormed /\ intervals' = (intervals \ {i}) \cup P
    BY <1>1, <1>3
  <2> HIDE DEF P
  <2>. QED BY <2>1, <2>2, <2>3, DisjointAfter DEF Rest
<1>6. \A b \in Bits : ~ToDo(b)'
  BY <1>1 DEF ToDo, Idle
<1>7. CoverageExact'
  <2>1. \A b \in Bits : (\E x \in P : Bit(x, b)) \/ ToDo(b)' <=>
                        Bit(i, b) \/ b \in call.lo .. call.hi
    <3> SUFFICES ASSUME NEW b \in Bits
                 PROVE (\E x \in P : Bit(x, b)) <=> Bit(i, b) \/ b \in call.lo .. call.hi
      BY <1>6
    <3>1. /\ (\E x \in A : Bit(x, b)) <=> i.lo <= b /\ b <= call.lo - 1
          /\ (\E x \in B : Bit(x, b)) <=> call.hi + 1 <= b /\ b <= i.hi
          /\ (\E x \in C : Bit(x, b)) <=> call.lo <= b /\ b <= call.hi
      BY FoundFacts, PieceBits DEF Bits
    <3>2. (\E x \in P : Bit(x, b)) <=> \/ \E x \in A : Bit(x, b)
                                       \/ \E x \in B : Bit(x, b)
                                       \/ \E x \in C : Bit(x, b)
      OBVIOUS
    <3>. QED BY <1>1, <3>1, <3>2, FoundFacts DEF Bit, Bits
  <2>. QED BY <1>1, <2>1, CoverageAfter DEF Rest
<1>8. GapsAreNew'
  BY <1>6 DEF GapsAreNew
<1>9. NothingFreed'
  BY <1>1, <1>2, FreshAllocation DEF Rest, NothingFreed, Idle, Scanning
<1>10. NoDriverLost'
  <2> SUFFICES ASSUME ~replaced PROVE NoDriverLost'
    BY <1>1 DEF NoDriverLost
  <2>1. call.merge /\ new = driverLists.slots[i.h].list \cup call.list
    BY DEF Rest, NothingFreed, Combined, GetDriverList
  <2>2. \A h \in DOMAIN driverLists.slots :
          /\ h \in DOMAIN driverLists'.slots
          /\ driverLists'.slots[h].live
          /\ driverLists.slots[h].list \subseteq driverLists'.slots[h].list
    BY <1>1, <1>2, FreshAllocation DEF Rest
  <2>3. \A x \in P : \A b \in x.lo .. x.hi :
          /\ ValidHandle(driverLists', x.h)
          /\ ref[b] \subseteq GetDriverList(driverLists', x.h)
    <3> SUFFICES ASSUME NEW x \in P, NEW b \in x.lo .. x.hi
                 PROVE  /\ x.h \in DOMAIN driverLists'.slots /\ driverLists'.slots[x.h].live
                        /\ ref[b] \subseteq driverLists'.slots[x.h].list
      BY DEF ValidHandle, GetDriverList
    <3>1. b \in i.lo .. i.hi
      BY <1>1, <1>4, FoundFacts
    <3>2. ref[b] \ (IF ToDo(b) THEN call.list ELSE {}) \subseteq driverLists.slots[i.h].list
      BY <3>1 DEF Rest, NoDriverLost, GetDriverList
    <3>3. CASE x \in A \cup B
      <4>1. ~ToDo(b) /\ x.h = i.h
        BY <1>1, <1>4, <3>3, FoundFacts DEF ToDo
      <4>. QED BY <4>1, <3>2, <2>2, FoundFacts
    <3>4. CASE x \in C
      <4>1. x.h = n
        BY <1>4, <3>4
      <4>. QED BY <4>1, <3>2, <2>1, <1>1, <1>2, FreshAllocation DEF Rest
    <3>. QED BY <3>3, <3>4
  <2>4. call'.pc = "idle" /\ call.hi <= i.hi
    BY <1>1, FoundFacts DEF Idle
  <2> HIDE DEF P
  <2>. QED BY <1>1, <2>2, <2>3, <2>4, NotLostAfter DEF Rest
<1>. QED BY <1>5, <1>7, <1>8, <1>9, <1>10 DEF Rest

\* Erasing an interval inside a replacing range preserves the rest.
LEMMA EraseInsideRest ==
  ASSUME TypeOK, Rest, Scanning, NEW i \in intervals, IsFirst(i), EraseInside(i), Quiet
  PROVE  Rest'
<1> DEFINE P == {}
<1>1. /\ intervals' = (intervals \ {i}) \cup P /\ call' = call /\ ref' = ref
      /\ replaced' = replaced /\ ~call.merge /\ call.lo <= i.lo /\ i.hi <= call.hi
  BY DEF EraseInside, Quiet, InsideNew
<1>2. replaced
  BY <1>1 DEF Rest, NothingFreed
<1>3. IntervalsDisjoint'
  BY <1>1 DEF Rest, IntervalsDisjoint
<1>4. \A b \in Bits : ToDo(b)' <=> b \in call.lo .. call.hi
  BY <1>1 DEF ToDo, Scanning
<1>5. CoverageExact'
  <2>1. \A b \in Bits : (\E x \in P : Bit(x, b)) \/ ToDo(b)' <=>
                        Bit(i, b) \/ b \in call.lo .. call.hi
    BY <1>1, <1>4, FoundFacts DEF Bit, Bits
  <2> HIDE DEF P
  <2>. QED BY <1>1, <2>1, CoverageAfter DEF Rest
<1>6. GapsAreNew'
  BY <1>1, <1>4, GapsAfter DEF Rest, ToDo, Scanning
<1>7. NothingFreed' /\ NoDriverLost'
  BY <1>1, <1>2 DEF NothingFreed, NoDriverLost
<1>. QED BY <1>3, <1>5, <1>6, <1>7 DEF Rest

\* Merging into an interval inside the new range preserves the rest.
LEMMA MergeInsideRest ==
  ASSUME TypeOK, Rest, Scanning, NEW i \in intervals, IsFirst(i), MergeInside(i), Quiet
  PROVE  Rest'
<1> DEFINE new == Combined(GetDriverList(driverLists, i.h))
           m == SetDriverList(driverLists, i.h, new)
           k == NewHandle(m)
           A == IF call.lo < i.lo THEN Piece(call.lo, i.lo - 1, k) ELSE {}
           P == {i} \cup A
<1>1. /\ intervals' = (intervals \ {i}) \cup P /\ ref' = ref
      /\ replaced' = replaced /\ call.lo <= i.lo /\ i.hi <= call.hi
      /\ call.merge /\ AdvancePast(i)
      /\ driverLists' = IF call.lo < i.lo THEN AddDriverList(m, call.list) ELSE m
  BY DEF MergeInside, Quiet, InsideNew
<1>2. new \in SUBSET Drivers /\ m \in Manager
      /\ DOMAIN m.slots = DOMAIN driverLists.slots
      /\ m.freeList = driverLists.freeList
      /\ \A h \in DOMAIN driverLists.slots :
           m.slots[h] = IF h = i.h THEN Live(new) ELSE driverLists.slots[h]
  BY FoundFacts, CombinedType, SetAndEraseFacts
<1>3. k \in Nat \ {0}
  BY <1>2, FoundFacts, AddDriverListFacts
<1> HIDE DEF m, k
<1>4. P \in SUBSET WellFormed /\ \A x \in A : x.lo = call.lo /\ x.hi = i.lo - 1 /\ x.h = k
  <2>1. i \in WellFormed
    BY DEF TypeOK, WellFormed
  <2>2. /\ Piece(call.lo, i.lo - 1, k) \subseteq WellFormed
        /\ \A x \in Piece(call.lo, i.lo - 1, k) : x.lo = call.lo /\ x.hi = i.lo - 1 /\ x.h = k
    BY <1>3, FoundFacts, PieceFacts, ValueTrackerAssumption DEF Bits
  <2>. QED BY <2>1, <2>2
<1>5. IntervalsDisjoint'
  <2>1. \A x \in P : (i.lo <= x.lo \/ call.lo <= x.lo) /\ x.hi <= i.hi
    BY <1>1, <1>4, FoundFacts
  <2>2. \A x, y \in P : x # y => x.hi < y.lo \/ y.hi < x.lo
    BY <1>4, FoundFacts DEF Piece
  <2>3. P \in SUBSET WellFormed /\ intervals' = (intervals \ {i}) \cup P
    BY <1>1, <1>4
  <2> HIDE DEF P
  <2>. QED BY <2>1, <2>2, <2>3, DisjointAfter DEF Rest
<1>6. /\ call'.pc # "idle" => /\ call'.lo = i.hi + 1 /\ call'.pc = "scan"
                              /\ call'.hi = call.hi /\ call'.list = call.list
                              /\ call'.merge = call.merge
      /\ call'.pc = "idle" <=> call.hi <= i.hi
  <2>1. CASE i.hi + 1 > call.hi
    BY <1>1, <2>1, FoundFacts DEF AdvancePast, Idle
  <2>2. CASE ~(i.hi + 1 > call.hi)
    <3>1. call' = [call EXCEPT !.lo = i.hi + 1]
      BY <1>1, <2>2 DEF AdvancePast
    <3>. QED BY <2>2, <3>1, FoundFacts DEF TypeOK, Call, Scanning
  <2>. QED BY <2>1, <2>2
<1>7. \A b \in Bits : ToDo(b)' <=> i.hi + 1 <= b /\ b <= call.hi
  BY <1>6, FoundFacts DEF ToDo, Bits
<1>8. \A b \in Bits : (\E x \in P : Bit(x, b)) <=> call.lo <= b /\ b <= i.hi
  <2> TAKE b \in Bits
  <2>1. (\E x \in A : Bit(x, b)) <=> call.lo <= b /\ b <= i.lo - 1
    BY FoundFacts, PieceBits DEF Bits
  <2>2. (\E x \in P : Bit(x, b)) <=> (\E x \in A : Bit(x, b)) \/ Bit(i, b)
    OBVIOUS
  <2>. QED BY <1>1, <2>1, <2>2, FoundFacts DEF Bit, Bits
<1>9. CoverageExact'
  <2>1. \A b \in Bits : (\E x \in P : Bit(x, b)) \/ ToDo(b)' <=>
                        Bit(i, b) \/ b \in call.lo .. call.hi
    BY <1>1, <1>7, <1>8, FoundFacts DEF Bit, Bits
  <2>. QED BY <1>1, <2>1, CoverageAfter DEF Rest
<1>10. GapsAreNew'
  <2>1. \A b \in Bits : Covered(b) => Covered(b)'
    BY <1>1 DEF Covered
  <2>2. \A b \in Bits : ToDo(b)' => ToDo(b) /\ call'.list = call.list /\ call'.merge = call.merge
    BY <1>6, <1>7, FoundFacts DEF ToDo, Scanning, Bits
  <2>. QED BY <1>1, <2>1, <2>2, GapsAfter DEF Rest
<1>11. ASSUME ~replaced
       PROVE  /\ driverLists'.freeList = <<>>
              /\ \A h \in DOMAIN driverLists'.slots : driverLists'.slots[h].live
              /\ \A h \in DOMAIN driverLists.slots :
                   h \in DOMAIN driverLists'.slots /\ driverLists'.slots[h] = m.slots[h]
              /\ call.lo < i.lo => /\ k \in DOMAIN driverLists'.slots
                                   /\ driverLists'.slots[k].list = call.list
  <2>1. m.freeList = <<>> /\ m.slots \in Seq(Slot) /\ \A h \in DOMAIN m.slots : m.slots[h].live
    BY <1>2, <1>11 DEF Rest, NothingFreed, Live, Manager
  <2>2. k = Len(m.slots) + 1 /\ AddDriverList(m, call.list) =
          [slots |-> Append(m.slots, Live(call.list)), freeList |-> <<>>]
    BY <2>1 DEF k, NewHandle, AddDriverList
  <2>3. CASE call.lo < i.lo
    BY <1>1, <1>2, <2>1, <2>2, <2>3 DEF Live
  <2>4. CASE ~(call.lo < i.lo)
    BY <1>1, <1>2, <2>1, <2>4
  <2>. QED BY <2>3, <2>4
<1>12. NothingFreed'
  BY <1>1, <1>6, <1>11 DEF NothingFreed, Scanning
<1>13. NoDriverLost'
  <2> SUFFICES ASSUME ~replaced PROVE NoDriverLost'
    BY <1>1 DEF NoDriverLost
  <2>1. new = driverLists.slots[i.h].list \cup call.list
    BY <1>1 DEF Combined, GetDriverList
  <2>2. \A h \in DOMAIN driverLists.slots :
          /\ h \in DOMAIN driverLists'.slots
          /\ driverLists'.slots[h].live
          /\ driverLists.slots[h].list \subseteq driverLists'.slots[h].list
    BY <1>2, <1>11, <2>1 DEF Live
  <2>3. \A x \in P : \A b \in x.lo .. x.hi :
          /\ ValidHandle(driverLists', x.h)
          /\ ref[b] \subseteq GetDriverList(driverLists', x.h)
    <3> SUFFICES ASSUME NEW x \in P, NEW b \in x.lo .. x.hi
                 PROVE  /\ x.h \in DOMAIN driverLists'.slots /\ driverLists'.slots[x.h].live
                        /\ ref[b] \subseteq driverLists'.slots[x.h].list
      BY DEF ValidHandle, GetDriverList
    <3>1. CASE x = i
      <4>1. ref[b] \ (IF ToDo(b) THEN call.list ELSE {}) \subseteq driverLists.slots[i.h].list
        BY <3>1 DEF Rest, NoDriverLost, GetDriverList
      <4>2. driverLists'.slots[i.h] = Live(new)
        BY <1>2, <1>11, FoundFacts
      <4>. QED BY <3>1, <4>1, <4>2, <2>1, <2>2, FoundFacts DEF Live
    <3>2. CASE x \in A
      <4>1. x.h = k /\ call.lo < i.lo /\ x.lo = call.lo /\ x.hi = i.lo - 1
        BY <1>4, <3>2
      <4>2. b \in Bits /\ b \in call.lo .. call.hi /\ b < i.lo /\ b < call.hi
        BY <4>1, <1>1, FoundFacts, ValueTrackerAssumption DEF Bits
      <4>3. ~Covered(b)
        <5> SUFFICES ASSUME NEW j \in intervals, b \in j.lo .. j.hi PROVE FALSE
          BY DEF Covered
        <5>1. j = i \/ (j.hi < i.lo /\ j.hi < call.lo) \/ i.hi < j.lo
          BY OthersAreClear DEF Rest
        <5>2. j.lo \in Int /\ j.hi \in Int
          BY DEF TypeOK, Interval, Bits
        <5>. QED BY <4>2, <5>1, <5>2, FoundFacts DEF Bits
      <4>4. ref[b] \subseteq call.list
        BY <4>2, <4>3 DEF Rest, GapsAreNew, ToDo, Scanning
      <4>. QED BY <4>1, <4>4, <1>11
    <3>. QED BY <3>1, <3>2
  <2> HIDE DEF P
  <2>. QED BY <1>1, <1>6, <2>2, <2>3, NotLostAfter DEF Rest
<1>. QED BY <1>5, <1>9, <1>10, <1>12, <1>13 DEF Rest

\* Cutting an interval that overlaps on the left preserves the rest.
LEMMA SplitLeftOverlapRest ==
  ASSUME TypeOK, Rest, Scanning, NEW i \in intervals, IsFirst(i), SplitLeftOverlap(i), Quiet
  PROVE  Rest'
<1> DEFINE new == Combined(GetDriverList(driverLists, i.h))
           n == NewHandle(driverLists)
           A == Piece(i.lo, call.lo - 1, i.h)
           B == Piece(call.lo, i.hi, n)
           P == A \cup B
<1>1. /\ intervals' = (intervals \ {i}) \cup P /\ ref' = ref
      /\ replaced' = replaced /\ i.lo < call.lo /\ call.lo <= i.hi /\ i.hi < call.hi
      /\ driverLists' = AddDriverList(driverLists, new) /\ AdvancePast(i)
  BY DEF SplitLeftOverlap, Quiet, LeftOverlaps
<1>2. new \in SUBSET Drivers /\ n \in Nat \ {0}
  BY FoundFacts, CombinedType, AddDriverListFacts
<1>3. P \in SUBSET WellFormed
  BY <1>2, FoundFacts, PieceFacts, ValueTrackerAssumption DEF Bits
<1>4. /\ \A x \in A : x.lo = i.lo /\ x.hi = call.lo - 1 /\ x.h = i.h
      /\ \A x \in B : x.lo = call.lo /\ x.hi = i.hi /\ x.h = n
  BY DEF Piece
<1>5. IntervalsDisjoint'
  <2>1. \A x \in P : (i.lo <= x.lo \/ call.lo <= x.lo) /\ x.hi <= i.hi
    BY <1>1, <1>4, FoundFacts
  <2>2. \A x, y \in P : x # y => x.hi < y.lo \/ y.hi < x.lo
    BY <1>4, FoundFacts DEF Piece
  <2>3. P \in SUBSET WellFormed /\ intervals' = (intervals \ {i}) \cup P
    BY <1>1, <1>3
  <2> HIDE DEF P
  <2>. QED BY <2>1, <2>2, <2>3, DisjointAfter DEF Rest
<1>6. call' = [call EXCEPT !.lo = i.hi + 1]
  BY <1>1, FoundFacts DEF AdvancePast
<1>7. /\ call'.pc = "scan" /\ call'.lo = i.hi + 1 /\ call'.hi = call.hi
      /\ call'.list = call.list /\ call'.merge = call.merge
  BY <1>6, FoundFacts DEF TypeOK, Call, Scanning
<1>8. \A b \in Bits : ToDo(b)' <=> i.hi + 1 <= b /\ b <= call.hi
  BY <1>7, FoundFacts DEF ToDo, Bits
<1>9. \A b \in Bits : (\E x \in P : Bit(x, b)) <=> i.lo <= b /\ b <= i.hi
  <2> TAKE b \in Bits
  <2>1. /\ (\E x \in A : Bit(x, b)) <=> i.lo <= b /\ b <= call.lo - 1
        /\ (\E x \in B : Bit(x, b)) <=> call.lo <= b /\ b <= i.hi
    BY FoundFacts, PieceBits DEF Bits
  <2>2. (\E x \in P : Bit(x, b)) <=> (\E x \in A : Bit(x, b)) \/ \E x \in B : Bit(x, b)
    OBVIOUS
  <2>. QED BY <1>1, <2>1, <2>2, FoundFacts DEF Bits
<1>10. CoverageExact'
  <2>1. \A b \in Bits : (\E x \in P : Bit(x, b)) \/ ToDo(b)' <=>
                        Bit(i, b) \/ b \in call.lo .. call.hi
    BY <1>1, <1>8, <1>9, FoundFacts DEF Bit, Bits
  <2>. QED BY <1>1, <2>1, CoverageAfter DEF Rest
<1>11. GapsAreNew'
  <2>1. \A b \in Bits : Covered(b) => Covered(b)'
    <3> SUFFICES ASSUME NEW b \in Bits, NEW j \in intervals, Bit(j, b)
                 PROVE  \E x \in intervals' : Bit(x, b)
      BY DEF Covered, Bit
    <3>1. CASE j = i
      BY <1>1, <1>9, <3>1, FoundFacts DEF Bit, Bits
    <3>2. CASE j # i
      BY <1>1, <3>2
    <3>. QED BY <3>1, <3>2
  <2>2. \A b \in Bits : ToDo(b)' => ToDo(b)
    BY <1>1, <1>8, FoundFacts DEF ToDo, Scanning, Bits
  <2>. QED BY <1>1, <1>7, <2>1, <2>2, GapsAfter DEF Rest
<1>12. NothingFreed'
  BY <1>1, <1>2, <1>7, FreshAllocation DEF Rest, NothingFreed, Scanning
<1>13. NoDriverLost'
  <2> SUFFICES ASSUME ~replaced PROVE NoDriverLost'
    BY <1>1 DEF NoDriverLost
  <2>1. new = driverLists.slots[i.h].list \cup call.list
    BY DEF Rest, NothingFreed, Combined, GetDriverList
  <2>2. \A h \in DOMAIN driverLists.slots :
          /\ h \in DOMAIN driverLists'.slots
          /\ driverLists'.slots[h].live
          /\ driverLists.slots[h].list \subseteq driverLists'.slots[h].list
    BY <1>1, <1>2, FreshAllocation DEF Rest
  <2>3. \A x \in P : \A b \in x.lo .. x.hi :
          /\ ValidHandle(driverLists', x.h)
          /\ ref[b] \subseteq GetDriverList(driverLists', x.h)
    <3> SUFFICES ASSUME NEW x \in P, NEW b \in x.lo .. x.hi
                 PROVE  /\ x.h \in DOMAIN driverLists'.slots /\ driverLists'.slots[x.h].live
                        /\ ref[b] \subseteq driverLists'.slots[x.h].list
      BY DEF ValidHandle, GetDriverList
    <3>1. b \in i.lo .. i.hi
      BY <1>1, <1>4, FoundFacts
    <3>2. ref[b] \ (IF ToDo(b) THEN call.list ELSE {}) \subseteq driverLists.slots[i.h].list
      BY <3>1 DEF Rest, NoDriverLost, GetDriverList
    <3>3. CASE x \in A
      <4>1. ~ToDo(b) /\ x.h = i.h
        BY <1>1, <1>4, <3>3, FoundFacts DEF ToDo
      <4>. QED BY <4>1, <3>2, <2>2, FoundFacts
    <3>4. CASE x \in B
      <4>1. x.h = n
        BY <1>4, <3>4
      <4>. QED BY <4>1, <3>2, <2>1, <1>1, <1>2, FreshAllocation DEF Rest
    <3>. QED BY <3>3, <3>4
  <2> HIDE DEF P
  <2>. QED BY <1>1, <1>7, <2>2, <2>3, NotLostAfter DEF Rest
<1>. QED BY <1>5, <1>10, <1>11, <1>12, <1>13 DEF Rest

\* Replacing where an interval overlaps on the right preserves the rest.
LEMMA ReplaceRightOverlapRest ==
  ASSUME TypeOK, Rest, Scanning, NEW i \in intervals, IsFirst(i), ReplaceRightOverlap(i), Quiet
  PROVE  Rest'
<1> DEFINE n == NewHandle(driverLists)
           A == Piece(call.lo, call.hi, n)
           B == Piece(call.hi + 1, i.hi, i.h)
           P == A \cup B
<1>1. /\ intervals' = (intervals \ {i}) \cup P /\ ref' = ref /\ call' = Idle
      /\ replaced' = replaced /\ call.lo < i.lo /\ i.lo <= call.hi /\ call.hi < i.hi
      /\ ~call.merge
  BY DEF ReplaceRightOverlap, Quiet, RightOverlaps, Return
<1>2. n \in Nat \ {0} /\ replaced
  BY <1>1, FoundFacts, AddDriverListFacts DEF Rest, NothingFreed
<1>3. P \in SUBSET WellFormed
  BY <1>2, FoundFacts, PieceFacts, ValueTrackerAssumption DEF Bits
<1>4. /\ \A x \in A : x.lo = call.lo /\ x.hi = call.hi /\ x.h = n
      /\ \A x \in B : x.lo = call.hi + 1 /\ x.hi = i.hi /\ x.h = i.h
  BY DEF Piece
<1>5. IntervalsDisjoint'
  <2>1. \A x \in P : (i.lo <= x.lo \/ call.lo <= x.lo) /\ x.hi <= i.hi
    BY <1>1, <1>4, FoundFacts
  <2>2. \A x, y \in P : x # y => x.hi < y.lo \/ y.hi < x.lo
    BY <1>4, FoundFacts DEF Piece
  <2>3. P \in SUBSET WellFormed /\ intervals' = (intervals \ {i}) \cup P
    BY <1>1, <1>3
  <2> HIDE DEF P
  <2>. QED BY <2>1, <2>2, <2>3, DisjointAfter DEF Rest
<1>6. \A b \in Bits : ~ToDo(b)'
  BY <1>1 DEF ToDo, Idle
<1>7. CoverageExact'
  <2>1. \A b \in Bits : (\E x \in P : Bit(x, b)) \/ ToDo(b)' <=>
                        Bit(i, b) \/ b \in call.lo .. call.hi
    <3> TAKE b \in Bits
    <3>1. /\ (\E x \in A : Bit(x, b)) <=> call.lo <= b /\ b <= call.hi
          /\ (\E x \in B : Bit(x, b)) <=> call.hi + 1 <= b /\ b <= i.hi
      <4>1. b \in Int /\ call.lo \in Int /\ call.hi \in Int /\ i.hi \in Int
        BY FoundFacts DEF Bits
      <4>. QED BY <4>1, PieceBits
    <3> HIDE DEF A, B
    <3>2. (\E x \in P : Bit(x, b)) <=> (\E x \in A : Bit(x, b)) \/ \E x \in B : Bit(x, b)
      OBVIOUS
    <3>. QED BY <1>1, <1>6, <3>1, <3>2, FoundFacts DEF Bit, Bits
  <2>. QED BY <1>1, <2>1, CoverageAfter DEF Rest
<1>8. GapsAreNew' /\ NothingFreed' /\ NoDriverLost'
  BY <1>1, <1>2, <1>6 DEF GapsAreNew, NothingFreed, NoDriverLost
<1>. QED BY <1>5, <1>7, <1>8 DEF Rest

\* Merging where an interval overlaps on the right preserves the rest.
LEMMA MergeRightOverlapRest ==
  ASSUME TypeOK, Rest, Scanning, NEW i \in intervals, IsFirst(i), MergeRightOverlap(i), Quiet
  PROVE  Rest'
<1> DEFINE m == AddDriverList(driverLists, call.list)
           n == NewHandle(driverLists)
           k == NewHandle(m)
           new == Combined(GetDriverList(m, i.h))
           A == Piece(call.lo, i.lo - 1, n)
           B == Piece(i.lo, call.hi, k)
           C == Piece(call.hi + 1, i.hi, i.h)
           P == A \cup B \cup C
<1>1. /\ intervals' = (intervals \ {i}) \cup P /\ ref' = ref /\ call' = Idle
      /\ replaced' = replaced /\ call.lo < i.lo /\ i.lo <= call.hi /\ call.hi < i.hi
      /\ call.merge /\ driverLists' = AddDriverList(m, new)
  BY DEF MergeRightOverlap, Quiet, RightOverlaps, Return
<1>2. m \in Manager /\ n \in Nat \ {0} /\ i.h \in DOMAIN m.slots
  BY FoundFacts, AddDriverListFacts
<1>3. new \in SUBSET Drivers /\ k \in Nat \ {0}
  <2>1. m.slots[i.h] \in Slot
    BY <1>2, FoundFacts DEF Manager
  <2>. QED BY <1>2, <2>1, CombinedType, FoundFacts, AddDriverListFacts DEF GetDriverList, Slot
<1>4. /\ \A x \in A : x.lo = call.lo /\ x.hi = i.lo - 1 /\ x.h = n
      /\ \A x \in B : x.lo = i.lo /\ x.hi = call.hi /\ x.h = k
      /\ \A x \in C : x.lo = call.hi + 1 /\ x.hi = i.hi /\ x.h = i.h
  BY DEF Piece
<1>5. P \in SUBSET WellFormed
  <2> HIDE DEF n, k, m
  <2>1. A \subseteq WellFormed
    BY <1>2, FoundFacts, PieceFacts, ValueTrackerAssumption DEF Bits
  <2>2. B \subseteq WellFormed
    BY <1>3, FoundFacts, PieceFacts, ValueTrackerAssumption DEF Bits
  <2>3. C \subseteq WellFormed
    BY FoundFacts, PieceFacts, ValueTrackerAssumption DEF Bits
  <2>. QED BY <2>1, <2>2, <2>3
<1>6. IntervalsDisjoint'
  <2>1. \A x \in P : (i.lo <= x.lo \/ call.lo <= x.lo) /\ x.hi <= i.hi
    BY <1>1, <1>4, FoundFacts
  <2>2. \A x, y \in P : x # y => x.hi < y.lo \/ y.hi < x.lo
    <3> HIDE DEF n, k, m
    <3>. QED BY <1>4, FoundFacts DEF Piece
  <2> HIDE DEF P
  <2>3. P \in SUBSET WellFormed /\ intervals' = (intervals \ {i}) \cup P
    BY <1>1, <1>5
  <2> HIDE DEF P
  <2>. QED BY <2>1, <2>2, <2>3, DisjointAfter DEF Rest
<1>7. \A b \in Bits : ~ToDo(b)'
  BY <1>1 DEF ToDo, Idle
<1>8. CoverageExact'
  <2>1. \A b \in Bits : (\E x \in P : Bit(x, b)) \/ ToDo(b)' <=>
                        Bit(i, b) \/ b \in call.lo .. call.hi
    <3> TAKE b \in Bits
    <3>1. /\ (\E x \in A : Bit(x, b)) <=> call.lo <= b /\ b <= i.lo - 1
          /\ (\E x \in B : Bit(x, b)) <=> i.lo <= b /\ b <= call.hi
          /\ (\E x \in C : Bit(x, b)) <=> call.hi + 1 <= b /\ b <= i.hi
      BY FoundFacts, PieceBits DEF Bits
    <3> HIDE DEF A, B, C
    <3>2. (\E x \in P : Bit(x, b)) <=> \/ \E x \in A : Bit(x, b)
                                       \/ \E x \in B : Bit(x, b)
                                       \/ \E x \in C : Bit(x, b)
      OBVIOUS
    <3>. QED BY <1>1, <1>7, <3>1, <3>2, FoundFacts DEF Bit, Bits
  <2> HIDE DEF P
  <2>. QED BY <1>1, <2>1, CoverageAfter DEF Rest
<1>9. GapsAreNew'
  BY <1>7 DEF GapsAreNew
<1>10. ASSUME ~replaced
       PROVE  /\ driverLists'.freeList = <<>>
              /\ \A h \in DOMAIN driverLists'.slots : driverLists'.slots[h].live
              /\ \A h \in DOMAIN driverLists.slots :
                   /\ h \in DOMAIN driverLists'.slots
                   /\ driverLists'.slots[h] = driverLists.slots[h]
              /\ n \in DOMAIN driverLists'.slots /\ driverLists'.slots[n].list = call.list
              /\ k \in DOMAIN driverLists'.slots /\ driverLists'.slots[k].list = new
              /\ new = driverLists.slots[i.h].list \cup call.list
  <2>1. /\ driverLists.freeList = <<>> /\ driverLists.slots \in Seq(Slot)
        /\ \A h \in DOMAIN driverLists.slots : driverLists.slots[h].live
    BY <1>10, FoundFacts DEF Rest, NothingFreed, Manager
  <2>2. m = [slots |-> Append(driverLists.slots, Live(call.list)), freeList |-> <<>>]
    BY <2>1 DEF AddDriverList
  <2>3. n = Len(driverLists.slots) + 1
    BY <2>1 DEF NewHandle
  <2> HIDE DEF m, n, new
  <2>4. k = Len(driverLists.slots) + 2
    BY <2>1, <2>2 DEF NewHandle
  <2>5. driverLists' = [slots |-> Append(Append(driverLists.slots, Live(call.list)), Live(new)),
                        freeList |-> <<>>]
    BY <1>1, <2>2 DEF AddDriverList
  <2>6. Live(call.list) \in Slot /\ Live(new) \in Slot
    BY <1>3, FoundFacts DEF Live, Slot
  <2>7. new = driverLists.slots[i.h].list \cup call.list
    BY <1>1, <2>1, <2>2, FoundFacts DEF new, Combined, GetDriverList
  <2>. QED BY <2>1, <2>3, <2>4, <2>5, <2>6, <2>7 DEF Live
<1>11. NothingFreed'
  BY <1>1, <1>10 DEF NothingFreed, Idle, Scanning
<1>12. NoDriverLost'
  <2> SUFFICES ASSUME ~replaced PROVE NoDriverLost'
    BY <1>1 DEF NoDriverLost
  <2>1. \A h \in DOMAIN driverLists.slots :
          /\ h \in DOMAIN driverLists'.slots
          /\ driverLists'.slots[h].live
          /\ driverLists.slots[h].list \subseteq driverLists'.slots[h].list
    BY <1>10
  <2>2. \A x \in P : \A b \in x.lo .. x.hi :
          /\ ValidHandle(driverLists', x.h)
          /\ ref[b] \subseteq GetDriverList(driverLists', x.h)
    <3> SUFFICES ASSUME NEW x \in P, NEW b \in x.lo .. x.hi
                 PROVE  /\ x.h \in DOMAIN driverLists'.slots
                        /\ ref[b] \subseteq driverLists'.slots[x.h].list
      BY <1>10 DEF ValidHandle, GetDriverList
    <3> HIDE DEF n, k, m, new, A, B, C
    <3>1. b \in Int /\ b \in Bits
      BY <1>1, <1>4, FoundFacts, ValueTrackerAssumption DEF Bits
    <3>2. CASE x \in A
      <4>1. x.h = n /\ b \in call.lo .. call.hi /\ b < i.lo /\ call.lo <= b
        BY <1>1, <1>4, <3>1, <3>2, FoundFacts
      <4>2. ~Covered(b)
        <5> SUFFICES ASSUME NEW j \in intervals, b \in j.lo .. j.hi PROVE FALSE
          BY DEF Covered
        <5>1. j = i \/ (j.hi < i.lo /\ j.hi < call.lo) \/ i.hi < j.lo
          BY OthersAreClear DEF Rest
        <5>2. j.lo \in Int /\ j.hi \in Int
          BY DEF TypeOK, Interval, Bits
        <5>. QED BY <3>1, <4>1, <5>1, <5>2, FoundFacts
      <4>3. ref[b] \subseteq call.list
        BY <3>1, <4>1, <4>2 DEF Rest, GapsAreNew, ToDo, Scanning
      <4>. QED BY <4>1, <4>3, <1>10
    <3>3. CASE x \in B \cup C
      <4>1. b \in i.lo .. i.hi
        BY <1>1, <1>4, <3>1, <3>3, FoundFacts
      <4>2. ref[b] \ (IF ToDo(b) THEN call.list ELSE {}) \subseteq driverLists.slots[i.h].list
        BY <4>1 DEF Rest, NoDriverLost, GetDriverList
      <4>3. CASE x \in B
        BY <1>4, <1>10, <4>2, <4>3
      <4>4. CASE x \in C
        <5>1. ~ToDo(b) /\ x.h = i.h
          BY <1>1, <1>4, <4>4, <3>1, FoundFacts DEF ToDo
        <5>. QED BY <1>10, <4>2, <5>1, FoundFacts
      <4>. QED BY <3>3, <4>3, <4>4
    <3>. QED BY <3>2, <3>3
  <2>3. call'.pc = "idle" /\ call.hi <= i.hi
    BY <1>1, FoundFacts DEF Idle
  <2> HIDE DEF P
  <2>. QED BY <1>1, <2>1, <2>2, <2>3, NotLostAfter DEF Rest
<1>. QED BY <1>6, <1>8, <1>9, <1>11, <1>12 DEF Rest

\* Stopping at the assertion on a freed handle preserves the rest.
LEMMA AssertFailsRest ==
  ASSUME TypeOK, Rest, Scanning, NEW i \in intervals, AssertFails(i), Quiet
  PROVE  Rest'
<1>1. /\ intervals' = intervals /\ driverLists' = driverLists /\ ref' = ref
      /\ replaced' = replaced /\ call' = [call EXCEPT !.pc = "aborted"]
  BY DEF AssertFails, Quiet
<1>2. /\ call'.pc = "aborted" /\ call'.lo = call.lo /\ call'.hi = call.hi
      /\ call'.list = call.list /\ call'.merge = call.merge
  BY <1>1 DEF TypeOK, Call
<1>3. \A b : (ToDo(b)' <=> ToDo(b)) /\ (Covered(b)' <=> Covered(b))
  BY <1>1, <1>2 DEF ToDo, Covered, Scanning
<1>4. IntervalsDisjoint' /\ CoverageExact'
  BY <1>1, <1>3 DEF Rest, IntervalsDisjoint, CoverageExact
<1>5. GapsAreNew'
  BY <1>1, <1>2, <1>3 DEF Rest, GapsAreNew
<1>6. NothingFreed'
  BY <1>1, <1>2 DEF Rest, NothingFreed, Scanning
<1>7. NoDriverLost'
  BY <1>1, <1>2, <1>3 DEF Rest, NoDriverLost
<1>. QED BY <1>4, <1>5, <1>6, <1>7 DEF Rest

\* Inserting what is left of the range, past the loop, keeps the invariant.
LEMMA InsertRemainderInv ==
  ASSUME TypeOK, Rest, Scanning, InsertRemainder, Quiet
  PROVE  TypeOK' /\ Rest'
<1> DEFINE m == AddDriverList(driverLists, call.list)
           n == NewHandle(driverLists)
           A == Piece(call.lo, call.hi, n)
<1>1. /\ intervals' = intervals \cup A /\ ref' = ref /\ call' = Idle
      /\ replaced' = replaced /\ calls' = calls /\ driverLists' = m /\ Found = {}
  BY DEF InsertRemainder, Quiet, Return
<1>2. /\ call.lo \in Bits /\ call.hi \in Bits /\ call.lo <= call.hi
      /\ call.lo \in Int /\ call.hi \in Int /\ call.list \in SUBSET Drivers
      /\ driverLists \in Manager
  BY DEF TypeOK, Call, Bits
<1>3. /\ m \in Manager /\ n \in Nat \ {0} /\ n \in DOMAIN m.slots
      /\ DOMAIN driverLists.slots \subseteq DOMAIN m.slots
  BY <1>2, AddDriverListFacts
<1>4. A \subseteq WellFormed /\ \A x \in A : x.lo = call.lo /\ x.hi = call.hi /\ x.h = n
  BY <1>2, <1>3, PieceFacts
<1>5. TypeOK'
  <2> HIDE DEF m, n, A
  <2>. QED BY <1>1, <1>3, <1>4 DEF TypeOK, Idle, Call, WellFormed, Scanning
<1>6. \A j \in intervals : /\ j.lo \in Int /\ j.hi \in Int /\ j.lo <= j.hi
                           /\ j.hi < call.lo \/ call.hi < j.lo
  BY <1>1, <1>2 DEF Found, Overlaps, TypeOK, Interval, Bits
<1>7. IntervalsDisjoint'
  <2> SUFFICES ASSUME NEW x \in intervals', NEW y \in intervals', x # y
               PROVE  x.hi < y.lo \/ y.hi < x.lo
    BY DEF IntervalsDisjoint
  <2>1. CASE x \in A /\ y \in A
    BY <2>1 DEF Piece
  <2>2. CASE x \in intervals /\ y \in intervals
    BY <2>2 DEF Rest, IntervalsDisjoint
  <2>3. CASE x \in A /\ y \in intervals
    BY <1>4, <1>6, <2>3
  <2>4. CASE x \in intervals /\ y \in A
    BY <1>4, <1>6, <2>4
  <2>. QED BY <1>1, <2>1, <2>2, <2>3, <2>4
<1>8. \A b \in Bits : ~ToDo(b)'
  BY <1>1 DEF ToDo, Idle
<1>9. CoverageExact'
  <2> SUFFICES ASSUME NEW b \in Bits PROVE ref[b] # {} <=> Covered(b)'
    BY <1>1, <1>8 DEF CoverageExact
  <2>1. (\E x \in A : Bit(x, b)) <=> call.lo <= b /\ b <= call.hi
    <3>1. b \in Int
      BY DEF Bits
    <3>. QED BY <1>2, <3>1, PieceBits
  <2> HIDE DEF A
  <2>2. Covered(b)' <=> Covered(b) \/ \E x \in A : Bit(x, b)
    BY <1>1 DEF Covered, Bit
  <2>3. ToDo(b) <=> call.lo <= b /\ b <= call.hi
    BY <1>2 DEF ToDo, Scanning, Bits
  <2>. QED BY <2>1, <2>2, <2>3 DEF Rest, CoverageExact
<1>10. GapsAreNew'
  BY <1>8 DEF GapsAreNew
<1>11. NothingFreed'
  BY <1>1, <1>2, FreshAllocation DEF Rest, NothingFreed, Idle, Scanning
<1>12. NoDriverLost'
  <2> SUFFICES ASSUME ~replaced, NEW x \in intervals', NEW b \in x.lo .. x.hi
               PROVE  ValidHandle(m, x.h) /\ ref[b] \subseteq m.slots[x.h].list
    BY <1>1 DEF NoDriverLost, ToDo, Idle, GetDriverList
  <2>1. CASE x \in intervals
    <3>1. ~ToDo(b)
      BY <1>2, <1>6, <2>1 DEF ToDo
    <3>2. ref[b] \subseteq driverLists.slots[x.h].list /\ ValidHandle(driverLists, x.h)
      BY <2>1, <3>1 DEF Rest, NoDriverLost, GetDriverList
    <3>. QED BY <1>2, <3>2, FreshAllocation DEF Rest, ValidHandle
  <2>2. CASE x \in A
    <3>1. x.h = n /\ b \in call.lo .. call.hi /\ b \in Bits
      BY <1>2, <1>4, <2>2, ValueTrackerAssumption DEF Bits
    <3>2. ~Covered(b) /\ ToDo(b)
      BY <1>2, <1>6, <3>1 DEF Covered, ToDo, Scanning
    <3>3. ref[b] \subseteq call.list
      BY <3>1, <3>2 DEF Rest, GapsAreNew
    <3>. QED BY <1>2, <3>1, <3>3, FreshAllocation DEF Rest, ValidHandle
  <2>. QED BY <1>1, <2>1, <2>2
<1>. QED BY <1>5, <1>7, <1>9, <1>10, <1>11, <1>12 DEF Rest

\* Entering addDrivers, and so starting the scan, keeps the invariant.
LEMMA AddDriversInv ==
  ASSUME TypeOK, Rest, NEW left \in Bits, NEW right \in Bits, NEW list \in DriverList,
         NEW merge \in Merges, AddDrivers(left, right, list, merge)
  PROVE  TypeOK' /\ Rest'
<1> DEFINE lo == IF left <= right THEN left ELSE right
           hi == IF left <= right THEN right ELSE left
<1>1. /\ lo \in Bits /\ hi \in Bits /\ lo <= hi /\ merge \in BOOLEAN
      /\ list \in SUBSET Drivers /\ list # {}
  BY ValueTrackerAssumption DEF Bits, DriverList
<1> HIDE DEF lo, hi
<1>2. /\ call.pc = "idle" /\ calls < MaxCalls
      /\ call' = [pc |-> "scan", lo |-> lo, hi |-> hi, list |-> list, merge |-> merge]
      /\ ref' = [b \in Bits |-> IF b \notin lo .. hi THEN ref[b]
                                ELSE IF merge THEN ref[b] \cup list ELSE list]
      /\ calls' = calls + 1 /\ replaced' = (replaced \/ ~merge)
      /\ intervals' = intervals /\ driverLists' = driverLists
  BY DEF AddDrivers, lo, hi
<1>3. /\ call'.pc = "scan" /\ call'.lo = lo /\ call'.hi = hi
      /\ call'.list = list /\ call'.merge = merge
  BY <1>2
<1>4. TypeOK'
  <2>1. call' \in Call
    BY <1>1, <1>2 DEF Call, Bits
  <2>2. ref' \in [Bits -> SUBSET Drivers]
    BY <1>1, <1>2 DEF TypeOK
  <2>3. calls' \in 0 .. MaxCalls /\ replaced' \in BOOLEAN
    BY <1>1, <1>2, ValueTrackerAssumption DEF TypeOK
  <2>. QED BY <1>1, <1>2, <1>3, <2>1, <2>2, <2>3 DEF TypeOK
<1>5. \A b \in Bits : (ToDo(b)' <=> b \in lo .. hi) /\ ~ToDo(b) /\ (Covered(b)' <=> Covered(b))
  BY <1>2, <1>3 DEF ToDo, Covered
<1>6. \A b \in Bits : ref[b] # {} <=> Covered(b)
  BY <1>5 DEF Rest, CoverageExact
<1>7. \A b \in Bits : ref'[b] = IF b \notin lo .. hi THEN ref[b]
                                ELSE IF merge THEN ref[b] \cup list ELSE list
  BY <1>2
<1>8. IntervalsDisjoint'
  BY <1>2 DEF Rest, IntervalsDisjoint
<1>9. CoverageExact'
  BY <1>1, <1>5, <1>6, <1>7 DEF CoverageExact
<1>10. GapsAreNew'
  <2> SUFFICES ASSUME NEW b \in Bits, b \in lo .. hi, ~Covered(b) \/ ~merge
               PROVE  ref'[b] \subseteq list
    BY <1>3, <1>5 DEF GapsAreNew
  <2>. QED BY <1>6, <1>7
<1>11. NothingFreed'
  BY <1>2, <1>3 DEF Rest, NothingFreed
<1>12. NoDriverLost'
  <2> SUFFICES ASSUME ~replaced, merge, NEW x \in intervals, NEW b \in x.lo .. x.hi
               PROVE  /\ ValidHandle(driverLists, x.h)
                      /\ ref'[b] \ (IF ToDo(b)' THEN list ELSE {})
                           \subseteq GetDriverList(driverLists, x.h)
    BY <1>2, <1>3 DEF NoDriverLost
  <2>1. b \in Bits
    BY ValueTrackerAssumption DEF TypeOK, Interval, Bits
  <2>2. ValidHandle(driverLists, x.h) /\ ref[b] \subseteq GetDriverList(driverLists, x.h)
    BY <1>5, <2>1 DEF Rest, NoDriverLost
  <2>. QED BY <1>5, <1>7, <2>1, <2>2
<1>. QED BY <1>4, <1>8, <1>9, <1>10, <1>11, <1>12 DEF Rest

-----------------------------------------------------------------------------
(***************************************************************************)
(* The theorems.                                                           *)
(***************************************************************************)
\* Every iteration of the loop of addDrivers preserves the invariant.
LEMMA StepInv ==
  ASSUME TypeOK, Rest, Step
  PROVE  TypeOK' /\ Rest'
<1>1. Scanning /\ Quiet
  BY DEF Step, Quiet
<1>2. CASE InsertRemainder
  BY <1>1, <1>2, InsertRemainderInv
<1>3. ASSUME NEW i \in intervals, IsFirst(i),
             \/ ExactMatch(i)
             \/ SplitExisting(i)
             \/ EraseInside(i)
             \/ MergeInside(i)
             \/ SplitLeftOverlap(i)
             \/ ReplaceRightOverlap(i)
             \/ MergeRightOverlap(i)
             \/ AssertFails(i)
      PROVE  TypeOK' /\ Rest'
  <2>1. Rest'
    BY <1>1, <1>3, ExactMatchRest, SplitExistingRest, EraseInsideRest, MergeInsideRest,
       SplitLeftOverlapRest, ReplaceRightOverlapRest, MergeRightOverlapRest, AssertFailsRest
  <2>2. /\ intervals' \subseteq WellFormed /\ driverLists' \in Manager
        /\ \A j \in intervals' : j.h \in DOMAIN driverLists'.slots
    BY <1>1, <1>3, StepType
  <2>3. /\ call' \in Call
        /\ call'.pc = "scan" =>
             call'.lo \in Bits /\ call'.hi \in Bits /\ call'.lo <= call'.hi
    <3>1. CASE AssertFails(i)
      BY <3>1 DEF AssertFails, TypeOK, Call
    <3>2. CASE ~AssertFails(i)
      <4>1. Return \/ AdvancePast(i) \/ UNCHANGED call
        BY <1>3, <3>2 DEF ExactMatch, SplitExisting, EraseInside, MergeInside,
           SplitLeftOverlap, ReplaceRightOverlap, MergeRightOverlap
      <4>. QED BY <1>1, <1>3, <4>1, CallType
    <3>. QED BY <3>1, <3>2
  <2>4. TypeOK'
    BY <1>1, <2>2, <2>3 DEF TypeOK, Quiet, WellFormed, Scanning
  <2>. QED BY <2>1, <2>4
<1>. QED BY <1>2, <1>3 DEF Step

\* The inductive invariant holds of every behaviour: whatever the width, the
\* drivers, the order of the calls and their modes.
THEOREM InductiveInvariant == Spec => []IInv
<1>1. Init => IInv
  <2> SUFFICES ASSUME Init PROVE IInv
    OBVIOUS
  <2>1. TypeOK
    <3>1. [slots |-> <<>>, freeList |-> <<>>] \in Manager
      <4>1. /\ <<>> \in Seq(Slot) /\ <<>> \in Seq(Nat \ {0})
            /\ \A k \in DOMAIN <<>> : <<>>[k] \in DOMAIN <<>>
        OBVIOUS
      <4> DEFINE e == <<>>
      <4>2. e \in Seq(Slot) /\ e \in Seq(Nat \ {0}) /\ \A k \in DOMAIN e : e[k] \in DOMAIN e
        BY <4>1
      <4> HIDE DEF e
      <4>3. [slots |-> e, freeList |-> e] \in Manager
        BY <4>2, MakeManager
      <4>. QED BY <4>3 DEF e
    <3>2. Idle \in Call /\ Idle.pc # "scan"
      BY DEF Idle, Call
    <3>3. intervals = {} /\ driverLists = [slots |-> <<>>, freeList |-> <<>>] /\ call = Idle
          /\ calls = 0 /\ replaced \in BOOLEAN
      BY DEF Init
    <3>4. calls \in 0 .. MaxCalls
      BY <3>3, ValueTrackerAssumption
    <3>5. ref \in [Bits -> SUBSET Drivers]
      BY DEF Init
    <3>. QED BY <3>1, <3>2, <3>3, <3>4, <3>5 DEF TypeOK, Scanning
  <2>2. IntervalsDisjoint /\ CoverageExact /\ GapsAreNew /\ NothingFreed /\ NoDriverLost
    BY DEF Init, IntervalsDisjoint, CoverageExact, GapsAreNew, NothingFreed,
           NoDriverLost, Idle, Covered, ToDo, Scanning
  <2>. QED BY <2>1, <2>2 DEF IInv
<1>2. IInv /\ [Next]_vars => IInv'
  <2> SUFFICES ASSUME IInv, [Next]_vars PROVE IInv'
    OBVIOUS
  <2>1. TypeOK /\ Rest
    BY DEF IInv, Rest
  <2>2. ASSUME NEW left \in Bits, NEW right \in Bits, NEW list \in DriverList,
               NEW merge \in Merges, AddDrivers(left, right, list, merge)
        PROVE  IInv'
    BY <2>1, <2>2, AddDriversInv DEF IInv, Rest
  <2>3. CASE Step
    BY <2>1, <2>3, StepInv DEF IInv, Rest
  <2>4. CASE UNCHANGED vars
    BY <2>4 DEF IInv, vars, TypeOK, IntervalsDisjoint, CoverageExact, GapsAreNew,
       NothingFreed, NoDriverLost, Covered, ToDo, Scanning
  <2>. QED BY <2>2, <2>3, <2>4 DEF Next
<1>. QED BY <1>1, <1>2, PTL DEF Spec

\* Type correctness of addDrivers: intervals stay ascending and inside the
\* symbol, and every handle and free index stays inside the slot vector.
THEOREM TypeCorrect == Spec => []TypeOK
<1>1. IInv => TypeOK
  BY DEF IInv
<1>. QED BY <1>1, InductiveInvariant, PTL

\* "Intervals are non-overlapping" (ValueTracker.hpp), at every iteration.
THEOREM Disjointness == Spec => []IntervalsDisjoint
<1>1. IInv => IntervalsDisjoint
  BY DEF IInv
<1>. QED BY <1>1, InductiveInvariant, PTL

\* A driven bit is always in the map, or still to be handled by the running
\* addDrivers call, and no other bit ever is.
THEOREM Coverage == Spec => []CoverageExact
<1>1. IInv => CoverageExact
  BY DEF IInv
<1>. QED BY <1>1, InductiveInvariant, PTL

\* As long as addDrivers is only called with merge = true, no driver of any
\* bit is ever dropped by splitting, copying or sharing driver lists.
THEOREM MergingLosesNothing == Spec => []NoDriverLost
<1>1. IInv => NoDriverLost
  BY DEF IInv
<1>. QED BY <1>1, InductiveInvariant, PTL

=============================================================================
