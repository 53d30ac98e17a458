---------------------------- MODULE DriverLists -----------------------------
(***************************************************************************)
(* The driver lists of a driver map: ExternalManager                       *)
(* (source/ExternalManager.hpp) as DriverMap (source/DriverMap.hpp) uses   *)
(* it.  Handles are indexes into slots; a freed index is reused, oldest    *)
(* first, before the vector grows.                                         *)
(***************************************************************************)
EXTENDS Integers, Sequences

Live(list) == [live |-> TRUE, list |-> list]

Freed == [live |-> FALSE, list |-> {}]

NewHandle(m) == IF m.freeList = <<>> THEN Len(m.slots) + 1 ELSE Head(m.freeList)

AddDriverList(m, list) ==
  IF m.freeList = <<>>
  THEN [slots |-> Append(m.slots, Live(list)), freeList |-> <<>>]
  ELSE [slots    |-> [m.slots EXCEPT ![Head(m.freeList)] = Live(list)],
        freeList |-> Tail(m.freeList)]

ValidHandle(m, h) == h \in DOMAIN m.slots /\ m.slots[h].live

GetDriverList(m, h) == m.slots[h].list

SetDriverList(m, h, list) == [m EXCEPT !.slots[h] = Live(list)]

EraseDriverList(m, h) ==
  [slots |-> [m.slots EXCEPT ![h] = Freed], freeList |-> Append(m.freeList, h)]
=============================================================================
