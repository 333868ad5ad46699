---------------------------- MODULE ReminderClock ----------------------------
(***************************************************************************)
(* The hours at which the gateway's scheduler looks whether the user needs *)
(* a reminder.  A time is a number of hours since 1970; what happens       *)
(* within an hour happens after the slot at its beginning.                 *)
(***************************************************************************)
EXTENDS Integers, Sequences

CONSTANTS DayHours,  \* hours of a day (24)
          Slots      \* hours of the slots (6, 9, 13, 15, 17, 19)

\* getNextSlotTime takes the first slot that suits: they must be in order.
ASSUME SlotsAssumption ==
  /\ DayHours \in Nat \ {0}
  /\ Slots \in Seq(0 .. DayHours - 1)
  /\ Slots # <<>>
  /\ \A i, j \in DOMAIN Slots : i < j => Slots[i] < Slots[j]

Hour(t) == t % DayHours
Day(t) == t \div DayHours

\* A variant of LaterSlots in which the slot just reached is still to come.
LaterSlotsInclusive(t) == {i \in DOMAIN Slots : Slots[i] >= Hour(t)}

\* The slots of the day that are yet to come.
LaterSlots(t) == {i \in DOMAIN Slots : Slots[i] > Hour(t)}

FirstOf(I) == CHOOSE i \in I : \A j \in I : i <= j

\* A variant of NextSlot that counts the first slot of tomorrow from the hour
\* it is now.
NextSlotLate(t) ==
  IF LaterSlots(t) # {}
  THEN Day(t) * DayHours + Slots[FirstOf(LaterSlots(t))]
  ELSE t + DayHours + Slots[1]

\* getNextSlotTime: the first later slot of the day, or the first of tomorrow.
NextSlot(t) ==
  IF LaterSlots(t) # {}
  THEN Day(t) * DayHours + Slots[FirstOf(LaterSlots(t))]
  ELSE (Day(t) + 1) * DayHours + Slots[1]

\* The times at which some slot begins.
IsSlot(t) == \E i \in DOMAIN Slots : Slots[i] = Hour(t)
=============================================================================
