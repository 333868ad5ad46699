---------------------------- MODULE StreakLedger ----------------------------
(***************************************************************************)
(* What the daily streak promises, with no regard to how it is stored: on  *)
(* the days of `active' an answer was recorded, `last' is the latest of    *)
(* them, and the streak is the number of consecutive active days that end  *)
(* with it.  The UPDATE of users-service has to reach this from the        *)
(* previous streak and last day alone.                                     *)
(***************************************************************************)
EXTENDS Integers, FiniteSets

CONSTANT FirstDay
VARIABLES streak, last, active

vars == <<streak, last, active>>

\* The run of consecutive days of D that ends with d.
RunEndingAt(D, d) == {e \in D : \A f \in e .. d : f \in D}

Init == streak = 0 /\ last = 0 /\ active = {}

\* An answer is recorded on a day that is not before the latest one.
Answer ==
  /\ last' \in active'
  /\ last' >= last /\ last' >= FirstDay
  /\ active' = active \union {last'}
  /\ streak' = Cardinality(RunEndingAt(active', last'))

Spec == Init /\ [][Answer]_vars
=============================================================================
