------------------------- MODULE MCRecurringSchedules -------------------------
(* RecurringSchedules on small instances, for TLC.                          *)
EXTENDS RecurringSchedules

(* A day of four units, and two zones.  The clock of the first goes back by *)
(* two units on date 8; that of the second goes forward by two on date 2.   *)
SomeZones == {[at |-> 33, before |-> 1, after |-> -1], [at |-> 9, before |-> -1, after |-> 1]}

Of(startTime, weekdays, interval, first, last, cutoff, policy) ==
  [startTime |-> startTime, weekdays |-> weekdays, interval |-> interval, first |-> first,
   last |-> last, duration |-> 2, cutoff |-> cutoff, policy |-> policy]

(* Weekly and every other week, from the middle of a week; starts inside and*)
(* outside the gap and the overlap; windows too long and reversed.          *)
SomeInputs ==
  {Of(1, {2, 3}, 1, 1, 9, 0, "EARLIER"), Of(1, {2, 3}, 1, 2, 9, 1, "LATER"),
   Of(1, {1, 4}, 2, 3, 17, 0, "LATER"),
   Of(0, 1 .. 7, 1, 0, 18, 0, "EARLIER"), Of(0, 1 .. 7, 1, 4, 3, 0, "EARLIER")}

(* In the gap of one zone and in the overlap of the other.                  *)
SomeWallClocks == {9, 33}

(* Before both changes, between them, and after the second.                 *)
SomeMoments == {0, 8, 33}
=============================================================================
