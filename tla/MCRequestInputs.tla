-------------------------- MODULE MCRequestInputs --------------------------
(***************************************************************************)
(* The limits of the code are far apart and beyond TLC's integers; here    *)
(* they are close together, and in the same order.                         *)
(***************************************************************************)
EXTENDS RequestInputs

\* Sessions and last dates of schedules: soon, already past, and at the end of
\* the year 9999, of both extreme durations, cutoffs and capacities.
SomePlans ==
    [localStartsAt : {Now, Soon, LastMinute - 1440, LastMinute}, durationMinutes : {1, 1440},
     bookingCutoffMinutes : {0, MaxInteger}, capacity : {1, 32767}]

\* The split of small amounts at the rates around a half, against the
\* reference definition.
ASSUME SmallSplits ==
    \A gross \in 0..60 : \A rate \in {0, 1, 250, 4999, 5000, 5001, 9999, 10000} :
        LET s == Snapshot(gross, rate)
        IN  /\ IsNearest(s.commission, gross, rate)
            /\ \A c \in 0..60 : IsNearest(c, gross, rate) => c = s.commission
            /\ s.providerNet \in 0..gross
=============================================================================
