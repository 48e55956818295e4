--------------------------- MODULE MCSessionSchedule ---------------------------
(* SessionSchedule on small instances, for TLC.                             *)
EXTENDS SessionSchedule, TLC

CONSTANTS t1, t2

(* Two templates that share two starts.                                     *)
TwoTemplates == t1 :> {2, 3} @@ t2 :> {1, 2, 3}

Symmetry == Permutations(Requests)
=============================================================================
