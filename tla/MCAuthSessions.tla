---------------------------- MODULE MCAuthSessions ----------------------------
(* AuthSessions on small instances, for TLC.                                *)
EXTENDS AuthSessions, TLC

Symmetry == Permutations(Requests)
=============================================================================
