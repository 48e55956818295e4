------------------------------ MODULE MCRateLimit ------------------------------
(* RateLimit on small instances, for TLC.                                   *)
EXTENDS RateLimit

CONSTANTS p1, s1

(* Slots are alike: the first is used for s1, the others for any subject.   *)
MCSenders == {f \in [Requests -> [ip : Addresses, subject : Subjects]] : f[p1].subject = s1}
=============================================================================
