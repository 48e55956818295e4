------------------------- MODULE MCOrganizationMembers -------------------------
(* OrganizationMembers on small instances, for TLC.                         *)
EXTENDS OrganizationMembers, TLC

Symmetry == Permutations(Requests)
=============================================================================
