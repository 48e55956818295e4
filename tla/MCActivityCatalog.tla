--------------------------- MODULE MCActivityCatalog ---------------------------
(* ActivityCatalog on small instances, for TLC.                             *)
EXTENDS ActivityCatalog, TLC

CONSTANTS c1, c2

E(clear, fill, place, category) ==
  [clear |-> clear, fill |-> fill, place |-> place, category |-> category]

(* Updates that complete an activity, move it between places, and take away *)
(* what one place needs and another does not.                               *)
SomeEdits ==
  {E({}, Fields, "HYBRID", None), E({}, {}, "ONLINE", None), E({}, {}, "ONSITE", c2),
   E({"address"}, {}, "keep", None), E({"text"}, {}, "keep", c1)}

Symmetry == Permutations(Requests)
=============================================================================
