---------------------------- MODULE MCLedgerStore ----------------------------
(* LedgerStore on small instances, for TLC.                                 *)
EXTENDS LedgerStore, TLC

(* Writers, references and currencies are only compared with each other.    *)
Symmetry ==
  Permutations(Writers) \cup Permutations(References) \cup Permutations(Currencies)
=============================================================================
