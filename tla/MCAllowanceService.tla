------------------------- MODULE MCAllowanceService -------------------------
(* AllowanceService on small instances, for TLC.                            *)
EXTENDS AllowanceService, TLC

CONSTANTS a1, u1, r1, r2, EUR, USD

C(type, delta, reference, currency) ==
  [account |-> a1, type |-> type, delta |-> delta, currency |-> currency,
   reference |-> reference, actor |-> u1, blank |-> FALSE]

Blank(c) == [c EXCEPT !.blank = TRUE]

(* Racing allocations: two grants in two currencies; in one of them         *)
(* an adjustment, in the other a booking paid, and cancelled for two        *)
(* different amounts.                                                       *)
RacingCommands ==
  {C("INITIAL_ALLOCATION", 2, r1, USD), C("INITIAL_ALLOCATION", 1, r2, EUR),
   C("MANUAL_ADJUSTMENT", 1, r1, EUR), C("BOOKING_DEBIT", -2, r1, USD),
   C("CANCELLATION_REFUND", 1, r1, USD), C("CANCELLATION_REFUND", 2, r1, USD)}

(* One of each kind, with amounts that conflict over a balance of 2 or 1,   *)
(* all of them submitted again after a lost answer.                         *)
RetryCommands ==
  {C("INITIAL_ALLOCATION", 2, r1, EUR), C("INITIAL_ALLOCATION", 1, r2, EUR),
   C("TOP_UP", 1, r2, EUR), C("EXPIRATION", -2, r1, EUR),
   C("MANUAL_ADJUSTMENT", -2, r1, EUR), Blank(C("MANUAL_ADJUSTMENT", -2, r1, EUR)),
   C("BOOKING_DEBIT", -2, r1, EUR)}

Symmetry == Permutations(Writers)
=============================================================================
