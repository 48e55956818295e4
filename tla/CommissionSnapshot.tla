------------------------ MODULE CommissionSnapshot ------------------------
(***************************************************************************)
(* CommissionSnapshotStrategy: how the price of a booking is split between *)
(* the platform and the provider.  Amounts are integers of minor units,    *)
(* rates are integers of basis points.                                     *)
(***************************************************************************)
EXTENDS Integers

CONSTANT MaxBigint

ASSUME MaxBigintAssumption == MaxBigint \in Nat

BasisPoints == 10000

IsSnapshotted(gross, rate) == gross \in 0..MaxBigint /\ rate \in 0..BasisPoints

\* Half a unit is rounded up; BigInt division truncates.
CommissionAmount(gross, rate) == (gross * rate + 5000) \div BasisPoints

Snapshot(gross, rate) ==
    [gross |-> gross, rate |-> rate,
     commission |-> CommissionAmount(gross, rate),
     providerNet |-> gross - CommissionAmount(gross, rate)]

\* The reference: the integer nearest to gross * rate / 10000, the larger one
\* of two that are equally near.
IsNearest(commission, gross, rate) ==
    /\ BasisPoints * commission - gross * rate <= 5000
    /\ gross * rate - BasisPoints * commission < 5000

=============================================================================
