CONSTANTS
  Accounts = {a1}
  Users = {u1}
  System = System
  References = {r1, r2}
  Currencies = {EUR, USD}
  MaxBalance = 2
  MaxVersion = 3
  Writers = {w1, w2}
  NoWriter = NoWriter
  NoRow = NoRow
SYMMETRY Symmetry
SPECIFICATION Spec
INVARIANT Chained
INVARIANT Projected
INVARIANT RefundsAreBacked
INVARIANT AdjustmentsAreAudited
PROPERTY ImplementsLedger
