CONSTANTS
  a1 = a1
  u1 = u1
  r1 = r1
  r2 = r2
  EUR = EUR
  USD = USD
  Accounts = {a1}
  Users = {u1}
  System = System
  References = {r1, r2}
  Currencies = {EUR, USD}
  MaxBalance = 3
  MaxVersion = 5
  Writers = {w1, w2, w3}
  NoWriter = NoWriter
  NoRow = NoRow
  Commands <- RacingCommands
  NoCommand = NoCommand
  NoEntry = NoEntry
  MaxAttempts = 1
SYMMETRY Symmetry
SPECIFICATION ServiceSpec
INVARIANT GuardsAreForeseen
INVARIANT AppliedOnce
INVARIANT Reconciled
PROPERTY ImplementsRequests
