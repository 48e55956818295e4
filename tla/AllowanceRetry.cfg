CONSTANTS
  a1 = a1
  u1 = u1
  r1 = r1
  r2 = r2
  EUR = EUR
  USD = USD
  Accounts = {a1}
  Users = {u1}
  System = System
  References = {r1, r2}
  Currencies = {EUR}
  MaxBalance = 3
  MaxVersion = 5
  Writers = {w1, w2}
  NoWriter = NoWriter
  NoRow = NoRow
  Commands <- RetryCommands
  NoCommand = NoCommand
  NoEntry = NoEntry
  MaxAttempts = 2
SPECIFICATION FairServiceSpec
INVARIANT GuardsAreForeseen
PROPERTY RequestsEnd
PROPERTY ImplementsRequests
