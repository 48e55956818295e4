CONSTANTS
  p1 = p1
  s1 = s1
  Addresses = {ip}
  Subjects = {s1, s2}
  IpMax = 3
  Max = 2
  WindowSeconds = 1
  TicksPerSecond = 3
  Requests = {p1, p2}
  Watched = {ip, s1}
  Senders <- MCSenders
SPECIFICATION FairLimitSpec
INVARIANT BurstsAreBounded
INVARIANT RetryAfterSuffices
PROPERTY CountersLapse
