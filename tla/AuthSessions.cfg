CONSTANTS
  Requests = {p1, p2, p3}
  First = First
  None = None
  Operations = {"login", "rotate", "logout", "logoutAll", "changePassword", "issueReset", "resetPassword"}
  MaxPassword = 4
SPECIFICATION FairSpec
CHECK_DEADLOCK FALSE
INVARIANT RevokedSessionsAreDead
INVARIANT OneUsableToken
INVARIANT ReplaysRevoke
INVARIANT SessionsFollowPassword
INVARIANT ResetsFollowPassword
INVARIANT LiveSessionsContinue
PROPERTY RequestsEnd
