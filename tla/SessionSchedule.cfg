CONSTANTS
  Requests = {p1, p2}
  First = First
  None = None
  t1 = t1
  t2 = t2
  Templates = {t1, t2}
  Occurrences <- TwoTemplates
  Lengths = {1, 2}
  Operations = {"create", "update", "cancel", "complete", "generate"}
  Horizon = 3
SYMMETRY Symmetry
SPECIFICATION Spec
CHECK_DEADLOCK FALSE
INVARIANT GenerationsLoseNothing
INVARIANT CompletedAfterEnd
INVARIANT OnlyMovesDeadlock
PROPERTY FinishedStays
PROPERTY ArchiveSettles
