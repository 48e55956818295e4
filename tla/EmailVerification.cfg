CONSTANTS
  Requests = {p1, p2, p3, p4}
  First = First
  None = None
SYMMETRY Symmetry
SPECIFICATION Spec
CHECK_DEADLOCK FALSE
INVARIANT OneLiveToken
INVARIANT UsedOnce
PROPERTY OperatorsDecide
