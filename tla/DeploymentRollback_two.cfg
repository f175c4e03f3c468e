SPECIFICATION Spec
CONSTANTS
  Rollbackers = {r1, r2}
  Joiners = {c1}
  MaxActions = 2
INVARIANT ReverseOrder
CHECK_DEADLOCK FALSE
