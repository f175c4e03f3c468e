SPECIFICATION PaymentSpec
CONSTANTS
  Markers = {m1}
  Callers = {c1, c2}
  TimedCallers = {}
  Polling = {c2}
INVARIANT LaterWaitersReturn
CHECK_DEADLOCK FALSE
