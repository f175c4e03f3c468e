SPECIFICATION MCSpec
CONSTANTS
  Requests = {r1, r2, r3}
  Waiters = {w1, w2}
  Timed = {w2}
  Stoppers = {p1, p2}
  TimedStoppers = {p2}
  MayFail = TRUE
  Endings = {"return", "raise", "abort", "stop"}
  Bookings = {b1, b2, b3}
  Customers = {c1, c2}
  Seats = {s1, s2, s3}
  Threads = {t1, t2, t3}
  Stock = 4
  Operations = {1, 2, 3}
INVARIANTS
  NoLostWakeup
  CleanupAtMostOneLateRun
  MapsAreInverse
  StoresLookAtomic
PROPERTIES
  TrueMeansDrained
  DrainedIsFinal
  WaitersReturn
  CleanupTrueMeansEnded
  CleanupStopTakesEffect
  ImplementsLedger
  OperationsEnd
CHECK_DEADLOCK FALSE
