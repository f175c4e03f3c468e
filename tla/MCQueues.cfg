SPECIFICATION MCSpec
CONSTANTS
  Workers = {w1, w2}
  Joiners = {j1}
  Stoppers = {s1, s2}
  Cancellable = {s2}
  MaxJobs = 3
  Endings = {"return", "raise", "cancel"}
  Rollbackers = {r1, r2}
  MaxActions = 3
  Tickets = {a, b, c}
  Urgent = {c}
  Timed = {w2}
INVARIANTS
  AccountingIsExact
  JoinsCoverEarlierItems
  StoppedMeansDrained
PROPERTIES
  EverythingEnds
  TakenInOrder
CHECK_DEADLOCK FALSE
