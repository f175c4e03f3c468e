SPECIFICATION MCSpec
CONSTANTS
  Workers = {d1, d2, d3, d4}
  Required = 3
  Timed = {d4}
  Markers = {m1, m2, m3}
  Callers = {c1, c2, c3}
  TimedCallers = {c2}
  Polling = {c3}
  Reviewers = {r1, r2}
  Waiters = {w1, w2}
  TimedWaiters = {w2}
  Threads = {t1, t2, t3, t4, t5}
  Capacity = 2
  TimedThreads = {t3, t4}
INVARIANTS
  BatchNobodySleeps
  FirstResultWins
  NobodySleepsInVain
  PermitsConserved
PROPERTIES
  BatchAnswersAreCurrent
  AllOrNone
  OneTimeoutFreesAll
CHECK_DEADLOCK FALSE
