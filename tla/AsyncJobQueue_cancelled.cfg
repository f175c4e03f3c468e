SPECIFICATION FairSpec
CONSTANTS
  Workers = {w1, w2}
  Joiners = {}
  Stoppers = {s1, s2}
  Cancellable = {s1}
  MaxJobs = 2
  Endings = {"return", "raise"}
PROPERTY EveryStopStops
CHECK_DEADLOCK FALSE
