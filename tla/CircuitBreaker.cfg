SPECIFICATION FairSpec
CONSTANTS
  Threads = {t1, t2, t3, t4}
  FailureThreshold = 3
  RecoveryTimeout = 2
  Endings = {"return", "raise", "abort"}
INVARIANTS
  TrialIsExclusive
PROPERTIES
  OnlyTrialCloses
  CooldownNeverRestarts
  TrialDecides
  CircuitIsRetried
