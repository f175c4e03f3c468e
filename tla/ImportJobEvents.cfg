SPECIFICATION FairSpec
CONSTANTS
  JobCount = 2
  Failing = {2}
  Killable = {1, 2}
  PipeCapacity = 2
INVARIANT ReturnedIsComplete
PROPERTY CollectEndsUnlessKilled
CHECK_DEADLOCK FALSE
