SPECIFICATION FairSpec
CONSTANTS
  JobCount = 2
  Failing = {}
  Killable = {1}
  PipeCapacity = 4
PROPERTY CollectEnds
CHECK_DEADLOCK FALSE
