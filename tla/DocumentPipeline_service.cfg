SPECIFICATION FairSpec
CONSTANTS
  StageCount = 3
  MaxDocuments = 3
  Closers = {c1, c2}
  TimedClosers = {c2}
  Endings = {"return", "raise"}
INVARIANT CloseTrueMeansSettled
PROPERTIES
  ImplementsService
  PipelineDrains
CHECK_DEADLOCK FALSE
