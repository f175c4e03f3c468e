SPECIFICATION Spec
CONSTANTS
  StageCount = 3
  MaxDocuments = 3
  Closers = {c1, c2}
  TimedClosers = {c2}
  Endings = {"return", "raise", "abort"}
INVARIANTS
  ExactlyOnce
  InOrder
CHECK_DEADLOCK FALSE
