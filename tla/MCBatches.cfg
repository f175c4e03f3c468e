SPECIFICATION MCSpec
CONSTANTS
  TaskCount = 4
  MaxWorkers = 2
  MaxAttempts = 2
  Endings = {"return", "raise", "abort"}
  Files = {f1, f2, f3, f4}
  SecondBatch = {f4}
  MaxConcurrent = 2
  Cancellable = {"first"}
  AsyncEndings = {"return", "raise", "cancel"}
  Checks = {k1, k2, k3}
  JobCount = 3
  Processes = 1
  Amounts = {0, 700000}
  Chargebacks = {0, 3}
  Ages = {29}
  MayBreak = TRUE
INVARIANTS
  ReportsAreTrue
  UploadSlotsAreExact
  CheckFailureStopsTheOthers
  NothingOutlivesItsCall
PROPERTY BatchesEnd
CHECK_DEADLOCK FALSE
