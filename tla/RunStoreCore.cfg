SPECIFICATION Spec
CONSTANTS
  b1 = b1
  None = None
  Input <- SameInput
  Runs = {r1}
  Batches <- NoBatches
  BatchOf <- Unbatched
  Agents = {g1}
  Attempts = {a1, a2, a3}
  MaxAttempts = 2
  InitialBackoff = 0
  BackoffCap = 1
  LeaseSeconds = 1
  HeartbeatSeconds = 0
  MaxActiveRuns = 1
  ResultKinds = {"succeeded", "process_crashed", "process_exited_non_zero"}
  MaxDelay = 0
  Horizon = 2
  MaxReruns = 1
  MaxFaults = 1
SYMMETRY IdSymmetry
CHECK_DEADLOCK FALSE
INVARIANTS
  TypeOK
  RunAttemptAgreement
  RetryBudget
  SuccessIsFinal
  ProcessedOnce
  DailyTerminalExact
  DailyFailedExact
PROPERTIES
  TerminalIsFinal
