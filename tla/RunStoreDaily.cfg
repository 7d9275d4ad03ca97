SPECIFICATION Spec
CONSTANTS
  b1 = b1
  None = None
  Input <- SameInput
  Runs = {r1}
  Batches <- NoBatches
  BatchOf <- Unbatched
  Agents = {g1, g2}
  Attempts = {a1, a2, a3}
  MaxAttempts = 2
  InitialBackoff = 0
  BackoffCap = 1
  LeaseSeconds = 0
  HeartbeatSeconds = 0
  MaxActiveRuns = 1
  ResultKinds = {"succeeded", "process_crashed"}
  MaxDelay = 0
  Horizon = 1
  MaxReruns = 1
  MaxFaults = 0
SYMMETRY IdSymmetry
CHECK_DEADLOCK FALSE
INVARIANTS
  DailyFailedExact
