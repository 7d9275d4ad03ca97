SPECIFICATION Spec
CONSTANTS
  b1 = b1
  None = None
  Input <- SameInput
  Runs = {r1}
  Batches <- NoBatches
  BatchOf <- Unbatched
  Agents = {g1}
  Attempts = {a1, a2}
  MaxAttempts = 2
  InitialBackoff = 0
  BackoffCap = 1
  LeaseSeconds = 1
  HeartbeatSeconds = 1
  MaxActiveRuns = 1
  ResultKinds = {"process_exited_non_zero"}
  MaxDelay = 0
  Horizon = 4
  MaxReruns = 0
  MaxFaults = 1
SYMMETRY IdSymmetry
CHECK_DEADLOCK FALSE
PROPERTIES
  LeaseNotStolen
