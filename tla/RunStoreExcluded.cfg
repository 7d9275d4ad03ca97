SPECIFICATION Spec
CONSTANTS
  b1 = b1
  None = None
  Input <- SameInput
  Runs = {r1, r2}
  Batches <- NoBatches
  BatchOf <- Unbatched
  Agents = {g1, g2}
  Attempts = {a1, a2, a3, a4}
  MaxAttempts = 2
  InitialBackoff = 0
  BackoffCap = 1
  LeaseSeconds = 0
  HeartbeatSeconds = 0
  MaxActiveRuns = 1
  ResultKinds = {"process_exited_non_zero"}
  MaxDelay = 0
  Horizon = 0
  MaxReruns = 0
  MaxFaults = 0
SYMMETRY IdSymmetry
CHECK_DEADLOCK FALSE
PROPERTIES
  RejectedNodeStaysExcluded
