SPECIFICATION LoopsFairSpec
CONSTANTS
  b1 = b1
  None = None
  Input <- SameInput
  Runs = {r1}
  Batches <- NoBatches
  BatchOf <- Unbatched
  Agents = {g1}
  Attempts = {a1}
  MaxAttempts = 2
  InitialBackoff = 0
  BackoffCap = 0
  LeaseSeconds = 0
  HeartbeatSeconds = 0
  MaxActiveRuns = 1
  ResultKinds = {"process_crashed"}
  MaxDelay = 0
  Horizon = 1
  MaxReruns = 0
  MaxFaults = 1
  QueueSize = 1
CHECK_DEADLOCK FALSE
PROPERTIES
  RunNotWedged
