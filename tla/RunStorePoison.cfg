SPECIFICATION Spec
CONSTANTS
  b1 = b1
  None = None
  Input <- SameInput
  Runs = {r1, r2}
  Batches = {b1}
  BatchOf <- OneBatch
  Agents = {g1, g2}
  Attempts = {a1, a2}
  MaxAttempts = 2
  InitialBackoff = 0
  BackoffCap = 1
  LeaseSeconds = 0
  HeartbeatSeconds = 0
  MaxActiveRuns = 1
  ResultKinds = {"process_crashed"}
  MaxDelay = 0
  Horizon = 1
  MaxReruns = 1
  MaxFaults = 0
SYMMETRY IdSymmetry
CHECK_DEADLOCK FALSE
INVARIANTS
  BatchFollowsRuns
  ItemsFollowRuns
