CONSTANTS
  Runs = {1}
  Workers = {w1, w2}
  Dispatchers = {d1}
  Gateway = gw
  NoWorker = none
  MaxConcurrent = 1
  MaxSteps = 1
  MaxAttempts = 3
  MaxFaults = 1
  MaxDelays = 1
SPECIFICATION Spec
SYMMETRY WorkerSymmetry
INVARIANTS SingleExecution LateClaimNeverInfers
PROPERTY LifecycleUnlessClobbered
CHECK_DEADLOCK FALSE
