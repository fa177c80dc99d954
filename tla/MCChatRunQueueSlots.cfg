CONSTANTS
  Runs = {1, 2}
  Workers = {w1}
  Dispatchers = {d1, d2}
  Gateway = gw
  NoWorker = none
  MaxConcurrent = 1
  MaxSteps = 1
  MaxAttempts = 2
  MaxFaults = 1
  MaxDelays = 0
SPECIFICATION Spec
INVARIANTS TypeOK SlotsConserved
CHECK_DEADLOCK FALSE
