CONSTANTS
  Runs = {1}
  Workers = {w1, w2}
  Dispatchers = {d1}
  Gateway = gw
  NoWorker = none
  MaxConcurrent = 1
  MaxSteps = 1
  MaxAttempts = 4
  MaxFaults = 1
  MaxDelays = 0
SPECIFICATION FairSpec
PROPERTY EventuallySettled
CHECK_DEADLOCK FALSE
