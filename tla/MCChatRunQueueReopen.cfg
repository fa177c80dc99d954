CONSTANTS
  Runs = {1}
  Workers = {w1}
  Dispatchers = {d1}
  Gateway = gw
  NoWorker = none
  MaxConcurrent = 1
  MaxSteps = 1
  MaxAttempts = 2
  MaxFaults = 0
  MaxDelays = 1
SPECIFICATION Spec
PROPERTY TerminalNeverReopened
CHECK_DEADLOCK FALSE
