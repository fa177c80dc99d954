CONSTANTS
  Tasks = {1}
  NoTask = none
  Registered = reg
  MaxFaults = 1
  MaxCancels = 0
SPECIFICATION Spec
PROPERTY RestartKeepsTasks
CHECK_DEADLOCK FALSE
