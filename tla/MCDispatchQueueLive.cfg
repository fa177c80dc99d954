CONSTANTS
  Tasks = {1, 2}
  NoTask = none
  Registered = reg
  MaxFaults = 1
  MaxCancels = 0
SPECIFICATION FairSpec
PROPERTY DispatchesSettle
CHECK_DEADLOCK FALSE
