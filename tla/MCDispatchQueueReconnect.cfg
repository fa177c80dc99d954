CONSTANTS
  Tasks = {1}
  NoTask = none
  Registered = reg
  MaxFaults = 0
  MaxCancels = 0
SPECIFICATION Spec
INVARIANT ReconnectDelivers
CHECK_DEADLOCK FALSE
