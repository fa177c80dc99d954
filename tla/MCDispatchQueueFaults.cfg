CONSTANTS
  Tasks = {1, 2}
  NoTask = none
  Registered = reg
  MaxFaults = 2
  MaxCancels = 0
SPECIFICATION Spec
INVARIANTS TypeOK QueueNeverStalls OneMessagePerTask
PROPERTY OneTaskAtATime
CHECK_DEADLOCK FALSE
