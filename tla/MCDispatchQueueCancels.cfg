CONSTANTS
  Tasks = {1, 2}
  NoTask = none
  Registered = reg
  MaxFaults = 0
  MaxCancels = 1
SPECIFICATION Spec
INVARIANTS QueueNeverStalls PollersAgree
PROPERTIES OneTaskAtATime OutcomesFinal
CHECK_DEADLOCK FALSE
