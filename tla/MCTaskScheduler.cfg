SPECIFICATION LiveSpec
CONSTANTS
  Day = 2
  Week = 2
  NoTime = NoTime
  Jobs = {1, 2}
  Runs = {1, 2, 3, 4}
  NoJob = NoJob
  NoRun = NoRun
  MAX_AUTO_SUPERVISION_ROUNDS = 2
  LastMoment = 3
CONSTANT
  Priority <- MCPriority
  Scenarios <- MCScenarios
INVARIANTS
  TypeOK
  OneTaskRuns
  RunsBelong
  CommandHolds
  SupervisionBounded
PROPERTIES
  NextRoundIsNext
  QueuedTaskStarts
CHECK_DEADLOCK FALSE
