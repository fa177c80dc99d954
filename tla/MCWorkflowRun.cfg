SPECIFICATION LiveSpec
CONSTANTS
  Steps <- MCSteps
  MaxTry = 2
  Programs <- MCPrograms
  MaxEvents <- MCEvents
INVARIANTS
  TypeOK
  OneAttemptInFlight
  StatusMatchesWork
  UnsafeStepOnce
  AttemptsWithinPolicy
PROPERTIES
  EndedOnlyOverwritten
  ApprovalStands
  AnswerSettles
  RunEnds
