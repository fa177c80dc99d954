SPECIFICATION LiveSpec
CONSTANTS
  Runs <- MCRuns
  Messages <- MCMessages
  NoRun = NoRun
  NoMsg = NoMsg
  MaxSteps = 2
  Budgets <- MCBudgets
CHECK_DEADLOCK FALSE
INVARIANTS
  TypeOK
  OneLiveRun
  PendingHasTaker
  TakenOnce
  NothingLeftUnread
PROPERTIES
  PendingTaken
