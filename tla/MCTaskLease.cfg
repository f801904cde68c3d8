SPECIFICATION MCSpec
CONSTANTS
  NumTasks = 2
  Task <- MCTask
  Proc = {p1}
  None = None
  Budget <- MCBudgets
  OverlapKey <- MCOwnKey
  MaxCrashes = 1
  MaxThrows = 1
INVARIANTS
  TypeOK
  AttemptsWithinBudget
  AtMostOnce
PROPERTIES
  OnlyStartupTakesLease
  Durable
  EventuallyArchived
CHECK_DEADLOCK FALSE
