SPECIFICATION Spec
CONSTANTS
  NumTasks = 1
  Task <- MCTask
  Proc = {p1}
  None = None
  Budget <- MCBudget1
  OverlapKey <- MCOriginalKey
  MaxCrashes = 0
  MaxThrows = 0
INVARIANTS
  RunHoldsLease
CHECK_DEADLOCK FALSE
