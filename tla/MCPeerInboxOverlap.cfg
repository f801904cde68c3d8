SPECIFICATION Spec
CONSTANTS
  Msg = {m1}
  None = None
  Capacity = 1
  Overlaps = {"all"}
  MaxCrashes = 1
  MaxSwaps = 0
  MaxAccepts = 0
  MaxOld = 0
  MaxLife = 2
INVARIANTS
  NeverLost
CHECK_DEADLOCK FALSE
