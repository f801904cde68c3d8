SPECIFICATION FairSpec
CONSTANTS
  Msg = {m1, m2}
  None = None
  Capacity = 1
  Overlaps = {"none", "life"}
  MaxCrashes = 1
  MaxSwaps = 2
  MaxAccepts = 1
  MaxOld = 1
  MaxLife = 2
INVARIANTS
  TypeOK
  
PROPERTIES
  Mailbox
  Arrives
CHECK_DEADLOCK FALSE
