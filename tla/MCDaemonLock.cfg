SPECIFICATION FairSpec
CONSTANTS
  Proc = {p1, p2}
  NumPids = 3
  Pid <- MCPid
  MaxCrashes = 2
  MaxThrows = 1
INVARIANTS
  TypeOK
  SingleIfSerial
PROPERTIES
  RefusedForRival
  StartsAgain
