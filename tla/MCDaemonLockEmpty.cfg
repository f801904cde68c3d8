SPECIFICATION Spec
CONSTANTS
  Proc = {p1, p2}
  NumPids = 2
  Pid <- MCPid
  MaxCrashes = 0
  MaxThrows = 0
INVARIANTS
  SingleDaemon
