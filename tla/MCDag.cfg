SPECIFICATION FairSpec
CONSTANTS
  Node <- MCNode
  Graphs <- MCGraphs
  Limits = {0, 2}
  Isolated <- MCIsolated
  Slots = 2
  Spawns = 4
  MaxLaunches = 2
  MaxCrashes = 1
  None = None
INVARIANTS
  TypeOK
  InputsReady
  Accounted
  SlotsExact
PROPERTIES
  IsWorkflow
  NoPromptAfterAbort
  RunEnds
CHECK_DEADLOCK FALSE
