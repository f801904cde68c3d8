CONSTANT Agent = {"a1"}
SPECIFICATION FairSpec
CHECK_DEADLOCK FALSE
INVARIANTS TypeOK LeavesWhenOver TraceAgrees StopMatchesResult
PROPERTIES KeepsContract SweepReturns EverythingEnds
