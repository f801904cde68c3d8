SPECIFICATION FairSpec
CONSTANTS
  Sched <- MCSched
  Exec <- MCExec
  OneShot = {"once"}
  Starters = {"job"}
  MaxTries <- MCTries
  Entry <- MCEntry
  Original <- MCOriginal
  Slot <- MCSlot
  MaxFires = 2
  Managed = {"once"}
  MaxRegs = 2
  None = None
INVARIANTS
  TypeOK
  NoOverlap
  BooksExact
  OneShotOnce
PROPERTIES
  EntrySettled
  NoRetryAfterStop
  QueueDrains
CHECK_DEADLOCK FALSE
