SPECIFICATION FairSpec
CONSTANTS
  InitCap = 2
  MaxKeep = 2
  MaxCap = 8
  MaxChunk = 2
  MemFailures = 1
  MaxJobs = 2
  MaxSaid = 4
  PipeSize = 2
  ReadSize = 2
  StartMayFail = TRUE
  HoldTime = 1
  MaxKeys = 2
INVARIANTS LogFits LogIsRecent RebootIsAlone
PROPERTIES EndIsTheEnd MenuIsMeant JobEndIsNoticed UiGetsTurns HeldKeyIsSeen
CHECK_DEADLOCK FALSE
