SPECIFICATION FairSpec
CONSTANTS
  MaxRuns = 2
  ApplyPrintsDone = FALSE
  WritesMayFail = FALSE
  HookMayBeMissing = FALSE
  CleanupMayFail = TRUE
  StaleMayWrite = FALSE
  StartMayFail = FALSE
  RetryWaits = TRUE
  PowerMayFail = TRUE
INVARIANTS DoneIsDurable ExitCleansUp BootableIsComplete
PROPERTIES KeepsPromise EveryInstallEnds
