SPECIFICATION Spec
CONSTANTS
  MaxRuns = 1
  ApplyPrintsDone = TRUE
  WritesMayFail = FALSE
  HookMayBeMissing = FALSE
  CleanupMayFail = FALSE
  StaleMayWrite = FALSE
  StartMayFail = FALSE
  RetryWaits = TRUE
  PowerMayFail = FALSE
INVARIANTS DoneIsDurable
