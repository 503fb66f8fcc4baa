SPECIFICATION Spec
CONSTANTS
  MaxRuns = 2
  ApplyPrintsDone = TRUE
  WritesMayFail = TRUE
  HookMayBeMissing = TRUE
  CleanupMayFail = TRUE
  StaleMayWrite = TRUE
  StartMayFail = TRUE
  RetryWaits = FALSE
  PowerMayFail = FALSE
INVARIANTS NoFalseFailure
PROPERTIES NeverCutOff
CHECK_DEADLOCK FALSE
