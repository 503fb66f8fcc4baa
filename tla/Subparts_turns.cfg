SPECIFICATION Spec
CONSTANTS
  MaxCalls = 2
  MaxLoops = 3
  InTurn = TRUE
  MayBeBusy = TRUE
INVARIANTS RightFs SuccessIsMounted
CHECK_DEADLOCK FALSE
