SPECIFICATION Spec
CONSTANTS
  MaxCalls = 1
  MaxLoops = 3
  InTurn = TRUE
  MayBeBusy = FALSE
PROPERTIES MountedStaysWhole
CHECK_DEADLOCK FALSE
