SPECIFICATION FairSpec
CONSTANTS
  a = a
  d = d
  Chars <- MCChars
  NL = NL
  Verdicts <- MCVerdicts
  IbufSize = 4
  RdSize = 2
  PipeSize = 3
  MaxLine = 3
  MaxBytes = 6
  MaxRuns = 2
PROPERTIES KeepsLines LinesArrive
CHECK_DEADLOCK FALSE
