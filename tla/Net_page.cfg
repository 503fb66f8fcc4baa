SPECIFICATION FairSpec
CONSTANTS
  MaxJobs = 3
  ChildMayDie = TRUE
  ScanTicks = 1
  ConnectTicks = 1
INVARIANTS OkRestsOnLease
PROPERTIES VerdictIsFresh BusyEnds
