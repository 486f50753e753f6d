SPECIFICATION Spec
CONSTANTS
  ScanLen = 2
  MaxGap = 1
  LoopBack = TRUE
  Restarts = {}
  LastEnds = {0}
  MaxIniCount = 1
  Never = Never
  MaxTime = 6
  MaxSkip = 1
  MaxWaiting = 4
  MaxScan = 4
INVARIANTS
  ScanHasItsTime
CHECK_DEADLOCK FALSE
