SPECIFICATION AllSpec
CONSTANTS
  ScanLen = 2
  MaxGap = 3
  LoopBack = FALSE
  Restarts = {5}
  LastEnds = {90}
  MaxIniCount = 1
  Never = Never
  MaxTime = 9
  MaxSkip = 1
  MaxWaiting = 1
  MaxScan = 4
  PointFilterNum = 3
  GroupSize = 2
  Blind = 9
  Turn = 4
  LinePoints = 8
  ScanPoints = 4
  Points = {p1, p2}
  MaxIteration = 3
  MaxUpdates = 2
INVARIANTS
  EveryPlaneCounts
  CovarianceFollowsState
PROPERTIES
  PropagatesExactly
  RegisteredOnce
  NeighboursAreRecent
CHECK_DEADLOCK FALSE
