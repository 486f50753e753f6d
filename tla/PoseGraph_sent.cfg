SPECIFICATION Spec
CONSTANTS
  NoPose = NoPose
  MaxKeyframes = 4
  MaxLoops = 1
  MinKeyframes = 2
  LoopMinIndexDiff = 1
  NumExcludeRecent = 1
  TreeMakingPeriod = 2
  Starts = {0}
INVARIANT
  SentIsOptimized
CHECK_DEADLOCK FALSE
