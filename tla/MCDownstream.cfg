SPECIFICATION AllSpec
CONSTANTS
  Nothing = Nothing
  Poses = {0, 40, 130}
  Speeds = {0, 100, 600}
  Detections = {690}
  MaxShifts = 1
  World = {10}
  RingPoses = {0, 2}
  Window = 2
  FastWindow = 1
  RoiMin = 0
  RoiMax = 18
  WorldMin = 9
  WorldMax = 14
  TemporalTol = 3
  ConfirmFrames = 2
  StaleFrames = 2
  MaxTime = 3
  MaxRings = 2
  MaxKeyframes = 4
  MaxLoops = 1
  MinKeyframes = 2
  LoopMinIndexDiff = 1
  NumExcludeRecent = 1
  TreeMakingPeriod = 2
  Starts = {0, 1}
  Depth = 2
  MaxScans = 8
  ContextRings = 2
  Sectors = 8
  SearchRadius = 1
  Candidates = 3
  Scans <- SmallScans
  Elsewhere <- SinglePoint
INVARIANTS
  NoGhosts
  ConfirmedIsSeen
  MeasuredBeforeLoops
  GraphIsDetermined
  PairedScan
  PlaceIsRecognised
PROPERTIES
  NoJump
  RingStaysInBounds
  KeyframesStay
CHECK_DEADLOCK FALSE
