SPECIFICATION AllSpec
CONSTANTS
  Axes = {"x"}
  Det = 2
  Cube = 18
  Step = 1
  World = {}
  Landmarks = {}
  Nil = Nil
  NoPtr = NoPtr
  MinUnbalanced = 1
  MultiThread = 3
  Point = {1, 2, 3, 4, 5}
  Clouds <- FivePoints
  Added = {5}
  Sampled = {}
  Removed <- MapBoxes
  Cell = 2
  Collected <- Flat
  Searchers = {}
  MaxOps = 4
INVARIANTS
  LogStartsEmpty
CHECK_DEADLOCK FALSE
