SPECIFICATION AllSpec
CONSTANTS
  Axes = {"x", "y"}
  Det = 2
  Cube = 18
  Step = 1
  World <- Square
  Landmarks <- ThreeMarks
  Nil = Nil
  NoPtr = NoPtr
  MinUnbalanced = 1
  MultiThread = 3
  Point = {1, 2, 3, 4, 5}
  Clouds <- FivePoints
  Added = {5}
  Sampled = {3}
  Removed <- MapBoxes
  Cell = 2
  Collected <- Flat
  Searchers = {s1, s2}
  MaxOps = 3
INVARIANTS
  MapIsWindow
  SearchesExcluded
  ContentsKept
  SearchIsComplete
PROPERTIES
  RebuildIsDone
CHECK_DEADLOCK FALSE
