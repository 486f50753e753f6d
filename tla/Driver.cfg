SPECIFICATION AllSpec
CONSTANTS
  Lidars = {1, 2}
  Settings <- BothSettings
  Files <- ListedFiles
  Ips = {"a", "b", "c"}
  NoIp = "none"
  NumDevices = 2
  l1 = l1
  Handles = {l1, l2, l3}
  UserKeys <- OneListed
  MaxLidars = 2
  NoAnswer = NoAnswer
  MaxInfo = 2
INVARIANTS
  FramesAligned
  OffsetsRebuildTimes
  MountingIsShared
  SamplingMeansConfigured
  NoKeyForgotten
PROPERTIES
  ImplementsChannel
CHECK_DEADLOCK FALSE
