SPECIFICATION AllSpec
CONSTANTS
  Rings <- TwoRings
  NoRing = NoRing
  NoFrame = NoFrame
  MinSamples = 2
  MaxMsg = 3
  MaxCommand = 3
  Byte = {170, 255, 0, 1, 2, 3}
  CmdHead = 170
  CmdTail = 255
  NoByte = NoByte
INVARIANTS
  CommandsAreExact
  OneStaleSample
  TrimmedLockWithin
PROPERTIES
  SentInOrder
  NoFallback
  LatestIsSent
CHECK_DEADLOCK FALSE
