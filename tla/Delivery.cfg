SPECIFICATION AllSpec
CONSTANTS
  Packet = {p1}
  NoPacket = NoPacket
  EmptyPacket = {}
  NumLidars = 2
  QueueSize = 1
  Laps = 2
  Order = "sc"
  Sample = {s1, s2}
  NoSample = NoSample
  MaxBacklog = 2
INVARIANTS
  NoLostWakeup
PROPERTIES
  PushedIsDelivered
  ShutdownCompletes
  SamplesInOrder
  SampleIsPublished
CHECK_DEADLOCK FALSE
