SPECIFICATION Spec
CONSTANTS
  Packet = {p1, p2}
  NoPacket = NoPacket
  EmptyPacket = {p2}
  NumLidars = 1
  QueueSize = 2
  Laps = 3
  Order = "tso"
INVARIANTS
  NoTornPacket
PROPERTIES
  ImplementsChannel
