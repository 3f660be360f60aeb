CONSTANTS
  LidarCount = 3
  Ready <- SecondReady
  Capacity = 2
  MaxPackets = 4
  Formats <- AllFormats
SPECIFICATION Spec
CHECK_DEADLOCK FALSE
INVARIANT NoLostWakeup
PROPERTY LastPacketPublished
PROPERTY DestructionEnds
