CONSTANTS
  LidarCount = 2
  Interval = 2
  Tolerance = 1
  MaxTime = 5
  LidarTimes <- SomeTimes
  MaxPackets = 3
SPECIFICATION Spec
CHECK_DEADLOCK FALSE
INVARIANT StreamsKept
INVARIANT FramesPaced
INVARIANT SyncedNeverTimed
PROPERTY NothingOverdue
PROPERTY ExitEnds
