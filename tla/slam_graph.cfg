CONSTANTS
  Launches <- SomeLaunches
  Bag <- SomeBag
  HalfSecond = 2
  MaxDelay = 1
  MaxTime = 6
  MaxClouds = 2
  MeshOptions <- SomeOptions
  MaxScans = 1
  MaxBuilds = 1
  Datagrams <- SomeDatagrams
  MaxSent = 2
  MaxFaults = 2
SPECIFICATION Spec
CHECK_DEADLOCK FALSE
INVARIANT CloudsOnce
INVARIANT TrajectoryWhole
INVARIANT ImagesAligned
PROPERTY PoseStays
PROPERTY StreamRecovers
