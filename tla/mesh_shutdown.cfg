CONSTANTS
  MeshOptions <- Poisson
  MaxScans = 1
  MaxBuilds = 1
SPECIFICATION MCSpec
CHECK_DEADLOCK FALSE
PROPERTY ShutdownEnds
