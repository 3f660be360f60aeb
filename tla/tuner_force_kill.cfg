CONSTANTS
  Jobs = 2
  MaxRuns = 2
SPECIFICATION Spec
CHECK_DEADLOCK FALSE
INVARIANT ForceKillTerminatesAll
