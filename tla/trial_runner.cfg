CONSTANTS
  Jobs = 2
  MaxRuns = 2
SPECIFICATION Spec
CHECK_DEADLOCK FALSE
INVARIANT LiveRegistered
INVARIANT SeparateDomains
INVARIANT OnlyUnregisteredSurvive
PROPERTY ShutdownEnds
PROPERTY TrialsEnd
