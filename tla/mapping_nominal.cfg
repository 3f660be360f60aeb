CONSTANTS
  c1 = c1
  c2 = c2
  nobody = nobody
  NoClient = nobody
  Clients <- OneClient
  Routes <- AllRoutes
  MaxNodes = 2
  MaxLoops = 1
  MaxLate = 1
  InfoTypes <- AllInfoTypes
  RtMayStop = FALSE
  ApiMayStop = FALSE
  CallFaults = FALSE
  ExportRaises = FALSE
SPECIFICATION ScanSpec
INVARIANT PausedMeansNotIntegrating
INVARIANT RunningMeansIntegrating
INVARIANT OperatorModeHolds
PROPERTY CountConverges
