CONSTANTS
  c1 = c1
  c2 = c2
  nobody = nobody
  NoClient = nobody
  Clients <- OneClient
  Routes <- PauseRestart
  MaxNodes = 0
  MaxLoops = 0
  MaxLate = 1
  InfoTypes = {"counted"}
  RtMayStop = FALSE
  ApiMayStop = TRUE
  CallFaults = FALSE
  ExportRaises = FALSE
SPECIFICATION Spec
PROPERTY RestartStartsBuilding
