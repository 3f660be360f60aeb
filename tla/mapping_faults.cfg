CONSTANTS
  c1 = c1
  c2 = c2
  nobody = nobody
  NoClient = nobody
  Clients <- TwoClients
  Routes <- QueueRoutes
  MaxNodes = 0
  MaxLoops = 0
  MaxLate = 1
  InfoTypes = {"counted"}
  RtMayStop = TRUE
  ApiMayStop = TRUE
  CallFaults = TRUE
  ExportRaises = TRUE
SPECIFICATION Spec
INVARIANT ModeAgrees
PROPERTY EveryRequestAnswered
 
