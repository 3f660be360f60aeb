CONSTANTS
  Options <- SomeOptions
  Stems <- SameStems
  Artefacts <- SomeArtefacts
  Leaves <- ByBag
  MaxCrashes = 2
  MaxStarts = 2
  MaxFaults = 1
SPECIFICATION Spec
CHECK_DEADLOCK FALSE
INVARIANT TargetReached
INVARIANT StaleRowsHealed
INVARIANT CompletedHasRecord
INVARIANT ReadersAgree
INVARIANT FailingNeverPays
INVARIANT AbortsExplained
PROPERTY StudyEnds
