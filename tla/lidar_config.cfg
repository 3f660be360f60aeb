CONSTANTS
  HandleCount = 3
  ConfigCount = 1
  SlotCount = 2
  Options <- TwoOptions
  MaxChanges = 2
  MaxFaults = 2
SPECIFICATION Spec
CHECK_DEADLOCK FALSE
INVARIANT DevicesApart
INVARIANT SamplingConfigured
INVARIANT BitsAwaited
PROPERTY SamplingStarts
PROPERTY PutToWork
