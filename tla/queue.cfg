CONSTANTS
  p1 = p1
  p2 = p2
  p3 = p3
  none = none
  Packets <- ThreePackets
  Empty = none
  Size = 2
  Wrap = 6
SPECIFICATION Spec
INVARIANT NeverOverfull
INVARIANT SlotsApart
PROPERTY FifoSpec
