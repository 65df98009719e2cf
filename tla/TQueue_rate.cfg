SPECIFICATION Spec
CONSTANTS
  Consumers = {c1, c2}
  Items = {i1, i2}
  NoItem = NoItem
  MaxSize = 1
  RateLimit = 2
  TicksPerSec = 6
  StartTime = 6006
  MaxTime = 6023
SYMMETRY Symmetry
VIEW View
INVARIANT RateKept
