SPECIFICATION FairSpec
CONSTANTS
  Consumers = {c1, c2}
  Items = {i1, i2, i3}
  NoItem = NoItem
  MaxSize = 1
  RateLimit = 0
  TicksPerSec = 1
  StartTime = 1001
  MaxTime = 1001
INVARIANTS NoLostWakeup
PROPERTIES ChannelSpec ItemsAreServed TimedPopReturns
