SPECIFICATION FairSpec
CONSTANTS
  Senders = {s1, s2}
  MsgSize = 3
  Capacity = 2
  MaxMsgs = 2
CHECK_DEADLOCK FALSE
INVARIANTS StreamIsExact FramesAreMessages
PROPERTIES SendReturns
