SPECIFICATION SendSpec
CONSTANTS
  Fds = {5, 6}
  MaxConns = 2
CHECK_DEADLOCK FALSE
INVARIANT NothingLost
PROPERTIES UsesItsOwn EndIsKnownOnceOpen
