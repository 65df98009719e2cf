SPECIFICATION Spec
CONSTANTS
  Fds = {0, 1, 2}
  MaxLen = 3
  Behind = 1
INVARIANTS HoldsItsOwn NothingLost WriteIsTrue
