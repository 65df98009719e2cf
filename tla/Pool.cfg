SPECIFICATION PoolFairSpec
CONSTANTS
  Servers = {s1, s2, s3}
  MaxList = 3
CHECK_DEADLOCK FALSE
INVARIANTS PoolIsWanted NotStarved
PROPERTIES FailsOnlyIfNoneOpen ComesBack
