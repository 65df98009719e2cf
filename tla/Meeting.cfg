SPECIFICATION FairPoolSpec
CONSTANTS
  MaxCnt = 2
  MaxThreads = 3
  MaxCount = 2
  Garbage = {0, 3}
  Timed = {1}
CHECK_DEADLOCK FALSE
INVARIANTS OneThreadIsSafe NobodyLeavesAlone NobodyIsLeftBehind
PROPERTIES StopEndsAll
