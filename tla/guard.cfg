SPECIFICATION MCSpec
CONSTANTS
  Jobs = {1, 2, 3}
  Watched = {1}
  Pids = {1, 2, 3}
  Strangers = TRUE
  Seconds = 1
  Timeout = 1
  Cleanup = 1
  Grace = 3
  Patience = 1
INVARIANTS OneProof PassLeavesNothing OnlyOwn GraceIsEnough
PROPERTIES RunsEnd
CHECK_DEADLOCK FALSE
