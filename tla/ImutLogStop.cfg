SPECIFICATION Spec
CONSTANTS
  FLUSH_THRESHOLD = 3
  MaxPosts = 2
  MaxDrains = 1
  WorkerMayFail = FALSE
CHECK_DEADLOCK FALSE
INVARIANTS StopFlushes
