SPECIFICATION FairSpec
CONSTANTS
  FLUSH_THRESHOLD = 3
  MaxPosts = 7
  MaxDrains = 2
  WorkerMayFail = TRUE
CHECK_DEADLOCK FALSE
INVARIANTS NothingLostWhileLive BoundedExposure ManifestExact
PROPERTIES DrainIsBarrier ImplementsAppendLog DrainFlushes
