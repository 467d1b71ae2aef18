SPECIFICATION PartsSpec
CONSTANTS
  NoProfile = NoProfile NoSecret = NoSecret
  bucket = bucket shared = shared other = other
  Requests <- MCRequests
  Secrets <- MCSecrets
  DefaultSecret = shared
  Masks <- MCMasks
  Buckets <- MCBuckets
  Span = 1
  MaxStep = 2
  main = main side = side
  Own = Own Garbage = Garbage Nothing = Nothing Truncated = Truncated
  Contexts <- MCContexts
  Default = main
  PoolSize = 2
  MaxNow = 2
  laptop = laptop server = server ann = ann bob = bob
  disk = disk stick = stick
  Keys <- MCKeys
  Volumes <- MCVolumes
  MaxEvents = 3
  IV = IV
  BLOCK_LEN = 2
  CHUNK_LEN = 6
  MaxLen = 55
VIEW PartState
INVARIANTS
  ExpiredGraphFresh
  TypeOK HeaderHonest RestoredIsSaved
  ChangesExact AlertsExact
  IncrementalExact StackExact
PROPERTIES GateHolds Isolated
