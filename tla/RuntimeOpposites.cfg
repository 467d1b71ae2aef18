SPECIFICATION RuntimeSpec
CONSTANTS
  NoProfile = NoProfile NoSecret = NoSecret
  bucket = bucket shared = shared other = other
  Requests <- MCOneSided
  Secrets <- MCSecrets
  DefaultSecret = shared
  Masks <- MCMasks
  Buckets <- MCBuckets
  Span = 1
  MaxStep = 2
INVARIANTS OppositesResolved
