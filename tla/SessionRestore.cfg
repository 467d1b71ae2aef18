SPECIFICATION Spec
CONSTANTS
  main = main side = side
  Own = Own Garbage = Garbage Nothing = Nothing Truncated = Truncated
  Contexts <- MCContexts
  Default = main
  PoolSize = 2
  MaxNow = 2
INVARIANTS RestoreEnsured
