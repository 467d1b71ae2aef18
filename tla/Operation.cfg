SPECIFICATION FairSpec
CONSTANTS
  composed = composed keeper = keeper unchecked = unchecked empty = empty
  Pipelines <- MCPipelines
  StepsOf <- MCStepsOf
  MaxRetriesOption <- MCMaxRetriesOption
  SelfChecking <- MCSelfChecking
  SkipPostCheck <- MCSkipPostCheck
INVARIANTS RetryBudget
PROPERTIES ImplementsOutcome Terminates HouseKeepingRecovers
