SPECIFICATION FairSpec
CONSTANTS
  top = top sub = sub leaf = leaf vault = vault inner = inner
  byName = byName byPrefix = byPrefix w1 = w1
  NoPath = NoPath
  Paths <- MCPaths
  Dirs <- MCDirs
  Parent <- MCParent
  Ancestors <- MCAncestors
  Depth <- MCDepth
  Unreadable <- MCUnreadable
  Rules <- MCRules
  RuleType <- MCRuleType
  Matches <- MCMatches
  Defaults <- MCDefaults
  Walks <- MCWalks
  RootOf <- MCRootOf
  MaxCalls = 1
  MaxChanges = 2
INVARIANTS MetricsAgree WalkExact
PROPERTIES WalkEnds
CHECK_DEADLOCK FALSE
