SPECIFICATION FairSpec
CONSTANTS
  guarded = guarded lenient = lenient query = query
  Calls <- MCCalls
  Synchronous <- MCSynchronous
  WithTimeout <- MCCalls
  Cancellable <- MCCancellable
  Rejecting <- MCRejecting
  Obedient <- MCObedient
INVARIANTS VerdictHonest AuditTrail NothingOutstanding ZeroExplained
PROPERTIES TimeoutAnswers
CHECK_DEADLOCK FALSE
