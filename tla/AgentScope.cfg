SPECIFICATION SafeSpec
CONSTANTS
  Messages <- MCMessages
  Calls <- MCCalls
  Workloads <- LocalNames
  Content <- MCContent
  DatasetOf <- OwnersNames
  Roots <- MCRoots
  RequireGrant = TRUE
  MaxConcurrent = 1
  Refreshing = TRUE
  Revocable <- MCRevocable
  MaxCopies = 2
  MaxDeliveries = 2
  MaxCrashes = 1
  NoAnswer = NoAnswer
INVARIANT GrantCoversShard
\* When every call has ended, nothing more need happen.
CHECK_DEADLOCK FALSE
