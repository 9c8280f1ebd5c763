SPECIFICATION Spec
CONSTANTS
  Messages <- MCMessages
  Calls <- MCCalls
  Workloads <- MCWorkloads
  Content <- MCContent
  DatasetOf <- MCDatasetOf
  Roots <- MCRoots
  RequireGrant = TRUE
  MaxConcurrent = 1
  Refreshing = TRUE
  Revocable <- MCRevocable
  MaxCopies = 2
  MaxDeliveries = 2
  MaxCrashes = 1
  NoAnswer = NoAnswer
INVARIANTS
  TypeOK
  PermitsAccounted
  LearnedRevocationsBind
  DataOnlyOnGrant
PROPERTIES
  RevocationsArrive
  RequestsAreReplied
  ImplementsHostCall
\* When every call has ended, nothing more need happen.
CHECK_DEADLOCK FALSE
