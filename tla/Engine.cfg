SPECIFICATION Spec
CONSTANTS
  h1 = h1
  h2 = h2
  h3 = h3
  NoReport = NoReport
  Shards <- MCShards
  Cids <- MCCids
  Cid <- MCCid
  Hosts <- MCHosts
  Partials <- MCPartials
  EmptyPartial = "none"
  Truth <- MCTruth
  GroupsOf <- MCGroupsOf
  Prunable <- MCPrunable
  Declared <- MCDeclared
  Jobs <- MCJobs
INVARIANTS
  TypeOK
  NeverSilentlyWrong
  VerifiedOutvotesLiars
  HonestQuorumIsServed
  GivesUpOnlyWhenSpent
  CallsFollowRanking
  WindowKeptFull
  DiagnosticsAddUp
PROPERTIES
  Terminates
  ImplementsQueryOutcome
\* A run ends: the last state of every behaviour has no successor.
CHECK_DEADLOCK FALSE
