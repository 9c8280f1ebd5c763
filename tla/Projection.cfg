SPECIFICATION Spec
CONSTANTS
  h1 = h1
  h2 = h2
  NoLimit = NoLimit
  NoHost = NoHost
  Shards <- MCShards
  Cids <- MCCids
  Cid <- MCCid
  Hosts <- MCHosts
  Rows <- MCRows
  Key <- MCKey
  Matches <- MCMatches
  Prunable <- MCPrunable
  Declared <- MCDeclared
  Jobs <- MCJobs
INVARIANTS
  AnswerIsFilled
  OrderedAnswerIsTheTop
  TruncationIsTold
PROPERTY Terminates
\* A run ends: the last state of every behaviour has no successor.
CHECK_DEADLOCK FALSE
