SPECIFICATION Spec
CONSTANTS
  None = None
  EmptyLabel = ""
  Columns <- MCColumns
  Cells <- MCCells
  IntMax = 15
  JsonMin <- MCJsonMin
  JsonMax = 12
  ToFloat <- RoundToTwoBits
  ExactUpTo = 4
  NoLimit = NoLimit
  LabelRank <- MCLabelRank
  Jobs <- MCJobs
INVARIANTS
  PrunedHoldNothing
  CountsAreExact
  ExtremesAreExact
  SumsAreExact
  ResultsAreTheTop
\* A query ends: the last state of every behaviour has no successor.
CHECK_DEADLOCK FALSE
