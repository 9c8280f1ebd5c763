SPECIFICATION Spec
CONSTANTS
  Lefts <- MCLefts
  Rights <- MCRights
  Keys <- MCKeys
  Hashes <- MCHashes
  Partitions <- MCPartitions
  ColumnOrder <- MCColumnOrder
  NoKey = NoKey
INVARIANTS
  EveryPairOnce
  OneBucketKeepsTheOrder
  NoValueIsLost
\* The join is over after the last bucket.
CHECK_DEADLOCK FALSE
