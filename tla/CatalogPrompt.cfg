SPECIFICATION SafeSpec
CONSTANTS
  w1 = w1
  w2 = w2
  w3 = w3
  Absent = Absent
  NoFile = NoFile
  Writers <- ThreeWriters
  Names <- MCNames
  Op <- MCOp
  Crashing <- NoWriter
  Slow <- NoWriter
  LockSticks = FALSE
  PowerCuts = FALSE
INVARIANT MutualExclusion
PROPERTY ImplementsAtomicCatalog
\* Every call of mutate ends, and then nothing is left to do.
CHECK_DEADLOCK FALSE
