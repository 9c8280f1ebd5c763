SPECIFICATION Spec
CONSTANTS
  w1 = w1
  w2 = w2
  w3 = w3
  Absent = Absent
  NoFile = NoFile
  Writers <- TwoWriters
  Names <- MCNames
  Op <- MCOp
  Crashing <- TwoWriters
  Slow <- FirstWriter
  LockSticks = FALSE
  PowerCuts = TRUE
INVARIANTS
  TypeOK
  NeverTorn
PROPERTY EveryCallReturns
\* Every call of mutate ends, and then nothing is left to do.
CHECK_DEADLOCK FALSE
