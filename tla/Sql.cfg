SPECIFICATION ParserSpec
CONSTANTS
  None = None
  EmptyLabel = ""
  Columns <- MCColumns
  Cells <- MCCells
  Inputs <- MCInputs
  UpperCase <- MCUpperCase
  Numbers <- MCNumbers
  NotFinite <- MCNotFinite
  StringCell <- MCText
  BoolCell <- MCBool
  LimitOf <- MCLimitOf
  Unlimited = Unlimited
INVARIANTS
  ParsesAsWritten
  ReadsLeftToRight
  EveryTokenCounts
\* A parse ends: the last state of every behaviour has no successor.
CHECK_DEADLOCK FALSE
