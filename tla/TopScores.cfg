SPECIFICATION Spec
CONSTANTS
  MaxSize = 5
  NumFiles = 7
  Scores = {20, 50, 70}
  None = None
INVARIANTS
  TypeOK
  BestKept
  RankedBest
CHECK_DEADLOCK FALSE
