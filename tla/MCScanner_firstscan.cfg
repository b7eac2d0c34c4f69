SPECIFICATION SafetySpec
CONSTANTS
  Paths = {p1, p2}
  NULL = NULL
  DANGLING = DANGLING
  MaxFiles = 1
  MaxEdits = 0
  MaxLeaks = 1
  CallsApart = TRUE
SYMMETRY PathSymmetry
INVARIANT ShowsFirstScan
CHECK_DEADLOCK FALSE
