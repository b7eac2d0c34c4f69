SPECIFICATION SafetySpec
CONSTANTS
  Paths = {p1, p2}
  NULL = NULL
  DANGLING = DANGLING
  MaxFiles = 1
  MaxEdits = 0
  MaxLeaks = 1
  CallsApart = FALSE
SYMMETRY PathSymmetry
INVARIANT CleanupSafe
CHECK_DEADLOCK FALSE
