SPECIFICATION Spec
CONSTANTS
  Paths = {p, q}
  None = None
  MaxEdits = 1
  MaxSetups = 2
  MaxRefreshes = 2
  MaxQueued = 2
INVARIANTS
  TypeOK
  CompletedMeansCurrent
PROPERTIES
  RefreshReported
  ImplementServices
CHECK_DEADLOCK FALSE
