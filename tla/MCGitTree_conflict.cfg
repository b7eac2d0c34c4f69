SPECIFICATION Spec
CONSTANTS
  Universe <- MCUniverse
  Base <- MCBase
  ScanDirs <- MCScanDirs
INVARIANTS
  InBounds
CHECK_DEADLOCK FALSE
