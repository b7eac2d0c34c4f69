SPECIFICATION Spec
CONSTANTS
  Universe <- MCUniverse
  Base <- MCBase
  ScanDirs <- MCScanDirs
INVARIANTS
  TypeOK
  OnlyConflictsStray
  RoundTrip
  FoldersShared
  CancelStops
  RelativeLeadsToFile
CHECK_DEADLOCK FALSE
