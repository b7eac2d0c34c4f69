SPECIFICATION Spec
CONSTANTS
  Titles = {git, files}
  Inputs = {x}
  Sizes = {2, 3}
  MaxMatches = 4
  MaxScans = 2
  MaxQueued = 2
INVARIANTS
  TypeOK
  EnterOpensHighlighted
  ScanningIsPolled
PROPERTIES
  ScanShown
  TimerStops
