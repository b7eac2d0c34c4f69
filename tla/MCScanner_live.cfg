SPECIFICATION Spec
CONSTANTS
  Paths = {p1, p2}
  NULL = NULL
  DANGLING = DANGLING
  MaxFiles = 1
  MaxEdits = 1
  MaxLeaks = 1
  CallsApart = TRUE
PROPERTIES
  CallsReturn
  ScansEnd
  ImplementsService
