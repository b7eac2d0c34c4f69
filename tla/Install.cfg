SPECIFICATION Spec
CONSTANTS
  Editors = {e1, e2}
  MaxVersion = 2
  MaxFaults = 2
INVARIANTS
  TypeOK
  VersionVouches
  LoadedWhole
PROPERTY GetsInstalled
