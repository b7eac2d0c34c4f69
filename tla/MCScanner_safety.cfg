SPECIFICATION SafetySpec
CONSTANTS
  Paths = {p1, p2}
  NULL = NULL
  DANGLING = DANGLING
  MaxFiles = 2
  MaxEdits = 2
  MaxLeaks = 2
  CallsApart = TRUE
SYMMETRY PathSymmetry
INVARIANTS
  TypeOK
  MemorySafe
  CleanupSafe
  AnswersCurrent
  DoneMeansFresh
  CountExact
  NoLostSignal
  CleanRestart
