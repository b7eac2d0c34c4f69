SPECIFICATION Spec
CONSTANTS
  Setters = {s1, s2}
  Waiters = {w1, w2, w3}
  Free = Free
INVARIANTS
  TypeOK
  NoLostWakeup
PROPERTY ImplementsEvent
