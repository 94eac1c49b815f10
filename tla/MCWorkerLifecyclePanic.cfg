SPECIFICATION Spec
CONSTANTS
  c1 = c1
  Callers = {c1}
  MaxLives = 1
CHECK_DEADLOCK FALSE
INVARIANTS
  NoPanic
