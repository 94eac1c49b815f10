SPECIFICATION FairSpec
CONSTANTS
  c1 = c1
  c2 = c2
  Callers = {c1, c2}
  MaxLives = 2
CHECK_DEADLOCK FALSE
INVARIANTS
  TypeOK
  SingleLoop
  StateAgrees
PROPERTIES
  CloseAfterLoop
  StopReturns
  CancelledEnds
