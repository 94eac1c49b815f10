SPECIFICATION Spec
CONSTANTS
  g1 = g1
  r1 = r1
  Listener = Listener
  Restorer = Restorer
  None = None
  Gateways = {g1}
  Requests = {r1}
  RecoveryMode = TRUE
  MaxId = 1
  MaxFaults = 0
  MaxEvents = 0
  MaxCrashes = 1
  MaxGone = 1
CHECK_DEADLOCK FALSE
INVARIANTS
  RunningIsNotBlocked
