SPECIFICATION Spec
CONSTANTS
  g1 = g1
  g2 = g2
  r1 = r1
  r2 = r2
  Listener = Listener
  Restorer = Restorer
  None = None
  Gateways = {g1, g2}
  Requests = {r1, r2}
  RecoveryMode = TRUE
  MaxId = 2
  MaxFaults = 1
  MaxEvents = 0
  MaxCrashes = 1
  MaxGone = 1
SYMMETRY Symmetry
CHECK_DEADLOCK FALSE
INVARIANTS
  TypeOK
  RegisteredHasRow
  OwnRowOnly
  EveryRowManaged
  ConnectionsOwned
