SPECIFICATION FairSpec
CONSTANTS
  g1 = g1
  r1 = r1
  Listener = Listener
  Restorer = Restorer
  None = None
  Gateways = {g1}
  Requests = {r1}
  RecoveryMode = TRUE
  MaxId = 2
  MaxFaults = 2
  MaxEvents = 1
  MaxCrashes = 1
  MaxGone = 1
CHECK_DEADLOCK FALSE
INVARIANTS
  RegisteredHasRow
  
PROPERTIES
  CatalogSpec
  RequestsReturn
  EventsHandled
