SPECIFICATION FairSpec
CONSTANTS
  b1 = b1
  b2 = b2
  f1 = f1
  f2 = f2
  Blank = Blank
  NoItem = NoItem
  Posts = {b1, b2}
  Factories = {f1, f2}
  RawLists <- MCRawLists
  Concurrency = 2
  MaxFaults = 2
CHECK_DEADLOCK FALSE
INVARIANTS
  TypeOK
  NoSilentConsumption
  OneGatewayPerFactory
PROPERTIES
  PromiseSpec
  BulkReturns
