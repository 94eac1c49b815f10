SPECIFICATION FairSpec
CONSTANTS
  SubCap = 1
  CommandCap = 1
  MaxDeliver = 2
  MaxCommands = 2
CHECK_DEADLOCK FALSE
INVARIANTS
  TypeOK
  AckedNotLost
  ExecutedPerDelivery
  PanicNeedsTeardown
PROPERTIES
  PumpReturns
