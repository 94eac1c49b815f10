SPECIFICATION FairSpec
CONSTANTS
  Capacity = 3
  MaxSends = 8
CHECK_DEADLOCK FALSE
INVARIANTS
  NoSilentLoss
  NewestKept
PROPERTIES
  StreamSpec
  BufferDrains
