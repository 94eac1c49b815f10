SPECIFICATION Spec
CONSTANTS
  p1 = p1
  p2 = p2
  Requests = {p1, p2}
  OutlierCap = 1
  MaxSensors = 2
  MaxOutliers = 2
CHECK_DEADLOCK FALSE
INVARIANTS
  TypeOK
  NoOrphans
  SensorsServed
PROPERTIES
  OutliersSpec
