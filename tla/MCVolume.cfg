SPECIFICATION Spec
CONSTANTS
  NumSecs = 10
  UInt32 = 16
  Fat12Limit = 1
  Fat16Limit = 2
  MaxRootSecs = 2
  Value = {0, 1}
  Disks <- MCDisks
  Images <- MCImages
  MaxMounts = 3
  MaxFaults = 2
INVARIANTS
  TypeOK
  AreasInside
PROPERTIES
  DeviceFreed
  Implements
CHECK_DEADLOCK FALSE
