SPECIFICATION Spec
CONSTANTS
  Kinds = {"bdhdd", "bdh8b16", "bdfile", "bdfile64"}
  LowSecs = 6
  LongSecs = 8
  SecCntMax = 4
  ErrRepCnt = 2
  Drives <- MCDrives
  Asked <- MCAsked
  FileSecs = 4
  MaxCalls = 4
  MaxFaults = 2
INVARIANTS
  TypeOK
  GetDelivers
  PutStored
  FailsForCause
  SendsToIdle
PROPERTIES
  PutConfined
  CallsReturn
CHECK_DEADLOCK FALSE
