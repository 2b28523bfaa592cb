SPECIFICATION Spec
CONSTANTS
  NumFiles = 2
  Names <- MCNames
  Chains = {1, 2, 3, 4}
  NumSlots = 5
  PerFile = 2
  LfnSlots = 2
  TildeNames = {"n1"}
  NextName <- MCNextName
  MaxTries = 1
  Volumes <- MCVolumes
  Paths <- MCPaths
  Dests <- MCDests
  Sought = {"d", "f"}
  NewNames = {"END", "n1"}
  MaxCalls = 4
  MaxFaults = 1
INVARIANTS
  TypeOK
  HeldFound
  TreeSound
PROPERTIES
  SyncSucceeds
  EntriesKept
CHECK_DEADLOCK FALSE
