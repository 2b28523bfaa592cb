SPECIFICATION Spec
CONSTANTS
  NumFiles = 2
  Names <- MCNames
  Chains = {1, 2, 3, 4}
  NumSlots = 5
  PerFile = 2
  LfnSlots = 2
  TildeNames = {"n1"}
  NextName <- MCNextName
  MaxTries = 1
  Volumes <- MCVolumes
  Paths <- MCPaths
  Dests <- MCDests
  Sought = {"d", "f"}
  NewNames = {"END", "n1"}
  MaxCalls = 3
  MaxFaults = 1
PROPERTY WrongPathHarmless
CHECK_DEADLOCK FALSE
