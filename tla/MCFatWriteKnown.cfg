SPECIFICATION Spec
CONSTANTS
  f1 = f1
  f2 = f2
  Files = {f1, f2}
  CntDataClus = 7
  MinAdj0 = 4
  FreeClSize = 2
  ListSize = 2
  TempListSize = 1
  ReviveAt = 1
  RevivedMin = 1
  Preload <- MCPreload
  BadClusters = {8}
  MaxWrite = 3
  MaxCalls = 3
  None = None
  MaxFaults = 0
PROPERTY UpdateMakesKnown
