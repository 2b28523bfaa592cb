SPECIFICATION Spec
CONSTANTS
  ClusSize = 3
  FileSizes = {0, 5, 6, 11, 12}
  Chains <- MCChains
  ListSize = 2
  SeekListSize = 2
  BufLen = 9
  MaxRead = 8
  MaxFaults = 2
INVARIANTS
  TypeOK
  CursorFollows
PROPERTIES
  ReadIsFile
  SeekFinds
  EnoughIsRead
