SPECIFICATION Spec
CONSTANTS
  a = a
  b = b
  Value = {a, b}
  EntriesPerSec = 2
  FatSecs = 3
  WinSecs = 2
INVARIANTS
  TypeOK
  WindowCovers
  Coherent
PROPERTIES
  BeyondKept
  ImplementsTable
