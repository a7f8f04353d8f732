SPECIFICATION Spec
CONSTANTS
  NULL = NULL
  Junk = Junk
  Handles = {h1, h2}
  Values = {v1, v2}
  MaxSize = 4
  MaxShared = 2
  MaxAlloc = 13
SYMMETRY ListSymmetry
INVARIANT TypeOK
 
 
INVARIANT WriterIsAlone
PROPERTY ImplementsValues
