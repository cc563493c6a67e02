SPECIFICATION Spec
CONSTANTS
  w1 = w1
  w2 = w2
  r1 = r1
  v1 = v1
  v2 = v2
  n1 = n1
  n2 = n2
  Path = Path
  None = 0
  Missing = Missing
  Writers <- MCWriters
  Readers <- MCReaders
  Values <- MCValues
  Names <- MCNames
  Inodes <- MCInodes
  Chunks = 2
SYMMETRY Symmetry
INVARIANTS
  TypeOK
  TempHasItsWriter
PROPERTY
  ImplementsFileCell
CHECK_DEADLOCK FALSE
