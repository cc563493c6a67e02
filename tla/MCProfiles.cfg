SPECIFICATION Spec
CONSTANTS
  p1 = p1
  p2 = p2
  work = work
  play = play
  Default = Default
  Procs <- MCProcs
  Names <- MCNames
  MaxCreated = 2
SYMMETRY Symmetry
INVARIANTS
  TypeOK
  ActiveExists
  LoneReportsAreTrue
  LoneCredentialsBelong
CHECK_DEADLOCK FALSE
