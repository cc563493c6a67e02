SPECIFICATION Spec
CONSTANTS
  p1 = p1
  p2 = p2
  p3 = p3
  Procs <- MCProcs
  MaxLogins = 2
  MaxRotations = 2
SYMMETRY Symmetry
PROPERTY
  ExpiredMeansNoSession
CHECK_DEADLOCK FALSE
