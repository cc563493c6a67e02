SPECIFICATION Spec
CONSTANTS
  c1 = c1
  c2 = c2
  c3 = c3
  NoOne = NoOne
  Callbacks <- MCCallbacks
INVARIANTS
  TypeOK
  CompletePageIsTrue
  CodeIsOurs
PROPERTY
  LoginEnds
CHECK_DEADLOCK FALSE
