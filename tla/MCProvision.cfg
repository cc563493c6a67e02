SPECIFICATION Spec
CONSTANTS
  ClusterStatuses <- MCClusterStatuses
  FirstStatuses <- MCFirstStatuses
  Lifecycle <- MCLifecycle
  Timeouts <- MCTimeouts
  DefaultTimeout = 3
  ReadBudget = 2
  TickInterval = 1
INVARIANTS
  TypeOK
  CreatedClusterIsNamed
  KeySpentOnlyAtReady
  OverrunIsBounded
  StillProvisioningIsTrue
PROPERTIES
  CommandIsOneCall
  CommandEnds
CHECK_DEADLOCK FALSE
