SPECIFICATION SafeSpec
CONSTANTS
  ClusterStatuses <- MCClusterStatuses
  FirstStatuses <- MCFirstStatuses
  Lifecycle <- MCLifecycle
  Timeouts <- MCTimeouts
  DefaultTimeout = 3
  ReadBudget = 2
  TickInterval = 1
INVARIANT
  WaitPrintsTheKey
CHECK_DEADLOCK FALSE
