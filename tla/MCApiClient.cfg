SPECIFICATION Spec
CONSTANTS
  Methods <- MCMethods
  Statuses <- MCStatuses
  RetryAfterSeconds <- MCRetryAfterSeconds
  MaxRetries = 2
  MaxRedirects = 2
  ReadTimeout = 1
  WriteTimeout = 3
  BackoffInitial = 1
  BackoffInitial429 = 2
  BackoffMax = 2
  RetryAfterCap = 2
  MaxRetryAfter = 4
INVARIANTS
  TypeOK
  WriteAtMostOnce
  RejectedWriteStaysUndone
  CallWithinBudget
PROPERTIES
  CallReturns
  ImplementsApiCall
CHECK_DEADLOCK FALSE
