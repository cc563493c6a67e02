SPECIFICATION SafeSpec
CONSTANTS
  Methods <- MCMethods
  Statuses <- MCStatuses
  RetryAfterSeconds <- MCRetryAfterSeconds
  MaxRetries = 2
  MaxRedirects = 2
  ReadTimeout = 1
  WriteTimeout = 3
  BackoffInitial = 1
  BackoffInitial429 = 2
  BackoffMax = 2
  RetryAfterCap = 2
  MaxRetryAfter = 4
INVARIANT
  NoResponseMeansNotAccepted
CHECK_DEADLOCK FALSE
