SPECIFICATION FairSpec
CONSTANTS
  MaxRetries = 2
  Statuses <- MCStatuses
  RetryAfters <- MCRetryAfters
INVARIANTS TypeOK AppliedAtMostOnce RetriesAsAsked
PROPERTIES ImplementsContract Terminates
CHECK_DEADLOCK FALSE
