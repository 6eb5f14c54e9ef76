SPECIFICATION FairSpec
CONSTANTS
  TargetLimit = 3
  RequestTargetLimit = 3
  ConcurrencyLimit = 2
  AttemptLimit = 2
  BackoffMin = 1
  BackoffMax = 2
  Delays = {1}
  Codes <- ProductionCodes
  Sources = {go}
  MaxUnique = 3
  Production = TRUE
INVARIANTS ProductionNeverFails RetryPolicy
PROPERTIES Terminates CancelEndsBatch
