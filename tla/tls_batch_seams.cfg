SPECIFICATION Spec
CONSTANTS
  TargetLimit = 2
  RequestTargetLimit = 3
  ConcurrencyLimit = 2
  AttemptLimit = 2
  BackoffMin = 1
  BackoffMax = 2
  Delays = {1, 3}
  Codes <- SeamCodes
  Sources = {s1, s2}
  MaxUnique = 4
  Production = FALSE
INVARIANTS EmittedResultValid TargetsOwned CancelledOnlyByCaller FaultIsRecorded
PROPERTIES ImplementsContract
