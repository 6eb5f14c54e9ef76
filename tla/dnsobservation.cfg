SPECIFICATION FairSpec
CONSTANTS
  Names = {"h", "b", "c"}
  Hostname = "h"
  Unhostable = {}
  MaxRecords = 3
  CallerErrors = {"canceled", "deadline"}
  Inputs <- SomeInputs
  Responses <- SomeResponses
INVARIANTS EmittedResultValid ChainEndIsReached OwnCloseNotBlamed
PROPERTY EndedAttemptReturns
