SPECIFICATION FairSpec
CONSTANTS
  Hostnames = {"valid", "invalid"}
  Addresses <- SomeAddresses
  Lists <- SomeLists
  CandidateLimit = 2
  Adapters = {"go", "other"}
  CallerErrors = {"canceled", "deadline"}
  AnyAdapter = FALSE
INVARIANTS EmittedResultValid Balanced
PROPERTIES IsBounded CancellationWins Terminates
