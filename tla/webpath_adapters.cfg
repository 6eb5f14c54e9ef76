SPECIFICATION FairSpec
CONSTANTS
  Hostnames = {"valid", "invalid"}
  URLs = {"https_a", "http_a", "https_b", "http_b"}
  InitialURL = "https_a"
  FallbackURL = "http_a"
  RedirectLimit = 2
  CandidateLimit = 1
  CallerErrors = {"canceled", "deadline"}
  AnyAdapter = TRUE
  Answers <- TwoAnswers
INVARIANTS EmittedResultValid ChainsNeverRevisit
PROPERTIES Terminates IsBounded
