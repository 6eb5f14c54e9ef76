SPECIFICATION FairSpec
CONSTANTS
  Requests = {r1, r2}
  CallerErrors = {"canceled", "deadline"}
  EndedAtStart = {"canceled"}
  InjectedOutcomes = {"opened", "failed", "invalid"}
INVARIANTS
  EmittedResultValid ListenerReleased CompletedMeansRequested NeverWaitsInVain VerdictHasCause
PROPERTIES Terminates HandlersFinish
