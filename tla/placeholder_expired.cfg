SPECIFICATION Spec
CONSTANTS
  Requests = {r1, r2}
  CallerErrors = {"canceled", "deadline"}
  EndedAtStart = {"canceled", "deadline"}
  InjectedOutcomes = {}
INVARIANT EmittedResultValid
