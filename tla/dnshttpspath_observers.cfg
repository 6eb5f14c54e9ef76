SPECIFICATION Spec
CONSTANTS
  Requests = {"valid", "invalid"}
  Names = {"a", "b", "c", "d"}
  Origin = "a"
  Root = "."
  NoAlias = "none"
  CanonicalNames = {"b", "."}
  BindingRecords <- SomeRecords
  resolver = resolver
  other = other
  Adapters = {resolver, other}
  Unselected = "unselected"
  AnyObserver = TRUE
  AliasLimit = 2
  ServiceTargetLimit = 2
  CallerErrors = {"canceled"}
INVARIANTS EmittedResultValid ChainNeverRevisits FailureOutranksIncomplete PreferredTargets
PROPERTY IsBounded
SYMMETRY Resolvers
