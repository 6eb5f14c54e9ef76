SPECIFICATION Spec
CONSTANTS
  Requests = {"valid", "invalid"}
  Names = {"a", "b", "c", "d"}
  Origin = "a"
  Root = "."
  NoAlias = "none"
  CanonicalNames = {"b", "."}
  BindingRecords <- SomeRecords
  resolver = resolver
  other = other
  Adapters = {resolver}
  Unselected = "unselected"
  AnyObserver = FALSE
  AliasLimit = 2
  ServiceTargetLimit = 2
  CallerErrors = {"canceled"}
INVARIANT CancellationIsReported
