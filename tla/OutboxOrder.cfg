SPECIFICATION Spec
CONSTANTS
  None = None
  o1 = o1  o2 = o2
  Publisher = {o1}
  Aggregate = {"refund"}
  Event = {"pending", "processed", "changed"}
  Lifecycle <- Waited
  Poison = {}
  BatchSize = 2
  RetryBase = 1
  MaxRetry = 2
  Ahead = 0
  MaxAttempts = 1
  MaxCopies = 2
SYMMETRY Symmetric
INVARIANTS
  AggregateOrdered
