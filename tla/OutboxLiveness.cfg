SPECIFICATION FairSpec
CONSTANTS
  None = None
  o1 = o1  o2 = o2
  Publisher = {o1}
  Aggregate = {"refund", "loss"}
  Event = {"pending", "processed", "lost"}
  Lifecycle <- TwoAndPoison
  Poison = {"lost"}
  BatchSize = 1
  RetryBase = 1
  MaxRetry = 2
  Ahead = 1
  MaxAttempts = 2
  MaxCopies = 1
PROPERTIES
  EventuallyPublished
