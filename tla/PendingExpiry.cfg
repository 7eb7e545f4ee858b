SPECIFICATION FairSpec
CONSTANTS
  None = None
  p1 = p1  p2 = p2  p3 = p3  r1 = r1  r2 = r2
  Wallet = {"w1"}
  Player = {"alice"}
  Currency = {"BRL"}
  Round = {"rd"}
  Ext = {"bet", "refund", "self", "win"}
  Key = {"ka", "kb", "kc", "kd"}
  Commands <- PendingCommands
  Openings <- AliceFunded
  MaxInt = 3
  RetryDelay = 2
  MaxRetryDelay = 2
  ReferenceTTL = 3
  Skew = 0
  MaxTime = 3
  Processor = {p1}
  Resolver = {r1}
INVARIANTS
  PendingIsScheduled
  LastAttemptExpires
  ExpiryIsDue
PROPERTIES
  PendingEnds
