SPECIFICATION Spec
CONSTANTS
  None = None
  p1 = p1  p2 = p2  p3 = p3  r1 = r1  r2 = r2
  Wallet = {"w1"}
  Player = {"alice"}
  Currency = {"BRL"}
  Round = {"rd"}
  Ext = {"bet", "refund", "self", "win"}
  Key = {"ka", "kb", "kc", "kd"}
  Commands <- PendingCommands
  Openings <- AliceFunded
  MaxInt = 3
  RetryDelay = 1
  MaxRetryDelay = 2
  ReferenceTTL = 2
  Skew = 1
  MaxTime = 3
  Processor = {p1}
  Resolver = {r1}
SYMMETRY Symmetric
INVARIANTS
  LastAttemptExpires
