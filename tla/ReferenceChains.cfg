SPECIFICATION Spec
CONSTANTS
  None = None
  p1 = p1  p2 = p2  p3 = p3  r1 = r1  r2 = r2
  Wallet = {"w1"}
  Player = {"alice"}
  Currency = {"BRL"}
  Round = {"rd"}
  Ext = {"bet", "win", "refund", "undo", "late"}
  Key = {"ka", "kb", "kc", "kd", "ke"}
  Commands <- ChainCommands
  Openings <- AliceScarce
  MaxInt = 4
  RetryDelay = 1
  MaxRetryDelay = 2
  ReferenceTTL = 2
  Skew = 0
  MaxTime = 1
  Processor = {p1}
  Resolver = {r1, r2}
SYMMETRY Symmetric
INVARIANTS
  TypeOK
  OneMovementPerWager
  OutboxTellsState
  ForeignKeyNeverWaits
  ClaimIsCurrent
  SchemaAccepts
PROPERTIES
  MoneyMovesByEntry
  RefusalsAreFounded
