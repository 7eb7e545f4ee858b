SPECIFICATION Spec
CONSTANTS
  None = None
  p1 = p1  p2 = p2  p3 = p3  r1 = r1  r2 = r2
  Wallet = {"w1", "w2"}
  Player = {"alice", "bob"}
  Currency = {"BRL"}
  Round = {"rd"}
  Ext = {"bet", "refund", "undo", "alien"}
  Key = {"ka", "kb", "kc", "kd"}
  Commands <- CrossCommands
  Openings <- RichAndBob
  MaxInt = 8
  RetryDelay = 1
  MaxRetryDelay = 2
  ReferenceTTL = 2
  Skew = 0
  MaxTime = 1
  Processor = {p1, p2}
  Resolver = {r1}
SYMMETRY Symmetric
INVARIANTS
  HeldIsCurrent
  LedgerExplainsWallet
  ReversalUndoesOnce
  BackstopsStayIdle
PROPERTIES
  ImplementsLedger
