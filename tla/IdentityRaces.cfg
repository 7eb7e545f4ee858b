SPECIFICATION FairSpec
CONSTANTS
  None = None
  p1 = p1  p2 = p2  p3 = p3  r1 = r1  r2 = r2
  Wallet = {"w1", "w2"}
  Player = {"alice", "bob"}
  Currency = {"BRL", "USD"}
  Round = {"rd"}
  Ext = {"x", "y"}
  Key = {"ka", "kb", "kc"}
  Commands <- IdentityCommands
  Openings <- AliceAndBob
  MaxInt = 5
  RetryDelay = 1
  MaxRetryDelay = 2
  ReferenceTTL = 2
  Skew = 0
  MaxTime = 0
  Processor = {p1, p2}
  Resolver = {}
INVARIANTS
  DuplicatesNeverConflict
  AnswersStayTrue
PROPERTIES
  HistoryIsKept
  ImplementsRecording
  TransactionsEnd
