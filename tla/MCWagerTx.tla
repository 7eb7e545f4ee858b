------------------------------- MODULE MCWagerTx ------------------------------
(***************************************************************************)
(* Small instances of WagerTx.  Each command set below is one scenario; a  *)
(* client may send any command of the set at any time and any number of    *)
(* times, so duplicates and retries are part of every scenario.            *)
(***************************************************************************)
EXTENDS WagerTx, TLC

CONSTANTS p1, p2, p3, r1, r2

Wager(key, ext, wallet, player, kind, amount, ref) ==
  [key |-> key,
   req |-> [ext |-> ext, wallet |-> wallet, player |-> player, currency |-> "BRL",
            round |-> "rd", kind |-> kind, amount |-> amount, ref |-> ref]]

Opening(player, balance) ==
  [player |-> player, currency |-> "BRL", balance |-> balance]

\* Two reversals of one bet, either of which may arrive before the bet.
ReversalCommands ==
  {Wager("ka", "bet",    "w1", "alice", "BET",      2, None),
   Wager("kb", "refund", "w1", "alice", "REFUND",   2, "bet"),
   Wager("kc", "undo",   "w1", "alice", "ROLLBACK", 2, "bet")}

\* The same, and a refund of the bet that is sent for another wallet: what it
\* reads of the bet is not protected by the lock it holds.
CrossCommands ==
  ReversalCommands \cup {Wager("kd", "alien", "w2", "bob", "REFUND", 2, "bet")}

AliceRich == {Opening("alice", 4)}

RichAndBob == {Opening("alice", 4), Opening("bob", 0)}

\* Commands that share a key, an external id or both, across wallets, one in
\* another currency and one that is invalid.
IdentityCommands ==
  {Wager("ka", "x", "w1", "alice", "BET",  1, None),
   Wager("ka", "x", "w2", "bob",   "WIN",  1, None),
   Wager("ka", "y", "w2", "bob",   "WIN",  1, None),
   Wager("kb", "x", "w1", "alice", "BET",  1, None),
   [Wager("kb", "y", "w1", "alice", "BET", 1, None) EXCEPT !.req.currency = "USD"],
   Wager("kc", "y", "w1", "alice", "LOSS", 1, None)}

AliceAndBob == {Opening("alice", 2), Opening("bob", 0)}

\* A win that names its bet, a refund of that bet, the rollback of the refund
\* and a bet that may leave too little for the others.  With MaxInt = 4 balance
\* and version can overflow.
ChainCommands ==
  {Wager("ka", "bet",    "w1", "alice", "BET",      2, None),
   Wager("kb", "win",    "w1", "alice", "WIN",      2, "bet"),
   Wager("kc", "refund", "w1", "alice", "REFUND",   2, "bet"),
   Wager("kd", "undo",   "w1", "alice", "ROLLBACK", 2, "refund"),
   Wager("ke", "late",   "w1", "alice", "BET",      1, None)}

AliceScarce == {Opening("alice", 2)}

\* A bet and its refund, in either order, a win after which the refund
\* overflows (MaxInt = 3 leaves two movements), and a rollback of itself.
PendingCommands ==
  {Wager("ka", "bet",    "w1", "alice", "BET",      2, None),
   Wager("kb", "refund", "w1", "alice", "REFUND",   2, "bet"),
   Wager("kc", "self",   "w1", "alice", "ROLLBACK", 1, "self"),
   Wager("kd", "win",    "w1", "alice", "WIN",      1, None)}

AliceFunded == {Opening("alice", 3)}

Symmetric == Permutations({p1, p2, p3}) \cup Permutations({r1, r2})
=============================================================================
