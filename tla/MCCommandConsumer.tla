--------------------------- MODULE MCCommandConsumer --------------------------
(***************************************************************************)
(* Small instances of CommandConsumer.  The producers have sent one of a   *)
(* few mails, each of which puts a different identity or order at risk.    *)
(***************************************************************************)
EXTENDS CommandConsumer, TLC

CONSTANTS c1, c2

Sent(id, wallet, key, req) ==
  [id |-> id, wallet |-> wallet, key |-> key, req |-> req, wellFormed |-> TRUE]

Malformed(id, wallet) ==
  [id |-> id, wallet |-> wallet, key |-> "k1", req |-> "x", wellFormed |-> FALSE]

\* Two commands of one wallet.
InOrder == <<Sent("a", "w1", "k1", "x"), Sent("b", "w1", "k2", "y")>>

\* One command under two message ids, the second after the deduplication window
\* of the first or from another producer.
SameCommand == <<Sent("a", "w1", "k1", "x"), Sent("b", "w1", "k1", "x")>>

\* One message sent twice.
SameMessage == <<Sent("a", "w1", "k1", "x"), Sent("a", "w1", "k1", "x")>>

\* A message id reused for another command of another wallet.
ReusedId == <<Sent("a", "w1", "k1", "x"), Sent("a", "w2", "k2", "y")>>

\* An idempotency key reused for another request.
ReusedKey == <<Sent("a", "w1", "k1", "x"), Sent("b", "w2", "k1", "y")>>

\* A malformed message in front of a good one.
PoisonFirst == <<Malformed("a", "w1"), Sent("b", "w1", "k2", "y")>>

TwoMails == {InOrder, SameCommand, SameMessage, ReusedId, ReusedKey, PoisonFirst}

LiveMails == {PoisonFirst, SameMessage}

Symmetric == Permutations({c1, c2})
=============================================================================
