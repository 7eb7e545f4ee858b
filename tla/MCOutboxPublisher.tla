--------------------------- MODULE MCOutboxPublisher --------------------------
(***************************************************************************)
(* Small instances of OutboxPublisher: a refund that waited for its        *)
(* reference and was then processed, beside a wager that is processed at   *)
(* once.                                                                   *)
(***************************************************************************)
EXTENDS OutboxPublisher, TLC

CONSTANTS o1, o2

Waited == [a \in {"refund"} |-> <<{"pending"}, {"processed", "changed"}>>]

TwoAndPoison ==
  [a \in {"refund", "loss"} |->
     IF a = "refund" THEN <<{"pending"}, {"processed"}>> ELSE <<{"lost"}>>]

Symmetric == Permutations({o1, o2})
=============================================================================
