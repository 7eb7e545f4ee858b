----------------------------- MODULE MCWalletReads ----------------------------
(***************************************************************************)
(* A small instance of WalletReads.  MaxInt = 305 makes 3.05 the largest   *)
(* amount and 3.06 the first that ParseMoney refuses.                      *)
(***************************************************************************)
EXTENDS WalletReads

Sent(whole, fraction) == [minus |-> FALSE, whole |-> whole, fraction |-> fraction]

ClientTexts ==
  {Sent(0, 5), Sent(3, 5), Sent(3, 6), [Sent(0, 5) EXCEPT !.minus = TRUE]}
=============================================================================
