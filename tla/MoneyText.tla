------------------------------- MODULE MoneyText ------------------------------
(***************************************************************************)
(* Money as text: Money.String and ParseMoney of internal/domain/money.go. *)
(*                                                                         *)
(* A text is its sign, its whole part and its two fraction digits; texts   *)
(* of any other shape are refused by ParseMoney before a number is looked  *)
(* at.  Amounts are int64 cents, bounded by MaxInt.                        *)
(***************************************************************************)
EXTENDS Integers

CONSTANTS
  MaxInt,         \* math.MaxInt64
  None            \* an error

ASSUME MoneyAssumption == MaxInt \in Nat /\ None \notin Int

Text == [minus: BOOLEAN, whole: Nat, fraction: 0..99]

\* The number a text denotes.
Cents(text) ==
  (IF text.minus THEN -1 ELSE 1) * (100 * text.whole + text.fraction)

\* Go's integer division and remainder by 100 truncate towards zero.
Whole(amount) == IF amount >= 0 THEN amount \div 100 ELSE -((-amount) \div 100)

Remainder(amount) == amount - 100 * Whole(amount)

\* Variant: no case of its own for amounts between -1.00 and 0.00.
StringOfParts(amount) ==
  [minus |-> Whole(amount) < 0,
   whole |-> IF amount < 0 THEN -Whole(amount) ELSE Whole(amount),
   fraction |-> IF amount < 0 THEN -Remainder(amount) ELSE Remainder(amount)]

\* Money.String: %d prints the sign of the whole part, which -0.05 has lost.
String(amount) ==
  IF amount >= 0
  THEN [minus |-> FALSE, whole |-> Whole(amount), fraction |-> Remainder(amount)]
  ELSE IF Whole(amount) = 0
       THEN [minus |-> TRUE, whole |-> 0, fraction |-> -Remainder(amount)]
       ELSE [minus |-> Whole(amount) < 0, whole |-> -Whole(amount),
             fraction |-> -Remainder(amount)]

\* A sign is not a digit; the check precedes the product, which cannot overflow
\* then.
ParseMoney(text) ==
  IF text.minus \/ text.whole > (MaxInt - text.fraction) \div 100 THEN None
  ELSE text.whole * 100 + text.fraction
=============================================================================
