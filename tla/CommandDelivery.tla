---------------------------- MODULE CommandDelivery ---------------------------
(***************************************************************************)
(* What the SQS side of the platform promises of the commands on           *)
(* wager-transactions.fifo, whoever processes them and whatever fails:     *)
(*                                                                         *)
(*   - a command is recorded at most once, and its record never changes;   *)
(*   - a message counts as handled, and leaves the queue for good, only    *)
(*     when the very command it carries is recorded;                       *)
(*   - every other message ends on the dead-letter queue, where it stays.  *)
(*                                                                         *)
(* A dead message may still be recorded: nothing takes back the work of a  *)
(* consumer that was slower than the redrive policy.                       *)
(***************************************************************************)

CONSTANTS
  Message,        \* positions of the messages on the queue
  Mails,          \* what the producers may have sent: Message -> envelope
  Key,            \* idempotency keys
  Request,        \* wager requests
  None            \* nothing is recorded under a key

VARIABLES
  mail,           \* the envelope of every message
  outcome,        \* waiting, handled or dead
  recorded        \* the request recorded under each key

vars == <<mail, outcome, recorded>>

Init ==
  /\ mail \in Mails
  /\ outcome = [m \in Message |-> "waiting"]
  /\ recorded = [k \in Key |-> None]

\* A command of some channel is recorded under a free key.
Record(k) ==
  /\ recorded[k] = None
  /\ \E r \in Request : recorded' = [recorded EXCEPT ![k] = r]
  /\ UNCHANGED <<mail, outcome>>

Handle(m) ==
  /\ outcome[m] = "waiting"
  /\ recorded[mail[m].key] = mail[m].req
  /\ outcome' = [outcome EXCEPT ![m] = "handled"]
  /\ UNCHANGED <<mail, recorded>>

Bury(m) ==
  /\ outcome[m] = "waiting"
  /\ outcome' = [outcome EXCEPT ![m] = "dead"]
  /\ UNCHANGED <<mail, recorded>>

Next ==
  \/ \E k \in Key : Record(k)
  \/ \E m \in Message : Handle(m) \/ Bury(m)

Spec == Init /\ [][Next]_vars
=============================================================================
