------------------------- MODULE CommandConsumerProofs ------------------------
(***************************************************************************)
(* Proofs about CommandConsumer, for any number of consumers and any mail: *)
(* the inbox is exact, commands stay in order, and the consumers implement *)
(* CommandDelivery.                                                        *)
(*                                                                         *)
(* The argument rests on one fact, WritesExclude: while a transaction that *)
(* stores a request is open, its key is free and no other open transaction *)
(* stores under it.  So a stored request is never replaced, and whatever a *)
(* consumer has once concluded from it remains true.                       *)
(***************************************************************************)
EXTENDS CommandConsumer, TLAPS

-----------------------------------------------------------------------------
(* The inductive invariant.                                                  *)

\* The request of message m is stored under its key.
Recorded(m) == wagers[mail[m].key] = mail[m].req

\* Writes w are what COMMIT may carry for message m: a completed inbox row of
\* its very body, and the request, unless that is stored already.
Ready(m, w) ==
  /\ mail[m].wellFormed
  /\ w.row = [hash |-> mail[m], completed |-> TRUE]
  /\ w.store \/ Recorded(m)

\* What a consumer has established of the message in its hand.
Progress(c) ==
  /\ pc[c] \in {"register"} \cup InTransaction => mail[msg[c]].wellFormed
  /\ pc[c] \in {"process", "complete"} =>
       write[c].row = [hash |-> mail[msg[c]], completed |-> FALSE]
  /\ pc[c] = "complete" => write[c].store \/ Recorded(msg[c])
  /\ pc[c] = "commit" => \/ Ready(msg[c], write[c])
                         \/ write[c] = NoWrite /\ Recorded(msg[c])
  /\ pc[c] \in {"delete", "undeleted"} => Recorded(msg[c])

\* A process that has ended has no worker.
Ended == \A c \in Consumer : ctx[c] = "down" => pc[c] = "stopped"

\* The row locks at work: a transaction that stores a request has its key to
\* itself, and the key is free.
WritesExclude ==
  /\ \A c \in Consumer : write[c].store =>
       /\ wagers[mail[msg[c]].key] = None
       /\ \A d \in Consumer \ {c} : write[d].store =>
            mail[msg[d]].key # mail[msg[c]].key
       /\ \A t \in orphans : t.write.store => mail[t.msg].key # mail[msg[c]].key
  /\ \A t \in orphans : t.write.store =>
       /\ wagers[mail[t.msg].key] = None
       /\ \A u \in orphans \ {t} : u.write.store => mail[u.msg].key # mail[t.msg].key

\* Whatever was received, is being committed or was applied was delivered.
Delivered ==
  /\ \A c \in Consumer : pc[c] \in InHand => receives[msg[c]] > 0
  /\ \A t \in orphans : receives[t.msg] > 0
  /\ \A i \in DOMAIN applied : receives[applied[i]] > 0

\* The queue delivers a message after its predecessors of the same group have
\* left, and a message is deleted only when its request is stored.
QueueOrder ==
  /\ \A m, n \in Message :
       receives[m] > 0 /\ n < m /\ mail[n].wallet = mail[m].wallet =>
         status[n] # "queued"
  /\ \A m \in Message : status[m] = "deleted" => Recorded(m)

AppliedIsStored ==
  \A i \in DOMAIN applied : wagers[mail[applied[i]].key] # None

IInv ==
  /\ TypeOK
  /\ Ended
  /\ \A c \in Consumer : Progress(c)
  /\ \A t \in orphans : Ready(t.msg, t.write)
  /\ WritesExclude
  /\ Delivered
  /\ QueueOrder
  /\ AppliedIsStored
  /\ InboxIsExact
  /\ CommandsOrdered

-----------------------------------------------------------------------------
(* What the statements of a transaction do, given the invariant.             *)

\* The fields of a message have their types.
LEMMA MailType ==
  ASSUME TypeOK, NEW m \in Message
  PROVE  /\ mail[m] \in Envelope
         /\ mail[m].id \in MessageId /\ mail[m].key \in Key
         /\ mail[m].req \in Request /\ mail[m].wellFormed \in BOOLEAN
         /\ mail[m].req # None
<1>1. mail[m] \in Envelope
  BY MailAssumption DEF TypeOK
<1> QED BY <1>1, NoneAssumption DEF Envelope

\* A worker with a message in hand holds one of the messages.
LEMMA HandType ==
  ASSUME TypeOK, NEW c \in Consumer, pc[c] \in InHand
  PROVE  msg[c] \in Message
BY DEF TypeOK

\* The inbox row of a body, registered or completed, is a row.
LEMMA RowType ==
  ASSUME NEW b \in Envelope, NEW done \in BOOLEAN
  PROVE  /\ [hash |-> b, completed |-> done] \in InboxRow
         /\ [hash |-> b, completed |-> done] # None
<1>1. [hash |-> b, completed |-> done] \in InboxRow
  BY DEF InboxRow
<1> QED BY <1>1, NoneAssumption

\* A row and a flag make a set of writes.
LEMMA WriteType ==
  ASSUME NEW r \in InboxRow \cup {None}, NEW s \in BOOLEAN
  PROVE  [row |-> r, store |-> s] \in Write
BY DEF Write

\* The writes of a transaction that has written nothing.
LEMMA NoWriteType == NoWrite \in Write /\ NoWrite.row = None /\ NoWrite.store = FALSE
<1>1. NoWrite \in Write
  BY WriteType DEF NoWrite
<1> QED BY <1>1 DEF NoWrite

\* Writes consist of a row and a flag.
LEMMA WriteFields ==
  ASSUME NEW w \in Write
  PROVE  /\ w = [row |-> w.row, store |-> w.store]
         /\ w.row \in InboxRow \cup {None}
         /\ w.store \in BOOLEAN
BY DEF Write

\* What the assignments to one field of the writes yield.
LEMMA WriteUpdate ==
  ASSUME NEW w \in Write, NEW x
  PROVE  /\ [w EXCEPT !.row = x] = [row |-> x, store |-> w.store]
         /\ [w EXCEPT !.store = x] = [row |-> w.row, store |-> x]
BY DEF Write

\* What setting completed_at yields.
LEMMA RowUpdate ==
  ASSUME NEW w \in Write, NEW b \in Envelope, w.row = [hash |-> b, completed |-> FALSE]
  PROVE  [w EXCEPT !.row.completed = TRUE]
           = [row |-> [hash |-> b, completed |-> TRUE], store |-> w.store]
<1> DEFINE y == [hash |-> b, completed |-> TRUE]
<1>1. [w EXCEPT !.row.completed = TRUE]
        = [w EXCEPT !.row = [w.row EXCEPT !.completed = TRUE]]
  OBVIOUS
<1>2. ASSUME NEW r \in InboxRow, NEW v
      PROVE  [r EXCEPT !.completed = v] = [hash |-> r.hash, completed |-> v]
  BY DEF InboxRow
<1>3. w.row \in InboxRow
  BY RowType
<1>4. w.row.hash = b
  BY Z3
<1>5. [w.row EXCEPT !.completed = TRUE] = y
  BY <1>2, <1>3, <1>4, Zenon
<1>6. [w EXCEPT !.row = y] = [row |-> y, store |-> w.store]
  BY WriteUpdate
<1> QED BY <1>1, <1>5, <1>6, Zenon

\* Begin and inbox.Register: a new row for an unknown messageId, straight to the
\* COMMIT for a message that is known and complete, and an error for another
\* body under the same messageId.  The branch for a known message that is not
\* complete is never taken.
LEMMA RegisterEffect ==
  ASSUME IInv, NEW c \in Consumer, Register(c)
  PROVE  /\ pc[c] = "register" /\ write[c] = NoWrite
         /\ \/ /\ pc' = [pc EXCEPT ![c] = "process"]
               /\ write' = [write EXCEPT ![c] =
                    [row |-> [hash |-> mail[msg[c]], completed |-> FALSE], store |-> FALSE]]
            \/ /\ pc' = [pc EXCEPT ![c] = "commit"]
               /\ write' = write
               /\ Recorded(msg[c])
            \/ /\ pc' = [pc EXCEPT ![c] = "failed"]
               /\ write' = write
<1> DEFINE m == msg[c]
           row == inbox[mail[m].id]
           fresh == [hash |-> mail[m], completed |-> FALSE]
<1>1. pc[c] = "register" /\ write[c] = NoWrite
  BY DEF Register, IInv, TypeOK, InTransaction
<1>2. m \in Message
  BY <1>1, HandType DEF IInv, InHand
<1>3. mail[m].id \in MessageId
  BY <1>2, MailType DEF IInv
<1>4. /\ pc' = [pc EXCEPT ![c] = Registered(c, row)]
      /\ write' = IF Registered(c, row) # "process" THEN write
                  ELSE [write EXCEPT ![c].row = IF row # None THEN row ELSE fresh]
  BY DEF Register, Body
<1>5. CASE row = None
  <2>1. Registered(c, row) = "process"
    BY <1>5 DEF Registered
  <2>2. write' = [write EXCEPT ![c] = [write[c] EXCEPT !.row = fresh]]
    BY <1>4, <1>5, <2>1
  <2>3. [write[c] EXCEPT !.row = fresh] = [row |-> fresh, store |-> FALSE]
    <3>1. write[c] \in Write /\ write[c].store = FALSE
      BY <1>1, NoWriteType
    <3>2. [write[c] EXCEPT !.row = fresh] = [row |-> fresh, store |-> write[c].store]
      BY <3>1, WriteUpdate
    <3> QED BY <3>1, <3>2, Zenon
  <2> QED BY <1>1, <1>4, <2>1, <2>2, <2>3
<1>6. CASE row # None /\ row.hash # mail[m]
  <2>1. Registered(c, row) = "failed"
    BY <1>6 DEF Registered, Body
  <2> QED BY <1>1, <1>4, <2>1
<1>7. CASE row # None /\ row.hash = mail[m]
  <2>1. row.completed /\ Recorded(m)
    BY <1>3, <1>7 DEF IInv, InboxIsExact, Recorded
  <2>2. Registered(c, row) = "commit"
    BY <1>7, <2>1 DEF Registered, Body
  <2> QED BY <1>1, <1>4, <2>1, <2>2
<1> QED BY <1>5, <1>6, <1>7

\* inbox.Complete always updates its one row.
LEMMA CompleteEffect ==
  ASSUME IInv, NEW c \in Consumer, Complete(c)
  PROVE  /\ pc[c] = "complete"
         /\ pc' = [pc EXCEPT ![c] = "commit"]
         /\ write' = [write EXCEPT ![c] =
              [row |-> [hash |-> mail[msg[c]], completed |-> TRUE],
               store |-> write[c].store]]
<1> DEFINE open == [hash |-> mail[msg[c]], completed |-> FALSE]
<1>1. pc[c] = "complete" /\ msg[c] \in Message
  BY HandType DEF Complete, IInv, InHand, InTransaction
<1>2. write[c].row = open
  BY <1>1 DEF IInv, Progress
<1>3. open # None /\ open.completed = FALSE
  BY <1>1, MailType, RowType DEF IInv
<1>4. write[c] \in Write /\ mail[msg[c]] \in Envelope
  BY <1>1, MailType DEF IInv, TypeOK
<1>5. /\ pc' = [pc EXCEPT ![c] = "commit"]
      /\ write' = [write EXCEPT ![c] = [write[c] EXCEPT !.row.completed = TRUE]]
  BY <1>2, <1>3 DEF Complete
<1>6. [write[c] EXCEPT !.row.completed = TRUE] =
        [row |-> [hash |-> mail[msg[c]], completed |-> TRUE], store |-> write[c].store]
  BY <1>2, <1>4, RowUpdate
<1> QED BY <1>1, <1>5, <1>6

\* ProcessTx stores under a free key that it has to itself, finds the very
\* request stored, or fails and rolls back.
LEMMA ProcessTxEffect ==
  ASSUME IInv, NEW c \in Consumer, ProcessTx(c)
  PROVE  /\ pc[c] = "process"
         /\ \/ /\ pc' = [pc EXCEPT ![c] = "complete"]
               /\ write' = [write EXCEPT ![c] = [row |-> write[c].row, store |-> TRUE]]
               /\ wagers[mail[msg[c]].key] = None
               /\ \A d \in Consumer \ {c} : write[d].store =>
                    mail[msg[d]].key # mail[msg[c]].key
               /\ \A t \in orphans : t.write.store =>
                    mail[t.msg].key # mail[msg[c]].key
            \/ /\ pc' = [pc EXCEPT ![c] = "complete"]
               /\ write' = write
               /\ Recorded(msg[c])
            \/ /\ pc' = [pc EXCEPT ![c] = "failed"]
               /\ write' = [write EXCEPT ![c] = NoWrite]
<1> DEFINE m == msg[c]
<1>1. pc[c] = "process"
  BY DEF ProcessTx
<1>2. CASE /\ wagers[mail[m].key] = None
           /\ WalletFree(mail[m].wallet, mail[m].key, Others(c))
           /\ write' = [write EXCEPT ![c].store = TRUE]
           /\ pc' = [pc EXCEPT ![c] = "complete"]
  <2>1. [write[c] EXCEPT !.store = TRUE] = [row |-> write[c].row, store |-> TRUE]
    BY WriteUpdate DEF IInv, TypeOK
  <2>2. write' = [write EXCEPT ![c] = [write[c] EXCEPT !.store = TRUE]]
    BY <1>2
  <2>3. ASSUME NEW d \in Consumer \ {c}, write[d].store
        PROVE  mail[msg[d]].key # mail[m].key
    <3>1. pc[d] \in InTransaction
      BY <2>3, NoWriteType DEF IInv, TypeOK
    <3>2. [msg |-> msg[d], write |-> write[d]] \in Others(c)
      BY <3>1 DEF Others
    <3> QED BY <1>2, <2>3, <3>2 DEF WalletFree
  <2>4. ASSUME NEW t \in orphans, t.write.store PROVE mail[t.msg].key # mail[m].key
    BY <1>2, <2>4 DEF WalletFree, Others
  <2> QED BY <1>1, <1>2, <2>1, <2>2, <2>3, <2>4
<1>3. CASE /\ wagers[mail[m].key] = mail[m].req
           /\ pc' = [pc EXCEPT ![c] = "complete"]
           /\ write' = write
  BY <1>1, <1>3 DEF Recorded
<1>4. CASE /\ pc' = [pc EXCEPT ![c] = "failed"]
           /\ write' = [write EXCEPT ![c] = NoWrite]
  BY <1>1, <1>4
<1> QED BY <1>2, <1>3, <1>4 DEF ProcessTx, Body

-----------------------------------------------------------------------------
(* Steps inside a transaction.                                               *)

\* Key k belongs to no open transaction but that of c.
OwnKey(c, k) ==
  /\ wagers[k] = None
  /\ \A d \in Consumer \ {c} : write[d].store => mail[msg[d]].key # k
  /\ \A t \in orphans : t.write.store => mail[t.msg].key # k

\* A statement of c's transaction, or its rollback, keeps the invariant when it
\* justifies where c gets to and stores under no key but its own.
LEMMA TransactionStep ==
  ASSUME IInv, NEW c \in Consumer, NEW q \in InHand, NEW w \in Write,
         pc[c] \in InHand, pc' = [pc EXCEPT ![c] = q], write' = [write EXCEPT ![c] = w],
         UNCHANGED <<mail, msg, ctx, broker, database>>,
         q \notin InTransaction => w = NoWrite,
         Progress(c)',
         w.store => write[c].store \/ OwnKey(c, mail[msg[c]].key)
  PROVE  IInv'
<1> USE DEF broker, database
<1>1. TypeOK'
  BY DEF IInv, TypeOK
<1>2. pc'[c] = q /\ write'[c] = w
  BY DEF IInv, TypeOK
<1>3. ASSUME NEW d \in Consumer \ {c} PROVE pc'[d] = pc[d] /\ write'[d] = write[d]
  BY DEF IInv, TypeOK
<1>4. ASSUME NEW d \in Consumer PROVE Progress(d)'
  <2>1. CASE d = c
    BY <2>1
  <2>2. CASE d # c
    BY <1>3, <2>2 DEF IInv, Progress, Ready, Recorded
  <2> QED BY <2>1, <2>2
<1>5. \A t \in orphans' : Ready(t.msg, t.write)'
  BY DEF IInv, Ready, Recorded
<1>6. WritesExclude'
  <2>1. w.store => OwnKey(c, mail[msg[c]].key)
    BY DEF IInv, WritesExclude, OwnKey
  <2> QED BY <1>2, <1>3, <2>1 DEF IInv, WritesExclude, OwnKey
<1>7. Delivered'
  BY <1>2, <1>3 DEF IInv, Delivered
<1>8. Ended'
  BY <1>3 DEF IInv, Ended, TypeOK, InHand, InTransaction
<1>9. QueueOrder' /\ AppliedIsStored' /\ InboxIsExact' /\ CommandsOrdered'
  BY DEF IInv, QueueOrder, AppliedIsStored, InboxIsExact, CommandsOrdered, Recorded
<1> QED BY <1>1, <1>4, <1>5, <1>6, <1>7, <1>8, <1>9 DEF IInv

\* StartMessage keeps the invariant.
LEMMA StartStep ==
  ASSUME IInv, NEW c \in Consumer, StartMessage(c)
  PROVE  IInv'
<1>1. pc[c] = "received" /\ pc[c] \in InHand /\ write[c] = NoWrite
  BY DEF StartMessage, InHand, InTransaction, IInv, TypeOK
<1>2. write' = [write EXCEPT ![c] = NoWrite]
  BY <1>1 DEF StartMessage, IInv, TypeOK
<1>3. UNCHANGED <<mail, msg, ctx, broker, database>>
  BY DEF StartMessage
<1>4. PICK q \in {"register", "failed"} :
        /\ pc' = [pc EXCEPT ![c] = q]
        /\ q = "register" => mail[msg[c]].wellFormed
  BY DEF StartMessage, decodeCommand, Body
<1>5. Progress(c)'
  BY <1>3, <1>4 DEF Progress, InTransaction, IInv, TypeOK
<1>6. q \in InHand /\ q \notin InTransaction
  BY DEF InHand, InTransaction
<1> QED BY <1>1, <1>2, <1>3, <1>4, <1>5, <1>6, NoWriteType, TransactionStep

\* Register keeps the invariant.
LEMMA RegisterStep ==
  ASSUME IInv, NEW c \in Consumer, Register(c)
  PROVE  IInv'
<1> DEFINE b == mail[msg[c]]
           w == [row |-> [hash |-> b, completed |-> FALSE], store |-> FALSE]
<1>1. pc[c] = "register" /\ pc[c] \in InHand /\ write[c] = NoWrite
  BY RegisterEffect DEF InHand
<1>2. UNCHANGED <<mail, msg, ctx, broker, database>>
  BY DEF Register
<1>3. msg[c] \in Message /\ b \in Envelope /\ b.wellFormed
  BY <1>1, HandType, MailType DEF IInv, Progress
<1>4. write = [write EXCEPT ![c] = NoWrite] /\ NoWrite \in Write /\ ~NoWrite.store
  BY <1>1, NoWriteType DEF IInv, TypeOK
<1>5. CASE pc' = [pc EXCEPT ![c] = "process"] /\ write' = [write EXCEPT ![c] = w]
  <2>1. w \in Write /\ w.row = [hash |-> b, completed |-> FALSE] /\ ~w.store
    BY <1>3, RowType, WriteType
  <2>2. "process" \in InHand /\ "process" \in InTransaction
    BY DEF InHand, InTransaction
  <2>3. pc'[c] = "process" /\ write'[c] = w
    BY <1>5 DEF IInv, TypeOK
  <2>4. Progress(c)'
    BY <1>2, <1>3, <2>1, <2>3 DEF Progress
  <2> QED BY <1>1, <1>2, <1>5, <2>1, <2>2, <2>4, TransactionStep
<1>6. CASE pc' = [pc EXCEPT ![c] = "commit"] /\ write' = write /\ Recorded(msg[c])
  <2>1. "commit" \in InHand /\ "commit" \in InTransaction
    BY DEF InHand, InTransaction
  <2>2. pc'[c] = "commit" /\ write'[c] = NoWrite
    BY <1>1, <1>6 DEF IInv, TypeOK
  <2>3. Progress(c)'
    BY <1>2, <1>3, <1>6, <2>2 DEF Progress, Recorded, database
  <2> QED BY <1>1, <1>2, <1>4, <1>6, <2>1, <2>3, TransactionStep
<1>7. CASE pc' = [pc EXCEPT ![c] = "failed"] /\ write' = write
  <2>1. "failed" \in InHand /\ "failed" \notin InTransaction
    BY DEF InHand, InTransaction
  <2>2. pc'[c] = "failed"
    BY <1>7 DEF IInv, TypeOK
  <2>3. Progress(c)'
    BY <2>2 DEF Progress, InTransaction
  <2> QED BY <1>1, <1>2, <1>4, <1>7, <2>1, <2>3, TransactionStep
<1> QED BY <1>5, <1>6, <1>7, RegisterEffect

\* The deferred Rollback, and the error return before the transaction, keep the
\* invariant.
LEMMA RollbackStep ==
  ASSUME IInv, NEW c \in Consumer, pc[c] \in InHand,
         pc' = [pc EXCEPT ![c] = "failed"], write' = [write EXCEPT ![c] = NoWrite],
         UNCHANGED <<mail, msg, ctx, broker, database>>
  PROVE  IInv'
<1>1. "failed" \in InHand /\ "failed" \notin InTransaction
  BY DEF InHand, InTransaction
<1>2. pc'[c] = "failed"
  BY DEF IInv, TypeOK
<1>3. Progress(c)'
  BY <1>2 DEF Progress, InTransaction
<1> QED BY <1>1, <1>3, NoWriteType, TransactionStep

\* ProcessTx keeps the invariant.
LEMMA ProcessTxStep ==
  ASSUME IInv, NEW c \in Consumer, ProcessTx(c)
  PROVE  IInv'
<1> DEFINE b == mail[msg[c]]
           w == [row |-> write[c].row, store |-> TRUE]
<1>1. pc[c] = "process" /\ pc[c] \in InHand
  BY ProcessTxEffect DEF InHand, InTransaction
<1>2. UNCHANGED <<mail, msg, ctx, broker, database>>
  BY DEF ProcessTx
<1>3. /\ b.wellFormed
      /\ write[c] \in Write
      /\ write[c].row = [hash |-> b, completed |-> FALSE]
  BY <1>1 DEF IInv, TypeOK, Progress, InTransaction
<1>4. "complete" \in InHand /\ "complete" \in InTransaction
  BY DEF InHand, InTransaction
<1>5. CASE /\ pc' = [pc EXCEPT ![c] = "complete"] /\ write' = [write EXCEPT ![c] = w]
           /\ OwnKey(c, b.key)
  <2>1. w \in Write /\ w.row = [hash |-> b, completed |-> FALSE] /\ w.store
    BY <1>3, WriteFields, WriteType
  <2>2. pc'[c] = "complete" /\ write'[c] = w
    BY <1>5 DEF IInv, TypeOK
  <2>3. Progress(c)'
    BY <1>2, <1>3, <2>1, <2>2 DEF Progress
  <2> QED BY <1>1, <1>2, <1>4, <1>5, <2>1, <2>3, TransactionStep
<1>6. CASE pc' = [pc EXCEPT ![c] = "complete"] /\ write' = write /\ Recorded(msg[c])
  <2>1. write' = [write EXCEPT ![c] = write[c]]
    BY <1>6 DEF IInv, TypeOK
  <2>2. pc'[c] = "complete" /\ write'[c] = write[c]
    BY <1>6 DEF IInv, TypeOK
  <2>3. Progress(c)'
    BY <1>2, <1>3, <1>6, <2>2 DEF Progress, Recorded, database
  <2> QED BY <1>1, <1>2, <1>3, <1>4, <1>6, <2>1, <2>3, TransactionStep
<1>7. CASE pc' = [pc EXCEPT ![c] = "failed"] /\ write' = [write EXCEPT ![c] = NoWrite]
  BY <1>1, <1>2, <1>7, RollbackStep
<1> QED BY <1>5, <1>6, <1>7, ProcessTxEffect DEF OwnKey

\* inbox.Complete keeps the invariant.
LEMMA CompleteStep ==
  ASSUME IInv, NEW c \in Consumer, Complete(c)
  PROVE  IInv'
<1> DEFINE b == mail[msg[c]]
           w == [row |-> [hash |-> b, completed |-> TRUE], store |-> write[c].store]
<1>1. /\ pc[c] = "complete" /\ pc[c] \in InHand
      /\ pc' = [pc EXCEPT ![c] = "commit"] /\ write' = [write EXCEPT ![c] = w]
  BY CompleteEffect DEF InHand, InTransaction
<1>2. UNCHANGED <<mail, msg, ctx, broker, database>>
  BY DEF Complete
<1>3. b \in Envelope /\ b.wellFormed /\ (write[c].store \/ Recorded(msg[c]))
  BY <1>1, HandType, MailType DEF IInv, Progress, InTransaction
<1>4. write[c].store \in BOOLEAN
  BY WriteFields DEF IInv, TypeOK
<1>5. w \in Write /\ w.row = [hash |-> b, completed |-> TRUE] /\ w.store = write[c].store
  BY <1>3, <1>4, RowType, WriteType
<1>6. pc'[c] = "commit" /\ write'[c] = w
  BY <1>1 DEF IInv, TypeOK
<1>7. Progress(c)'
  <2> HIDE DEF w
  <2> QED BY <1>2, <1>3, <1>5, <1>6 DEF Progress, Ready, Recorded, database
<1>8. "commit" \in InHand /\ "commit" \in InTransaction
  BY DEF InHand, InTransaction
<1> QED BY <1>1, <1>2, <1>5, <1>7, <1>8, TransactionStep

\* A failing statement keeps the invariant.
LEMMA FailStep ==
  ASSUME IInv, NEW c \in Consumer, Fail(c)
  PROVE  IInv'
BY RollbackStep DEF Fail, InHand

-----------------------------------------------------------------------------
(* Steps that touch neither an open transaction nor the database.            *)

\* The queue and the workers outside a transaction keep the invariant: a worker
\* moves to where its message allows, a message is delivered in its turn, and
\* it leaves the queue dead, or deleted with its request stored.
LEMMA BrokerStep ==
  ASSUME IInv, TypeOK', Ended', UNCHANGED <<mail, write, database>>,
         \A c \in Consumer :
           \/ pc'[c] = pc[c] /\ msg'[c] = msg[c]
           \/ /\ write[c] = NoWrite
              /\ Progress(c)'
              /\ pc'[c] \in InHand => receives'[msg'[c]] > 0,
         \A m \in Message :
           /\ receives'[m] # receives[m] => receives'[m] > 0 /\ AtHead(m)
           /\ receives[m] > 0 => receives'[m] > 0
           /\ \/ status'[m] = status[m]
              \/ status[m] = "queued" /\ status'[m] = "dead"
              \/ status[m] = "queued" /\ status'[m] = "deleted" /\ Recorded(m)
  PROVE  IInv'
<1> USE DEF database
<1>1. ASSUME NEW c \in Consumer PROVE Progress(c)'
  BY DEF IInv, Progress, Ready, Recorded
<1>2. \A t \in orphans' : Ready(t.msg, t.write)'
  BY DEF IInv, Ready, Recorded
<1>3. WritesExclude'
  <2>1. ASSUME NEW c \in Consumer, write[c].store PROVE msg'[c] = msg[c]
    BY <2>1, NoWriteType
  <2> QED BY <2>1 DEF IInv, WritesExclude
<1>4. Delivered'
  <2>1. ASSUME NEW c \in Consumer, pc'[c] \in InHand PROVE receives'[msg'[c]] > 0
    BY <2>1, HandType DEF IInv, Delivered
  <2>2. ASSUME NEW t \in orphans PROVE receives'[t.msg] > 0
    BY DEF IInv, Delivered, TypeOK, Orphan
  <2>3. ASSUME NEW i \in DOMAIN applied PROVE receives'[applied[i]] > 0
    BY DEF IInv, Delivered, TypeOK
  <2> QED BY <2>1, <2>2, <2>3 DEF Delivered
<1>5. QueueOrder'
  <2>1. ASSUME NEW m \in Message, NEW n \in Message, receives'[m] > 0, n < m,
               mail[n].wallet = mail[m].wallet
        PROVE  status'[n] # "queued"
    <3>1. receives[m] > 0 \/ AtHead(m)
      BY <2>1
    <3>2. status[n] # "queued"
      BY <2>1, <3>1 DEF IInv, QueueOrder, AtHead, Message
    <3> QED BY <3>2
  <2>2. ASSUME NEW m \in Message, status'[m] = "deleted" PROVE Recorded(m)'
    BY <2>2 DEF IInv, QueueOrder, Recorded
  <2> QED BY <2>1, <2>2 DEF QueueOrder
<1>6. CommandsOrdered'
  <2>1. ASSUME NEW i \in DOMAIN applied, status[applied[i]] = "dead"
        PROVE  status'[applied[i]] = "dead"
    BY <2>1 DEF IInv, TypeOK
  <2> QED BY <2>1 DEF IInv, CommandsOrdered
<1>7. AppliedIsStored' /\ InboxIsExact'
  BY DEF IInv, AppliedIsStored, InboxIsExact
<1> QED BY <1>1, <1>2, <1>3, <1>4, <1>5, <1>6, <1>7 DEF IInv

\* A delivery, answered or not, keeps the invariant.
LEMMA ReceiveStep ==
  ASSUME IInv, NEW c \in Consumer, NEW m \in Message,
         ReceiveMessage(c, m) \/ ReceiveFails(c, m)
  PROVE  IInv'
<1>1. /\ pc[c] = "poll" /\ write[c] = NoWrite
      /\ receives' = [receives EXCEPT ![m] = receives[m] + 1]
      /\ receives[m] \in 0..MaxReceive /\ receives[m] < MaxReceive /\ AtHead(m)
      /\ UNCHANGED <<mail, write, database, status, ctx>>
  BY DEF ReceiveMessage, ReceiveFails, Deliver, worker, IInv, TypeOK, InTransaction
<1>2. receives' \in [Message -> 0..MaxReceive] /\ hidden' \in [Message -> BOOLEAN]
  <2>1. receives[m] + 1 \in 0..MaxReceive
    BY <1>1, BoundAssumption
  <2> QED BY <1>1, <2>1 DEF ReceiveMessage, ReceiveFails, Deliver, IInv, TypeOK
<1>3. \/ pc' = [pc EXCEPT ![c] = "received"] /\ msg' = [msg EXCEPT ![c] = m]
      \/ UNCHANGED <<pc, msg>>
  BY DEF ReceiveMessage, ReceiveFails, worker
<1>4. TypeOK'
  <2>1. "received" \in InHand /\ "received" \notin InTransaction
    BY DEF InHand, InTransaction
  <2>2. CASE pc' = [pc EXCEPT ![c] = "received"] /\ msg' = [msg EXCEPT ![c] = m]
    BY <1>1, <1>2, <2>1, <2>2, NoneAssumption DEF IInv, TypeOK, database
  <2>3. CASE UNCHANGED <<pc, msg>>
    BY <1>1, <1>2, <2>3 DEF IInv, TypeOK, database
  <2> QED BY <1>3, <2>2, <2>3
<1>7. Ended'
  BY <1>1, <1>3 DEF ReceiveMessage, ReceiveFails, IInv, Ended, TypeOK
<1>5. ASSUME NEW d \in Consumer
      PROVE  \/ pc'[d] = pc[d] /\ msg'[d] = msg[d]
             \/ /\ write[d] = NoWrite
                /\ Progress(d)'
                /\ pc'[d] \in InHand => receives'[msg'[d]] > 0
  BY <1>1, <1>3 DEF IInv, TypeOK, Progress, InTransaction
<1>6. ASSUME NEW n \in Message
      PROVE  /\ receives'[n] # receives[n] => receives'[n] > 0 /\ AtHead(n)
             /\ receives[n] > 0 => receives'[n] > 0
  BY <1>1 DEF IInv, TypeOK
<1> QED BY <1>1, <1>4, <1>5, <1>6, <1>7, BrokerStep

\* What a worker does with a message outside the transaction, what happens to
\* its contexts, and its end and restart keep the invariant.
LEMMA RoundStep ==
  ASSUME IInv, NEW c \in Consumer,
         \/ DeleteMessage(c) \/ scheduleRetry(c) \/ releaseForShutdown(c)
         \/ leaveProcessed(c) \/ Stop(c) \/ DrainEnds(c) \/ Exit(c) \/ Restart(c)
  PROVE  IInv'
<1>1. UNCHANGED <<mail, write, database, receives>>
  BY DEF DeleteMessage, scheduleRetry, releaseForShutdown, leaveProcessed, Stop,
         DrainEnds, Exit, Restart, broker
<1>2. TypeOK'
  <2> USE DEF IInv, TypeOK, database, broker, EndRound, InHand, InTransaction
  <2>1. CASE DeleteMessage(c)
    BY <1>1, <2>1 DEF DeleteMessage
  <2>2. CASE scheduleRetry(c) \/ leaveProcessed(c)
    BY <1>1, <2>2 DEF scheduleRetry, leaveProcessed
  <2>3. CASE releaseForShutdown(c)
    BY <1>1, <2>3 DEF releaseForShutdown
  <2>4. CASE Stop(c) \/ DrainEnds(c)
    BY <1>1, <2>4 DEF Stop, DrainEnds
  <2>5. CASE Exit(c) \/ Restart(c)
    BY <1>1, <2>5 DEF Exit, Restart, Ended
  <2> QED BY <2>1, <2>2, <2>3, <2>4, <2>5
<1>3. \/ UNCHANGED <<pc, msg>>
      \/ /\ pc[c] \notin InTransaction
         /\ \/ pc' = [pc EXCEPT ![c] = "poll"]
            \/ pc' = [pc EXCEPT ![c] = "stopped"]
         /\ msg' = [msg EXCEPT ![c] = None] \/ msg' = msg
      \/ /\ pc[c] = "delete" /\ pc' = [pc EXCEPT ![c] = "undeleted"]
         /\ msg' = msg
  <2>1. CASE Restart(c)
    BY <2>1 DEF Restart, IInv, Ended, InTransaction
  <2> QED BY <2>1 DEF DeleteMessage, scheduleRetry, releaseForShutdown, leaveProcessed, Stop,
         DrainEnds, Exit, EndRound, InTransaction
<1>4. ASSUME NEW d \in Consumer
      PROVE  \/ pc'[d] = pc[d] /\ msg'[d] = msg[d]
             \/ /\ write[d] = NoWrite
                /\ Progress(d)'
                /\ pc'[d] \in InHand => receives'[msg'[d]] > 0
  BY <1>1, <1>3 DEF IInv, TypeOK, Progress, Delivered, InHand, InTransaction,
                    Recorded, database
<1>5. ASSUME NEW m \in Message
      PROVE  \/ status'[m] = status[m]
             \/ status[m] = "queued" /\ status'[m] = "deleted" /\ Recorded(m)
  <2>1. CASE DeleteMessage(c)
    <3>1. Recorded(msg[c])
      BY <2>1 DEF DeleteMessage, IInv, Progress
    <3> QED BY <2>1, <3>1 DEF DeleteMessage, IInv, TypeOK
  <2> QED BY <2>1 DEF scheduleRetry, releaseForShutdown, leaveProcessed, Stop,
                      DrainEnds, Exit, Restart, broker
<1>6. Ended'
  BY DEF DeleteMessage, scheduleRetry, releaseForShutdown, leaveProcessed, Stop,
         DrainEnds, Exit, Restart, EndRound, IInv, Ended, TypeOK, InHand, InTransaction
<1> QED BY <1>1, <1>2, <1>4, <1>5, <1>6, BrokerStep

\* The timers of the queue keep the invariant.
LEMMA TimerStep ==
  ASSUME IInv, NEW m \in Message, Expire(m) \/ Redrive(m)
  PROVE  IInv'
<1>1. UNCHANGED <<mail, worker, database, receives>>
  BY DEF Expire, Redrive
<1>2. TypeOK'
  BY <1>1 DEF Expire, Redrive, IInv, TypeOK, worker, database
<1>3. ASSUME NEW n \in Message
      PROVE  \/ status'[n] = status[n]
             \/ status[n] = "queued" /\ status'[n] = "dead"
  BY DEF Expire, Redrive, AtHead, IInv, TypeOK
<1>4. UNCHANGED <<pc, msg, write>>
  BY <1>1 DEF worker
<1>5. Ended'
  BY <1>1 DEF worker, IInv, Ended
<1> QED BY <1>1, <1>2, <1>3, <1>4, <1>5, BrokerStep

-----------------------------------------------------------------------------
(* Steps that make a transaction durable.                                    *)

\* No stored request is replaced.
Keeps == \A k \in Key : wagers[k] # None => wagers'[k] = wagers[k]

\* A message whose request is stored remains such a message.
LEMMA KeepsRecorded ==
  ASSUME TypeOK, Keeps, mail' = mail, NEW m \in Message, Recorded(m)
  PROVE  Recorded(m)'
BY MailType DEF Keeps, Recorded

\* A transaction that may commit leaves every table, and the order in which the
\* messages were applied, as the invariant wants it.
LEMMA PersistFacts ==
  ASSUME IInv, NEW m \in Message, NEW w \in Write, Persist(m, w),
         UNCHANGED <<mail, broker>>, receives[m] > 0,
         Ready(m, w) \/ (w = NoWrite /\ Recorded(m)),
         w.store => wagers[mail[m].key] = None
  PROVE  /\ inbox' \in [MessageId -> InboxRow \cup {None}]
         /\ wagers' \in [Key -> Request \cup {None}]
         /\ applied' \in Seq(Message)
         /\ Keeps
         /\ Recorded(m)'
         /\ \A k \in Key : wagers'[k] # wagers[k] => w.store /\ k = mail[m].key
         /\ InboxIsExact' /\ QueueOrder' /\ AppliedIsStored' /\ CommandsOrdered'
         /\ \A i \in DOMAIN applied' : receives'[applied'[i]] > 0
<1> DEFINE b == mail[m]
<1>1. /\ b \in Envelope /\ b.id \in MessageId /\ b.key \in Key
      /\ b.req \in Request /\ b.req # None
  BY MailType DEF IInv
<1>2. w.row \in InboxRow \cup {None} /\ w.store \in BOOLEAN
  BY WriteFields
<1>3. /\ wagers \in [Key -> Request \cup {None}] /\ applied \in Seq(Message)
      /\ inbox \in [MessageId -> InboxRow \cup {None}]
  BY DEF IInv, TypeOK
<1>4. wagers' \in [Key -> Request \cup {None}] /\ inbox' \in [MessageId -> InboxRow \cup {None}]
  BY <1>1, <1>2, <1>3 DEF Persist
<1>5. applied' \in Seq(Message)
  BY <1>3 DEF Persist
<1>6. \A k \in Key : \/ wagers'[k] = wagers[k]
                     \/ w.store /\ k = b.key /\ wagers'[k] = b.req /\ wagers[k] = None
  BY <1>1, <1>3 DEF Persist
<1>7. Keeps
  BY <1>6 DEF Keeps
<1>8. Recorded(m)'
  <2>1. CASE w.store
    BY <1>1, <1>3, <2>1 DEF Persist, Recorded
  <2>2. CASE ~w.store
    BY <2>2, NoWriteType DEF Persist, Ready, Recorded
  <2> QED BY <2>1, <2>2
<1>9. InboxIsExact'
  <2> SUFFICES ASSUME NEW i \in MessageId, inbox'[i] # None
               PROVE  /\ inbox'[i].completed
                      /\ inbox'[i].hash.id = i
                      /\ \E n \in Message : mail[n] = inbox'[i].hash
                      /\ inbox'[i].hash.wellFormed
                      /\ wagers'[inbox'[i].hash.key] = inbox'[i].hash.req
    BY DEF InboxIsExact
  <2>1. CASE w.row # None /\ i = b.id
    <3>1. Ready(m, w)
      BY <2>1, NoWriteType
    <3>2. inbox'[i] = [hash |-> b, completed |-> TRUE]
      BY <1>3, <2>1, <3>1 DEF Persist, Ready
    <3>3. inbox'[i].hash = b /\ inbox'[i].completed
      BY <3>2
    <3> QED BY <1>8, <2>1, <3>1, <3>3 DEF Ready, Recorded
  <2>2. CASE ~(w.row # None /\ i = b.id)
    <3>1. inbox'[i] = inbox[i]
      BY <1>1, <1>3, <2>2 DEF Persist
    <3>2. PICK n \in Message : mail[n] = inbox[i].hash
      BY <3>1 DEF IInv, InboxIsExact
    <3>3. Recorded(n)
      BY <3>1, <3>2 DEF IInv, InboxIsExact, Recorded
    <3>4. Recorded(n)'
      BY <1>7, <3>3, KeepsRecorded DEF IInv
    <3> QED BY <3>1, <3>2, <3>4 DEF IInv, InboxIsExact, Recorded
  <2> QED BY <2>1, <2>2
<1>10. QueueOrder'
  BY <1>7, KeepsRecorded DEF IInv, QueueOrder, broker
<1>11. CASE ~w.store
  <2>1. applied' = applied
    BY <1>11 DEF Persist
  <2>2. AppliedIsStored'
    BY <1>3, <1>7, <2>1, MailType DEF IInv, AppliedIsStored, Keeps
  <2>3. CommandsOrdered' /\ \A i \in DOMAIN applied' : receives'[applied'[i]] > 0
    BY <2>1 DEF IInv, CommandsOrdered, Delivered, broker
  <2> QED BY <1>4, <1>5, <1>6, <1>7, <1>8, <1>9, <1>10, <2>2, <2>3
<1>12. CASE w.store
  <2>1. applied' = Append(applied, m)
    BY <1>12 DEF Persist
  <2>2. /\ DOMAIN applied = 1..Len(applied) /\ DOMAIN applied' = 1..(Len(applied) + 1)
        /\ \A i \in DOMAIN applied : applied'[i] = applied[i] /\ applied[i] \in Message
        /\ applied'[Len(applied) + 1] = m
        /\ Len(applied) \in Nat
    BY <1>3, <2>1
  <2>3. AppliedIsStored'
    <3> SUFFICES ASSUME NEW i \in DOMAIN applied' PROVE wagers'[mail[applied'[i]].key] # None
      BY DEF AppliedIsStored
    <3>1. CASE i = Len(applied) + 1
      BY <1>1, <1>8, <2>2, <3>1 DEF Recorded
    <3>2. CASE i \in DOMAIN applied
      BY <1>7, <2>2, <3>2, MailType DEF IInv, AppliedIsStored, Keeps
    <3> QED BY <2>2, <3>1, <3>2
  <2>4. \A i \in DOMAIN applied' : receives'[applied'[i]] > 0
    BY <2>2 DEF IInv, Delivered, broker
  <2>5. CommandsOrdered'
    <3> SUFFICES ASSUME NEW i \in DOMAIN applied', NEW j \in DOMAIN applied', i < j
                 PROVE  /\ applied'[i] # applied'[j]
                        /\ \/ mail[applied'[i]].wallet # mail[applied'[j]].wallet
                           \/ applied'[i] < applied'[j]
                           \/ status[applied'[j]] = "dead"
      BY DEF CommandsOrdered, broker
    <3>1. i \in DOMAIN applied
      BY <2>2
    <3>2. CASE j \in DOMAIN applied
      BY <2>2, <3>1, <3>2 DEF IInv, CommandsOrdered
    <3>3. CASE j = Len(applied) + 1
      <4>1. applied'[j] = m /\ applied'[i] = applied[i] /\ applied[i] \in Message
        BY <2>2, <3>1, <3>3
      <4>2. wagers[mail[applied[i]].key] # None /\ receives[applied[i]] > 0
        BY <3>1 DEF IInv, AppliedIsStored, Delivered
      <4>3. applied[i] # m
        BY <1>12, <4>2
      <4>4. status[m] # "deleted"
        BY <1>1, <1>12 DEF IInv, QueueOrder, Recorded
      <4>5. m < applied[i] /\ mail[m].wallet = mail[applied[i]].wallet => status[m] = "dead"
        BY <4>1, <4>2, <4>4 DEF IInv, QueueOrder, TypeOK
      <4>6. m < applied[i] \/ applied[i] < m
        BY <4>1, <4>3 DEF Message
      <4> QED BY <4>1, <4>3, <4>5, <4>6
    <3> QED BY <2>2, <3>2, <3>3
  <2> QED BY <1>4, <1>5, <1>6, <1>7, <1>8, <1>9, <1>10, <2>3, <2>4, <2>5
<1> QED BY <1>2, <1>11, <1>12

\* COMMIT keeps the invariant.
LEMMA CommitStep ==
  ASSUME IInv, NEW c \in Consumer, Commit(c)
  PROVE  IInv'
<1>1. /\ pc[c] = "commit" /\ pc[c] \in InHand
      /\ pc' = [pc EXCEPT ![c] = "delete"] /\ write' = [write EXCEPT ![c] = NoWrite]
      /\ UNCHANGED <<mail, broker, msg, ctx, orphans>> /\ Persist(msg[c], write[c])
  BY DEF Commit, InHand, InTransaction
<1>2. PICK m \in Message, w \in Write : m = msg[c] /\ w = write[c]
  BY <1>1, HandType DEF IInv, TypeOK
<1>3. Ready(m, w) \/ (w = NoWrite /\ Recorded(m))
  BY <1>1, <1>2 DEF IInv, Progress
<1>4. (w.store => wagers[mail[m].key] = None) /\ receives[m] > 0
  BY <1>1, <1>2 DEF IInv, WritesExclude, Delivered
<1>5. /\ inbox' \in [MessageId -> InboxRow \cup {None}]
      /\ wagers' \in [Key -> Request \cup {None}]
      /\ applied' \in Seq(Message)
      /\ Keeps
      /\ Recorded(m)'
      /\ \A k \in Key : wagers'[k] # wagers[k] => w.store /\ k = mail[m].key
      /\ InboxIsExact' /\ QueueOrder' /\ AppliedIsStored' /\ CommandsOrdered'
      /\ \A i \in DOMAIN applied' : receives'[applied'[i]] > 0
  BY <1>1, <1>2, <1>3, <1>4, PersistFacts
<1>6. "delete" \in InHand /\ "delete" \notin InTransaction
  BY DEF InHand, InTransaction
<1>7. TypeOK'
  BY <1>1, <1>5, <1>6, NoWriteType DEF IInv, TypeOK, broker
<1>8. pc'[c] = "delete" /\ write'[c] = NoWrite
  BY <1>1 DEF IInv, TypeOK
<1>9. ASSUME NEW d \in Consumer \ {c} PROVE pc'[d] = pc[d] /\ write'[d] = write[d]
  BY <1>1 DEF IInv, TypeOK
<1>10. Ended'
  BY <1>1, <1>9 DEF IInv, Ended
<1>11. ASSUME NEW d \in Consumer PROVE Progress(d)'
  <2>1. CASE d = c
    BY <1>1, <1>2, <1>5, <1>8, <2>1 DEF Progress, Recorded, InTransaction
  <2>2. CASE d # c
    <3>1. pc[d] \in InHand => msg[d] \in Message
      BY HandType DEF IInv
    <3>2. pc[d] \in InHand /\ Recorded(msg[d]) => Recorded(msg[d])'
      BY <1>1, <1>5, <3>1, KeepsRecorded DEF IInv
    <3>3. msg'[d] = msg[d] /\ mail' = mail
      BY <1>1
    <3> QED BY <1>9, <2>2, <3>2, <3>3 DEF IInv, Progress, Ready, Recorded, InHand, InTransaction
  <2> QED BY <2>1, <2>2
<1>12. \A t \in orphans' : Ready(t.msg, t.write)'
  <2> SUFFICES ASSUME NEW t \in orphans PROVE Ready(t.msg, t.write)'
    BY <1>1
  <2>1. t.msg \in Message
    BY DEF IInv, TypeOK, Orphan
  <2> QED BY <1>1, <1>5, <2>1, KeepsRecorded DEF IInv, Ready
<1>13. WritesExclude'
  <2>1. ASSUME NEW d \in Consumer, write'[d].store
        PROVE  /\ d # c /\ write[d].store /\ mail[msg[d]].key \in Key
               /\ wagers'[mail[msg[d]].key] = None
    <3>1. d # c /\ write[d].store
      BY <1>8, <1>9, <2>1, NoWriteType
    <3>2. pc[d] \in InTransaction
      BY <3>1, NoWriteType DEF IInv, TypeOK
    <3>3. msg[d] \in Message /\ mail[msg[d]].key \in Key
      BY <3>2, HandType, MailType DEF IInv, InHand
    <3>4. wagers'[mail[msg[d]].key] = wagers[mail[msg[d]].key]
      BY <1>2, <1>5, <3>1, <3>3 DEF IInv, WritesExclude
    <3> QED BY <3>1, <3>3, <3>4 DEF IInv, WritesExclude
  <2>2. ASSUME NEW t \in orphans, t.write.store PROVE wagers'[mail[t.msg].key] = None
    <3>1. mail[t.msg].key \in Key
      BY MailType DEF IInv, TypeOK, Orphan
    <3> QED BY <1>2, <1>5, <2>2, <3>1 DEF IInv, WritesExclude
  <2> QED BY <1>1, <1>9, <2>1, <2>2 DEF IInv, WritesExclude
<1>14. Delivered'
  BY <1>1, <1>5, <1>9 DEF IInv, Delivered, broker
<1> QED BY <1>5, <1>7, <1>10, <1>11, <1>12, <1>13, <1>14 DEF IInv

\* When only wagers, inbox and applied change, and no request is replaced, what
\* the consumers and the lost transactions have established remains true.
LEMMA KeepsProgress ==
  ASSUME IInv, Keeps, UNCHANGED <<mail, broker, worker>>, orphans' \subseteq orphans
  PROVE  /\ \A c \in Consumer : Progress(c)'
         /\ \A t \in orphans' : Ready(t.msg, t.write)'
<1>1. ASSUME NEW c \in Consumer PROVE Progress(c)'
  <2>1. pc[c] \in InHand => msg[c] \in Message
    BY HandType DEF IInv
  <2>2. pc[c] \in InHand /\ Recorded(msg[c]) => Recorded(msg[c])'
    BY <2>1, KeepsRecorded DEF IInv, Recorded, worker
  <2> QED BY <2>2 DEF IInv, Progress, Ready, Recorded, worker, InHand, InTransaction
<1>2. ASSUME NEW t \in orphans' PROVE Ready(t.msg, t.write)'
  <2>1. t.msg \in Message
    BY DEF IInv, TypeOK, Orphan
  <2> QED BY <2>1, KeepsRecorded DEF IInv, Ready
<1> QED BY <1>1, <1>2

\* The late end of a COMMIT without answer keeps the invariant.
LEMMA OrphanStep ==
  ASSUME IInv, NEW t \in orphans, OrphanEnds(t)
  PROVE  IInv'
<1>1. /\ orphans' = orphans \ {t}
      /\ UNCHANGED <<mail, broker, worker>>
      /\ Persist(t.msg, t.write) \/ UNCHANGED <<inbox, wagers, applied>>
  BY DEF OrphanEnds
<1>2. PICK m \in Message, w \in Write : m = t.msg /\ w = t.write
  BY DEF IInv, TypeOK, Orphan
<1>3. /\ Ready(m, w)
      /\ w.store => wagers[mail[m].key] = None
      /\ receives[m] > 0
  BY <1>2 DEF IInv, WritesExclude, Delivered
<1>4. /\ inbox' \in [MessageId -> InboxRow \cup {None}]
      /\ wagers' \in [Key -> Request \cup {None}]
      /\ applied' \in Seq(Message)
      /\ Keeps
      /\ \A k \in Key : wagers'[k] # wagers[k] => w.store /\ k = mail[m].key
      /\ InboxIsExact' /\ QueueOrder' /\ AppliedIsStored' /\ CommandsOrdered'
      /\ \A i \in DOMAIN applied' : receives'[applied'[i]] > 0
  <2>1. CASE Persist(t.msg, t.write)
    BY <1>1, <1>2, <1>3, <2>1, PersistFacts
  <2>2. CASE UNCHANGED <<inbox, wagers, applied>>
    BY <1>1, <2>2 DEF IInv, TypeOK, Keeps, InboxIsExact, QueueOrder, Recorded,
                      AppliedIsStored, CommandsOrdered, Delivered, broker
  <2> QED BY <1>1, <2>1, <2>2
<1>5. TypeOK' /\ Ended'
  BY <1>1, <1>4 DEF IInv, TypeOK, Ended, broker, worker
<1>6. /\ \A c \in Consumer : Progress(c)'
      /\ \A u \in orphans' : Ready(u.msg, u.write)'
  BY <1>1, <1>4, KeepsProgress
<1>7. WritesExclude'
  <2>1. ASSUME NEW d \in Consumer, write[d].store PROVE wagers'[mail[msg[d]].key] = None
    <3>1. pc[d] \in InTransaction
      BY <2>1, NoWriteType DEF IInv, TypeOK
    <3>2. mail[msg[d]].key \in Key
      BY <3>1, HandType, MailType DEF IInv, InHand
    <3> QED BY <1>2, <1>4, <2>1, <3>2 DEF IInv, WritesExclude
  <2>2. ASSUME NEW u \in orphans', u.write.store PROVE wagers'[mail[u.msg].key] = None
    <3>1. u \in orphans \ {t} /\ mail[u.msg].key \in Key
      BY <1>1, MailType DEF IInv, TypeOK, Orphan
    <3> QED BY <1>2, <1>4, <2>2, <3>1 DEF IInv, WritesExclude
  <2> QED BY <1>1, <2>1, <2>2 DEF IInv, WritesExclude, worker
<1>8. Delivered'
  BY <1>1, <1>4 DEF IInv, Delivered, broker, worker
<1> QED BY <1>4, <1>5, <1>6, <1>7, <1>8 DEF IInv

\* The same command over HTTP keeps the invariant.
LEMMA HTTPStep ==
  ASSUME IInv, NEW m \in Message, ProcessOverHTTP(m)
  PROVE  IInv'
<1>1. /\ wagers[mail[m].key] = None
      /\ WalletFree(mail[m].wallet, mail[m].key, Others(None))
      /\ wagers' = [wagers EXCEPT ![mail[m].key] = mail[m].req]
      /\ UNCHANGED <<mail, broker, worker, orphans, inbox, applied>>
  BY DEF ProcessOverHTTP
<1>2. mail[m].key \in Key /\ mail[m].req \in Request
  BY MailType DEF IInv
<1>3. Keeps /\ \A k \in Key : wagers'[k] # wagers[k] => k = mail[m].key
  BY <1>1, <1>2 DEF Keeps, IInv, TypeOK
<1>4. TypeOK' /\ Ended'
  BY <1>1, <1>2 DEF IInv, TypeOK, Ended, broker, worker
<1>5. /\ \A c \in Consumer : Progress(c)'
      /\ \A t \in orphans' : Ready(t.msg, t.write)'
  BY <1>1, <1>3, KeepsProgress
<1>6. WritesExclude'
  <2>1. ASSUME NEW d \in Consumer, write[d].store PROVE wagers'[mail[msg[d]].key] = None
    <3>1. pc[d] \in InTransaction
      BY <2>1, NoWriteType DEF IInv, TypeOK
    <3>2. mail[msg[d]].key \in Key
      BY <3>1, HandType, MailType DEF IInv, InHand
    <3>3. [msg |-> msg[d], write |-> write[d]] \in Others(None)
      BY <3>1, NoneAssumption DEF Others
    <3>4. mail[msg[d]].key # mail[m].key
      BY <1>1, <2>1, <3>3 DEF WalletFree
    <3> QED BY <1>3, <2>1, <3>2, <3>4 DEF IInv, WritesExclude
  <2>2. ASSUME NEW t \in orphans, t.write.store PROVE wagers'[mail[t.msg].key] = None
    <3>1. mail[t.msg].key \in Key
      BY MailType DEF IInv, TypeOK, Orphan
    <3>2. mail[t.msg].key # mail[m].key
      BY <1>1, <2>2 DEF WalletFree, Others
    <3> QED BY <1>3, <2>2, <3>1, <3>2 DEF IInv, WritesExclude
  <2> QED BY <1>1, <2>1, <2>2 DEF IInv, WritesExclude, worker
<1>7. Delivered' /\ CommandsOrdered'
  BY <1>1 DEF IInv, Delivered, CommandsOrdered, broker, worker
<1>8. QueueOrder'
  BY <1>1, <1>3, KeepsRecorded DEF IInv, QueueOrder, broker
<1>9. AppliedIsStored'
  BY <1>1, <1>3, MailType DEF IInv, TypeOK, AppliedIsStored, Keeps
<1>10. InboxIsExact'
  <2> SUFFICES ASSUME NEW i \in MessageId, inbox[i] # None
               PROVE  wagers'[inbox[i].hash.key] = inbox[i].hash.req
    BY <1>1 DEF IInv, InboxIsExact
  <2>1. PICK n \in Message : mail[n] = inbox[i].hash
    BY DEF IInv, InboxIsExact
  <2>2. Recorded(n)
    BY <2>1 DEF IInv, InboxIsExact, Recorded
  <2>3. Recorded(n)'
    BY <1>1, <1>3, <2>2, KeepsRecorded DEF IInv
  <2> QED BY <1>1, <2>1, <2>3 DEF Recorded
<1> QED BY <1>4, <1>5, <1>6, <1>7, <1>8, <1>9, <1>10 DEF IInv

\* A COMMIT without answer and the death of a process keep the invariant: the
\* transaction is rolled back, or left to the server.
LEMMA LoseStep ==
  ASSUME IInv, NEW c \in Consumer, CommitUnanswered(c) \/ Crash(c)
  PROVE  IInv'
<1>1. /\ write' = [write EXCEPT ![c] = NoWrite]
      /\ UNCHANGED <<mail, broker, inbox, wagers, applied>>
      /\ \/ orphans' = orphans
         \/ pc[c] = "commit" /\ orphans' = orphans \cup Left(c)
  BY DEF CommitUnanswered, Crash
<1>2. \/ /\ pc[c] = "commit" /\ pc' = [pc EXCEPT ![c] = "failed"] /\ UNCHANGED <<msg, ctx>>
      \/ /\ pc' = [pc EXCEPT ![c] = "stopped"] /\ msg' = [msg EXCEPT ![c] = None]
         /\ ctx' = [ctx EXCEPT ![c] = "down"]
  BY DEF CommitUnanswered, Crash
<1>3. "commit" \in InHand /\ "failed" \in InHand /\ "failed" \notin InTransaction
      /\ "stopped" \notin InHand /\ "stopped" \notin InTransaction
  BY DEF InHand, InTransaction
<1>4. ASSUME NEW t \in orphans'
      PROVE  \/ t \in orphans
             \/ /\ pc[c] = "commit" /\ t = [msg |-> msg[c], write |-> write[c]]
                /\ t.msg = msg[c] /\ t.write = write[c]
                /\ write[c] # NoWrite /\ msg[c] \in Message /\ t \in Orphan
  <2>1. pc[c] = "commit" => [msg |-> msg[c], write |-> write[c]] \in Orphan
    BY <1>3, HandType DEF IInv, TypeOK, Orphan
  <2> QED BY <1>1, <1>3, <2>1, HandType DEF Left, IInv
<1>5. TypeOK'
  BY <1>1, <1>2, <1>3, <1>4, NoWriteType DEF IInv, TypeOK, broker
<1>6. Ended'
  BY <1>2 DEF IInv, Ended, TypeOK
<1>7. write'[c] = NoWrite /\ pc'[c] \in {"failed", "stopped"}
  BY <1>1, <1>2 DEF IInv, TypeOK
<1>8. ASSUME NEW d \in Consumer \ {c}
      PROVE  pc'[d] = pc[d] /\ write'[d] = write[d] /\ msg'[d] = msg[d]
  BY <1>1, <1>2 DEF IInv, TypeOK
<1>9. ASSUME NEW d \in Consumer PROVE Progress(d)'
  <2>1. CASE d = c
    BY <1>7, <2>1 DEF Progress, InTransaction
  <2>2. CASE d # c
    BY <1>1, <1>8, <2>2 DEF IInv, Progress, Ready, Recorded
  <2> QED BY <2>1, <2>2
<1>10. ASSUME NEW t \in orphans' PROVE Ready(t.msg, t.write)'
  <2>1. Ready(t.msg, t.write)
    BY <1>4 DEF IInv, Progress
  <2> QED BY <1>1, <2>1 DEF Ready, Recorded
<1>11. WritesExclude'
  <2>1. ASSUME NEW d \in Consumer, write'[d].store
        PROVE  d # c /\ write[d].store /\ msg'[d] = msg[d]
    BY <1>7, <1>8, <2>1, NoWriteType
  <2>2. ASSUME NEW d \in Consumer \ {c}, write[d].store, NEW t \in orphans', t.write.store
        PROVE  mail[t.msg].key # mail[msg[d]].key
    BY <1>4, <2>2 DEF IInv, WritesExclude
  <2>3. ASSUME NEW t \in orphans', t.write.store
        PROVE  /\ wagers[mail[t.msg].key] = None
               /\ \A u \in orphans' \ {t} : u.write.store =>
                    mail[u.msg].key # mail[t.msg].key
    <3>1. CASE t \in orphans
      BY <1>4, <2>3, <3>1 DEF IInv, WritesExclude
    <3>2. CASE t \notin orphans
      BY <1>4, <2>3, <3>2 DEF IInv, WritesExclude
    <3> QED BY <3>1, <3>2
  <2>4. UNCHANGED <<mail, wagers>>
    BY <1>1
  <2> QED BY <1>8, <2>1, <2>2, <2>3, <2>4 DEF IInv, WritesExclude
<1>12. Delivered'
  <2>1. ASSUME NEW d \in Consumer, pc'[d] \in InHand PROVE receives[msg'[d]] > 0
    BY <1>2, <1>3, <1>8, <2>1 DEF IInv, Delivered, TypeOK
  <2>2. ASSUME NEW t \in orphans' PROVE receives[t.msg] > 0
    BY <1>3, <1>4 DEF IInv, Delivered
  <2> QED BY <1>1, <2>1, <2>2 DEF IInv, Delivered, broker
<1>13. QueueOrder' /\ AppliedIsStored' /\ InboxIsExact' /\ CommandsOrdered'
  BY <1>1 DEF IInv, QueueOrder, AppliedIsStored, InboxIsExact, CommandsOrdered,
              Recorded, broker
<1> QED BY <1>5, <1>6, <1>9, <1>10, <1>11, <1>12, <1>13 DEF IInv

-----------------------------------------------------------------------------
(* The theorems.                                                             *)

\* The first state satisfies the invariant.
LEMMA InitIInv == Init => IInv
<1> SUFFICES ASSUME Init PROVE IInv
  OBVIOUS
<1>1. TypeOK
  BY NoWriteType, BoundAssumption DEF Init, TypeOK, InHand, InTransaction
<1>2. Ended /\ (\A c \in Consumer : Progress(c))
  BY DEF Init, Ended, Progress, InTransaction
<1>3. WritesExclude
  BY NoWriteType DEF Init, WritesExclude
<1>4. Delivered /\ QueueOrder
  BY DEF Init, Delivered, QueueOrder, InHand, InTransaction
<1>5. AppliedIsStored /\ InboxIsExact /\ CommandsOrdered
  BY DEF Init, AppliedIsStored, InboxIsExact, CommandsOrdered
<1> QED BY <1>1, <1>2, <1>3, <1>4, <1>5 DEF Init, IInv

\* Every step keeps the invariant.
LEMMA NextIInv == ASSUME IInv, [Next]_vars PROVE IInv'
<1>1. ASSUME NEW c \in Consumer, NEW m \in Message, ReceiveMessage(c, m) \/ ReceiveFails(c, m)
      PROVE  IInv'
  BY <1>1, ReceiveStep
<1>2. ASSUME NEW c \in Consumer, Work(c) PROVE IInv'
  BY <1>2, StartStep, RegisterStep, ProcessTxStep, CompleteStep, CommitStep, LoseStep,
     FailStep, RoundStep DEF Work, Process
<1>3. ASSUME NEW c \in Consumer,
             Stop(c) \/ DrainEnds(c) \/ Exit(c) \/ Crash(c) \/ Restart(c)
      PROVE  IInv'
  BY <1>3, RoundStep, LoseStep
<1>4. ASSUME NEW m \in Message, Expire(m) \/ Redrive(m) \/ ProcessOverHTTP(m) PROVE IInv'
  BY <1>4, TimerStep, HTTPStep
<1>5. ASSUME NEW t \in orphans, OrphanEnds(t) PROVE IInv'
  BY <1>5, OrphanStep
<1>6. CASE UNCHANGED vars
  <2>1. UNCHANGED <<mail, broker, worker, database>>
    BY <1>6 DEF vars
  <2>2. TypeOK' /\ Ended'
    BY <2>1 DEF IInv, TypeOK, Ended, broker, worker, database
  <2> QED BY <2>1, <2>2, BrokerStep DEF broker, worker
<1> QED BY <1>1, <1>2, <1>3, <1>4, <1>5, <1>6 DEF Next

\* The inductive invariant holds in every reachable state.
THEOREM Invariance == Spec => []IInv
<1> QED BY InitIInv, NextIInv, PTL DEF Spec

\* Variables have their types, and uncommitted writes exist only inside the
\* transaction of a worker that has a message in hand.
THEOREM TypeCorrect == Spec => []TypeOK
<1>1. IInv => TypeOK
  BY DEF IInv
<1> QED BY <1>1, Invariance, PTL

\* Inbox and wagers move together, however many consumers crash, lose the answer
\* to a COMMIT or race with HTTP.
THEOREM InboxMovesWithWagers == Spec => []InboxIsExact
<1>1. IInv => InboxIsExact
  BY DEF IInv
<1> QED BY <1>1, Invariance, PTL

\* No message is applied twice, and none after a later one of its wallet unless
\* it had been given up meanwhile.
THEOREM CommandsStayOrdered == Spec => []CommandsOrdered
<1>1. IInv => CommandsOrdered
  BY DEF IInv
<1> QED BY <1>1, Invariance, PTL

-----------------------------------------------------------------------------
(* CommandConsumer implements CommandDelivery.                               *)

\* The first state is an initial state of CommandDelivery.
LEMMA InitDelivery == Init => Delivery!Init
BY DEF Init, Delivery!Init, Outcome

\* A transaction that becomes durable records its command under a free key, or
\* changes nothing that CommandDelivery sees.
LEMMA PersistDelivery ==
  ASSUME IInv, NEW m \in Message, NEW w \in Write, Persist(m, w),
         UNCHANGED <<mail, status>>,
         w.store => wagers[mail[m].key] = None
  PROVE  [Delivery!Next]_Delivery!vars
<1>1. mail[m].key \in Key /\ mail[m].req \in Request
  BY MailType DEF IInv
<1>2. UNCHANGED <<mail, Outcome>>
  BY DEF Outcome
<1>3. CASE w.store
  <2>1. Delivery!Record(mail[m].key)
    BY <1>1, <1>2, <1>3 DEF Persist, Delivery!Record
  <2> QED BY <1>1, <2>1 DEF Delivery!Next
<1>4. CASE ~w.store
  BY <1>2, <1>4 DEF Persist, Delivery!vars
<1> QED BY <1>3, <1>4

\* Every step is a step of CommandDelivery, or leaves what it sees alone.
LEMMA NextDelivery == ASSUME IInv, [Next]_vars PROVE [Delivery!Next]_Delivery!vars
<1>1. ASSUME UNCHANGED <<mail, status, wagers>> PROVE [Delivery!Next]_Delivery!vars
  BY <1>1 DEF Outcome, Delivery!vars
<1>2. ASSUME NEW c \in Consumer, NEW m \in Message, ReceiveMessage(c, m) \/ ReceiveFails(c, m)
      PROVE  [Delivery!Next]_Delivery!vars
  BY <1>1, <1>2 DEF ReceiveMessage, ReceiveFails, Deliver, database
<1>3. ASSUME NEW c \in Consumer, DeleteMessage(c) PROVE [Delivery!Next]_Delivery!vars
  <2>1. UNCHANGED <<mail, wagers>> /\ msg[c] \in Message /\ Recorded(msg[c])
    BY <1>3, HandType DEF DeleteMessage, database, IInv, Progress, InHand
  <2>2. CASE status' = status
    BY <1>1, <2>1, <2>2
  <2>3. CASE status[msg[c]] = "queued" /\ status' = [status EXCEPT ![msg[c]] = "deleted"]
    <3>1. Outcome[msg[c]] = "waiting" /\ Outcome' = [Outcome EXCEPT ![msg[c]] = "handled"]
      BY <2>1, <2>3 DEF Outcome, IInv, TypeOK
    <3>2. Delivery!Handle(msg[c])
      BY <2>1, <3>1 DEF Delivery!Handle, Recorded
    <3> QED BY <2>1, <3>2 DEF Delivery!Next
  <2> QED BY <1>3, <2>2, <2>3 DEF DeleteMessage
<1>4. ASSUME NEW c \in Consumer, Commit(c) PROVE [Delivery!Next]_Delivery!vars
  <2>1. PICK m \in Message, w \in Write : m = msg[c] /\ w = write[c]
    BY <1>4, HandType DEF Commit, IInv, TypeOK, InHand, InTransaction
  <2>2. w.store => wagers[mail[m].key] = None
    BY <2>1 DEF IInv, WritesExclude
  <2> QED BY <1>4, <2>1, <2>2, PersistDelivery DEF Commit, broker
<1>5. ASSUME NEW c \in Consumer, Work(c), ~DeleteMessage(c), ~Commit(c)
      PROVE  [Delivery!Next]_Delivery!vars
  BY <1>1, <1>5 DEF Work, Process, StartMessage, Register, ProcessTx, Complete,
     CommitUnanswered, Fail, scheduleRetry, releaseForShutdown, leaveProcessed,
     broker, database
<1>6. ASSUME NEW c \in Consumer,
             Stop(c) \/ DrainEnds(c) \/ Exit(c) \/ Crash(c) \/ Restart(c)
      PROVE  [Delivery!Next]_Delivery!vars
  BY <1>1, <1>6 DEF Stop, DrainEnds, Exit, Crash, Restart, broker, database
<1>7. ASSUME NEW m \in Message, Expire(m) PROVE [Delivery!Next]_Delivery!vars
  BY <1>1, <1>7 DEF Expire, database
<1>8. ASSUME NEW m \in Message, Redrive(m) PROVE [Delivery!Next]_Delivery!vars
  <2>1. Outcome[m] = "waiting" /\ Outcome' = [Outcome EXCEPT ![m] = "dead"]
    BY <1>8 DEF Redrive, AtHead, Outcome, IInv, TypeOK
  <2>2. Delivery!Bury(m)
    BY <1>8, <2>1 DEF Redrive, database, Delivery!Bury
  <2> QED BY <2>2 DEF Delivery!Next
<1>9. ASSUME NEW m \in Message, ProcessOverHTTP(m) PROVE [Delivery!Next]_Delivery!vars
  <2>1. mail[m].key \in Key /\ mail[m].req \in Request
    BY MailType DEF IInv
  <2>2. UNCHANGED <<mail, Outcome>>
    BY <1>9 DEF ProcessOverHTTP, broker, Outcome
  <2>3. Delivery!Record(mail[m].key)
    BY <1>9, <2>1, <2>2 DEF ProcessOverHTTP, Delivery!Record
  <2> QED BY <2>1, <2>3 DEF Delivery!Next
<1>10. ASSUME NEW t \in orphans, OrphanEnds(t) PROVE [Delivery!Next]_Delivery!vars
  <2>1. PICK m \in Message, w \in Write : m = t.msg /\ w = t.write
    BY DEF IInv, TypeOK, Orphan
  <2>2. w.store => wagers[mail[m].key] = None
    BY <2>1 DEF IInv, WritesExclude
  <2>3. UNCHANGED <<mail, status>>
    BY <1>10 DEF OrphanEnds, broker
  <2> QED BY <1>1, <1>10, <2>1, <2>2, <2>3, PersistDelivery DEF OrphanEnds
<1>11. CASE UNCHANGED vars
  BY <1>1, <1>11 DEF vars, broker, database
<1> QED BY <1>2, <1>3, <1>4, <1>5, <1>6, <1>7, <1>8, <1>9, <1>10, <1>11 DEF Next

\* The consumers, the inbox and the queue keep the promise of CommandDelivery:
\* nothing is deleted before its command is stored, and nothing is stored twice.
THEOREM DeliveryIsImplemented == Spec => ImplementsDelivery
<1> QED BY InitDelivery, NextDelivery, Invariance, PTL
        DEF Spec, ImplementsDelivery, Delivery!Spec
=============================================================================
