---------------------------- MODULE CommandConsumer ---------------------------
(***************************************************************************)
(* Consumption of wager-transactions.fifo: several instances run the       *)
(* consumer worker, whose every round is ConsumeOnceWithContexts, and      *)
(* every message it takes goes through one MessageProcessor transaction    *)
(* (inbox Register, ProcessTx, inbox Complete, COMMIT) before it is        *)
(* deleted.                                                                *)
(*                                                                         *)
(* What ProcessTx does to wallets and ledger is the subject of WagerTx;    *)
(* here it either stores the request under its key, finds it stored        *)
(* already, or refuses it.  The broker and PostgreSQL are external: FIFO   *)
(* delivery by message group, visibility, redrive, row locks and a COMMIT  *)
(* whose answer is lost.                                                   *)
(***************************************************************************)
EXTENDS Naturals, Sequences, FiniteSets

CONSTANTS
  Consumer,       \* instances of the consumer worker
  MessageCount,   \* how many messages the producers send
  Mails,          \* what they may have sent: a set of sequences of envelopes
  MessageId,      \* values of messageId
  Wallet,         \* values of walletId, the message group
  Key,            \* values of idempotencyKey
  Request,        \* wager requests, up to the fields the hash covers
  MaxReceive,     \* maxReceiveCount of the redrive policy
  None            \* no row, no message

Message == 1..MessageCount

\* The body of a message.  PayloadHash is the SHA-256 of exactly these bytes,
\* so two bodies have the same hash when they are the same envelope.
Envelope == [id: MessageId, wallet: Wallet, key: Key, req: Request,
             wellFormed: BOOLEAN]

InboxRow == [hash: Envelope, completed: BOOLEAN]

\* What an open transaction has written: an inbox row, and whether ProcessTx
\* has stored the request.
Write == [row: InboxRow \cup {None}, store: BOOLEAN]

NoWrite == [row |-> None, store |-> FALSE]

ASSUME MailAssumption ==
  /\ MessageCount \in Nat
  /\ Mails \subseteq [Message -> Envelope]

ASSUME BoundAssumption == MaxReceive \in Nat \ {0}

ASSUME NoneAssumption ==
  /\ None \notin Consumer
  /\ None \notin Message
  /\ None \notin InboxRow
  /\ None \notin Request

VARIABLES
  mail,       \* the messages the producers have sent
  status,     \* queued, deleted or dead (on the dead-letter queue)
  hidden,     \* in flight: received, and its visibility timeout still runs
  receives,   \* ApproximateReceiveCount
  pc,         \* where a worker is
  msg,        \* the message it has received
  ctx,        \* its contexts: live, stopping (receiveCtx cancelled),
              \* cancelled (processingCtx too), down (the process has ended)
  write,      \* the uncommitted writes of its transaction
  orphans,    \* transactions whose COMMIT was sent and whose answer was lost
  inbox,      \* table inbox_messages (committed rows)
  wagers,     \* the requests stored under each idempotency key
  applied     \* history: the messages whose transaction stored their request

broker == <<status, hidden, receives>>
database == <<orphans, inbox, wagers, applied>>
worker == <<pc, msg, ctx, write>>
vars == <<mail, broker, worker, database>>

\* The places at which the transaction is open, and those at which a message
\* is in hand.
InTransaction == {"process", "complete", "commit"}

InHand == {"received", "register", "delete", "undeleted", "failed"} \cup InTransaction

Orphan == [msg: Message, write: Write]

\* Variables have the types of what they stand for; a worker holds a message
\* exactly between receiving it and being done with it, and uncommitted writes
\* exist only inside its transaction.
TypeOK ==
  /\ mail \in Mails
  /\ status \in [Message -> {"queued", "deleted", "dead"}]
  /\ hidden \in [Message -> BOOLEAN]
  /\ receives \in [Message -> 0..MaxReceive]
  /\ pc \in [Consumer -> {"poll", "stopped"} \cup InHand]
  /\ msg \in [Consumer -> Message \cup {None}]
  /\ ctx \in [Consumer -> {"live", "stopping", "cancelled", "down"}]
  /\ write \in [Consumer -> Write]
  /\ orphans \subseteq Orphan
  /\ inbox \in [MessageId -> InboxRow \cup {None}]
  /\ wagers \in [Key -> Request \cup {None}]
  /\ applied \in Seq(Message)
  /\ \A c \in Consumer :
       /\ pc[c] \in InHand <=> msg[c] # None
       /\ pc[c] \notin InTransaction => write[c] = NoWrite

Init ==
  /\ mail \in Mails
  /\ status = [m \in Message |-> "queued"]
  /\ hidden = [m \in Message |-> FALSE]
  /\ receives = [m \in Message |-> 0]
  /\ pc = [c \in Consumer |-> "poll"]
  /\ msg = [c \in Consumer |-> None]
  /\ ctx = [c \in Consumer |-> "live"]
  /\ write = [c \in Consumer |-> NoWrite]
  /\ orphans = {}
  /\ inbox = [i \in MessageId |-> None]
  /\ wagers = [k \in Key |-> None]
  /\ applied = <<>>

-----------------------------------------------------------------------------
(* The command queue (external): FIFO within a message group, at least once. *)

\* A message is delivered only when no earlier message of its group is still
\* queued and none of them is in flight.
AtHead(m) ==
  /\ status[m] = "queued"
  /\ ~hidden[m]
  /\ \A n \in Message :
       /\ status[n] = "queued"
       /\ mail[n].wallet = mail[m].wallet
       => n >= m /\ ~hidden[n]

\* A delivery starts the visibility timeout and counts.
Deliver(m) ==
  /\ AtHead(m)
  /\ receives[m] < MaxReceive
  /\ hidden' = [hidden EXCEPT ![m] = TRUE]
  /\ receives' = [receives EXCEPT ![m] = @ + 1]
  /\ UNCHANGED status

\* The visibility timeout ends, or the backoff that scheduleRetry has set
\* (retryVisibility: 5, 10, 20, 40, 60 seconds), whatever the receiver does.
Expire(m) ==
  /\ hidden[m]
  /\ status[m] = "queued"
  /\ hidden' = [hidden EXCEPT ![m] = FALSE]
  /\ UNCHANGED <<mail, status, receives, worker, database>>

\* The redrive policy.
Redrive(m) ==
  /\ AtHead(m)
  /\ receives[m] = MaxReceive
  /\ status' = [status EXCEPT ![m] = "dead"]
  /\ UNCHANGED <<mail, hidden, receives, worker, database>>

-----------------------------------------------------------------------------
(* PostgreSQL.                                                               *)

Body(c) == mail[msg[c]]

\* The open transactions but that of c, as the message they process and what
\* they have written.
Others(c) ==
  orphans \cup {[msg |-> msg[d], write |-> write[d]] :
                  d \in {d \in Consumer \ {c} : pc[d] \in InTransaction}}

\* INSERT ... ON CONFLICT and SELECT ... FOR UPDATE wait for a transaction that
\* has inserted or locked the inbox row.
InboxFree(c) == \A t \in Others(c) : mail[t.msg].id # Body(c).id

\* FOR UPDATE of the wallet, and the unique index on the key.
WalletFree(wallet, key, open) ==
  \A t \in open : t.write.store =>
    mail[t.msg].wallet # wallet /\ mail[t.msg].key # key

\* The transaction of message m with writes w becomes durable.
Persist(m, w) ==
  /\ inbox' = IF w.row = None THEN inbox
              ELSE [inbox EXCEPT ![mail[m].id] = w.row]
  /\ wagers' = IF w.store THEN [wagers EXCEPT ![mail[m].key] = mail[m].req]
               ELSE wagers
  /\ applied' = IF w.store THEN Append(applied, m) ELSE applied

\* A COMMIT whose answer was lost is carried out after all, or was never
\* received and the server rolls back.
OrphanEnds(t) ==
  /\ orphans' = orphans \ {t}
  /\ \/ Persist(t.msg, t.write)
     \/ UNCHANGED <<inbox, wagers, applied>>
  /\ UNCHANGED <<mail, broker, worker>>

\* The same command comes over HTTP, in a transaction of its own.
ProcessOverHTTP(m) ==
  /\ mail[m].wellFormed
  /\ wagers[mail[m].key] = None
  /\ WalletFree(mail[m].wallet, mail[m].key, Others(None))
  /\ wagers' = [wagers EXCEPT ![mail[m].key] = mail[m].req]
  /\ UNCHANGED <<mail, broker, worker, orphans, inbox, applied>>

-----------------------------------------------------------------------------
(* ConsumeOnceWithContexts: receive and decode.                              *)

\* Whether decodeCommand accepts a body: JSON of the right type with every
\* field present, a time, a known currency and an amount.  Every failed check
\* leads to the same error return.
decodeCommand(body) == body.wellFormed

\* ReceiveMessage, one message at a time, under receiveCtx.
ReceiveMessage(c, m) ==
  /\ pc[c] = "poll"
  /\ ctx[c] = "live"
  /\ Deliver(m)
  /\ msg' = [msg EXCEPT ![c] = m]
  /\ pc' = [pc EXCEPT ![c] = "received"]
  /\ UNCHANGED <<mail, ctx, write, database>>

\* The answer is lost, or the long poll is cancelled after the broker has
\* chosen a message: nobody has it, and nobody releases it.
ReceiveFails(c, m) ==
  /\ pc[c] = "poll"
  /\ ctx[c] = "live"
  /\ Deliver(m)
  /\ UNCHANGED <<mail, worker, database>>

\* Variant: the message is deleted when it is received.
startAndDelete(c) ==
  /\ pc[c] = "received"
  /\ pc' = [pc EXCEPT ![c] = IF ctx[c] = "live" /\ decodeCommand(Body(c))
                             THEN "register" ELSE "failed"]
  /\ status' = [status EXCEPT ![msg[c]] = "deleted"]
  /\ hidden' = [hidden EXCEPT ![msg[c]] = FALSE]
  /\ UNCHANGED <<mail, receives, msg, ctx, write, database>>

\* receiveCtx is checked before the message is touched, and decodeCommand
\* refuses a body with a missing or invalid field.
StartMessage(c) ==
  /\ pc[c] = "received"
  /\ pc' = [pc EXCEPT ![c] = IF ctx[c] = "live" /\ decodeCommand(Body(c))
                             THEN "register" ELSE "failed"]
  /\ UNCHANGED <<mail, broker, msg, ctx, write, database>>

-----------------------------------------------------------------------------
(* MessageProcessor.Process: a statement that returns without error did so   *)
(* before processingCtx was cancelled.                                       *)

Registered(c, row) ==
  CASE row = None            -> "process"
    [] row # None /\ row.hash # Body(c) -> "failed"      \* ErrPayloadConflict
    [] OTHER -> IF row.completed THEN "commit" ELSE "process"

\* Variant: the hash of the known message is not compared.
RegisterAnyPayload(c) ==
  /\ pc[c] = "register"
  /\ ctx[c] # "cancelled"
  /\ InboxFree(c)
  /\ LET row == inbox[Body(c).id]
     IN  /\ pc' = [pc EXCEPT ![c] = IF row # None THEN "commit" ELSE "process"]
         /\ write' = IF row # None THEN write
                     ELSE [write EXCEPT ![c].row = [hash |-> Body(c), completed |-> FALSE]]
  /\ UNCHANGED <<mail, broker, msg, ctx, database>>

\* Begin and inbox.Register.
Register(c) ==
  /\ pc[c] = "register"
  /\ ctx[c] # "cancelled"
  /\ InboxFree(c)
  /\ LET row == inbox[Body(c).id]
         next == Registered(c, row)
     IN  /\ pc' = [pc EXCEPT ![c] = next]
         /\ write' = IF next # "process" THEN write
                     ELSE [write EXCEPT ![c].row =
                             IF row # None THEN row
                             ELSE [hash |-> Body(c), completed |-> FALSE]]
  /\ UNCHANGED <<mail, broker, msg, ctx, database>>

\* ProcessTx stores the request under its key, replays the stored one, or
\* refuses a key that is taken by another request.
ProcessTx(c) ==
  /\ pc[c] = "process"
  /\ ctx[c] # "cancelled"
  /\ LET stored == wagers[Body(c).key]
     IN  \/ /\ stored = None
            /\ WalletFree(Body(c).wallet, Body(c).key, Others(c))
            /\ write' = [write EXCEPT ![c].store = TRUE]
            /\ pc' = [pc EXCEPT ![c] = "complete"]
         \/ /\ stored = Body(c).req
            /\ pc' = [pc EXCEPT ![c] = "complete"]
            /\ UNCHANGED write
         \/ /\ stored \notin {None, Body(c).req}
            /\ pc' = [pc EXCEPT ![c] = "failed"]
            /\ write' = [write EXCEPT ![c] = NoWrite]
  /\ UNCHANGED <<mail, broker, msg, ctx, database>>

\* Variant: completed_at is never set.
SkipComplete(c) ==
  /\ pc[c] = "complete"
  /\ pc' = [pc EXCEPT ![c] = "commit"]
  /\ UNCHANGED <<mail, broker, msg, ctx, write, database>>

\* inbox.Complete, which must update one row.
Complete(c) ==
  /\ pc[c] = "complete"
  /\ ctx[c] # "cancelled"
  /\ LET row == write[c].row
         one == row # None /\ ~row.completed
     IN  /\ pc' = [pc EXCEPT ![c] = IF one THEN "commit" ELSE "failed"]
         /\ write' = [write EXCEPT ![c] = IF one THEN [@ EXCEPT !.row.completed = TRUE]
                                         ELSE NoWrite]
  /\ UNCHANGED <<mail, broker, msg, ctx, database>>

Commit(c) ==
  /\ pc[c] = "commit"
  /\ ctx[c] # "cancelled"
  /\ Persist(msg[c], write[c])
  /\ write' = [write EXCEPT ![c] = NoWrite]
  /\ pc' = [pc EXCEPT ![c] = "delete"]
  /\ UNCHANGED <<mail, broker, msg, ctx, orphans>>

Left(c) ==
  IF write[c] = NoWrite THEN {} ELSE {[msg |-> msg[c], write |-> write[c]]}

\* COMMIT was sent and the connection is lost or processingCtx cancelled
\* before the answer: the consumer sees an error and cannot know.
CommitUnanswered(c) ==
  /\ pc[c] = "commit"
  /\ orphans' = orphans \cup Left(c)
  /\ write' = [write EXCEPT ![c] = NoWrite]
  /\ pc' = [pc EXCEPT ![c] = "failed"]
  /\ UNCHANGED <<mail, broker, msg, ctx, inbox, wagers, applied>>

\* Variant: the deferred Rollback is missing.
FailWithoutRollback(c) ==
  /\ pc[c] \in {"register"} \cup InTransaction
  /\ pc' = [pc EXCEPT ![c] = "failed"]
  /\ UNCHANGED <<mail, broker, msg, ctx, write, database>>

\* A statement fails, for instance because processingCtx is cancelled, and the
\* deferred Rollback undoes the transaction.
Fail(c) ==
  /\ pc[c] \in {"register"} \cup InTransaction
  /\ pc' = [pc EXCEPT ![c] = "failed"]
  /\ write' = [write EXCEPT ![c] = NoWrite]
  /\ UNCHANGED <<mail, broker, msg, ctx, database>>

-----------------------------------------------------------------------------
(* ConsumeOnceWithContexts: what becomes of the message.                     *)

\* The round ends and the worker loops.
EndRound(c) ==
  /\ pc' = [pc EXCEPT ![c] = "poll"]
  /\ msg' = [msg EXCEPT ![c] = None]

\* DeleteMessage after the commit.  A receipt that another delivery has made
\* stale may have no effect, and an effect may come without an answer.
DeleteMessage(c) ==
  /\ pc[c] = "delete"
  /\ \/ /\ status[msg[c]] = "queued"
        /\ status' = [status EXCEPT ![msg[c]] = "deleted"]
        /\ hidden' = [hidden EXCEPT ![msg[c]] = FALSE]
     \/ UNCHANGED <<status, hidden>>
  /\ \/ ctx[c] # "cancelled" /\ EndRound(c)
     \/ pc' = [pc EXCEPT ![c] = "undeleted"] /\ UNCHANGED msg
  /\ UNCHANGED <<mail, receives, ctx, write, database>>

\* Variant: the worker returns when a message has failed.
returnOnError(c) ==
  /\ pc[c] \in {"failed", "undeleted"}
  /\ ctx[c] = "live"
  /\ pc' = [pc EXCEPT ![c] = "stopped"]
  /\ msg' = [msg EXCEPT ![c] = None]
  /\ UNCHANGED <<mail, broker, ctx, write, database>>

\* The message stays hidden for the backoff; Expire ends it, and also ends the
\* old timeout if ChangeMessageVisibility fails.
scheduleRetry(c) ==
  /\ pc[c] \in {"failed", "undeleted"}
  /\ ctx[c] = "live"
  /\ EndRound(c)
  /\ UNCHANGED <<mail, broker, ctx, write, database>>

\* Visibility zero, for another instance to take over at once; the call may
\* fail.
releaseForShutdown(c) ==
  /\ pc[c] = "failed"
  /\ ctx[c] # "live"
  /\ \/ hidden' = [hidden EXCEPT ![msg[c]] = FALSE]
     \/ UNCHANGED hidden
  /\ EndRound(c)
  /\ UNCHANGED <<mail, status, receives, ctx, write, database>>

\* A message that was processed and not deleted is not released at shutdown.
leaveProcessed(c) ==
  /\ pc[c] = "undeleted"
  /\ ctx[c] # "live"
  /\ EndRound(c)
  /\ UNCHANGED <<mail, broker, ctx, write, database>>

-----------------------------------------------------------------------------
(* The worker's contexts, and the process around it.                         *)

\* OnStop cancels the worker context.
Stop(c) ==
  /\ ctx[c] = "live"
  /\ ctx' = [ctx EXCEPT ![c] = "stopping"]
  /\ UNCHANGED <<mail, broker, pc, msg, write, database>>

\* watchForShutdown: the drain budget is spent, cancelProcessing.
DrainEnds(c) ==
  /\ ctx[c] = "stopping"
  /\ pc[c] \in InHand
  /\ ctx' = [ctx EXCEPT ![c] = "cancelled"]
  /\ UNCHANGED <<mail, broker, pc, msg, write, database>>

\* Run returns and the process ends.
Exit(c) ==
  /\ pc[c] = "poll"
  /\ ctx[c] \in {"stopping", "cancelled"}
  /\ pc' = [pc EXCEPT ![c] = "stopped"]
  /\ ctx' = [ctx EXCEPT ![c] = "down"]
  /\ UNCHANGED <<mail, broker, msg, write, database>>

\* The process dies; the server rolls its transaction back, unless COMMIT was
\* on its way.
Crash(c) ==
  /\ ctx[c] # "down"
  /\ pc' = [pc EXCEPT ![c] = "stopped"]
  /\ msg' = [msg EXCEPT ![c] = None]
  /\ ctx' = [ctx EXCEPT ![c] = "down"]
  /\ write' = [write EXCEPT ![c] = NoWrite]
  /\ orphans' = orphans \cup (IF pc[c] = "commit" THEN Left(c) ELSE {})
  /\ UNCHANGED <<mail, broker, inbox, wagers, applied>>

\* The supervisor starts a process that has ended.
Restart(c) ==
  /\ ctx[c] = "down"
  /\ pc' = [pc EXCEPT ![c] = "poll"]
  /\ ctx' = [ctx EXCEPT ![c] = "live"]
  /\ UNCHANGED <<mail, broker, msg, write, database>>

-----------------------------------------------------------------------------

Process(c) ==
  Register(c) \/ ProcessTx(c) \/ Complete(c) \/ Commit(c) \/ CommitUnanswered(c) \/ Fail(c)

\* The steps of a worker that has a message.
Work(c) ==
  \/ StartMessage(c)
  \/ Process(c)
  \/ DeleteMessage(c)
  \/ scheduleRetry(c)
  \/ releaseForShutdown(c)
  \/ leaveProcessed(c)

Next ==
  \/ \E c \in Consumer :
       \/ \E m \in Message : ReceiveMessage(c, m) \/ ReceiveFails(c, m)
       \/ Work(c)
       \/ Stop(c) \/ DrainEnds(c) \/ Exit(c) \/ Crash(c) \/ Restart(c)
  \/ \E m \in Message : Expire(m) \/ Redrive(m) \/ ProcessOverHTTP(m)
  \/ \E t \in orphans : OrphanEnds(t)

Spec == Init /\ [][Next]_vars

\* The broker's timers and redrive run, a lost transaction ends, an instance
\* that has ended is started again, its statements return, and the instances do
\* not die each time they are about to receive a message.
FairSpec ==
  /\ Spec
  /\ \A c \in Consumer :
       /\ WF_vars(Work(c))
       /\ WF_vars(Exit(c) \/ Restart(c))
       /\ SF_vars(\E m \in Message : ReceiveMessage(c, m))
  /\ \A m \in Message : WF_vars(Expire(m)) /\ WF_vars(Redrive(m))
  /\ WF_vars(\E t \in orphans : OrphanEnds(t))

-----------------------------------------------------------------------------
(* Properties.                                                               *)

\* Inbox and wagers move together: a committed inbox row is completed, it is
\* the row of a message that was sent with exactly this body, and the request
\* of that body is stored.  So the branch of Register that finds a known and
\* uncompleted message is never needed.
InboxIsExact ==
  \A i \in MessageId : inbox[i] # None =>
    LET body == inbox[i].hash
    IN  /\ inbox[i].completed
        /\ body.id = i
        /\ \E m \in Message : mail[m] = body
        /\ body.wellFormed
        /\ wagers[body.key] = body.req

\* "Commands for one wallet remain ordered": through timeouts, redeliveries,
\* lost answers and restarts no message is applied twice, and none after a
\* later message of its wallet unless it had been given up on the dead-letter
\* queue meanwhile.
CommandsOrdered ==
  \A i, j \in DOMAIN applied : i < j =>
    /\ applied[i] # applied[j]
    /\ \/ mail[applied[i]].wallet # mail[applied[j]].wallet
       \/ applied[i] < applied[j]
       \/ status[applied[j]] = "dead"

Outcome ==
  [m \in Message |-> CASE status[m] = "queued"  -> "waiting"
                       [] status[m] = "deleted" -> "handled"
                       [] status[m] = "dead"    -> "dead"]

Delivery == INSTANCE CommandDelivery WITH
              Message <- Message, Mails <- Mails, Key <- Key, Request <- Request,
              None <- None, mail <- mail, outcome <- Outcome, recorded <- wagers

\* The consumers and the inbox keep the promise of CommandDelivery: nothing is
\* deleted before the command it carries is stored, nothing is stored twice or
\* overwritten, and a reused messageId or key never passes for the first use.
ImplementsDelivery == Delivery!Spec

\* No message stays on the queue for ever: whatever its body, and whichever
\* instances stop, crash or lose answers, it is handled or given up.  In
\* particular a poison message neither stops the workers nor blocks its wallet.
EventuallySettled ==
  \A m \in Message : (status[m] = "queued") ~> (status[m] # "queued")
=============================================================================
