---------------------------- MODULE OutboxPublisher ---------------------------
(***************************************************************************)
(* Publication of the transactional outbox: several instances run          *)
(* PublishBatch on the table outbox_events and send to wager-events.fifo.  *)
(*                                                                         *)
(* The rows are inserted by the transactions of WagerTx.  An aggregate is  *)
(* a wager transaction; Lifecycle[a] is the sequence of the sets of events *)
(* that its successive database transactions insert.                       *)
(*                                                                         *)
(* Time is relative, so that nothing bounds it: a row stores how long its  *)
(* next attempt is away, a publisher how long its transaction has run, and *)
(* occurred_at is a logical stamp.                                         *)
(***************************************************************************)
EXTENDS Integers, Sequences, FiniteSets

CONSTANTS
  Publisher,      \* instances of the outbox worker
  Aggregate,      \* wager transactions
  Event,          \* outbox rows, by event id
  Lifecycle,      \* Aggregate -> Seq(SUBSET Event)
  Poison,         \* events that the broker refuses at every attempt
  None,           \* no row
  BatchSize,      \* defaultBatchSize, 10
  RetryBase,      \* retryBaseDelay, 5s
  MaxRetry,       \* maxRetryDelay, 1min
  Ahead,          \* how far the clock of an inserting instance may be ahead
  MaxAttempts,    \* bound of the attempts counter, past the last doubling
  MaxCopies       \* bound of the count of accepted sends

ASSUME LifecycleAssumption ==
  /\ Lifecycle \in [Aggregate -> Seq(SUBSET Event)]
  /\ Poison \subseteq Event

\* A transaction inserts finitely many rows, each under a new uuid.
ASSUME FreshAssumption ==
  \A a, b \in Aggregate : \A i \in DOMAIN Lifecycle[a], j \in DOMAIN Lifecycle[b] :
    /\ IsFiniteSet(Lifecycle[a][i])
    /\ a # b \/ i # j => Lifecycle[a][i] \cap Lifecycle[b][j] = {}

ASSUME BoundAssumption ==
  /\ BatchSize \in Nat \ {0}
  /\ RetryBase \in Nat \ {0}
  /\ MaxRetry \in Nat
  /\ RetryBase <= MaxRetry
  /\ Ahead \in 0..MaxRetry
  /\ MaxAttempts \in Nat
  /\ MaxCopies \in Nat \ {0}

VARIABLES
  rows,       \* table outbox_events (committed rows)
  stage,      \* how many transactions of each aggregate have committed
  batch,      \* the claimed events a publisher has yet to send
  marked,     \* its uncommitted published_at updates
  retried,    \* its uncommitted retry schedules
  age,        \* how long its transaction has run, None outside of one
  failed,     \* its last batch ended with an error and no other has begun
  queue,      \* what wager-events.fifo delivers: first accepted sends, in order
  copies      \* how often the broker has accepted each event

vars == <<rows, stage, batch, marked, retried, age, failed, queue, copies>>

Row == [occurred: Nat, attempts: 0..MaxAttempts, wait: 0..MaxRetry,
        published: BOOLEAN]

ASSUME NoneAssumption == None \notin Row /\ None \notin 0..MaxRetry

\* Every variable has the type of the rows and Go values it stands for; no
\* attempt is further away than the largest backoff.
TypeOK ==
  /\ rows \in [Event -> Row \cup {None}]
  /\ stage \in [Aggregate -> Nat]
  /\ batch \in [Publisher -> Seq(Event)]
  /\ marked \in [Publisher -> SUBSET Event]
  /\ retried \in [Publisher -> SUBSET Event]
  /\ age \in [Publisher -> (0..MaxRetry) \cup {None}]
  /\ failed \in [Publisher -> BOOLEAN]
  /\ queue \in Seq(Event)
  /\ copies \in [Event -> 0..MaxCopies]

Init ==
  /\ rows = [e \in Event |-> None]
  /\ stage = [a \in Aggregate |-> 0]
  /\ batch = [p \in Publisher |-> <<>>]
  /\ marked = [p \in Publisher |-> {}]
  /\ retried = [p \in Publisher |-> {}]
  /\ age = [p \in Publisher |-> None]
  /\ failed = [p \in Publisher |-> FALSE]
  /\ queue = <<>>
  /\ copies = [e \in Event |-> 0]

-----------------------------------------------------------------------------

Stored == {e \in Event : rows[e] # None}

InBatch(p) == {batch[p][i] : i \in DOMAIN batch[p]}

\* The rows a publisher has locked: FOR UPDATE lasts until its transaction ends.
Claimed(p) == InBatch(p) \cup marked[p] \cup retried[p]

\* Variant: the rows are read without FOR UPDATE SKIP LOCKED.
LockedByNobody == {}

LockedRows == UNION {Claimed(p) : p \in Publisher}

\* The next transaction of a commits.  All its events carry one time.Now(), not
\* before the stamps in the table; a resolver pass comes at least
\* referenceRetryDelay after the transaction that left the reference pending.
InsertEvents(a) ==
  /\ stage[a] < Len(Lifecycle[a])
  /\ stage' = [stage EXCEPT ![a] = @ + 1]
  /\ \E later \in (IF stage[a] = 0 THEN {0, 1} ELSE {1}), away \in 0..Ahead :
       LET new == Lifecycle[a][stage[a] + 1]
           last == {rows[e].occurred : e \in Stored} \cup {0}
           stamp == later + CHOOSE m \in last : \A n \in last : n <= m
       IN  rows' = [e \in Event |-> IF e \in new
                                    THEN [occurred |-> stamp, attempts |-> 0,
                                          wait |-> away, published |-> FALSE]
                                    ELSE rows[e]]
  /\ UNCHANGED <<batch, marked, retried, age, failed, queue, copies>>

-----------------------------------------------------------------------------
(* PublishBatch.                                                             *)

\* Variant: next_attempt_at is not consulted.
PendingAtOnce == {e \in Stored : ~rows[e].published}

Pending == {e \in Stored : ~rows[e].published /\ rows[e].wait = 0}

\* The batches ORDER BY occurred_at LIMIT may return of the events in free:
\* ties in any order.
Batches(free) ==
  LET size == IF Cardinality(free) < BatchSize THEN Cardinality(free) ELSE BatchSize
  IN  {s \in [1..size -> free] :
         /\ \A i, j \in 1..size : i < j =>
              s[i] # s[j] /\ rows[s[i]].occurred <= rows[s[j]].occurred
         /\ \A e \in free \ {s[i] : i \in 1..size} : \A i \in 1..size :
              rows[s[i]].occurred <= rows[e].occurred}

\* Begin and the claim; an empty batch changes nothing.
findPending(p) ==
  /\ age[p] = None
  /\ Pending \ LockedRows # {}
  /\ \E s \in Batches(Pending \ LockedRows) : batch' = [batch EXCEPT ![p] = s]
  /\ age' = [age EXCEPT ![p] = 0]
  /\ failed' = [failed EXCEPT ![p] = FALSE]
  /\ UNCHANGED <<rows, stage, marked, retried, queue, copies>>

\* SendMessage reaches the broker.  MessageDeduplicationId is the event id, so
\* a copy is accepted but delivered only once.
Accept(e) ==
  /\ queue' = IF copies[e] = 0 THEN Append(queue, e) ELSE queue
  /\ copies' = [copies EXCEPT ![e] = IF @ < MaxCopies THEN @ + 1 ELSE @]

Drop(p) == batch' = [batch EXCEPT ![p] = Tail(@)]

\* The broker accepts and markPublished follows in the open transaction.
Publish(p) ==
  /\ batch[p] # <<>>
  /\ Head(batch[p]) \notin Poison
  /\ Accept(Head(batch[p]))
  /\ marked' = [marked EXCEPT ![p] = @ \cup {Head(batch[p])}]
  /\ Drop(p)
  /\ UNCHANGED <<rows, stage, retried, age, failed>>

\* Variant: a failed send is marked as published.
markFailed(p) ==
  /\ marked' = [marked EXCEPT ![p] = @ \cup {Head(batch[p])}]
  /\ Drop(p)
  /\ UNCHANGED retried

\* The retry is scheduled in the open transaction and the loop continues.
scheduleRetry(p) ==
  /\ retried' = [retried EXCEPT ![p] = @ \cup {Head(batch[p])}]
  /\ Drop(p)
  /\ UNCHANGED marked

\* SendMessage fails, or it succeeds and its response is lost.
PublishFails(p) ==
  /\ batch[p] # <<>>
  /\ \/ UNCHANGED <<queue, copies>>
     \/ Head(batch[p]) \notin Poison /\ Accept(Head(batch[p]))
  /\ scheduleRetry(p)
  /\ UNCHANGED <<rows, stage, age, failed>>

\* 5s, 10s, 20s, 40s, then 60s.
retryDelay(attempt) ==
  LET delay == RetryBase * 2^(attempt - 1)
  IN  IF delay < MaxRetry THEN delay ELSE MaxRetry

\* next_attempt_at counts from NOW(), which is when the transaction began.
Rescheduled(r, elapsed) ==
  LET delay == retryDelay(r.attempts + 1)
  IN  [r EXCEPT !.attempts = IF @ < MaxAttempts THEN @ + 1 ELSE @,
                !.wait = IF delay > elapsed THEN delay - elapsed ELSE 0]

\* PublishBatch returns, with an error or without.
EndBatch(p, error) ==
  /\ batch' = [batch EXCEPT ![p] = <<>>]
  /\ marked' = [marked EXCEPT ![p] = {}]
  /\ retried' = [retried EXCEPT ![p] = {}]
  /\ age' = [age EXCEPT ![p] = None]
  /\ failed' = [failed EXCEPT ![p] = error]

Commit(p) ==
  /\ age[p] # None
  /\ batch[p] = <<>>
  /\ rows' = [e \in Event |->
                CASE e \in marked[p]  -> [rows[e] EXCEPT !.published = TRUE]
                  [] e \in retried[p] -> Rescheduled(rows[e], age[p])
                  [] OTHER -> rows[e]]
  /\ EndBatch(p, FALSE)
  /\ UNCHANGED <<stage, queue, copies>>

\* An error of a statement or of the commit, a cancelled context or a crash:
\* what was sent stays sent, every update is rolled back.
Abort(p) ==
  /\ age[p] # None
  /\ EndBatch(p, TRUE)
  /\ UNCHANGED <<rows, stage, queue, copies>>

Tick ==
  /\ rows' = [e \in Event |-> IF rows[e] = None \/ rows[e].wait = 0 THEN rows[e]
                              ELSE [rows[e] EXCEPT !.wait = @ - 1]]
  /\ age' = [p \in Publisher |-> IF age[p] = None \/ age[p] = MaxRetry THEN age[p]
                                 ELSE age[p] + 1]
  /\ UNCHANGED <<stage, batch, marked, retried, failed, queue, copies>>

-----------------------------------------------------------------------------

Next ==
  \/ \E a \in Aggregate : InsertEvents(a)
  \/ \E p \in Publisher :
       findPending(p) \/ Publish(p) \/ PublishFails(p) \/ Commit(p) \/ Abort(p)
  \/ Tick

Spec == Init /\ [][Next]_vars

\* A send of an event that the broker does not refuse for good has failed.
TransientFault(p) ==
  PublishFails(p) /\ Head(batch[p]) \notin Poison

\* The worker of p keeps up with the clock.  An idle one polls again after half a
\* second (one second after an error), well before a backoff of at least five
\* seconds can end.  A batch is over before the backoff of the events in it, which
\* counts from its start: up to ten sends against five to sixty seconds.  Nothing
\* in the code enforces the latter; a batch that takes longer leaves the events it
\* reschedules due at once.
KeepsUp(p) ==
  IF age[p] = None
  THEN Pending \ LockedRows = {}
  ELSE \A e \in Claimed(p) : age[p] + 1 < retryDelay(rows[e].attempts + 1)

\* Time passes, workers go on with their batch, and transient faults of the
\* broker and of the database, and their delays, come to an end.
Fairness ==
  /\ WF_vars(Tick)
  /\ \A p \in Publisher :
       /\ WF_vars(findPending(p))
       /\ WF_vars(Publish(p) \/ PublishFails(p))
       /\ WF_vars(Commit(p))
       /\ <>[][~Abort(p) /\ ~TransientFault(p)]_vars
       /\ <>[][Tick => KeepsUp(p)]_vars

FairSpec == Spec /\ Fairness

-----------------------------------------------------------------------------
(* Properties.                                                               *)

\* published_at is committed only for an event that the broker has accepted,
\* whatever the order of failures, crashes and rival publishers.
PublishedWasSent == \A e \in Stored : rows[e].published => copies[e] > 0

\* Two publishers never work on one event, and what a publisher has claimed is
\* unpublished until it commits: the RowsAffected checks of markPublished and
\* scheduleRetry never fire.
ClaimsAreExclusive ==
  /\ \A p, q \in Publisher : p # q => Claimed(p) \cap Claimed(q) = {}
  /\ \A p \in Publisher : \A e \in Claimed(p) :
       rows[e] # None /\ ~rows[e].published

\* Once published_at is committed the event is not sent again: duplicates come
\* only from an answer or a commit that was lost.
PublishedIsFinal ==
  [][\A e \in Stored : rows[e].published =>
       /\ rows'[e] = rows[e]
       /\ copies'[e] = copies[e]]_vars

\* e belongs to an earlier transaction of the aggregate of f.
Earlier(e, f) ==
  \E a \in Aggregate : \E i, j \in DOMAIN Lifecycle[a] :
    i < j /\ e \in Lifecycle[a][i] /\ f \in Lifecycle[a][j]

\* "Events for one aggregate remain ordered" (README, outbound events).
AggregateOrdered ==
  \A i, j \in DOMAIN queue : i < j => ~Earlier(queue[j], queue[i])

\* Every stored event is published at last, also when other events are refused at
\* every attempt, as long as these fit into one batch: at-least-once delivery.
EventuallyPublished ==
  Cardinality(Poison) <= BatchSize =>
    \A e \in Event \ Poison :
      (rows[e] # None) ~> (rows[e] # None /\ rows[e].published)

=============================================================================
