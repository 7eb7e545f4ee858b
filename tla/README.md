# A TLA+ model of the wagering platform

The platform keeps wallets and a ledger for game providers. A provider sends
commands (BET, WIN, LOSS, REFUND, ROLLBACK), over HTTP or over an SQS FIFO queue;
each is applied once, in one PostgreSQL transaction that also writes the ledger
entry and the outbox events. A REFUND, a ROLLBACK or a WIN may arrive before the
wager it refers to: it is stored as PENDING_REFERENCE, and a background resolver
retries it until the reference is there or its TTL ends. Another background
worker sends the outbox to an SQS FIFO queue.

The hard part is not what one transaction computes but what several of them do
to each other: every transaction is READ COMMITTED, reads most rows without a
lock, and can stop at any statement. The model therefore follows the code
statement by statement. The same holds around the transactions: messages that
come twice, answers that are lost, a process that is told to stop in the middle.

`PROJECT.json` holds the machine-readable side: the source lines of every
definition, the runs, the mutants, the hazards, the findings and the theorems.

## 1. Inventory

| Component (source) | State | Operations | Talks to | What makes it correct |
|---|---|---|---|---|
| Money and wallet arithmetic (`internal/domain/money.go`, `wallet.go`) | none | Add, Subtract, Compare, Credit, Debit, parse, format | called by the services | no sum leaves int64, no balance below zero, versions count movements |
| Wager requests (`internal/domain/wager_transaction.go`) | none | ValidateExternal, PayloadHash | called by ProcessTx | a stored hash identifies the payload |
| Wager processing (`internal/application/wagering/process.go`, `persistence.go`, `reference.go`, `reversal.go`, `results.go`, `pending_reference.go`) | tables `wallets`, `wager_transactions`, `ledger_entries`, `outbox_events` | Process, ProcessTx | PostgreSQL; called by the HTTP API and the message processor | exactly-once effect, serial behaviour, one reversal per wager, answers that stay true |
| Pending-reference resolver (`pending_reference_resolver.go`) | the same tables | ResolveOne | PostgreSQL; called by a polling worker | every pending row ends, on time, and is handled by one resolver |
| Wallet creation (`internal/application/wallet/create.go`) | `wallets`, an OPENING wager, entry and events | Create | PostgreSQL | one wallet per player and currency; the opening balance is in the ledger |
| Wallet queries, ledger pages (`wallet/query.go`) | none | Get, Ledger, LedgerPage | PostgreSQL | a walk over the pages misses and repeats no entry |
| Reconciliation (`wallet/reconciliation.go`) | none | Reconcile | PostgreSQL | the verdict is right, and about one instant |
| Outbox publisher (`internal/infrastructure/messaging/outbox`, `sqs/publisher.go`, `internal/worker/outbox.go`) | `outbox_events` (published_at, attempts, next_attempt_at) | PublishBatch | PostgreSQL, SQS | at-least-once, never again after the commit, order per aggregate |
| Inbox and message processor (`messaging/inbox`, `message_processor.go`) | `inbox_messages` | Register, Complete, Process | PostgreSQL; calls ProcessTx | a redelivered message has no second effect |
| SQS command consumer (`sqs/consumer.go`) | the queue and its visibility timeouts | ConsumeOnce | SQS, message processor | deleted only after the commit; retried with backoff; poisoned messages reach the DLQ |
| Workers and lifecycle (`internal/worker`, `cmd/wagering-api`) | contexts, channels, the pool | Run, watchForShutdown, PrepareShutdown, start and stop hooks | all of the above | work in hand is drained, the pool closes last, shutdown ends |
| HTTP API, authentication, health, metrics, DLQ monitor | none that matters | handlers | services | stateless translation and observation |
| Schema (`migrations/`) | constraints, triggers | - | - | backstops behind the rules above |

Where it is hard: two transactions on one wallet; a duplicate that overtakes
the first copy's commit; commands of different wallets racing on one key; a
check and the write that relies on it in different statements; two resolvers on
one row; clocks of instances against the clock of the database; a crash between
any two statements, or between sending and committing; a failing row that is
always first in line; a message redelivered while it is being processed, or
whose COMMIT went unanswered; a shutdown between receive and processing; a
ledger read while it grows. Each is listed as a hazard in `PROJECT.json` at the line
where it bites, with the properties that would show it.

## 2. Modules

| Module | What it is |
|---|---|
| `WagerRules` | Pure operators: row types, checked arithmetic, validation, reference and reversal rules, backoff, and the outcome of a command (`ProcessOutcome`) and of a resolver pass (`ResolveOutcome`) |
| `WagerTx` | The service as concurrent transactions, one action per statement, for any number of processors and resolvers |
| `WagerLedger` | What the service promises: every command and every resolver pass is one indivisible step |
| `WagerTxProofs` | Theorems about `WagerTx`: types, locks, ledger, schedule |
| `WagerHistoryProofs` | Theorems about what its transactions read and answer (extends `WagerTxProofs`) |
| `WagerMoneyProofs` | Theorems about its ledger entries, events and the schema (extends `WagerHistoryProofs`) |
| `WagerRefinementProofs` | `WagerTx` implements `WagerLedger` and the recording of `CommandDelivery`; theorems about expiry and refusals (extends `WagerHistoryProofs`) |
| `MCWagerTx` | The command sets of the runs of `WagerTx` |
| `OutboxPublisher` | `PublishBatch` for any number of publishers, with the broker |
| `OutboxPublisherProofs` | Theorems about it |
| `MCOutboxPublisher` | Its instances |
| `CommandConsumer` | The command queue, any number of consumers, the inbox and the message processor's transaction |
| `CommandDelivery` | What that promises of every message |
| `CommandConsumerProofs` | Theorems about both, the refinement among them |
| `MCCommandConsumer` | The mails of its runs |
| `Lifecycle` | One process: start and stop hooks, workers, requests, the drain watcher, the pool |
| `LifecycleProofs` | Theorems about it |
| `MCLifecycle` | Its instance |
| `MoneyText` | `Money.String` and `ParseMoney` |
| `WalletReads` | Reconciliation and ledger pages of a wallet that others write to (extends `MoneyText`) |
| `WalletReadsProofs` | Theorems about both |
| `MCWalletReads` | Its instance |

A definition whose comment starts with "Variant:" is a plausible mistake in the
definition that follows it. No specification uses one (a variant may use
another); each shows that some property is sensitive to that part of the code.

### WagerRules

A transaction's decision is a *draft*: the wager row, the wallet row, the ledger
entries and the events it is going to write. `ProcessOutcome` and
`ResolveOutcome` compute the draft from what was read (own row, wallet,
referenced wager, answer of the already-reversed query, clock), or `None` where
the Go code returns an overflow error and rolls back. `persistRejected`,
`persistPendingReference`, `schedulePendingReferenceRetry`,
`rejectPendingReference` and `persistProcessed` are the five ways a draft is
made, named after the functions that write them.

Abstractions. Every lookup of the code is scoped by provider, so `Ext` stands for
(provider, external id) and `Key` for (provider, idempotency key). A wager row
is named by its `Ext` instead of its random UUID, an OPENING transaction by its
wallet. The SHA-256 payload hash is taken to be injective, so a row keeps the
request. Amounts are minor units and `MaxInt` is the largest int64. An event
keeps its type and, for WalletBalanceChanged, version and balance.

### WagerTx

The tables are `wallets`, `wagers`, `ledger` and `outbox` (committed rows only),
and `now` is the database clock. Each worker, a connection that runs
`Service.Process` or `ResolveOne`, has a program counter and its Go locals: `row`,
`held` (the wallet as read), `found` (the reference as read), `at` (a resolver's
clock) and `draft` (uncommitted writes). `reply` is the last answer.

| Action | Code |
|---|---|
| `Receive` | validation and the unlocked idempotency lookup |
| `lockWallet` | `SELECT ... FOR UPDATE`; waits for the holder, then reads |
| `Recheck` | the lookup repeated under the lock |
| `CheckExternal` | externalTransactionExists, player and currency |
| `Consult` | findReferencedTransaction and, unless a reversal check follows, the decision |
| `CheckReversed` | referenceAlreadyReversed and the decision |
| `Write` | the INSERT or the guarded UPDATE of the wager row: unique indexes, waiting, RowsAffected |
| `Commit` | commit; everything becomes visible at once |
| `Abort` | any error, cancelled context or crash at any statement |
| `findDuePendingReference` | a resolver claims the oldest due row, SKIP LOCKED |
| `CreateWallet` | `wallet.Service.Create` |
| `Tick` | time |

Reads see committed rows at the moment of the statement, which is what READ
COMMITTED gives. Row locks last until the transaction ends. An INSERT with the
unique key of an uncommitted row waits for that transaction. The wallet, ledger
and outbox statements after `Write` happen under the wallet lock and touch rows
that no one else reads uncommitted, so they are part of `Write` and `Commit`.
`CreateWallet` is one step: nothing of it is visible earlier, and the unique
index on (player, currency) serialises it with its rivals.

Each time a worker reads its clock it gets any value within `Skew` of `now`.

`WagerAccepted` and `EntryAccepted` are the constraints of the tables: amounts by
kind, which kinds may refer to what, the foreign key, the arithmetic of an entry and
one entry per wager and wallet. No action tests them. `SchemaAccepts` says that
PostgreSQL, which does, never refuses a write.

### WagerLedger and the refinement

`ImplementsLedger` says that `WagerTx` implements `WagerLedger`, with the tables
and the clock mapped to themselves: each commit of a transaction is a `Handle`
or a `Resolve` step that decides on the rows *as they are at the commit*, and
every other statement is a stutter. The lock covers the transaction's own wallet
only. What it reads of another wallet's wager may be stale, and `Visible` says
exactly how far: such a reference may be taken for unresolved, never one of the
own wallet. `WagerLedger` translates no lines of its own; it is the promise.

A `WagerLedger` step decides by an instance's clock. The clock is read under the lock,
some time before the commit, so at the commit it is at most `Skew` ahead of `now` but
may be any time behind. For a resolver there is a lower bound all the same: its clock
is at most `Skew` short of the attempt that was due, since it was read after the claim.

A second refinement joins `WagerTx` to the message side. `CommandConsumer` reduces
`ProcessTx` to storing a request under its key. `ImplementsRecording` says that
`WagerTx` is such a recorder: with no messages, and with `Recorded(k)`, the request of
the one wager stored under `k`, for `recorded[k]`, it implements `CommandDelivery`.

### OutboxPublisher

`rows` is `outbox_events`. A publisher's `batch`, `marked`, `retried` and `age` are
the rest of its loop, its uncommitted updates and the time since its
transaction began; `failed` says that PublishBatch has returned an error, so a
rollback is never mistaken for a commit, not even by a row whose `attempts` are at
their bound. `queue` is what the FIFO queue delivers: a
deduplication id is delivered once, while `copies` counts accepted sends. Within
SQS's five-minute deduplication interval this is exact; a copy sent later would
be delivered twice, which at-least-once delivery allows. `PublishFails` covers
both a failed send and a send whose response is lost. `Poison` is a set of
events that the broker always refuses.

Time is relative (a row stores how far its next attempt is away), which keeps
the state space finite without a time bound and makes liveness meaningful.
`NOW()` is the start of the transaction, so `Rescheduled` subtracts the age of the
transaction from the delay. Stamps of `occurred_at` are not skewed: a stamp that
runs backwards would only add to the disorder that the finding below already
shows.

### CommandConsumer and CommandDelivery

`status`, `hidden` and `receives` are the broker's view of each message; `pc`, `msg`,
`ctx` and `write` are one consumer's place, message, contexts and uncommitted
writes; `inbox` and `wagers` are the committed tables.

| Action | Code |
|---|---|
| `ReceiveMessage`, `ReceiveFails` | the long poll; the second loses its answer, and the message stays hidden until `Expire` |
| `StartMessage` | the check of receiveCtx and decodeCommand |
| `Register`, `ProcessTx`, `Complete`, `Commit` | the statements of `MessageProcessor.Process` |
| `CommitUnanswered`, `OrphanEnds` | COMMIT was sent, its answer lost; the transaction still ends either way, later |
| `Fail` | any error, and the deferred Rollback |
| `DeleteMessage` | delete after the commit; the effect, the answer or both may fail |
| `scheduleRetry`, `releaseForShutdown`, `leaveProcessed` | what becomes of a message that was not deleted |
| `Stop`, `DrainEnds`, `Exit`, `Crash`, `Restart` | contexts and the process |
| `ProcessOverHTTP` | the same command through the other channel |
| `Expire`, `Redrive` | the broker's timers and redrive policy |

`ProcessTx` stores the request under its key, finds it stored, or refuses the
key; what it does to wallets is `WagerTx`'s subject. A body is an envelope, and
since the inbox hashes the body, equal hashes mean equal envelopes. `wellFormed`
stands for all checks of decodeCommand, which have the same consequence. The
length of a backoff is left out: any timeout may end at any time, which covers
5 to 60 seconds and a timeout shorter than the processing.

`ImplementsDelivery` says that all of it implements `CommandDelivery`, with
`Outcome` (queued, deleted, dead as waiting, handled, dead) and `wagers` as the
refinement mapping: a key is recorded once and for ever, a message is handled
only if *its* request is recorded, and every other message is dead for good.

### Lifecycle

`app` is the phase of the Fx application; the six phases of `Stopping` are the
lines of OnStop in order. `run` and `watcher` are the two goroutines of
`ConsumerWorker`, with `opDone`, `aborted` and `handed` for the channel
operationDone, the processing context and the channel shutdownContexts; the
other workers share one context (`cancelled`) and are idle, busy or done. The
deadline may come at any point of the shutdown or never. If it comes, Fx starts
no further hook and the process ends without closing the pool, which is why
`PoolOutlivesWork` speaks of a closed pool and not of the end.

The two models meet in the contexts: `Stop`, `DrainEnds` and `Exit` of
`CommandConsumer` are `Cancel`, `DrainTimer` or `WatchDeadline`, and the end of
`Run` in `Lifecycle`, in the order that `Lifecycle` allows. `CommandConsumer`
lets them come at any time, so it covers all those schedules.

### MoneyText and WalletReads

A text is its sign, whole part and two fraction digits. Texts of any other shape
are refused before a number is looked at. `String` keeps Go's division towards
zero and the special case for amounts between -1.00 and 0.00.

In `WalletReads` a write is one committed transaction: new balance and one ledger
entry, stamped with the writer's clock, which may be ahead of the commit order
by `Skew`, so stamps may run backwards or tie. `Tamper` edits the balance without
an entry, which is what reconciliation is meant to find; entries themselves are
immutable (`migrations/000002`). `Reconcile` takes two steps, the first of which
fixes its snapshot. A walk goes page by page, with any limit for each page.

## 3. Runs

| Run (cfg) | Instance | Checks |
|---|---|---|
| `reversal_races` | 2 processors, 1 resolver, 2 wallets; a bet, a refund and a rollback of it, and a refund of it sent for the other wallet | `HeldIsCurrent`, `LedgerExplainsWallet`, `ReversalUndoesOnce`, `BackstopsStayIdle`, `ImplementsLedger` |
| `identity_races` | 2 processors, 2 wallets, 2 currencies; six commands that share keys and external ids, one of them invalid | `DuplicatesNeverConflict`, `AnswersStayTrue`, `HistoryIsKept`, `ImplementsRecording`, `TransactionsEnd` |
| `reference_chains` | 1 processor, 2 resolvers; bet, referenced win, refund, rollback of the refund, another bet; opening balance 2 and `MaxInt` 4 | `TypeOK`, `OneMovementPerWager`, `OutboxTellsState`, `ForeignKeyNeverWaits`, `ClaimIsCurrent`, `SchemaAccepts`, `MoneyMovesByEntry`, `RefusalsAreFounded` |
| `pending_expiry` | 1 processor, 1 resolver; references that come late, never, or overflow each time | `PendingIsScheduled`, `LastAttemptExpires`, `ExpiryIsDue`, `PendingEnds` |
| `clock_skew` | as `pending_expiry`, `Skew` 1 | `LastAttemptExpires` is violated (finding 1) |
| `outbox_safety` | 2 publishers, 3 events of one aggregate, batches of 2 | `PublishedWasSent`, `ClaimsAreExclusive`, `PublishedIsFinal` |
| `outbox_liveness` | 1 publisher, batches of 1, one event refused for ever | `EventuallyPublished` |
| `outbox_order` | 1 publisher, 3 events | `AggregateOrdered` is violated (finding 2) |
| `command_consumer` | 2 consumers, 2 messages: in order, one command twice, one message twice, a reused id, a reused key, or a malformed one first; 3 receives | `TypeOK`, `InboxIsExact`, `CommandsOrdered`, `ImplementsDelivery` |
| `command_liveness` | 2 consumers; a malformed message first, or one message twice; 2 receives | `EventuallySettled` |
| `lifecycle` | the consumer, 3 other workers, 2 requests | `TypeOK`, `PoolOutlivesWork`, `FailedStartLeavesNothing`, `DrainKnowsDeadline`, `DrainIsGranted`, `StopEnds` |
| `wallet_reads` | 3 entries, `Skew` 2, amounts 0.05, 3.05, 3.06 and -0.05 with 3.05 the largest int64, pages of 1 and 2 | `ReportIsTrue`, `AmountsAreExact`, `WalkIsFaithful` |

In every run of `WagerTx` a client may send any command of the set at any time
and any number of times, and any transaction may abort at any statement: retries,
duplicates, reordering and crashes are in every run.

`TypeOK` of `WalletReads` and `TypeOK` of `OutboxPublisher` are in no run: they are
proved (`TypeCorrect`).

What they show, beyond the names:

- **The wallet lock is enough.** The partial unique index on processed
  reversals and the RowsAffected checks of the resolver never fire
  (`BackstopsStayIdle`), since both reversals of a wager must name its wallet
  and therefore hold its lock.
- **No deadlock.** A resolver locks a pending row and then a wallet. A processor
  locks a wallet and then inserts a row whose foreign key wants a key-share lock
  on the referenced row. These never meet (`ForeignKeyNeverWaits`): a row is
  referenced only once it is terminal, and claimed only while it is pending.
  Waits for unique keys end as well (`TransactionsEnd`).
- **The ledger is the wallet's history.** Balance and version follow from an
  unbroken chain of entries; each wager is in it at most once; a reversal comes
  after what it undoes, in the opposite direction and with the same amount. No
  balance changes without its entry in the same step (`MoneyMovesByEntry`), which
  is what `WalletReads` takes a write to be.
- **The schema never says no.** A row is checked in Go when it arrives and by the
  constraints at every later write; after any number of retries they still agree
  (`SchemaAccepts`), so no pending reference gets stuck on a constraint.
- **A refusal is right.** It is final, and it rests on a wallet and a reference read
  statements before. At its commit the funds are short, the reference is reversed or
  has failed (`RefusalsAreFounded`); a bet of exactly the balance is taken.
- **A stuck row does not stop the resolver for good.** A pending row whose
  credit overflows fails at each pass and is claimed again first; `PendingEnds`
  holds because the TTL is tested before the reference.
- **Refused events do not stop the outbox, within limits.** The backoff lets other
  events pass (`EventuallyPublished`) if the refused ones fit into one batch and
  batches are shorter than their backoff. Neither limit is enforced by the code. With
  more refused events than a batch holds, batches of them can follow each other, and if
  those take as long as the backoff, newer events starve; a batch that outlasts its own
  backoff leaves its events due at once, with the same effect.
- **The inbox is never half done.** Every committed inbox row is completed and
  its command stored (`InboxIsExact`), so the branch of `Register` for a known and
  uncompleted message is a backstop.
- **Order per wallet survives everything but the dead-letter queue.** A message
  given up while its last consumer still works on it may be applied after the
  messages behind it; `CommandsOrdered` exempts exactly that. In the same way a
  message on the dead-letter queue may have been applied, so replaying one is
  safe only because its key is taken.
- **Shutdown is not a circle.** Run, its watcher and OnStop wait for each other,
  and `StopEnds` needs no deadline: the drain timer alone ends an operation that
  hangs until its context is cancelled.
- **What a report can say.** A report is about one instant whatever commits
  meanwhile. `calculateLedgerBalance` starts from the first entry's
  balance_before (`reconciliation.go:190`), so a balance that was wrong before
  the first entry goes unseen. And it walks in the order of created_at: when
  instances stamp against the commit order, a sound ledger may be reported
  inconsistent. `ReportIsTrue` and the last part of `WalkIsFaithful` are therefore
  conditional on the stamps.
- **A dead listener goes unnoticed.** If Serve fails the error is logged and the
  process goes on without HTTP (`ServeFails`); its workers run and stop as usual.

### Bounds

- Wallets 1-2, commands 3-6: two commands of one wallet conflict pairwise; a
  rollback of a refund of a bet is the longest chain of references that can
  succeed; a third rival adds no new kind of wait.
- `MaxInt` 3-8: small where overflow of balance or version is the point.
- `RetryDelay` 1 or 2, `MaxRetryDelay` 2, `ReferenceTTL` 2 or 3: a first
  retry, one that the cap cuts, and one that the expiry cuts.
- `MaxTime` 0-3: time stops there. `PendingEnds` speaks of rows that expire
  within it. `reversal_races` needs a single retry, hence 1, and
  `identity_races` has no references, hence 0.
- `MaxAttempts`, `MaxCopies`: counters saturate, past the point where they matter.
- `MaxReceive` 3 is the local redrive policy: one delivery may be lost, one time
  out and one be late. With 2 the liveness run stays small. Two messages and two
  consumers give every pair of a message and its rival, predecessor or copy.
- `MaxEntries` 3 with pages of 1 and 2: a full page, a full page and an extra
  row, and a second cursor. `Skew` 2 lets any two of the three stamps swap or tie.
- `Fixes` {0, 300}: an edited balance above and below the ledger's.
- Symmetry over processors, resolvers, publishers and consumers in the safety
  runs only.

Deadlock is checked in all runs: some client can always send another command,
the outbox clock can always tick, an instance can always crash and restart, a
reader can always start again, and a process that has exited stays so
(`Finished`).

### Fairness

`WagerTx`: time passes (WF of `Tick`); a transaction that can execute its next
statement does (WF of `Advance`). PostgreSQL queues waiters for a row lock and
wakes a waiting INSERT when the other transaction ends, so a waiter is not
overtaken for ever (SF of `lockWallet` and `Write`). The worker loop calls
`ResolveOne` again after each result and after each poll interval (WF of
`findDuePendingReference`). Infrastructure errors stop hitting a resolver at
last (`<>[][~Abort(r)]_vars`); otherwise nothing could be guaranteed. Nothing is
assumed of clients. An application error such as an overflow is not an `Abort`
and may recur for ever.

`OutboxPublisher`: as above, with transient faults of the broker and of the database
ending at last while poison events fail for ever. The last conjunct says that the
worker keeps up with the clock (`KeepsUp`), also from some point on only. It has two
parts.

- An idle worker polls before time passes: it polls every 0.5 s (1 s after an error)
  and the smallest backoff is 5 s.
- A batch is over before the backoff of the events in it. The backoff counts from the
  start of the transaction, so a batch of up to ten sends has 5 s if one of its events
  has never failed, and up to 60 s later. This is what one expects of a broker without
  delays, not what the code enforces: `PublishBatch` has no timeout. Without it
  `EventuallyPublished` fails. A batch that outlasts the backoff reschedules a poison
  event to a time that is past, and being older it fills the batch of one at every poll.

`CommandConsumer`: a consumer with a message takes its next step (statements
return or fail), an instance that has stopped or died is started again, the
broker's timers and redrive run and a lost transaction ends (WF). Instances may
crash for ever, but not each time they are about to receive (SF of
`ReceiveMessage`). Any step may still fail each time; the receive count then
settles the message.

`Lifecycle`: the goroutines, hooks, timers and requests make progress. A database
or broker operation may hang, and is sure to return only when its context is
done, as the comment at `worker/consumer.go:168` expects of them. The monitor's
select is not starved of the cancelled context, since its ticker leaves five
seconds between ticks (SF of `StopWork`). The shutdown deadline need not come.

## 4. Findings

1. **Expiry and clocks** (`clock_skew`). A row is claimed by the database's clock
   and expired by the instance's clock. A comment in
   `schedulePendingReferenceRetry` says that scheduling exactly at expiry
   guarantees that the next pass takes the REFERENCE_EXPIRED path. If the
   instance's clock is behind, that pass sees an unexpired row and retries or
   even settles it. The reference still ends; it ends late, or differently.
2. **Order of events** (`outbox_order`). README and ARCHITECTURE say that the
   events of one aggregate remain ordered. After a failed send the loop goes on
   with the next event, so WagerTransactionProcessed can reach the FIFO
   group before the WagerTransactionPendingReference of the same wager.

## 5. Proofs

All theorems but `LastAttemptsExpire` hold for every value of the constants: any number of wallets,
commands, workers, messages and publishers, any `MaxInt`, delays, bounds and `Skew`.

| Module | Theorem | Proves |
|---|---|---|
| `WagerTxProofs` | `Invariance` | `[]IInv` |
| | `TypeCorrect` | `TypeOK`; in particular no balance is negative or beyond int64 |
| | `LockIsEffective` | `HeldIsCurrent` |
| | `LedgerIsComplete` | `LedgerExplainsWallet` |
| | `PendingStaysScheduled` | `PendingIsScheduled` |
| `WagerHistoryProofs` | `HistoryInvariance` | `[]HInv` |
| | `ClaimsAreEffective` | `ClaimIsCurrent` |
| | `BackstopsNeverFire` | `BackstopsStayIdle` |
| | `ForeignKeysAreFree` | `ForeignKeyNeverWaits` |
| | `ConflictsAreReal` | `DuplicatesNeverConflict` |
| | `AnswersAreFinal` | `AnswersStayTrue` |
| | `HistoryOnlyGrows` | `HistoryIsKept` (an action property) |
| `WagerMoneyProofs` | `MoneyInvariance` | `[]MInv` |
| | `MoneyMovesOnce` | `OneMovementPerWager` |
| | `ReversalsUndoOnce` | `ReversalUndoesOnce` |
| | `EventsTellTheState` | `OutboxTellsState` |
| | `ConstraintsNeverFire` | `SchemaAccepts` |
| | `EveryMovementIsEntered` | `MoneyMovesByEntry` (an action property) |
| `WagerRefinementProofs` | `RefinementInvariance` | `[]RInv` |
| | `LedgerIsImplemented` | `ImplementsLedger`: `WagerTx` implements `WagerLedger` |
| | `RecordingIsImplemented` | `ImplementsRecording`: `WagerTx` implements the recording of `CommandDelivery` |
| | `NobodyGivesUpEarly` | `ExpiryIsDue` |
| | `LastAttemptsExpire` | `LastAttemptExpires`, if `Skew = 0` |
| | `NobodyIsRefusedWrongly` | `RefusalsAreFounded` (an action property) |
| `OutboxPublisherProofs` | `Invariance`, `TypeCorrect` | `[]IInv`, `TypeOK` |
| | `PublishedMeansSent` | `PublishedWasSent` |
| | `ClaimsStayExclusive` | `ClaimsAreExclusive` |
| | `PublicationIsFinal` | `PublishedIsFinal` (an action property) |
| `CommandConsumerProofs` | `Invariance`, `TypeCorrect` | `[]IInv`, `TypeOK` |
| | `InboxMovesWithWagers` | `InboxIsExact` |
| | `CommandsStayOrdered` | `CommandsOrdered` |
| | `DeliveryIsImplemented` | `ImplementsDelivery`: `CommandConsumer` implements `CommandDelivery` |
| `LifecycleProofs` | `Invariance`, `TypeCorrect` | `[]IInv`, `TypeOK` |
| | `PoolIsLast` | `PoolOutlivesWork` |
| | `FailedStartIsClean` | `FailedStartLeavesNothing` |
| | `DeadlineReachesWatcher` | `DrainKnowsDeadline` |
| | `DrainOpportunity` | `DrainIsGranted` |
| `WalletReadsProofs` | `Invariance`, `TypeCorrect` | `[]IInv`, `TypeOK` |
| | `TextsAreExact` | `AmountsAreExact` |
| | `ReportsAreTrue` | `ReportIsTrue` |
| | `WalksAreFaithful` | `WalkIsFaithful` |

### Assumptions

All are named and evaluated by TLC in the runs of the module that states them. One
theorem has a hypothesis besides: `LastAttemptsExpire` needs `Skew = 0`, as it must,
since finding 1 is a counterexample for `Skew = 1`.

- `WagerTx`: `MaxInt` is positive; the first delay is positive and at most the
  largest delay and the TTL; commands and openings are well-formed records (not
  necessarily valid requests); processors and resolvers are different
  connections; wager ids and wallet ids are distinct; `None` is no row, answer or
  error (`AnswerAssumption`): nil is none of these in the code either.
- `OutboxPublisher`: an event belongs to one transaction, and a transaction
  writes finitely many (`FreshAssumption`), since each event gets a new UUID;
  `None` is no row and no delay.
- `CommandConsumer`: mails are bodies over the given ids, keys and requests;
  `None` is no row, message or consumer.
- `WalletReads`: page sizes are positive, amounts within int64; `None` is no
  number and no cursor.

### The arguments

**The ledger** (`WagerTxProofs`). `LedgerExplainsWallet` is not inductive: a commit
overwrites the wallet with a value computed several statements before. Two facts
close the gap. First, about the rules alone: whatever `ProcessOutcome` and
`ResolveOutcome` decide is an error or a draft that is `Explained` by the wallet it
was computed from (the wallet unchanged and no entry, or one entry with the
correct sum, the balance it leads to, and the next version), with a pending row
scheduled before its expiry. One lemma per outcome operator. Second, about the
transactions: the wallet a draft was computed from is still the committed one.

    IInv == TypeOK /\ \A p : RowKept(p) /\ WalletKept(p) /\ DraftKept(p)
            /\ LocksExclude /\ StoredScheduled /\ LedgerExplainsWallet

says that two transactions never hold one wallet (`LocksExclude`), that a
holder's copy is current (`WalletKept`), that its draft is explained by the copy
(`DraftKept`), and that claimed and stored pending rows are scheduled.

**What the transactions read** (`WagerHistoryProofs`). Every worker does its lookups
in statements of their own, so each lookup needs a reason why its answer is still
right at the commit. `HInv` adds three layers to `IInv`.

- *Identity*: a resolver's row is the stored one and no other resolver has it;
  keys are unique; the row that a processor has written and is about to commit
  has a free key and a free external id, and no other uncommitted row has them.
  The wallet lock does not give the last part, since commands of two wallets may
  share a key: the waiting unique index does (`Write`).
- *References*: a draft is a decision about the stored reference, and the answer of
  the already-reversed query, as they are now; a processed reversal has a
  processed reference in its own wallet, and no wager has two of them. Both
  reversals of a wager name its wallet, so the lock orders them.
- *Answers*: what was answered is stored, a refusal is founded on a different stored
  command of the same key or external id, and past the second lookup the command
  itself is stored by nobody else.

**Money** (`WagerMoneyProofs`). `MInv` adds two layers. *Entries*: no two
entries of a ledger are of one transaction, each is of the opening or of a wager of
that wallet whose amount, result and direction it bears, each processed wager that
moves money has one, and the entry of a reversal stands behind the one it undoes. *Telling*: the events of a
row are those that its state announces, and the last event of an entry carries its
balance and version. The properties then follow without looking at a transaction.

The constraints of the schema are about drafts, that is, about writes that have not
happened yet. Most of them follow from what `HInv` says of a decision and of the row it
is about. That a new entry is the first of its wager does not: a rival that uses the
same external id may be stored at any time, and only its INSERT will tell. `SInv` adds
the layer *Unstored*: while a processor is between its lookup and its commit, a wager
with its external id is stored, if at all, in another wallet, so the entries of its
own wallet know nothing of it. A resolver's row is stored but pending, and by *Entries*
only processed wagers have entries.

**Serial behaviour** (`WagerRefinementProofs`). A commit must be one step of
`WagerLedger`, which decides on the tables as they are *now*, while the worker
decided some statements ago. `RInv` is `HInv` with the layer *Serializability*: the
draft a worker carries is the outcome that its rules give for the wallet, for some
reference that `Visible` allows, for the reversed-answer as it would be now and for
a clock at most `Skew` ahead of `now` and, for a resolver, at most `Skew` short of
the attempt that was due. It is kept by the commits of the other workers:
those of the same wallet are excluded by the lock, and those of other wallets can
change neither the reversed-answer nor a reference of the own wallet; all they
can do is make a foreign reference appear, which `Visible` foresees. Steps that
commit nothing leave the tables and the clock alone (`TablesStep`).

For `ImplementsRecording` the commit of a processor is the one step that records: by
*Identity* its key is free in the tables, so exactly one wager is stored under it
afterwards. The commit of a resolver keeps key and request of its row.

**Expiry** (`WagerRefinementProofs`). `ResolveExpires` settles the rules: a pass on an
unexpired code gives a row up exactly when its clock is past the expiry. By
*Serializability* a commit stores the outcome for a clock of at most `now + Skew`,
and the clock never runs back: `ExpiryIsDue`. The converse, that the last attempt
does give up, uses the lower bound of that clock: an attempt at the expiry is
decided by a clock at most `Skew` short of it. For `Skew = 0` that is the promise of
the comment, and for a larger `Skew` nothing.

**Refusals** (`WagerRefinementProofs`). One lemma per rule says what a refusal's code
tells of the wallet, the reference and the reversed-answer it was decided on
(`Reasoned`). By *Serializability* these are the ones of the commit.

**Outbox** (`OutboxPublisherProofs`). A batch is computed before it is sent, marked
and committed. The invariant says that claims exclude each other, that claimed rows
are stored, due and unpublished, that each event of a batch has one fate (still to
be sent, marked or rescheduled) and that a marked event was accepted by the broker.
That a new stamp exists at all needs the table to be finite (`FiniteTable`).

**Consumers** (`CommandConsumerProofs`). The invariant fixes what a consumer knows at
each statement (`Progress`), says that open transactions and those whose COMMIT went
unanswered exclude each other on the key they store (`WritesExclude`), that the key
of an applied message is taken (`AppliedIsStored`), and that a message is received
only when its predecessors of the same wallet have left the queue (`QueueOrder`).

**Lifecycle** (`LifecycleProofs`). The invariant orders the phases of OnStop against
the goroutines (`Order`), follows the shutdown context from OnStop through the channel
to the watcher (`Handover`), and says when a processing context may be done (`Grant`).

**Reads** (`WalletReadsProofs`). Three facts about data carry the proof. A finite set of
rows with different ids has exactly one order by (created_at, id): an entry's place
is the number of its predecessors. With stamps in commit order that order is the
ledger itself. And sums over entries that continue each other end at the last
entry's balance, so the verdict of the code, which looks only at neighbours, is
the verdict of the sum. Where these need induction it takes the form of a least
counterexample (`Least`, from the well-foundedness of <); `SumExists` shows that the
recursive function `Sums` is defined at all. The invariant then says that a report
fits the prefix of its snapshot and that a walk stands behind the last entry it got.

### Only model-checked

- Liveness: `PendingEnds`, `TransactionsEnd`, `EventuallyPublished`,
  `EventuallySettled`, `StopEnds`. Fairness is out of the prover's reach.
- `LastAttemptExpires` with skewed clocks, and `AggregateOrdered`: false (findings 1
  and 2).

## 6. Not modelled

- HTTP handlers (but the limit of the ledger handler), authentication, metrics,
  health, the gauge of the DLQ monitor: stateless translation and observation.
- Wager and wallet reads of a single statement.
- JSON envelopes, correlation and causation ids, log lines; which field a
  malformed message lacks; the opaque text of a cursor.
- The constraints on blank columns and on the OPENING row, for which the model has no
  values. The immutability triggers are why `WalletReads` has no step that alters an
  entry.
- SERIALIZABLE or deadlock aborts of PostgreSQL: covered by `Abort` and `Fail`.
- The events queue's own dead-letter queue, which nothing in the code reads.
- Construction of the dependencies and configuration.

## 7. Plan

Done, in this order: `WagerRules`, `WagerTx`, `WagerLedger` with the refinement,
`OutboxPublisher`, `WagerTxProofs`; then `CommandConsumer` with `CommandDelivery`,
`Lifecycle`, `MoneyText` and `WalletReads`; then the proofs of all safety properties
and of the refinements; then the schema, the recording of commands and the expiry, with
their proofs.

What could follow:

1. Theorems about `WagerLedger` and `CommandDelivery` themselves, so that what holds
   of the indivisible commands is inherited through the refinements.
2. A composition of `OutboxPublisher` with the outbox of `WagerTx`. Today they meet in
   `FreshAssumption` and in the order in which `WagerTx` appends events.
