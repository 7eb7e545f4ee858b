-------------------------------- MODULE WagerTx -------------------------------
(***************************************************************************)
(* The wagering service as concurrent PostgreSQL transactions: processors  *)
(* run Service.Process on commands, resolvers run ResolveOne on pending    *)
(* references.  One step is one SQL statement (together with the Go code   *)
(* up to the next one) of a READ COMMITTED transaction: reads see the      *)
(* committed rows, writes are kept in the transaction's draft until its    *)
(* commit.  Two kinds of lock are held until the transaction ends: the     *)
(* wallet row (SELECT ... FOR UPDATE) and, by a resolver, the claimed      *)
(* pending row (FOR UPDATE SKIP LOCKED).  An INSERT waits for an           *)
(* uncommitted row with the same unique key.                               *)
(*                                                                         *)
(* A transaction may end at any step without effect: an infrastructure     *)
(* error, a cancelled context or a crash of the process (Abort).           *)
(***************************************************************************)
EXTENDS WagerRules, FiniteSets

CONSTANTS
  Commands, Openings, Skew, MaxTime,    \* as in WagerLedger
  Processor,                            \* connections that run Service.Process
  Resolver                              \* connections that run ResolveOne

ASSUME CommandsAssumption == Commands \subseteq Command

ASSUME OpeningsAssumption ==
  Openings \subseteq [player: Player, currency: Currency, balance: Money]

ASSUME TimeAssumption == Skew \in Nat /\ MaxTime \in Nat

ASSUME WorkerAssumption == Processor \cap Resolver = {}

Worker == Processor \cup Resolver

VARIABLES
  wallets,    \* table wallets (committed rows)
  wagers,     \* table wager_transactions, by external identity
  ledger,     \* table ledger_entries, per wallet in commit order
  outbox,     \* table outbox_events, per transaction in insertion order
  now,        \* NOW() of the database
  pc,         \* the statement each worker executes next
  row,        \* the wager a transaction works on: the new row of a command,
              \* or the pending row a resolver has claimed, as it was read
  held,       \* the locked wallet, as it was read
  found,      \* the referenced wager, as it was read
  at,         \* the time a resolver read after it locked the wallet
  draft,      \* the uncommitted writes
  reply       \* how the last transaction ended: the answer to the client, or the
              \* error a resolver pass returned

db == <<wallets, wagers, ledger, outbox>>
local == <<pc, row, held, found, at, draft>>
vars == <<wallets, wagers, ledger, outbox, now,
          pc, row, held, found, at, draft, reply>>

PC == {"idle", "lock", "recheck", "external", "consult", "reversal", "write",
       "commit"}

\* A transaction at one of these holds the lock of its wallet.
Locked == {"recheck", "external", "consult", "reversal", "write", "commit"}

Init ==
  /\ wallets = [w \in Wallet |-> None]
  /\ wagers = [x \in Ext |-> None]
  /\ ledger = [w \in Wallet |-> <<>>]
  /\ outbox = [x \in Ext \cup Wallet |-> <<>>]
  /\ now = 0
  /\ pc = [p \in Worker |-> "idle"]
  /\ row = [p \in Worker |-> None]
  /\ held = [p \in Worker |-> None]
  /\ found = [p \in Worker |-> None]
  /\ at = [p \in Worker |-> 0]
  /\ draft = [p \in Worker |-> None]
  /\ reply = [p \in Worker |-> None]

-----------------------------------------------------------------------------
(* Replies.                                                                  *)

Errors == {"INVALID", "IDEMPOTENCY_CONFLICT", "EXTERNAL_EXISTS",
           "WALLET_NOT_FOUND", "PLAYER_MISMATCH", "CURRENCY_MISMATCH",
           "OVERFLOW", "INTERNAL"}

Reply == [key: Key, req: Request, outcome: {"NEW", "REPLAY"} \cup Errors,
          state: State, code: FailureCode, balance: Money]

\* No answer is not an answer, and no error is not an error.
ASSUME AnswerAssumption == None \notin Reply /\ None \notin Errors

\* The ProcessResult for the command of r: the outcome stored in row s.
Result(r, s, outcome) ==
  [key |-> r.key, req |-> r.req, outcome |-> outcome, state |-> s.state,
   code |-> s.code, balance |-> s.result]

Refusal(r, error) ==
  [key |-> r.key, req |-> r.req, outcome |-> error, state |-> "FAILED",
   code |-> "", balance |-> 0]

\* The transaction of p is over: its locks and drafts are gone.
End(p) ==
  /\ pc' = [pc EXCEPT ![p] = "idle"]
  /\ row' = [row EXCEPT ![p] = None]
  /\ held' = [held EXCEPT ![p] = None]
  /\ found' = [found EXCEPT ![p] = None]
  /\ at' = [at EXCEPT ![p] = 0]
  /\ draft' = [draft EXCEPT ![p] = None]

\* Variant: no deferred Rollback, the transaction stays open.
FinishWithoutRollback(p, a) ==
  /\ reply' = [reply EXCEPT ![p] = a]
  /\ UNCHANGED <<db, now, local>>

\* The deferred Rollback after an answer or an error.
Finish(p, a) ==
  /\ End(p)
  /\ reply' = [reply EXCEPT ![p] = a]
  /\ UNCHANGED <<db, now>>

Goto(p, label) == pc' = [pc EXCEPT ![p] = label]

-----------------------------------------------------------------------------
(* Locks and unique indexes.                                                 *)

HoldsWallet(p, w) == pc[p] \in Locked /\ row[p].req.wallet = w

\* Variant: the pending row is read without FOR UPDATE SKIP LOCKED.
ClaimedByNobody(x) == FALSE

Claimed(x) == \E r \in Resolver : pc[r] # "idle" /\ row[r].req.ext = x

\* Two rows that may not both be stored: wager_external_identity_unique,
\* wager_idempotency_unique, wager_single_processed_reversal_idx.
SameReversal(a, b) ==
  /\ a.state = "PROCESSED" /\ IsReversal(a) /\ a.refd # None
  /\ b.state = "PROCESSED" /\ IsReversal(b) /\ b.refd = a.refd

Conflicts(a, b) ==
  a.req.ext = b.req.ext \/ a.key = b.key \/ SameReversal(a, b)

\* The write of p waits for the uncommitted write of q.
WaitsForWrite(p, q) ==
  /\ p # q
  /\ pc[p] = "write"
  /\ pc[q] = "commit"
  /\ Conflicts(draft[p].row, draft[q].row)

\* Variant: the external identity is not unique in the table.
WriteErrorWithoutIdentity(p) ==
  IF \E y \in Ext \ {draft[p].row.req.ext} :
       wagers[y] # None /\ wagers[y].key = draft[p].row.key
  THEN "IDEMPOTENCY_CONFLICT" ELSE None

\* Variant: the idempotency key is not unique in the table.
WriteErrorWithoutKey(p) ==
  LET mine == wagers[draft[p].row.req.ext]
  IN  IF p \in Resolver /\ (mine = None \/ mine.state # "PENDING_REFERENCE")
        THEN "INTERNAL"
      ELSE IF p \in Processor /\ mine # None THEN "EXTERNAL_EXISTS"
      ELSE None

\* The error of p's INSERT or UPDATE against the committed rows, None if it
\* succeeds.  A resolver's UPDATE has "AND state = 'PENDING_REFERENCE'" and
\* must affect one row.
WriteError(p) ==
  LET r == draft[p].row
      others == {wagers[y] : y \in {y \in Ext \ {r.req.ext} : wagers[y] # None}}
      mine == wagers[r.req.ext]
  IN  IF p \in Resolver /\ (mine = None \/ mine.state # "PENDING_REFERENCE")
        THEN "INTERNAL"
      ELSE IF p \in Processor /\ mine # None THEN "EXTERNAL_EXISTS"
      ELSE IF \E s \in others : s.key = r.key THEN "IDEMPOTENCY_CONFLICT"
      ELSE IF \E s \in others : SameReversal(r, s) THEN "INTERNAL"
      ELSE None

\* The CHECK constraints and the foreign key of wager_transactions.
WagerAccepted(r) ==
  /\ IF r.req.kind = "LOSS" THEN r.req.amount = 0 ELSE r.req.amount > 0
  /\ r.req.kind \in {"BET", "LOSS"} => r.req.ref = None /\ r.refd = None
  /\ r.req.kind = "WIN" => r.refd = None \/ r.req.ref # None
  /\ r.req.kind \in {"REFUND", "ROLLBACK"} => r.req.ref # None
  /\ r.refd # None => wagers[r.refd] # None

\* The constraints of ledger_entries, for a new entry of wallet w.
EntryAccepted(w, e) ==
  /\ e.amount > 0
  /\ e.after = IF e.dir = "DEBIT" THEN e.before - e.amount ELSE e.before + e.amount
  /\ \A i \in 1..Len(ledger[w]) : ledger[w][i].txn # e.txn

-----------------------------------------------------------------------------
(* Service.Process.                                                          *)

\* Variant: the stored payload hash is not compared.
findReplayByKeyOnly(r) ==
  LET hits == {x \in Ext : wagers[x] # None /\ wagers[x].key = r.key}
  IN  IF hits = {} THEN None
      ELSE Result(r, wagers[CHOOSE x \in hits : TRUE], "REPLAY")

\* The answer for a key that is already stored, None for a new key.
findIdempotentReplay(r) ==
  LET hits == {x \in Ext : wagers[x] # None /\ wagers[x].key = r.key}
  IN  IF hits = {} THEN None
      ELSE LET s == wagers[CHOOSE x \in hits : TRUE]
           IN  IF s.req = r.req THEN Result(r, s, "REPLAY")
                                ELSE Refusal(r, "IDEMPOTENCY_CONFLICT")

\* Validation and the fast idempotency path, without any lock.
Receive(p, c) ==
  /\ pc[p] = "idle"
  /\ LET r == NewRow(c)
         answer == IF ValidateExternal(c.req) THEN findIdempotentReplay(r)
                                              ELSE Refusal(r, "INVALID")
     IN  /\ reply' = [reply EXCEPT ![p] = answer]
         /\ IF answer # None
            THEN UNCHANGED <<pc, row>>
            ELSE Goto(p, "lock") /\ row' = [row EXCEPT ![p] = r]
  /\ UNCHANGED <<db, now, held, found, at, draft>>

\* The clock of the instance that runs p.
AppClock == {t \in (now - Skew)..(now + Skew) : t >= 0}

\* Variant: a plain SELECT, which does not wait for the holder of the lock.
readWallet(p) ==
  /\ pc[p] = "lock"
  /\ wallets[row[p].req.wallet] # None
  /\ held' = [held EXCEPT ![p] = wallets[row[p].req.wallet]]
  /\ at' = [at EXCEPT ![p] = now]
  /\ Goto(p, IF p \in Resolver THEN "consult" ELSE "recheck")
  /\ UNCHANGED <<db, now, row, found, draft, reply>>

\* SELECT ... FOR UPDATE on the wallet: waits for the transaction that holds
\* it, then reads the committed row.  A resolver reads its clock next.
lockWallet(p) ==
  /\ pc[p] = "lock"
  /\ LET w == row[p].req.wallet
     IN  IF wallets[w] = None
         THEN Finish(p, Refusal(row[p], "WALLET_NOT_FOUND"))
         ELSE /\ \A q \in Worker : ~HoldsWallet(q, w)
              /\ held' = [held EXCEPT ![p] = wallets[w]]
              /\ IF p \in Resolver
                 THEN /\ Goto(p, "consult")
                      /\ \E t \in AppClock : at' = [at EXCEPT ![p] = t]
                 ELSE Goto(p, "recheck") /\ UNCHANGED at
              /\ UNCHANGED <<db, now, row, found, draft, reply>>

\* Variant: no second lookup, the unlocked one is trusted.
RecheckSkipped(p) ==
  /\ pc[p] = "recheck"
  /\ Goto(p, "external")
  /\ UNCHANGED <<db, now, row, held, found, at, draft, reply>>

\* The idempotency lookup is repeated under the wallet lock.
Recheck(p) ==
  /\ pc[p] = "recheck"
  /\ LET answer == findIdempotentReplay(row[p])
     IN  IF answer # None
         THEN Finish(p, answer)
         ELSE Goto(p, "external") /\ UNCHANGED <<db, now, row, held, found, at, draft, reply>>

\* externalTransactionExists, then the player and currency of the wallet.
CheckExternal(p) ==
  /\ pc[p] = "external"
  /\ LET req == row[p].req
         error == IF wagers[req.ext] # None THEN "EXTERNAL_EXISTS"
                  ELSE IF held[p].player # req.player THEN "PLAYER_MISMATCH"
                  ELSE IF held[p].currency # req.currency THEN "CURRENCY_MISMATCH"
                  ELSE "NONE"
     IN  IF error # "NONE"
         THEN Finish(p, Refusal(row[p], error))
         ELSE Goto(p, "consult") /\ UNCHANGED <<db, now, row, held, found, at, draft, reply>>

-----------------------------------------------------------------------------
(* Deciding: the same statements in Service.ProcessTx and in ResolveOne.     *)

\* The outcome is computed and becomes the draft; an overflow is an error.
Decide(p, ref, reversed) ==
  \E t \in IF p \in Resolver THEN {at[p]} ELSE AppClock :
    LET d == IF p \in Resolver
             THEN ResolveOutcome(row[p], held[p], ref, reversed, t)
             ELSE ProcessOutcome(row[p], held[p], ref, reversed, t)
    IN  IF d = None
        THEN Finish(p, Refusal(row[p], "OVERFLOW"))
        ELSE /\ Goto(p, "write")
             /\ draft' = [draft EXCEPT ![p] = d]
             /\ UNCHANGED <<db, now, row, held, found, at, reply>>

AsksReversal(p, ref) ==
  /\ IsReversal(row[p])
  /\ Usable(row[p].req, ref)
  /\ p \in Resolver => ~Expired(row[p], at[p])

\* findReferencedTransaction, when there is a reference to look for.
Consult(p) ==
  /\ pc[p] = "consult"
  /\ LET req == row[p].req
         ref == IF req.ref = None THEN None ELSE wagers[req.ref]
     IN  IF AsksReversal(p, ref)
         THEN /\ Goto(p, "reversal")
              /\ found' = [found EXCEPT ![p] = ref]
              /\ UNCHANGED <<db, now, row, held, at, draft, reply>>
         ELSE Decide(p, ref, FALSE)

CheckReversed(p) ==
  /\ pc[p] = "reversal"
  /\ Decide(p, found[p], referenceAlreadyReversed(wagers, row[p].req.ref))

-----------------------------------------------------------------------------
(* Writing and committing.                                                   *)

\* The INSERT (processor) or guarded UPDATE (resolver) of the wager row; the
\* wallet, ledger and outbox writes follow under the wallet lock.
Write(p) ==
  /\ pc[p] = "write"
  /\ \A q \in Worker : ~WaitsForWrite(p, q)
  /\ LET error == WriteError(p)
     IN  IF error # None
         THEN Finish(p, Refusal(row[p], error))
         ELSE Goto(p, "commit") /\ UNCHANGED <<db, now, row, held, found, at, draft, reply>>

Commit(p) ==
  /\ pc[p] = "commit"
  /\ LET d == draft[p]
         req == d.row.req
     IN  /\ wagers' = [wagers EXCEPT ![req.ext] = d.row]
         /\ wallets' = [wallets EXCEPT ![req.wallet] = d.wallet]
         /\ ledger' = [ledger EXCEPT ![req.wallet] = @ \o d.entries]
         /\ outbox' = [outbox EXCEPT ![req.ext] = @ \o d.events]
         /\ reply' = [reply EXCEPT ![p] = IF p \in Processor
                                          THEN Result(row[p], d.row, "NEW")
                                          ELSE None]
  /\ End(p)
  /\ UNCHANGED now

\* An error, a cancelled context or a crash: PostgreSQL rolls back and the
\* client is left without an answer.
Abort(p) == pc[p] # "idle" /\ Finish(p, None)

-----------------------------------------------------------------------------
(* ResolveOne: claiming a pending row.                                       *)

\* Variant: rows past their expiry are left to somebody else.
DueUnexpired == {x \in Ext : /\ wagers[x] # None
                             /\ wagers[x].state = "PENDING_REFERENCE"
                             /\ wagers[x].next <= now
                             /\ now < wagers[x].expires}

Due == {x \in Ext : /\ wagers[x] # None
                    /\ wagers[x].state = "PENDING_REFERENCE"
                    /\ wagers[x].next = None \/ wagers[x].next <= now}

\* ORDER BY created_at FOR UPDATE SKIP LOCKED LIMIT 1.
findDuePendingReference(r) ==
  /\ pc[r] = "idle"
  /\ \E x \in Due :
       /\ ~Claimed(x)
       /\ \A y \in Due : ~Claimed(y) => wagers[x].created <= wagers[y].created
       /\ row' = [row EXCEPT ![r] = wagers[x]]
  /\ Goto(r, "lock")
  /\ reply' = [reply EXCEPT ![r] = None]
  /\ UNCHANGED <<db, now, held, found, at, draft>>

-----------------------------------------------------------------------------
(* wallet.Service.Create: nothing of it is visible before its commit and its *)
(* unique index serialises it with its rivals, so it is one step.            *)

CreateWallet(w, o) ==
  /\ wallets[w] = None
  /\ \A v \in Wallet : wallets[v] # None =>
       wallets[v].player # o.player \/ wallets[v].currency # o.currency
  /\ LET wallet == NewWallet(o)
         opening == createOpeningTransaction(w, wallet)
     IN  /\ wallets' = [wallets EXCEPT ![w] = wallet]
         /\ ledger' = [ledger EXCEPT ![w] = @ \o opening.entries]
         /\ outbox' = [outbox EXCEPT ![w] = @ \o opening.events]
  /\ UNCHANGED <<wagers, now, local, reply>>

Tick == now < MaxTime /\ now' = now + 1 /\ UNCHANGED <<db, local, reply>>

-----------------------------------------------------------------------------

\* A step of the transaction that p is running.
Advance(p) ==
  \/ lockWallet(p)
  \/ Recheck(p)
  \/ CheckExternal(p)
  \/ Consult(p)
  \/ CheckReversed(p)
  \/ Write(p)
  \/ Commit(p)

Next ==
  \/ \E p \in Processor, c \in Commands : Receive(p, c)
  \/ \E r \in Resolver : findDuePendingReference(r)
  \/ \E p \in Worker : Advance(p) \/ Abort(p)
  \/ \E w \in Wallet, o \in Openings : CreateWallet(w, o)
  \/ Tick

Spec == Init /\ [][Next]_vars

\* Scheduling the code can rely on.  The clock advances; a transaction that
\* can take its next step does; PostgreSQL grants a row lock in the order of
\* the queue and wakes an INSERT that waits for a unique key when the other
\* transaction ends, so a waiting transaction is not overtaken forever; the
\* resolver worker polls, and infrastructure errors stop hitting it at last.
Fairness ==
  /\ WF_vars(Tick)
  /\ \A p \in Worker :
       /\ WF_vars(Advance(p))
       /\ SF_vars(lockWallet(p))
       /\ SF_vars(Write(p))
  /\ \A r \in Resolver :
       /\ WF_vars(findDuePendingReference(r))
       /\ <>[][~Abort(r)]_vars

FairSpec == Spec /\ Fairness

-----------------------------------------------------------------------------
(* Properties.                                                               *)

\* Every variable has the type of the rows and Go values it stands for.
TypeOK ==
  /\ wallets \in [Wallet -> WalletRow \cup {None}]
  /\ wagers \in [Ext -> WagerRow \cup {None}]
  /\ ledger \in [Wallet -> Seq(LedgerEntry)]
  /\ outbox \in [Ext \cup Wallet -> Seq(Event)]
  /\ now \in Nat
  /\ pc \in [Worker -> PC]
  /\ row \in [Worker -> WagerRow \cup {None}]
  /\ held \in [Worker -> WalletRow \cup {None}]
  /\ found \in [Worker -> WagerRow \cup {None}]
  /\ at \in [Worker -> Nat]
  /\ draft \in [Worker -> Draft \cup {None}]
  /\ reply \in [Worker -> Reply \cup {None}]

\* lockWallet: the wallet a transaction computes with is the committed one
\* until the transaction ends, although it was read several statements ago.
HeldIsCurrent ==
  \A p \in Worker : pc[p] \in Locked => held[p] = wallets[row[p].req.wallet]

\* findDuePendingReference: no other resolver, and no processor, changes the
\* pending row that a resolver has claimed.
ClaimIsCurrent ==
  \A r \in Resolver : pc[r] # "idle" => row[r] = wagers[row[r].req.ext]

\* An unbroken chain of correct sums that starts at zero.
Linked(entries) ==
  \A i \in DOMAIN entries :
    /\ entries[i].before = IF i = 1 THEN 0 ELSE entries[i-1].after
    /\ entries[i].after = IF entries[i].dir = "CREDIT"
                          THEN entries[i].before + entries[i].amount
                          ELSE entries[i].before - entries[i].amount

\* 1 when the first entry of wallet w is not its opening transaction.
Unfunded(w, entries) == IF entries # <<>> /\ entries[1].txn = w THEN 0 ELSE 1

Explains(w, entries, wallet) ==
  /\ Linked(entries)
  /\ wallet.balance = IF entries = <<>> THEN 0 ELSE entries[Len(entries)].after
  /\ wallet.version = Len(entries) + Unfunded(w, entries)

\* The wallet row is explained by its ledger: an unbroken chain of correct
\* sums from zero to the balance, and a version that counts the movements
\* after the opening one.
LedgerExplainsWallet ==
  \A w \in Wallet :
    IF wallets[w] = None THEN ledger[w] = <<>>
                         ELSE Explains(w, ledger[w], wallets[w])

\* The ledger entries of wager x, as pairs of a wallet and a position.
Movements(x) ==
  {m \in UNION {{w} \X (1..Len(ledger[w])) : w \in Wallet} :
     ledger[m[1]][m[2]].txn = x}

\* A wager has moved money exactly when it is PROCESSED and not a LOSS, and
\* then once, in its own wallet and by its own amount, whatever was retried,
\* replayed, aborted or resolved late.
OneMovementPerWager ==
  \A x \in Ext :
    IF /\ wagers[x] # None
       /\ wagers[x].state = "PROCESSED"
       /\ wagers[x].req.kind # "LOSS"
    THEN \E i \in 1..Len(ledger[wagers[x].req.wallet]) :
           /\ Movements(x) = {<<wagers[x].req.wallet, i>>}
           /\ ledger[wagers[x].req.wallet][i].amount = wagers[x].req.amount
           /\ ledger[wagers[x].req.wallet][i].after = wagers[x].result
    ELSE Movements(x) = {}

\* A PROCESSED reversal undoes an earlier movement of the same wallet, by the
\* same amount and in the opposite direction, and nothing is undone twice.
ReversalUndoesOnce ==
  \A y \in Ext :
    (/\ wagers[y] # None
     /\ wagers[y].state = "PROCESSED"
     /\ IsReversal(wagers[y]))
    => LET x == wagers[y].refd
           s == ledger[wagers[y].req.wallet]
       IN  /\ \E i, j \in 1..Len(s) :
                /\ i < j
                /\ s[i].txn = x /\ s[j].txn = y
                /\ s[i].amount = s[j].amount
                /\ s[i].dir # s[j].dir
           /\ \A z \in Ext \ {y} :
                ~ (wagers[z] # None /\ SameReversal(wagers[y], wagers[z]))

\* The wallet lock alone already serialises reversals and resolver passes:
\* wager_single_processed_reversal_idx and the RowsAffected checks never fire.
BackstopsStayIdle ==
  \A p \in Worker : pc[p] = "write" => WriteError(p) # "INTERNAL"

\* No INSERT or UPDATE of a wager or of its ledger entry ever breaks a constraint
\* of the schema, although the rules were checked when the command arrived and
\* the row may have waited, been retried and been claimed since: a check that
\* fired would be an internal error to the client and would stop a pending
\* reference for good.
SchemaAccepts ==
  \A p \in Worker : pc[p] \in {"write", "commit"} =>
    /\ WagerAccepted(draft[p].row)
    /\ \A i \in DOMAIN draft[p].entries :
         EntryAccepted(draft[p].row.req.wallet, draft[p].entries[i])

\* The foreign key of referenced_transaction_id takes a key-share lock on the
\* referenced row.  It never meets the row lock of a resolver's claim, so a
\* transaction that holds a wallet never waits for one that may want it.
ForeignKeyNeverWaits ==
  \A p \in Worker :
    (pc[p] \in {"write", "commit"} /\ draft[p].row.refd # None)
      => ~Claimed(draft[p].row.refd)

\* A client that repeats a stored command is never told that it conflicts
\* with an earlier one: it conflicts only with different commands.
DuplicatesNeverConflict ==
  \A p \in Processor :
    (/\ reply[p] # None
     /\ reply[p].outcome \in {"IDEMPOTENCY_CONFLICT", "EXTERNAL_EXISTS", "INTERNAL"})
    => \A x \in Ext : wagers[x] # None =>
         ~ (wagers[x].key = reply[p].key /\ wagers[x].req = reply[p].req)

\* A terminal answer, first or replayed, stays the truth: it is the stored
\* outcome of that very command, with its balance and failure code.
AnswersStayTrue ==
  \A p \in Processor :
    (reply[p] # None /\ reply[p].outcome \in {"NEW", "REPLAY"})
    => LET s == wagers[reply[p].req.ext]
       IN  /\ s # None
           /\ s.key = reply[p].key /\ s.req = reply[p].req
           /\ reply[p].state \in Terminal =>
                /\ s.state = reply[p].state
                /\ s.code = reply[p].code
                /\ s.result = reply[p].balance

Types(x) == [i \in DOMAIN outbox[x] |-> outbox[x][i].type]

\* The events a stored row must have left behind.
Announced(r) ==
  (IF r.expires # None THEN <<"WagerTransactionPendingReference">> ELSE <<>>) \o
  CASE r.state = "PROCESSED" /\ r.req.kind = "LOSS" -> <<"WagerTransactionProcessed">>
    [] r.state = "PROCESSED" /\ r.req.kind # "LOSS" ->
         <<"WagerTransactionProcessed", "WalletBalanceChanged">>
    [] r.state = "REJECTED" -> <<"WagerTransactionRejected">>
    [] OTHER -> <<>>

\* The outbox holds exactly the events of the stored state, in the order of
\* the lifecycle, and the WalletBalanceChanged of a movement carries the
\* wallet version and balance that movement led to.
OutboxTellsState ==
  /\ \A x \in Ext : Types(x) = IF wagers[x] = None THEN <<>> ELSE Announced(wagers[x])
  /\ \A w \in Wallet : \A i \in 1..Len(ledger[w]) :
       LET events == outbox[ledger[w][i].txn]
           last == events[Len(events)]
       IN  /\ last.type = "WalletBalanceChanged"
           /\ last.balance = ledger[w][i].after
           /\ last.version = i + Unfunded(w, ledger[w])

\* A pending row always has a next attempt, no later than its expiry.
PendingIsScheduled ==
  \A x \in Ext : (wagers[x] # None /\ wagers[x].state = "PENDING_REFERENCE") =>
    /\ wagers[x].next # None
    /\ wagers[x].expires = wagers[x].created + ReferenceTTL
    /\ wagers[x].next <= wagers[x].expires

\* "Scheduling exactly at expiry guarantees that the next resolver pass takes
\* the REFERENCE_EXPIRED path" (schedulePendingReferenceRetry).
LastAttemptExpires ==
  \A r \in Resolver :
    (/\ pc[r] \in {"write", "commit"}
     /\ row[r].next = row[r].expires)
    => draft[r].row.code = "REFERENCE_EXPIRED"

\* A pending reference is given up only after its TTL: REFERENCE_EXPIRED is stored
\* when the expiry is past by the clock of some instance, never on the word of a
\* reschedule, a backoff or a late claim.
ExpiryIsDue ==
  \A x \in Ext : (wagers[x] # None /\ wagers[x].code = "REFERENCE_EXPIRED") =>
    /\ wagers[x].state = "REJECTED"
    /\ wagers[x].expires = wagers[x].created + ReferenceTTL
    /\ wagers[x].expires <= now + Skew

\* A stored command is never lost or altered and a terminal state is final;
\* ledger entries and outbox events are only ever added.
HistoryIsKept ==
  [][/\ \A x \in Ext : wagers[x] # None =>
          /\ wagers'[x] # None
          /\ wagers'[x].key = wagers[x].key
          /\ wagers'[x].req = wagers[x].req
          /\ wagers[x].state \in Terminal => wagers'[x] = wagers[x]
     /\ \A w \in Wallet : SubSeq(ledger'[w], 1, Len(ledger[w])) = ledger[w]
     /\ \A x \in Ext \cup Wallet : SubSeq(outbox'[x], 1, Len(outbox[x])) = outbox[x]
    ]_vars

Balance(w) == IF wallets[w] = None THEN 0 ELSE wallets[w].balance

\* Whatever interleaves, a step that changes the balance of a wallet or its
\* ledger appends one entry, of a positive amount, from the balance before the
\* step to the balance after it.  WalletReads takes this for granted.
MoneyMovesByEntry ==
  [][\A w \in Wallet :
       \/ Balance(w)' = Balance(w) /\ ledger'[w] = ledger[w]
       \/ LET e == ledger'[w][Len(ledger'[w])]
          IN  /\ ledger'[w] = Append(ledger[w], e)
              /\ e.amount > 0
              /\ e.before = Balance(w)
              /\ e.after = Balance(w)'
    ]_vars

\* The code that wager r is refused with is true of the committed rows: funds are
\* short, the reference is reversed, the reference has failed.
ReasonHolds(r) ==
  /\ r.code \in {"INSUFFICIENT_FUNDS", "REVERSAL_INSUFFICIENT_FUNDS"} =>
       Balance(r.req.wallet) < r.req.amount
  /\ r.code = "ALREADY_REVERSED" => referenceAlreadyReversed(wagers, r.req.ref)
  /\ r.code = "REFERENCE_TERMINAL_UNSUCCESSFUL" =>
       wagers[r.req.ref] # None /\ wagers[r.req.ref].state \in {"REJECTED", "FAILED"}

\* A refusal is final, so it must be right when it is committed, although wallet
\* and reference were read statements before: a bet or a reversal that takes
\* exactly what is there is not refused, nor one whose rival was rolled back.
RefusalsAreFounded ==
  [][\A x \in Ext :
       (wagers'[x] # wagers[x] /\ wagers'[x].state = "REJECTED") => ReasonHolds(wagers'[x])
    ]_vars

\* The stored wagers with idempotency key k, and the request recorded under k:
\* none as long as k does not name one stored wager.
StoredUnder(k) == {x \in Ext : wagers[x] # None /\ wagers[x].key = k}

Recorded(k) ==
  IF \E x \in Ext : StoredUnder(k) = {x}
  THEN wagers[CHOOSE x \in Ext : StoredUnder(k) = {x}].req
  ELSE None

Nobody == [m \in {} |-> "waiting"]

Recording == INSTANCE CommandDelivery WITH
               Message <- {}, Mails <- {Nobody}, mail <- Nobody, outcome <- Nobody,
               Request <- {c.req : c \in Commands},
               recorded <- [k \in Key |-> Recorded(k)]

\* The service is the recorder that CommandDelivery, and the consumers with it,
\* rely on: a key is taken by one request that was sent, at one step and for
\* good, however many commands race for it, on one wallet lock or on several.
ImplementsRecording == Recording!Spec

Serial == INSTANCE WagerLedger

\* Each statement-level interleaving has the effect of indivisible commands
\* and resolver passes.
ImplementsLedger == Serial!Spec

\* Every pending reference whose TTL ends within the modelled time is
\* eventually PROCESSED or REJECTED.
PendingEnds ==
  \A x \in Ext :
    (/\ wagers[x] # None
     /\ wagers[x].state = "PENDING_REFERENCE"
     /\ wagers[x].expires + Skew <= MaxTime)
    ~> (wagers[x] # None /\ wagers[x].state \in Terminal)

\* No transaction waits forever for a wallet or for a unique key.
TransactionsEnd ==
  \A p \in Worker : (pc[p] # "idle") ~> (pc[p] = "idle")

=============================================================================
