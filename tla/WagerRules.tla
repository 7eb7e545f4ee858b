------------------------------ MODULE WagerRules ------------------------------
(***************************************************************************)
(* The business rules that every wager transaction applies to the rows it  *)
(* has read: checked wallet arithmetic (internal/domain), validation of    *)
(* requests and references, and the outcome (the rows to write) of a       *)
(* command (process.go) and of a resolver pass over a pending command      *)
(* (pending_reference_resolver.go).  Everything here is a pure operator;   *)
(* the transactions that call them are in WagerTx.                         *)
(*                                                                         *)
(* Abstractions.  Every lookup in the code is scoped by provider_id, so a  *)
(* Key stands for a pair (provider, idempotency key) and an Ext for a pair *)
(* (provider, external transaction id); a wager row is named by its Ext    *)
(* instead of its random UUID.  The payload hash is taken to be injective: *)
(* two hashes are equal exactly when the requests are.  Money is a number  *)
(* of minor units; MaxInt is the largest int64.                            *)
(***************************************************************************)
EXTENDS Integers, Sequences

CONSTANTS
  Wallet, Player, Currency, Round,  \* names the requests use
  Ext,                              \* (provider, external transaction id)
  Key,                              \* (provider, idempotency key)
  None,                             \* SQL NULL, the empty string, "no row"
  MaxInt,                           \* math.MaxInt64
  RetryDelay,                       \* referenceRetryDelay, 5s
  MaxRetryDelay,                    \* maxReferenceRetryDelay, 1min
  ReferenceTTL                      \* referenceTTL, 5min

ASSUME MaxIntAssumption == MaxInt \in Nat \ {0}

ASSUME DelayAssumption ==
  /\ RetryDelay \in Nat \ {0}
  /\ MaxRetryDelay \in Nat
  /\ ReferenceTTL \in Nat
  /\ RetryDelay <= MaxRetryDelay
  /\ RetryDelay <= ReferenceTTL

-----------------------------------------------------------------------------
(* Rows and records.                                                         *)

Kind == {"BET", "WIN", "LOSS", "REFUND", "ROLLBACK"}

State == {"PENDING", "PENDING_REFERENCE", "PROCESSED", "REJECTED", "FAILED"}

Terminal == {"PROCESSED", "REJECTED"}

FailureCode == {"", "INSUFFICIENT_FUNDS", "REVERSAL_INSUFFICIENT_FUNDS",
                "REFERENCE_MISMATCH", "REFERENCE_AMOUNT_MISMATCH",
                "INVALID_REFERENCE_KIND", "REFERENCE_TERMINAL_UNSUCCESSFUL",
                "ALREADY_REVERSED", "REFERENCE_EXPIRED"}

Money == 0..MaxInt

Request == [ext: Ext, wallet: Wallet, player: Player, currency: Currency,
            round: Round, kind: Kind, amount: Money, ref: Ext \cup {None}]

Command == [key: Key, req: Request]

WalletRow == [player: Player, currency: Currency, balance: Money,
              version: 1..MaxInt]

WagerRow == [key: Key, req: Request, state: State, code: FailureCode,
             refd: Ext \cup {None}, result: Money, attempts: Nat,
             next: Nat \cup {None}, expires: Nat \cup {None}, created: Nat]

LedgerEntry == [txn: Ext \cup Wallet, dir: {"CREDIT", "DEBIT"}, amount: Money,
                before: Money, after: Money]

\* "version" and "balance" are WalletVersion and BalanceAfter of a
\* WalletBalanceChanged payload; the other payloads carry neither.
Event == [type: {"WagerTransactionProcessed", "WagerTransactionRejected",
                 "WagerTransactionPendingReference", "WalletBalanceChanged"},
          version: 0..MaxInt, balance: Money]

\* What one database transaction is about to write.
Draft == [row: WagerRow, wallet: WalletRow, entries: Seq(LedgerEntry),
          events: Seq(Event)]

\* NULL is no row and no identity.
ASSUME NoneAssumption ==
  /\ None \notin Nat
  /\ None \notin Ext
  /\ None \notin WalletRow
  /\ None \notin WagerRow
  /\ None \notin Draft

\* Wager ids and wallet ids (which name opening transactions) are distinct.
ASSUME IdentityAssumption == Ext \cap Wallet = {}

\* The row of a command before its outcome is known.
NewRow(c) == [key |-> c.key, req |-> c.req, state |-> "PENDING", code |-> "",
              refd |-> None, result |-> 0, attempts |-> 0, next |-> None,
              expires |-> None, created |-> 0]

-----------------------------------------------------------------------------
(* Requests: WagerRequest.ValidateExternal.                                  *)

ValidateExternal(req) ==
  /\ req.kind \in Kind
  /\ IF req.kind = "LOSS" THEN req.amount = 0 ELSE req.amount > 0
  /\ req.kind \in {"BET", "LOSS"} => req.ref = None
  /\ req.kind \in {"REFUND", "ROLLBACK"} => req.ref # None

-----------------------------------------------------------------------------
(* Checked wallet arithmetic: Wallet.Credit, Wallet.Debit, Money.Add and     *)
(* Money.Subtract over int64.                                                *)

CanCredit(wallet, amount) ==
  /\ wallet.balance <= MaxInt - amount
  /\ wallet.version < MaxInt

Credit(wallet, amount) ==
  [wallet EXCEPT !.balance = @ + amount, !.version = @ + 1]

\* Variant: the comparison is off by one.
HasFundsOffByOne(wallet, amount) == wallet.balance + 1 >= amount

\* Variant: the whole balance may not be spent.
HasFundsLeft(wallet, amount) == wallet.balance > amount

HasFunds(wallet, amount) == wallet.balance >= amount

CanDebit(wallet, amount) ==
  /\ HasFunds(wallet, amount)
  /\ wallet.version < MaxInt

Debit(wallet, amount) ==
  [wallet EXCEPT !.balance = @ - amount, !.version = @ + 1]

-----------------------------------------------------------------------------
(* References.                                                               *)

RequiresReference(req) ==
  \/ req.kind \in {"REFUND", "ROLLBACK"}
  \/ req.kind = "WIN" /\ req.ref # None

IsReversal(row) == row.req.kind \in {"REFUND", "ROLLBACK"}

\* Variant: a pending reference is taken for a resolved one.
UnresolvedIfMissing(ref) == ref = None

Unresolved(ref) == ref = None \/ ref.state \in {"PENDING", "PENDING_REFERENCE"}

SameContext(req, ref) ==
  /\ ref.req.player = req.player
  /\ ref.req.wallet = req.wallet
  /\ ref.req.round = req.round
  /\ ref.req.currency = req.currency

ReferenceKinds(kind) ==
  IF kind = "ROLLBACK" THEN {"BET", "WIN", "REFUND"} ELSE {"BET"}

\* The failure code of an unacceptable PROCESSED reference, "" for a good one.
validateReference(req, ref) ==
  IF ~SameContext(req, ref) THEN "REFERENCE_MISMATCH"
  ELSE IF ref.req.kind \notin ReferenceKinds(req.kind)
    THEN "INVALID_REFERENCE_KIND"
  ELSE IF req.kind # "WIN" /\ ref.req.amount # req.amount
    THEN "REFERENCE_AMOUNT_MISMATCH"
  ELSE ""

Usable(req, ref) ==
  ~Unresolved(ref) /\ ref.state = "PROCESSED" /\ validateReference(req, ref) = ""

\* Variant: only refunds are looked for.
alreadyRefunded(rows, x) ==
  \E y \in Ext : /\ rows[y] # None
                 /\ rows[y].req.kind = "REFUND"
                 /\ rows[y].state = "PROCESSED"
                 /\ rows[y].refd = x

\* A PROCESSED reversal of x exists among the committed rows.
referenceAlreadyReversed(rows, x) ==
  \E y \in Ext : /\ rows[y] # None
                 /\ IsReversal(rows[y])
                 /\ rows[y].state = "PROCESSED"
                 /\ rows[y].refd = x

\* Variant: every rollback debits.
rollbackDebits(kind, ref) == IF kind = "REFUND" THEN "CREDIT" ELSE "DEBIT"

reversalDirection(kind, ref) ==
  IF kind = "REFUND" \/ ref.req.kind = "BET" THEN "CREDIT" ELSE "DEBIT"

\* 5s, 10s, 20s, 40s, then 60s: doubled once per attempt after the first and
\* capped at MaxRetryDelay.
referenceRetryBackoff(attempt) ==
  LET uncapped == {d \in RetryDelay..MaxRetryDelay :
                     d = RetryDelay * 2^(attempt - 1)}
  IN  IF uncapped = {} THEN MaxRetryDelay ELSE CHOOSE d \in uncapped : TRUE

-----------------------------------------------------------------------------
(* What a transaction may end up writing.                                    *)

Notice(type) == <<[type |-> type, version |-> 0, balance |-> 0]>>

BalanceChanged(wallet) ==
  <<[type |-> "WalletBalanceChanged", version |-> wallet.version,
     balance |-> wallet.balance]>>

persistRejected(row, wallet, code, refd) ==
  [row     |-> [row EXCEPT !.state = "REJECTED", !.code = code, !.refd = refd,
                           !.result = wallet.balance, !.next = None],
   wallet  |-> wallet,
   entries |-> <<>>,
   events  |-> Notice("WagerTransactionRejected")]

persistPendingReference(row, wallet, t) ==
  [row     |-> [row EXCEPT !.state = "PENDING_REFERENCE",
                           !.result = wallet.balance,
                           !.next = t + RetryDelay,
                           !.expires = t + ReferenceTTL],
   wallet  |-> wallet,
   entries |-> <<>>,
   events  |-> Notice("WagerTransactionPendingReference")]

\* Variant: the retry is not capped at the expiry.
scheduleUncapped(row, wallet, t) ==
  [row     |-> [row EXCEPT !.attempts = @ + 1,
                           !.next = t + referenceRetryBackoff(row.attempts + 1)],
   wallet  |-> wallet,
   entries |-> <<>>,
   events  |-> <<>>]

\* Variant: every retry announces the pending reference again.
scheduleAndAnnounce(row, wallet, t) ==
  [scheduleUncapped(row, wallet, t) EXCEPT
     !.events = Notice("WagerTransactionPendingReference")]

\* Another attempt after the backoff, never later than the expiry; no event.
schedulePendingReferenceRetry(row, wallet, t) ==
  LET attempts == row.attempts + 1
      due      == t + referenceRetryBackoff(attempts)
  IN  [row     |-> [row EXCEPT !.attempts = attempts,
                               !.next = IF due > row.expires THEN row.expires
                                                             ELSE due],
       wallet  |-> wallet,
       entries |-> <<>>,
       events  |-> <<>>]

rejectPendingReference(row, wallet, code, refd) ==
  [row     |-> [row EXCEPT !.state = "REJECTED", !.code = code, !.refd = refd,
                           !.result = wallet.balance, !.next = None],
   wallet  |-> wallet,
   entries |-> <<>>,
   events  |-> Notice("WagerTransactionRejected")]

\* moved is the wallet after the movement dir, or wallet itself for a LOSS.
persistProcessed(row, wallet, moved, dir, refd) ==
  [row     |-> [row EXCEPT !.state = "PROCESSED", !.code = "", !.refd = refd,
                           !.result = moved.balance, !.next = None],
   wallet  |-> moved,
   entries |-> IF dir = "NONE" THEN <<>>
               ELSE <<[txn |-> row.req.ext, dir |-> dir,
                       amount |-> row.req.amount, before |-> wallet.balance,
                       after |-> moved.balance]>>,
   events  |-> Notice("WagerTransactionProcessed") \o
               IF dir = "NONE" THEN <<>> ELSE BalanceChanged(moved)]

\* The OPENING transaction of wallet w: a zero balance leaves no trace.
createOpeningTransaction(w, wallet) ==
  IF wallet.balance = 0
  THEN [entries |-> <<>>, events |-> <<>>]
  ELSE [entries |-> <<[txn |-> w, dir |-> "CREDIT", amount |-> wallet.balance,
                       before |-> 0, after |-> wallet.balance]>>,
        events  |-> Notice("WagerTransactionProcessed") \o BalanceChanged(wallet)]

NewWallet(o) == [player |-> o.player, currency |-> o.currency,
                 balance |-> o.balance, version |-> 1]

-----------------------------------------------------------------------------
(* Outcomes.  None stands for an error (balance or version overflow): the    *)
(* transaction rolls back and nothing is written.                            *)

InsufficientFunds(kind) ==
  IF kind = "BET" THEN "INSUFFICIENT_FUNDS" ELSE "REVERSAL_INSUFFICIENT_FUNDS"

\* Variant: the overflow error of a credit is ignored.
movementIgnoringOverflow(row, wallet, dir, refd) ==
  LET amount == row.req.amount
  IN  CASE dir = "DEBIT" /\ CanDebit(wallet, amount) ->
             persistProcessed(row, wallet, Debit(wallet, amount), dir, refd)
        [] dir = "DEBIT" /\ ~CanDebit(wallet, amount) ->
             persistRejected(row, wallet, InsufficientFunds(row.req.kind), refd)
        [] dir = "CREDIT" /\ CanCredit(wallet, amount) ->
             persistProcessed(row, wallet, Credit(wallet, amount), dir, refd)
        [] OTHER -> persistProcessed(row, wallet, wallet, "NONE", refd)

movement(row, wallet, dir, refd) ==
  LET amount == row.req.amount
  IN  CASE dir = "NONE" -> persistProcessed(row, wallet, wallet, dir, refd)
        [] dir = "CREDIT" ->
             IF CanCredit(wallet, amount)
             THEN persistProcessed(row, wallet, Credit(wallet, amount), dir, refd)
             ELSE None
        [] dir = "DEBIT" ->
             IF ~HasFunds(wallet, amount)
             THEN persistRejected(row, wallet, InsufficientFunds(row.req.kind), refd)
             ELSE IF CanDebit(wallet, amount)
             THEN persistProcessed(row, wallet, Debit(wallet, amount), dir, refd)
             ELSE None

\* The direction of a request without a reference.
ownDirection(kind) ==
  CASE kind = "BET" -> "DEBIT" [] kind = "WIN" -> "CREDIT" [] OTHER -> "NONE"

\* ref is terminal.  "reversed" is the answer of referenceAlreadyReversed,
\* which is asked only for a REFUND or ROLLBACK of a usable reference.
referenceOutcome(row, wallet, ref, reversed) ==
  LET req  == row.req
      bad  == validateReference(req, ref)
  IN  IF ref.state \in {"REJECTED", "FAILED"}
        THEN persistRejected(row, wallet, "REFERENCE_TERMINAL_UNSUCCESSFUL", req.ref)
      ELSE IF bad # "" THEN persistRejected(row, wallet, bad, req.ref)
      ELSE IF req.kind = "WIN" THEN movement(row, wallet, "CREDIT", req.ref)
      ELSE IF reversed THEN persistRejected(row, wallet, "ALREADY_REVERSED", req.ref)
      ELSE movement(row, wallet, reversalDirection(req.kind, ref), req.ref)

\* Service.ProcessTx after its checks: row is new, t is time.Now().
ProcessOutcome(row, wallet, ref, reversed, t) ==
  LET fresh == [row EXCEPT !.created = t]
  IN  IF ~RequiresReference(row.req)
        THEN movement(fresh, wallet, ownDirection(row.req.kind), None)
      ELSE IF Unresolved(ref) THEN persistPendingReference(fresh, wallet, t)
      ELSE referenceOutcome(fresh, wallet, ref, reversed)

\* Variant: the instant of expiry does not count as expired.
ExpiredAfter(row, t) == row.expires # None /\ t > row.expires

\* Variant: a row is given up when no other attempt fits before its expiry.
ExpiredWithoutRetry(row, t) == row.expires # None /\ t + RetryDelay >= row.expires

Expired(row, t) == row.expires # None /\ t >= row.expires

\* ResolveOne for a PROCESSED reference that it has accepted: the movement,
\* the wallet row, the pending row, the ledger entry and the events.
settlePendingReference(row, wallet, dir, refd) ==
  LET amount == row.req.amount
  IN  IF dir = "CREDIT"
      THEN IF CanCredit(wallet, amount)
           THEN persistProcessed(row, wallet, Credit(wallet, amount), dir, refd)
           ELSE None
      ELSE IF ~HasFunds(wallet, amount)
           THEN rejectPendingReference(row, wallet, "REVERSAL_INSUFFICIENT_FUNDS", refd)
      ELSE IF CanDebit(wallet, amount)
           THEN persistProcessed(row, wallet, Debit(wallet, amount), dir, refd)
           ELSE None

\* ResolveOne once the reference is terminal.
resolveReference(row, wallet, ref, reversed) ==
  LET req == row.req
      bad == validateReference(req, ref)
  IN  IF ref.state \in {"REJECTED", "FAILED"}
        THEN rejectPendingReference(row, wallet, "REFERENCE_TERMINAL_UNSUCCESSFUL", req.ref)
      ELSE IF bad # "" THEN rejectPendingReference(row, wallet, bad, req.ref)
      ELSE IF req.kind = "WIN" THEN settlePendingReference(row, wallet, "CREDIT", req.ref)
      ELSE IF reversed THEN rejectPendingReference(row, wallet, "ALREADY_REVERSED", req.ref)
      ELSE settlePendingReference(row, wallet, reversalDirection(req.kind, ref), req.ref)

\* PendingReferenceResolver.ResolveOne: row is the claimed pending row, t the
\* time read once after the wallet was locked.
ResolveOutcome(row, wallet, ref, reversed, t) ==
  IF Expired(row, t)
    THEN rejectPendingReference(row, wallet, "REFERENCE_EXPIRED", None)
  ELSE IF Unresolved(ref) THEN schedulePendingReferenceRetry(row, wallet, t)
  ELSE resolveReference(row, wallet, ref, reversed)

=============================================================================
