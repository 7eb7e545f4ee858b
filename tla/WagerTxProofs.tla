----------------------------- MODULE WagerTxProofs ----------------------------
(***************************************************************************)
(* Proofs about WagerTx for every set of wallets, commands, processors and *)
(* resolvers, every size of the integers and every clock skew.             *)
(*                                                                         *)
(* The first half is about the pure rules: whatever a transaction decides, *)
(* its draft is well formed and is explained by the wallet it was computed *)
(* from (Explained).  The second half shows that this wallet is still the  *)
(* committed one when the draft is committed.                              *)
(***************************************************************************)
EXTENDS WagerTx, TLAPS

-----------------------------------------------------------------------------
(* Drafts.                                                                   *)

\* A pending row has a next attempt, no later than its expiry.
Scheduled(r) ==
  r.state = "PENDING_REFERENCE" =>
    /\ r.next \in Nat
    /\ r.expires \in Nat
    /\ r.expires = r.created + ReferenceTTL
    /\ r.next <= r.expires

Arithmetic(e) ==
  e.after = IF e.dir = "CREDIT" THEN e.before + e.amount ELSE e.before - e.amount

\* The one ledger entry that leads from wallet w to wallet v.
Moves(e, w, v) ==
  /\ e \in LedgerEntry
  /\ e.txn \in Ext
  /\ e.before = w.balance
  /\ e.after = v.balance
  /\ Arithmetic(e)
  /\ v.version = w.version + 1

\* What draft d says of the request of row r and of wallet w.
Explained(d, r, w) ==
  /\ d \in Draft
  /\ d.row.req = r.req
  /\ Scheduled(d.row)
  /\ \/ d.entries = <<>> /\ d.wallet = w
     \/ \E e \in LedgerEntry : d.entries = <<e>> /\ Moves(e, w, d.wallet)

\* The notices are sequences of events.
LEMMA NoticeType ==
  ASSUME NEW type \in {"WagerTransactionProcessed", "WagerTransactionRejected",
                       "WagerTransactionPendingReference"}
  PROVE  Notice(type) \in Seq(Event)
<1>1. [type |-> type, version |-> 0, balance |-> 0] \in Event
  BY MaxIntAssumption DEF Event, Money
<1> QED BY <1>1 DEF Notice

\* The event of a movement is a sequence of events.
LEMMA BalanceChangedType ==
  ASSUME NEW w \in WalletRow
  PROVE  BalanceChanged(w) \in Seq(Event)
<1>1. [type |-> "WalletBalanceChanged", version |-> w.version,
       balance |-> w.balance] \in Event
  BY MaxIntAssumption DEF Event, Money, WalletRow
<1> QED BY <1>1 DEF BalanceChanged

\* persistRejectedTransaction leaves the wallet and the ledger alone.
LEMMA RejectedExplained ==
  ASSUME NEW r \in WagerRow, NEW w \in WalletRow, NEW code \in FailureCode,
         NEW refd \in Ext \cup {None}
  PROVE  Explained(persistRejected(r, w, code, refd), r, w)
<1> DEFINE d == persistRejected(r, w, code, refd)
           s == [r EXCEPT !.state = "REJECTED", !.code = code, !.refd = refd,
                          !.result = w.balance, !.next = None]
<1>1. s \in WagerRow /\ s.req = r.req /\ s.state = "REJECTED"
  BY DEF WagerRow, WalletRow, State
<1>2. Notice("WagerTransactionRejected") \in Seq(Event)
  BY NoticeType
<1>3. d = [row |-> s, wallet |-> w, entries |-> <<>>,
           events |-> Notice("WagerTransactionRejected")]
  BY DEF persistRejected
<1>4. d \in Draft /\ d.row = s /\ d.wallet = w /\ d.entries = <<>>
  BY <1>1, <1>2, <1>3 DEF Draft
<1> QED BY <1>1, <1>4 DEF Explained, Scheduled

\* rejectPendingReference does the same for a claimed row.
LEMMA RejectPendingExplained ==
  ASSUME NEW r \in WagerRow, NEW w \in WalletRow, NEW code \in FailureCode,
         NEW refd \in Ext \cup {None}
  PROVE  Explained(rejectPendingReference(r, w, code, refd), r, w)
BY RejectedExplained DEF rejectPendingReference, persistRejected

\* persistPendingReference schedules the first retry before the expiry.
LEMMA PendingExplained ==
  ASSUME NEW r \in WagerRow, NEW w \in WalletRow, NEW t \in Nat, r.created = t
  PROVE  Explained(persistPendingReference(r, w, t), r, w)
<1> DEFINE d == persistPendingReference(r, w, t)
           s == [r EXCEPT !.state = "PENDING_REFERENCE", !.result = w.balance,
                          !.next = t + RetryDelay, !.expires = t + ReferenceTTL]
<1>1. s \in WagerRow /\ s.req = r.req
  <2>1. t + RetryDelay \in Nat /\ t + ReferenceTTL \in Nat
    BY DelayAssumption
  <2> QED BY <2>1 DEF WagerRow, WalletRow, State
<1>2. s.next = t + RetryDelay /\ s.expires = t + ReferenceTTL /\ s.created = t
  BY DEF WagerRow
<1>3. Scheduled(s)
  BY <1>2, DelayAssumption DEF Scheduled
<1>4. Notice("WagerTransactionPendingReference") \in Seq(Event)
  BY NoticeType
<1>5. d = [row |-> s, wallet |-> w, entries |-> <<>>,
           events |-> Notice("WagerTransactionPendingReference")]
  BY DEF persistPendingReference
<1>6. d \in Draft /\ d.row = s /\ d.wallet = w /\ d.entries = <<>>
  BY <1>1, <1>4, <1>5 DEF Draft
<1> QED BY <1>1, <1>3, <1>6 DEF Explained

\* The backoff lies between the first delay and the cap.
LEMMA BackoffBounds ==
  ASSUME NEW n
  PROVE  referenceRetryBackoff(n) \in RetryDelay..MaxRetryDelay
BY DelayAssumption DEF referenceRetryBackoff

\* schedulePendingReferenceRetry keeps a scheduled row scheduled.
LEMMA RetryExplained ==
  ASSUME NEW r \in WagerRow, NEW w \in WalletRow, NEW t \in Nat, Scheduled(r),
         r.state = "PENDING_REFERENCE"
  PROVE  Explained(schedulePendingReferenceRetry(r, w, t), r, w)
<1> DEFINE d == schedulePendingReferenceRetry(r, w, t)
           due == t + referenceRetryBackoff(r.attempts + 1)
           next == IF due > r.expires THEN r.expires ELSE due
           s == [r EXCEPT !.attempts = r.attempts + 1, !.next = next]
<1>1. due \in Nat
  BY BackoffBounds, DelayAssumption
<1>2. r.expires \in Nat /\ r.expires = r.created + ReferenceTTL
  BY DEF Scheduled
<1>3. next \in Nat /\ next <= r.expires
  BY <1>1, <1>2
<1> HIDE DEF next
<1>4. s \in WagerRow /\ s.req = r.req
  <2>1. r.attempts + 1 \in Nat
    BY DEF WagerRow
  <2> QED BY <1>3, <2>1 DEF WagerRow
<1>5. s.next = next /\ s.expires = r.expires /\ s.created = r.created
  BY DEF WagerRow
<1>6. Scheduled(s)
  BY <1>2, <1>3, <1>5 DEF Scheduled
<1>7. d = [row |-> s, wallet |-> w, entries |-> <<>>, events |-> <<>>]
  BY DEF schedulePendingReferenceRetry, next
<1>8. d \in Draft /\ d.row = s /\ d.wallet = w /\ d.entries = <<>>
  BY <1>4, <1>7 DEF Draft
<1> QED BY <1>4, <1>6, <1>8 DEF Explained

\* A credit or debit that passes its checks leads to a wallet row.
LEMMA MovedWallet ==
  ASSUME NEW w \in WalletRow, NEW amount \in Money
  PROVE  /\ CanCredit(w, amount) =>
              /\ Credit(w, amount) \in WalletRow
              /\ Credit(w, amount).balance = w.balance + amount
              /\ Credit(w, amount).version = w.version + 1
         /\ CanDebit(w, amount) =>
              /\ Debit(w, amount) \in WalletRow
              /\ Debit(w, amount).balance = w.balance - amount
              /\ Debit(w, amount).version = w.version + 1
<1> USE MaxIntAssumption DEF WalletRow, Money
<1>1. w.balance \in 0..MaxInt /\ w.version \in 1..MaxInt /\ amount \in 0..MaxInt
  OBVIOUS
<1>2. /\ Credit(w, amount).balance = w.balance + amount
      /\ Credit(w, amount).version = w.version + 1
  BY DEF Credit
<1>3. /\ Debit(w, amount).balance = w.balance - amount
      /\ Debit(w, amount).version = w.version + 1
  BY DEF Debit
<1>4. ASSUME CanCredit(w, amount) PROVE Credit(w, amount) \in WalletRow
  <2>1. w.balance + amount \in 0..MaxInt /\ w.version + 1 \in 1..MaxInt
    BY <1>1, <1>4 DEF CanCredit
  <2> QED BY <2>1 DEF Credit
<1>5. ASSUME CanDebit(w, amount) PROVE Debit(w, amount) \in WalletRow
  <2>1. w.balance - amount \in 0..MaxInt /\ w.version + 1 \in 1..MaxInt
    BY <1>1, <1>5 DEF CanDebit, HasFunds
  <2> QED BY <2>1 DEF Debit
<1> QED BY <1>2, <1>3, <1>4, <1>5

\* persistProcessed without a movement (a LOSS).
LEMMA LossExplained ==
  ASSUME NEW r \in WagerRow, NEW w \in WalletRow, NEW refd \in Ext \cup {None}
  PROVE  Explained(persistProcessed(r, w, w, "NONE", refd), r, w)
<1> DEFINE d == persistProcessed(r, w, w, "NONE", refd)
           s == [r EXCEPT !.state = "PROCESSED", !.code = "", !.refd = refd,
                          !.result = w.balance, !.next = None]
<1>1. s \in WagerRow /\ s.req = r.req /\ s.state = "PROCESSED"
  BY DEF WagerRow, WalletRow, State, FailureCode
<1>2. Notice("WagerTransactionProcessed") \o <<>> \in Seq(Event)
  BY NoticeType
<1>3. d = [row |-> s, wallet |-> w, entries |-> <<>>,
           events |-> Notice("WagerTransactionProcessed") \o <<>>]
  BY DEF persistProcessed
<1>4. d \in Draft /\ d.row = s /\ d.wallet = w /\ d.entries = <<>>
  <2> HIDE DEF s, d
  <2> QED BY <1>1, <1>2, <1>3 DEF Draft
<1> QED BY <1>1, <1>4 DEF Explained, Scheduled

\* persistProcessed with a movement: one entry that explains the new wallet.
LEMMA ProcessedExplained ==
  ASSUME NEW r \in WagerRow, NEW w \in WalletRow, NEW v \in WalletRow,
         NEW dir \in {"CREDIT", "DEBIT"}, NEW refd \in Ext \cup {None},
         v.balance = IF dir = "CREDIT" THEN w.balance + r.req.amount
                                       ELSE w.balance - r.req.amount,
         v.version = w.version + 1
  PROVE  Explained(persistProcessed(r, w, v, dir, refd), r, w)
<1> DEFINE d == persistProcessed(r, w, v, dir, refd)
           s == [r EXCEPT !.state = "PROCESSED", !.code = "", !.refd = refd,
                          !.result = v.balance, !.next = None]
           e == [txn |-> r.req.ext, dir |-> dir, amount |-> r.req.amount,
                 before |-> w.balance, after |-> v.balance]
<1>1. s \in WagerRow /\ s.req = r.req /\ s.state = "PROCESSED"
  BY DEF WagerRow, WalletRow, State, FailureCode
<1>2. r.req.ext \in Ext /\ r.req.amount \in Money
  BY DEF WagerRow, Request
<1>3. e \in LedgerEntry /\ e.txn = r.req.ext /\ e.before = w.balance
      /\ e.after = v.balance /\ e.dir = dir /\ e.amount = r.req.amount
  BY <1>2 DEF LedgerEntry, WalletRow
<1>4. Moves(e, w, v)
  BY <1>2, <1>3 DEF Moves, Arithmetic
<1>5. Notice("WagerTransactionProcessed") \o BalanceChanged(v) \in Seq(Event)
  BY NoticeType, BalanceChangedType
<1>6. d = [row |-> s, wallet |-> v, entries |-> <<e>>,
           events |-> Notice("WagerTransactionProcessed") \o BalanceChanged(v)]
  BY DEF persistProcessed
<1>7. d \in Draft /\ d.row = s /\ d.wallet = v /\ d.entries = <<e>>
  <2>1. <<e>> \in Seq(LedgerEntry)
    BY <1>3
  <2>2. s \in WagerRow
    BY <1>1
  <2> HIDE DEF e, s, d
  <2> QED BY <1>5, <1>6, <2>1, <2>2 DEF Draft
<1>8. Explained(d, r, w)
  <2> HIDE DEF e, d, s
  <2> QED BY <1>1, <1>3, <1>4, <1>7 DEF Explained, Scheduled
<1> QED BY <1>8

\* A movement is an error or an explained draft.
LEMMA MovementExplained ==
  ASSUME NEW r \in WagerRow, NEW w \in WalletRow,
         NEW dir \in {"NONE", "CREDIT", "DEBIT"}, NEW refd \in Ext \cup {None}
  PROVE  \/ movement(r, w, dir, refd) = None
         \/ Explained(movement(r, w, dir, refd), r, w)
<1> DEFINE amount == r.req.amount
<1>1. amount \in Money
  BY DEF WagerRow, Request
<1>2. InsufficientFunds(r.req.kind) \in FailureCode
  BY DEF InsufficientFunds, FailureCode
<1>3. CASE dir = "NONE"
  <2>1. movement(r, w, dir, refd) = persistProcessed(r, w, w, "NONE", refd)
    BY <1>3 DEF movement
  <2> QED BY <2>1, LossExplained
<1>4. CASE dir = "CREDIT" /\ CanCredit(w, amount)
  <2>1. movement(r, w, dir, refd)
          = persistProcessed(r, w, Credit(w, amount), "CREDIT", refd)
    BY <1>4 DEF movement
  <2>2. /\ Credit(w, amount) \in WalletRow
        /\ Credit(w, amount).balance = w.balance + amount
        /\ Credit(w, amount).version = w.version + 1
    BY <1>1, <1>4, MovedWallet
  <2> QED BY <2>1, <2>2, ProcessedExplained
<1>5. CASE dir = "DEBIT" /\ HasFunds(w, amount) /\ CanDebit(w, amount)
  <2>1. movement(r, w, dir, refd)
          = persistProcessed(r, w, Debit(w, amount), "DEBIT", refd)
    BY <1>5 DEF movement
  <2>2. /\ Debit(w, amount) \in WalletRow
        /\ Debit(w, amount).balance = w.balance - amount
        /\ Debit(w, amount).version = w.version + 1
    BY <1>1, <1>5, MovedWallet
  <2> QED BY <2>1, <2>2, ProcessedExplained
<1>6. CASE dir = "DEBIT" /\ ~HasFunds(w, amount)
  <2>1. movement(r, w, dir, refd)
          = persistRejected(r, w, InsufficientFunds(r.req.kind), refd)
    BY <1>6 DEF movement
  <2> QED BY <2>1, <1>2, RejectedExplained
<1>7. CASE \/ dir = "CREDIT" /\ ~CanCredit(w, amount)
           \/ dir = "DEBIT" /\ HasFunds(w, amount) /\ ~CanDebit(w, amount)
  BY <1>7 DEF movement
<1> QED BY <1>3, <1>4, <1>5, <1>6, <1>7

\* So is the settlement of a pending reference.
LEMMA SettlementExplained ==
  ASSUME NEW r \in WagerRow, NEW w \in WalletRow,
         NEW dir \in {"CREDIT", "DEBIT"}, NEW refd \in Ext \cup {None}
  PROVE  \/ settlePendingReference(r, w, dir, refd) = None
         \/ Explained(settlePendingReference(r, w, dir, refd), r, w)
<1> DEFINE amount == r.req.amount
<1>1. amount \in Money
  BY DEF WagerRow, Request
<1>2. "REVERSAL_INSUFFICIENT_FUNDS" \in FailureCode
  BY DEF FailureCode
<1>3. CASE dir = "CREDIT" /\ CanCredit(w, amount)
  <2>1. settlePendingReference(r, w, dir, refd)
          = persistProcessed(r, w, Credit(w, amount), "CREDIT", refd)
    BY <1>3 DEF settlePendingReference
  <2>2. /\ Credit(w, amount) \in WalletRow
        /\ Credit(w, amount).balance = w.balance + amount
        /\ Credit(w, amount).version = w.version + 1
    BY <1>1, <1>3, MovedWallet
  <2> QED BY <2>1, <2>2, ProcessedExplained
<1>4. CASE dir = "DEBIT" /\ HasFunds(w, amount) /\ CanDebit(w, amount)
  <2>1. settlePendingReference(r, w, dir, refd)
          = persistProcessed(r, w, Debit(w, amount), "DEBIT", refd)
    BY <1>4 DEF settlePendingReference
  <2>2. /\ Debit(w, amount) \in WalletRow
        /\ Debit(w, amount).balance = w.balance - amount
        /\ Debit(w, amount).version = w.version + 1
    BY <1>1, <1>4, MovedWallet
  <2> QED BY <2>1, <2>2, ProcessedExplained
<1>5. CASE dir = "DEBIT" /\ ~HasFunds(w, amount)
  <2>1. settlePendingReference(r, w, dir, refd)
          = rejectPendingReference(r, w, "REVERSAL_INSUFFICIENT_FUNDS", refd)
    BY <1>5 DEF settlePendingReference
  <2> QED BY <2>1, <1>2, RejectPendingExplained
<1>6. CASE \/ dir = "CREDIT" /\ ~CanCredit(w, amount)
           \/ dir = "DEBIT" /\ HasFunds(w, amount) /\ ~CanDebit(w, amount)
  BY <1>6 DEF settlePendingReference
<1> QED BY <1>3, <1>4, <1>5, <1>6

\* A refused reference has a failure code, an accepted one a direction.
LEMMA ReferenceCodes ==
  ASSUME NEW req, NEW ref
  PROVE  /\ validateReference(req, ref) \in FailureCode
         /\ reversalDirection(req.kind, ref) \in {"CREDIT", "DEBIT"}
BY DEF validateReference, FailureCode, reversalDirection

\* The outcome of a command whose reference is terminal.
LEMMA ReferenceExplained ==
  ASSUME NEW r \in WagerRow, NEW w \in WalletRow, NEW ref, NEW reversed \in BOOLEAN
  PROVE  \/ referenceOutcome(r, w, ref, reversed) = None
         \/ Explained(referenceOutcome(r, w, ref, reversed), r, w)
<1> DEFINE d == referenceOutcome(r, w, ref, reversed)
<1>1. r.req.ref \in Ext \cup {None}
  BY DEF WagerRow, Request
<1>2. \/ \E code \in FailureCode : d = persistRejected(r, w, code, r.req.ref)
      \/ \E dir \in {"CREDIT", "DEBIT"} : d = movement(r, w, dir, r.req.ref)
  <2>1. /\ "REFERENCE_TERMINAL_UNSUCCESSFUL" \in FailureCode
        /\ "ALREADY_REVERSED" \in FailureCode
    BY DEF FailureCode
  <2>2. /\ validateReference(r.req, ref) \in FailureCode
        /\ reversalDirection(r.req.kind, ref) \in {"CREDIT", "DEBIT"}
    BY ReferenceCodes
  <2> QED BY <2>1, <2>2, Zenon DEF referenceOutcome
<1> HIDE DEF d
<1>3. d = None \/ Explained(d, r, w)
  BY <1>1, <1>2, RejectedExplained, MovementExplained
<1> QED BY <1>3 DEF d

\* The outcome of a claimed pending row whose reference is terminal.
LEMMA ResolvedExplained ==
  ASSUME NEW r \in WagerRow, NEW w \in WalletRow, NEW ref, NEW reversed \in BOOLEAN
  PROVE  \/ resolveReference(r, w, ref, reversed) = None
         \/ Explained(resolveReference(r, w, ref, reversed), r, w)
<1> DEFINE d == resolveReference(r, w, ref, reversed)
<1>1. r.req.ref \in Ext \cup {None}
  BY DEF WagerRow, Request
<1>2. \/ \E code \in FailureCode : d = rejectPendingReference(r, w, code, r.req.ref)
      \/ \E dir \in {"CREDIT", "DEBIT"} :
           d = settlePendingReference(r, w, dir, r.req.ref)
  <2>1. /\ "REFERENCE_TERMINAL_UNSUCCESSFUL" \in FailureCode
        /\ "ALREADY_REVERSED" \in FailureCode
    BY DEF FailureCode
  <2>2. /\ validateReference(r.req, ref) \in FailureCode
        /\ reversalDirection(r.req.kind, ref) \in {"CREDIT", "DEBIT"}
    BY ReferenceCodes
  <2> QED BY <2>1, <2>2, Zenon DEF resolveReference
<1> HIDE DEF d
<1>3. d = None \/ Explained(d, r, w)
  BY <1>1, <1>2, RejectPendingExplained, SettlementExplained
<1> QED BY <1>3 DEF d

\* Service.ProcessTx decides on an explained draft or fails.
LEMMA ProcessExplained ==
  ASSUME NEW r \in WagerRow, NEW w \in WalletRow, NEW ref,
         NEW reversed \in BOOLEAN, NEW t \in Nat
  PROVE  \/ ProcessOutcome(r, w, ref, reversed, t) = None
         \/ Explained(ProcessOutcome(r, w, ref, reversed, t), r, w)
<1> DEFINE d == ProcessOutcome(r, w, ref, reversed, t)
           fresh == [r EXCEPT !.created = t]
<1>1. fresh \in WagerRow /\ fresh.req = r.req /\ fresh.created = t
  BY DEF WagerRow
<1>2. ownDirection(r.req.kind) \in {"NONE", "CREDIT", "DEBIT"}
  BY DEF ownDirection
<1>3. \/ d = movement(fresh, w, ownDirection(r.req.kind), None)
      \/ d = persistPendingReference(fresh, w, t)
      \/ d = referenceOutcome(fresh, w, ref, reversed)
  BY DEF ProcessOutcome
<1> HIDE DEF d, fresh
<1>4. d = None \/ Explained(d, fresh, w)
  BY <1>1, <1>2, <1>3, MovementExplained, PendingExplained, ReferenceExplained
<1>5. d = None \/ Explained(d, r, w)
  BY <1>1, <1>4 DEF Explained
<1> QED BY <1>5 DEF d

\* ResolveOne decides on an explained draft or fails.
LEMMA ResolveExplained ==
  ASSUME NEW r \in WagerRow, NEW w \in WalletRow, NEW ref,
         NEW reversed \in BOOLEAN, NEW t \in Nat, Scheduled(r),
         r.state = "PENDING_REFERENCE"
  PROVE  \/ ResolveOutcome(r, w, ref, reversed, t) = None
         \/ Explained(ResolveOutcome(r, w, ref, reversed, t), r, w)
<1> DEFINE d == ResolveOutcome(r, w, ref, reversed, t)
<1>1. \/ d = rejectPendingReference(r, w, "REFERENCE_EXPIRED", None)
      \/ d = schedulePendingReferenceRetry(r, w, t)
      \/ d = resolveReference(r, w, ref, reversed)
  BY DEF ResolveOutcome
<1>2. "REFERENCE_EXPIRED" \in FailureCode
  BY DEF FailureCode
<1> HIDE DEF d
<1>3. d = None \/ Explained(d, r, w)
  BY <1>1, <1>2, RejectPendingExplained, RetryExplained, ResolvedExplained
<1> QED BY <1>3 DEF d

-----------------------------------------------------------------------------
(* The inductive invariant.                                                  *)

\* The transaction of p works on a row, and a resolver's is pending.
RowKept(p) ==
  pc[p] # "idle" =>
    /\ row[p] \in WagerRow
    /\ Scheduled(row[p])
    /\ p \in Resolver => row[p].state = "PENDING_REFERENCE"

\* The wallet that p computes with is the committed one.
WalletKept(p) ==
  pc[p] \in Locked =>
    /\ held[p] \in WalletRow
    /\ held[p] = wallets[row[p].req.wallet]

\* The draft of p is explained by that wallet.
DraftKept(p) ==
  pc[p] \in {"write", "commit"} => Explained(draft[p], row[p], held[p])

\* The wallet lock: two transactions never hold one wallet.
LocksExclude ==
  \A p, q \in Worker :
    (pc[p] \in Locked /\ pc[q] \in Locked
       /\ row[p].req.wallet = row[q].req.wallet) => p = q

StoredScheduled ==
  \A x \in Ext : wagers[x] # None => Scheduled(wagers[x])

IInv ==
  /\ TypeOK
  /\ \A p \in Worker : RowKept(p) /\ WalletKept(p) /\ DraftKept(p)
  /\ LocksExclude
  /\ StoredScheduled
  /\ LedgerExplainsWallet

\* A step of p that leaves the tables and the other transactions alone.
LEMMA LocalStep ==
  ASSUME IInv, TypeOK', UNCHANGED db, NEW p \in Worker,
         RowKept(p)', WalletKept(p)', DraftKept(p)',
         \A q \in Worker \ {p} :
           /\ pc'[q] = pc[q] /\ row'[q] = row[q]
           /\ held'[q] = held[q] /\ draft'[q] = draft[q],
         \A q \in Worker \ {p} :
           pc'[p] \in Locked /\ pc[q] \in Locked
             => row'[p].req.wallet # row[q].req.wallet
  PROVE  IInv'
<1>1. \A q \in Worker : RowKept(q)' /\ WalletKept(q)' /\ DraftKept(q)'
  BY DEF IInv, RowKept, WalletKept, DraftKept, db
<1>2. LocksExclude'
  BY DEF IInv, LocksExclude
<1>3. StoredScheduled'
  BY DEF IInv, StoredScheduled, db
<1>4. LedgerExplainsWallet'
  <2>1. wallets' = wallets /\ ledger' = ledger
    BY DEF db
  <2> QED BY <2>1 DEF IInv, LedgerExplainsWallet
<1> QED BY <1>1, <1>2, <1>3, <1>4 DEF IInv

\* The deferred Rollback keeps the invariant.
LEMMA FinishStep ==
  ASSUME IInv, NEW p \in Worker, NEW a \in Reply \cup {None}, Finish(p, a)
  PROVE  IInv'
<1> USE DEF IInv, TypeOK
<1>1. UNCHANGED db
  BY DEF Finish
<1>2. /\ pc' = [pc EXCEPT ![p] = "idle"]
      /\ row' = [row EXCEPT ![p] = None]
      /\ held' = [held EXCEPT ![p] = None]
      /\ found' = [found EXCEPT ![p] = None]
      /\ at' = [at EXCEPT ![p] = 0]
      /\ draft' = [draft EXCEPT ![p] = None]
      /\ reply' = [reply EXCEPT ![p] = a]
      /\ UNCHANGED <<wallets, wagers, ledger, outbox, now>>
  BY DEF Finish, End, db
<1>3. TypeOK'
  BY <1>2 DEF PC
<1>4. pc'[p] = "idle"
  BY <1>2
<1>5. RowKept(p)' /\ WalletKept(p)' /\ DraftKept(p)'
  BY <1>4 DEF RowKept, WalletKept, DraftKept, Locked
<1>6. \A q \in Worker \ {p} : /\ pc'[q] = pc[q] /\ row'[q] = row[q]
                              /\ held'[q] = held[q] /\ draft'[q] = draft[q]
  BY <1>2
<1>7. pc'[p] \notin Locked
  BY <1>4 DEF Locked
<1> HIDE DEF IInv, TypeOK
<1> QED BY <1>1, <1>3, <1>5, <1>6, <1>7, LocalStep

\* A step of p that keeps its lock and its row, and changes at most its
\* label, its found reference, its draft and its answer.
LEMMA KeepsLock ==
  ASSUME IInv, NEW p \in Worker, NEW label \in Locked,
         pc[p] \in Locked, pc' = [pc EXCEPT ![p] = label],
         UNCHANGED <<db, now, row, held, at, reply>>,
         found' \in [Worker -> WagerRow \cup {None}],
         draft' \in [Worker -> Draft \cup {None}],
         \A q \in Worker \ {p} : draft'[q] = draft[q],
         label \in {"write", "commit"} => Explained(draft'[p], row[p], held[p])
  PROVE  IInv'
<1> USE DEF IInv
<1>1. UNCHANGED <<wallets, wagers, ledger, outbox, now, row, held, at, reply>>
  BY DEF db
<1>2. TypeOK'
  BY <1>1 DEF TypeOK, PC, Locked
<1>3. pc'[p] = label
  BY DEF TypeOK
<1>4. RowKept(p)' /\ WalletKept(p)'
  BY <1>1, <1>3 DEF RowKept, WalletKept, Locked
<1>5. DraftKept(p)'
  BY <1>1, <1>3 DEF DraftKept
<1>6. \A q \in Worker \ {p} : /\ pc'[q] = pc[q] /\ row'[q] = row[q]
                              /\ held'[q] = held[q] /\ draft'[q] = draft[q]
  BY <1>1 DEF TypeOK
<1>7. \A q \in Worker \ {p} : pc'[p] \in Locked /\ pc[q] \in Locked
                              => row'[p].req.wallet # row[q].req.wallet
  BY <1>1 DEF LocksExclude
<1> HIDE DEF IInv
<1>8. UNCHANGED db
  OBVIOUS
<1> QED BY <1>2, <1>4, <1>5, <1>6, <1>7, <1>8, LocalStep

\* The clock of an instance shows a time.
LEMMA ClockType ==
  ASSUME TypeOK
  PROVE  AppClock \subseteq Nat
BY TimeAssumption DEF AppClock, TypeOK

\* Answers are well formed.
LEMMA RefusalType ==
  ASSUME NEW r \in WagerRow, NEW error \in Errors
  PROVE  Refusal(r, error) \in Reply
<1>1. 0 \in Money /\ "FAILED" \in State /\ "" \in FailureCode
  BY MaxIntAssumption DEF Money, State, FailureCode
<1>2. r.key \in Key /\ r.req \in Request
  BY DEF WagerRow
<1> QED BY <1>1, <1>2 DEF Refusal, Reply

\* The answer that tells a stored outcome is well formed.
LEMMA ResultType ==
  ASSUME NEW r \in WagerRow, NEW s \in WagerRow, NEW outcome \in {"NEW", "REPLAY"}
  PROVE  Result(r, s, outcome) \in Reply
BY DEF Result, Reply, WagerRow

\* The idempotency lookup answers with a reply or with nothing.
LEMMA ReplayType ==
  ASSUME TypeOK, NEW r \in WagerRow
  PROVE  findIdempotentReplay(r) \in Reply \cup {None}
<1> DEFINE hits == {x \in Ext : wagers[x] # None /\ wagers[x].key = r.key}
           s == wagers[CHOOSE x \in hits : TRUE]
<1>1. CASE hits = {}
  BY <1>1 DEF findIdempotentReplay
<1>2. CASE hits # {}
  <2>1. s \in WagerRow
    <3>1. (CHOOSE x \in hits : TRUE) \in hits
      BY <1>2
    <3> QED BY <3>1 DEF TypeOK
  <2>2. Result(r, s, "REPLAY") \in Reply
    BY <2>1, ResultType
  <2>3. Refusal(r, "IDEMPOTENCY_CONFLICT") \in Reply
    BY RefusalType DEF Errors
  <2>4. findIdempotentReplay(r) = IF s.req = r.req THEN Result(r, s, "REPLAY")
                                  ELSE Refusal(r, "IDEMPOTENCY_CONFLICT")
    BY <1>2 DEF findIdempotentReplay
  <2> HIDE DEF s
  <2> QED BY <2>2, <2>3, <2>4
<1> QED BY <1>1, <1>2

-----------------------------------------------------------------------------
(* One lemma per action.                                                     *)

\* Service.Process up to the wallet lock: no table is touched and nothing is locked.
LEMMA ReceiveStep ==
  ASSUME IInv, NEW p \in Processor, NEW c \in Commands, Receive(p, c)
  PROVE  IInv'
<1> DEFINE r == NewRow(c)
           answer == IF ValidateExternal(c.req) THEN findIdempotentReplay(r)
                                                ELSE Refusal(r, "INVALID")
<1>1. p \in Worker /\ p \notin Resolver
  BY WorkerAssumption DEF Worker
<1>2. r \in WagerRow /\ r.state = "PENDING"
  <2>1. c.key \in Key /\ c.req \in Request
    BY CommandsAssumption DEF Command
  <2>2. 0 \in Money /\ "PENDING" \in State /\ "" \in FailureCode
    BY MaxIntAssumption DEF Money, State, FailureCode
  <2> QED BY <2>1, <2>2 DEF NewRow, WagerRow
<1>3. answer \in Reply \cup {None}
  <2>1. findIdempotentReplay(r) \in Reply \cup {None}
    BY <1>2, ReplayType DEF IInv
  <2>2. Refusal(r, "INVALID") \in Reply
    BY <1>2, RefusalType DEF Errors
  <2> QED BY <2>1, <2>2
<1> HIDE DEF r
<1>4. /\ pc[p] = "idle"
      /\ reply' = [reply EXCEPT ![p] = answer]
      /\ \/ pc' = pc /\ row' = row
         \/ /\ pc' = [pc EXCEPT ![p] = "lock"]
            /\ row' = [row EXCEPT ![p] = r]
      /\ UNCHANGED <<db, wallets, wagers, ledger, outbox, now, held, found, at, draft>>
  BY DEF Receive, Goto, db, r
<1> HIDE DEF answer
<1>5. TypeOK'
  BY <1>1, <1>2, <1>3, <1>4 DEF IInv, TypeOK, PC
<1>6. (pc'[p] = "idle") \/ (pc'[p] = "lock" /\ row'[p] = r)
  BY <1>1, <1>4 DEF IInv, TypeOK
<1>7. RowKept(p)' /\ WalletKept(p)' /\ DraftKept(p)'
  BY <1>1, <1>2, <1>6 DEF RowKept, WalletKept, DraftKept, Locked, Scheduled
<1>8. \A q \in Worker \ {p} : /\ pc'[q] = pc[q] /\ row'[q] = row[q]
                              /\ held'[q] = held[q] /\ draft'[q] = draft[q]
  BY <1>1, <1>4 DEF IInv, TypeOK
<1>9. pc'[p] \notin Locked
  BY <1>6 DEF Locked
<1> QED BY <1>1, <1>4, <1>5, <1>7, <1>8, <1>9, LocalStep

\* A resolver claims a stored pending row, which is scheduled.
LEMMA ClaimStep ==
  ASSUME IInv, NEW r \in Resolver, findDuePendingReference(r)
  PROVE  IInv'
<1>1. r \in Worker
  BY DEF Worker
<1>2. PICK x \in Due : row' = [row EXCEPT ![r] = wagers[x]]
  BY DEF findDuePendingReference
<1>3. /\ wagers[x] \in WagerRow
      /\ wagers[x].state = "PENDING_REFERENCE"
      /\ Scheduled(wagers[x])
  BY <1>2 DEF Due, IInv, TypeOK, StoredScheduled
<1>4. /\ pc' = [pc EXCEPT ![r] = "lock"]
      /\ reply' = [reply EXCEPT ![r] = None]
      /\ UNCHANGED <<db, wallets, wagers, ledger, outbox, now, held, found, at, draft>>
  BY DEF findDuePendingReference, Goto, db
<1>5. TypeOK'
  BY <1>1, <1>2, <1>3, <1>4 DEF IInv, TypeOK, PC
<1>6. pc'[r] = "lock" /\ row'[r] = wagers[x]
  BY <1>1, <1>2, <1>4 DEF IInv, TypeOK
<1>7. RowKept(r)' /\ WalletKept(r)' /\ DraftKept(r)'
  BY <1>3, <1>6 DEF RowKept, WalletKept, DraftKept, Locked
<1>8. \A q \in Worker \ {r} : /\ pc'[q] = pc[q] /\ row'[q] = row[q]
                              /\ held'[q] = held[q] /\ draft'[q] = draft[q]
  BY <1>1, <1>2, <1>4 DEF IInv, TypeOK
<1>9. pc'[r] \notin Locked
  BY <1>6 DEF Locked
<1> QED BY <1>1, <1>4, <1>5, <1>7, <1>8, <1>9, LocalStep

\* Nobody else holds the wallet that lockWallet grants, and the row read is committed.
LEMMA LockStep ==
  ASSUME IInv, NEW p \in Worker, lockWallet(p)
  PROVE  IInv'
<1> DEFINE w == row[p].req.wallet
<1>1. pc[p] = "lock" /\ row[p] \in WagerRow /\ Scheduled(row[p])
      /\ (p \in Resolver => row[p].state = "PENDING_REFERENCE")
  BY DEF lockWallet, IInv, RowKept
<1>2. w \in Wallet
  BY <1>1 DEF WagerRow, Request
<1>3. CASE wallets[w] = None
  <2>1. Finish(p, Refusal(row[p], "WALLET_NOT_FOUND"))
    BY <1>3 DEF lockWallet
  <2>2. Refusal(row[p], "WALLET_NOT_FOUND") \in Reply
    BY <1>1, RefusalType DEF Errors
  <2> QED BY <2>1, <2>2, FinishStep
<1>4. CASE wallets[w] # None
  <2>1. wallets[w] \in WalletRow
    BY <1>2, <1>4 DEF IInv, TypeOK
  <2>2. /\ \A q \in Worker : ~HoldsWallet(q, w)
        /\ held' = [held EXCEPT ![p] = wallets[w]]
        /\ \E label \in {"consult", "recheck"} : pc' = [pc EXCEPT ![p] = label]
        /\ UNCHANGED <<db, wallets, wagers, ledger, outbox, now, row, found, draft, reply>>
    BY <1>1, <1>4 DEF lockWallet, Goto, db
  <2>8. at' \in [Worker -> Nat]
    <3>1. at' = at \/ \E t \in AppClock : at' = [at EXCEPT ![p] = t]
      BY <1>1, <1>4 DEF lockWallet
    <3> QED BY <3>1, ClockType DEF IInv, TypeOK
  <2>3. pc'[p] \in {"consult", "recheck"} /\ held'[p] = wallets[w]
    BY <2>2 DEF IInv, TypeOK
  <2>4. TypeOK'
    BY <2>1, <2>2, <2>8 DEF IInv, TypeOK, PC
  <2>5. RowKept(p)' /\ WalletKept(p)' /\ DraftKept(p)'
    BY <1>1, <2>1, <2>2, <2>3 DEF RowKept, WalletKept, DraftKept
  <2>6. \A q \in Worker \ {p} : /\ pc'[q] = pc[q] /\ row'[q] = row[q]
                                /\ held'[q] = held[q] /\ draft'[q] = draft[q]
    BY <2>2 DEF IInv, TypeOK
  <2>7. \A q \in Worker \ {p} : pc[q] \in Locked => row'[p].req.wallet # row[q].req.wallet
    BY <2>2 DEF HoldsWallet
  <2> QED BY <2>2, <2>4, <2>5, <2>6, <2>7, LocalStep
<1> QED BY <1>3, <1>4

\* The second idempotency lookup keeps the lock or ends the transaction.
LEMMA RecheckStep ==
  ASSUME IInv, NEW p \in Worker, Recheck(p)
  PROVE  IInv'
<1> DEFINE answer == findIdempotentReplay(row[p])
<1>1. pc[p] = "recheck" /\ row[p] \in WagerRow
  BY DEF Recheck, IInv, RowKept
<1>2. answer \in Reply \cup {None}
  BY <1>1, ReplayType DEF IInv
<1>3. CASE answer # None
  <2>1. Finish(p, answer)
    BY <1>3 DEF Recheck
  <2> HIDE DEF answer
  <2> QED BY <1>2, <2>1, FinishStep
<1>4. CASE answer = None
  <2>1. /\ pc' = [pc EXCEPT ![p] = "external"]
        /\ UNCHANGED <<db, now, row, held, found, at, draft, reply>>
    BY <1>4 DEF Recheck, Goto
  <2> QED BY <1>1, <2>1, KeepsLock DEF Locked, IInv, TypeOK
<1> QED BY <1>3, <1>4

\* So do externalTransactionExists and the wallet checks.
LEMMA CheckExternalStep ==
  ASSUME IInv, NEW p \in Worker, CheckExternal(p)
  PROVE  IInv'
<1>1. pc[p] = "external" /\ row[p] \in WagerRow
  BY DEF CheckExternal, IInv, RowKept
<1>2. \/ \E error \in Errors : Finish(p, Refusal(row[p], error))
      \/ /\ pc' = [pc EXCEPT ![p] = "consult"]
         /\ UNCHANGED <<db, now, row, held, found, at, draft, reply>>
  BY Zenon DEF CheckExternal, Goto, Errors
<1>3. CASE \E error \in Errors : Finish(p, Refusal(row[p], error))
  BY <1>1, <1>3, RefusalType, FinishStep
<1>4. CASE /\ pc' = [pc EXCEPT ![p] = "consult"]
           /\ UNCHANGED <<db, now, row, held, found, at, draft, reply>>
  BY <1>1, <1>4, KeepsLock DEF Locked, IInv, TypeOK
<1> QED BY <1>2, <1>3, <1>4

\* Deciding: the draft is explained by the wallet that p holds.
LEMMA DecideStep ==
  ASSUME IInv, NEW p \in Worker, pc[p] \in {"consult", "reversal"},
         NEW ref, NEW reversed \in BOOLEAN, Decide(p, ref, reversed)
  PROVE  IInv'
<1>1. /\ row[p] \in WagerRow /\ Scheduled(row[p])
      /\ p \in Resolver => row[p].state = "PENDING_REFERENCE"
      /\ held[p] \in WalletRow
  BY DEF IInv, RowKept, WalletKept, Locked
<1>2. PICK t \in (IF p \in Resolver THEN {at[p]} ELSE AppClock) :
        LET d == IF p \in Resolver
                 THEN ResolveOutcome(row[p], held[p], ref, reversed, t)
                 ELSE ProcessOutcome(row[p], held[p], ref, reversed, t)
        IN  IF d = None
            THEN Finish(p, Refusal(row[p], "OVERFLOW"))
            ELSE /\ Goto(p, "write")
                 /\ draft' = [draft EXCEPT ![p] = d]
                 /\ UNCHANGED <<db, now, row, held, found, at, reply>>
  BY DEF Decide
<1>3. t \in Nat
  BY ClockType DEF IInv, TypeOK
<1> DEFINE d == IF p \in Resolver
                THEN ResolveOutcome(row[p], held[p], ref, reversed, t)
                ELSE ProcessOutcome(row[p], held[p], ref, reversed, t)
<1>4. d = None \/ Explained(d, row[p], held[p])
  BY <1>1, <1>3, ProcessExplained, ResolveExplained
<1>5. \/ d = None /\ Finish(p, Refusal(row[p], "OVERFLOW"))
      \/ /\ d # None /\ Goto(p, "write")
         /\ draft' = [draft EXCEPT ![p] = d]
         /\ UNCHANGED <<db, now, row, held, found, at, reply>>
  BY <1>2, Zenon
<1> HIDE DEF d
<1>6. CASE d = None /\ Finish(p, Refusal(row[p], "OVERFLOW"))
  BY <1>1, <1>6, RefusalType, FinishStep DEF Errors
<1>7. CASE /\ d # None /\ Goto(p, "write")
           /\ draft' = [draft EXCEPT ![p] = d]
           /\ UNCHANGED <<db, now, row, held, found, at, reply>>
  <2>1. Explained(d, row[p], held[p]) /\ d \in Draft
    BY <1>4, <1>7 DEF Explained
  <2>2. pc' = [pc EXCEPT ![p] = "write"] /\ "write" \in Locked /\ pc[p] \in Locked
    BY <1>7 DEF Goto, Locked
  <2>3. /\ draft' \in [Worker -> Draft \cup {None}]
        /\ draft'[p] = d
        /\ \A q \in Worker \ {p} : draft'[q] = draft[q]
        /\ found' \in [Worker -> WagerRow \cup {None}]
    BY <1>7, <2>1 DEF IInv, TypeOK
  <2> QED BY <1>7, <2>1, <2>2, <2>3, KeepsLock
<1> QED BY <1>5, <1>6, <1>7

\* findReferencedTransaction goes on to the reversal check or decides.
LEMMA ConsultStep ==
  ASSUME IInv, NEW p \in Worker, Consult(p)
  PROVE  IInv'
<1> DEFINE req == row[p].req
           ref == IF req.ref = None THEN None ELSE wagers[req.ref]
<1>1. pc[p] = "consult" /\ row[p] \in WagerRow
  BY DEF Consult, IInv, RowKept
<1>2. CASE AsksReversal(p, ref)
  <2>1. /\ pc' = [pc EXCEPT ![p] = "reversal"]
        /\ found' = [found EXCEPT ![p] = ref]
        /\ UNCHANGED <<db, now, row, held, at, draft, reply>>
    BY <1>2 DEF Consult, Goto
  <2>2. ref \in WagerRow \cup {None}
    BY <1>1 DEF IInv, TypeOK, WagerRow, Request
  <2>3. "reversal" \in Locked /\ pc[p] \in Locked
    BY <1>1 DEF Locked
  <2> HIDE DEF ref
  <2>4. /\ found' \in [Worker -> WagerRow \cup {None}]
        /\ draft' \in [Worker -> Draft \cup {None}]
        /\ \A q \in Worker \ {p} : draft'[q] = draft[q]
    BY <2>1, <2>2 DEF IInv, TypeOK
  <2> QED BY <2>1, <2>3, <2>4, KeepsLock
<1>3. CASE ~AsksReversal(p, ref)
  <2>1. Decide(p, ref, FALSE)
    BY <1>3 DEF Consult
  <2> HIDE DEF ref
  <2> QED BY <1>1, <2>1, DecideStep
<1> QED BY <1>2, <1>3

\* referenceAlreadyReversed decides with the reference read before.
LEMMA CheckReversedStep ==
  ASSUME IInv, NEW p \in Worker, CheckReversed(p)
  PROVE  IInv'
<1> DEFINE reversed == referenceAlreadyReversed(wagers, row[p].req.ref)
<1>1. reversed \in BOOLEAN
  BY DEF referenceAlreadyReversed
<1>2. pc[p] = "reversal" /\ Decide(p, found[p], reversed)
  BY DEF CheckReversed
<1> HIDE DEF reversed
<1> QED BY <1>1, <1>2, DecideStep

\* The INSERT or UPDATE keeps the draft or ends the transaction.
LEMMA WriteStep ==
  ASSUME IInv, NEW p \in Worker, Write(p)
  PROVE  IInv'
<1>1. pc[p] = "write" /\ row[p] \in WagerRow /\ Explained(draft[p], row[p], held[p])
  BY DEF Write, IInv, RowKept, DraftKept
<1>2. WriteError(p) \in Errors \cup {None}
  BY DEF WriteError, Errors
<1>3. CASE WriteError(p) # None
  <2>1. Finish(p, Refusal(row[p], WriteError(p)))
    BY <1>3 DEF Write
  <2>2. Refusal(row[p], WriteError(p)) \in Reply
    BY <1>1, <1>2, <1>3, RefusalType
  <2> QED BY <2>1, <2>2, FinishStep
<1>4. CASE WriteError(p) = None
  <2>1. /\ pc' = [pc EXCEPT ![p] = "commit"]
        /\ UNCHANGED <<db, now, row, held, found, at, draft, reply>>
    BY <1>4 DEF Write, Goto
  <2> QED BY <1>1, <2>1, KeepsLock DEF Locked, IInv, TypeOK
<1> QED BY <1>3, <1>4

\* One more explained movement keeps the wallet explained by its ledger.
LEMMA AppendExplains ==
  ASSUME NEW w \in Wallet, NEW s \in Seq(LedgerEntry), NEW e \in LedgerEntry,
         NEW u \in WalletRow, NEW v \in WalletRow,
         Explains(w, s, u), Moves(e, u, v)
  PROVE  Explains(w, s \o <<e>>, v)
<1> DEFINE t == s \o <<e>>
<1>1. /\ t \in Seq(LedgerEntry)
      /\ Len(t) = Len(s) + 1
      /\ t # <<>>
      /\ t[Len(t)] = e
      /\ \A i \in 1..Len(s) : t[i] = s[i]
  OBVIOUS
<1> HIDE DEF t
<1>2. Len(s) \in Nat /\ (s = <<>> <=> Len(s) = 0) /\ DOMAIN s = 1..Len(s)
      /\ DOMAIN t = 1..Len(t)
  BY <1>1
<1>3. e.before = IF s = <<>> THEN 0 ELSE s[Len(s)].after
  BY DEF Explains, Moves
<1>4. Linked(t)
  <2> SUFFICES ASSUME NEW i \in DOMAIN t
               PROVE  /\ t[i].before = IF i = 1 THEN 0 ELSE t[i-1].after
                      /\ t[i].after = IF t[i].dir = "CREDIT"
                                      THEN t[i].before + t[i].amount
                                      ELSE t[i].before - t[i].amount
    BY DEF Linked
  <2>1. CASE i \in 1..Len(s)
    <3>1. t[i] = s[i] /\ (i # 1 => t[i-1] = s[i-1])
      BY <1>1, <1>2, <2>1
    <3> QED BY <1>2, <2>1, <3>1 DEF Explains, Linked
  <2>2. CASE i = Len(s) + 1
    <3>1. t[i] = e
      BY <1>1, <2>2
    <3>2. i # 1 => s # <<>> /\ t[i-1] = s[Len(s)]
      BY <1>1, <1>2, <2>2
    <3>3. i = 1 => s = <<>>
      BY <1>2, <2>2
    <3> QED BY <1>3, <3>1, <3>2, <3>3 DEF Moves, Arithmetic
  <2> QED BY <1>1, <1>2, <2>1, <2>2
<1>5. v.balance = IF t = <<>> THEN 0 ELSE t[Len(t)].after
  BY <1>1 DEF Moves
<1>6. Unfunded(w, t) = Unfunded(w, s)
  <2>1. CASE s = <<>>
    <3>1. t[1] = e
      BY <1>1, <1>2, <2>1
    <3>2. e.txn # w
      BY IdentityAssumption DEF Moves
    <3> QED BY <1>1, <2>1, <3>1, <3>2 DEF Unfunded
  <2>2. CASE s # <<>>
    <3>1. t[1] = s[1]
      BY <1>1, <1>2, <2>2
    <3> QED BY <1>1, <2>2, <3>1 DEF Unfunded
  <2> QED BY <2>1, <2>2
<1>7. v.version = Len(t) + Unfunded(w, t)
  <2>1. Unfunded(w, s) \in {0, 1}
    BY DEF Unfunded
  <2> QED BY <1>1, <1>2, <1>6, <2>1 DEF Explains, Moves
<1> QED BY <1>4, <1>5, <1>7 DEF Explains, t

\* The commit: only here do wallet, wager, ledger and outbox change for a
\* command, and all of them from one draft.
LEMMA CommitStep ==
  ASSUME IInv, NEW p \in Worker, Commit(p)
  PROVE  IInv'
<1> DEFINE d == draft[p]
           w == row[p].req.wallet
           x == row[p].req.ext
<1>1. /\ pc[p] = "commit"
      /\ row[p] \in WagerRow
      /\ held[p] \in WalletRow
      /\ held[p] = wallets[w]
      /\ Explained(d, row[p], held[p])
  BY DEF Commit, IInv, RowKept, WalletKept, DraftKept, Locked
<1>2. /\ d \in Draft /\ d.row \in WagerRow /\ d.wallet \in WalletRow
      /\ d.entries \in Seq(LedgerEntry) /\ d.events \in Seq(Event)
      /\ d.row.req = row[p].req
      /\ Scheduled(d.row)
  BY <1>1 DEF Explained, Draft
<1>3. w \in Wallet /\ x \in Ext
  BY <1>1 DEF WagerRow, Request
<1>4. /\ wagers' = [wagers EXCEPT ![x] = d.row]
      /\ wallets' = [wallets EXCEPT ![w] = d.wallet]
      /\ ledger' = [ledger EXCEPT ![w] = @ \o d.entries]
      /\ outbox' = [outbox EXCEPT ![x] = @ \o d.events]
      /\ UNCHANGED now
  BY <1>2 DEF Commit
<1>5. /\ pc' = [pc EXCEPT ![p] = "idle"]
      /\ row' = [row EXCEPT ![p] = None]
      /\ held' = [held EXCEPT ![p] = None]
      /\ found' = [found EXCEPT ![p] = None]
      /\ at' = [at EXCEPT ![p] = 0]
      /\ draft' = [draft EXCEPT ![p] = None]
  BY DEF Commit, End
<1>6. reply' \in [Worker -> Reply \cup {None}]
  <2>1. \E a \in Reply \cup {None} : reply' = [reply EXCEPT ![p] = a]
    <3>1. Result(row[p], d.row, "NEW") \in Reply
      BY <1>1, <1>2, ResultType
    <3> QED BY <3>1 DEF Commit
  <2> QED BY <2>1 DEF IInv, TypeOK
<1> HIDE DEF d, w, x
<1>7. TypeOK'
  <2>1. ledger[w] \o d.entries \in Seq(LedgerEntry)
    BY <1>2, <1>3 DEF IInv, TypeOK
  <2>2. outbox[x] \o d.events \in Seq(Event)
    BY <1>2, <1>3 DEF IInv, TypeOK
  <2>3. /\ wagers' \in [Ext -> WagerRow \cup {None}]
        /\ wallets' \in [Wallet -> WalletRow \cup {None}]
        /\ now' \in Nat
    BY <1>2, <1>3, <1>4 DEF IInv, TypeOK
  <2>4. ledger' \in [Wallet -> Seq(LedgerEntry)]
    BY <1>3, <1>4, <2>1 DEF IInv, TypeOK
  <2>5. outbox' \in [Ext \cup Wallet -> Seq(Event)]
    BY <1>3, <1>4, <2>2 DEF IInv, TypeOK
  <2>6. /\ pc' \in [Worker -> PC]
        /\ row' \in [Worker -> WagerRow \cup {None}]
        /\ held' \in [Worker -> WalletRow \cup {None}]
        /\ found' \in [Worker -> WagerRow \cup {None}]
        /\ at' \in [Worker -> Nat]
        /\ draft' \in [Worker -> Draft \cup {None}]
    BY <1>5 DEF IInv, TypeOK, PC
  <2> QED BY <1>6, <2>3, <2>4, <2>5, <2>6 DEF TypeOK
<1>8. pc'[p] = "idle" /\ \A q \in Worker \ {p} :
        /\ pc'[q] = pc[q] /\ row'[q] = row[q]
        /\ held'[q] = held[q] /\ draft'[q] = draft[q]
  BY <1>5 DEF IInv, TypeOK
<1>9. ASSUME NEW q \in Worker
      PROVE  RowKept(q)' /\ WalletKept(q)' /\ DraftKept(q)'
  <2>1. CASE q = p
    BY <1>8, <2>1 DEF RowKept, WalletKept, DraftKept, Locked
  <2>2. CASE q # p
    <3>1. RowKept(q) /\ WalletKept(q) /\ DraftKept(q)
      BY DEF IInv
    <3>2. RowKept(q)' /\ DraftKept(q)'
      BY <1>8, <2>2, <3>1 DEF RowKept, DraftKept
    <3>3. pc[q] \in Locked => row[q].req.wallet # w
      BY <1>1, <2>2 DEF IInv, LocksExclude, Locked, w
    <3>4. pc[q] \in Locked => row[q].req.wallet \in Wallet
      BY <3>1 DEF RowKept, Locked, WagerRow, Request
    <3>5. WalletKept(q)'
      BY <1>3, <1>4, <1>8, <2>2, <3>1, <3>3, <3>4 DEF WalletKept, IInv, TypeOK
    <3> QED BY <3>2, <3>5
  <2> QED BY <2>1, <2>2
<1>10. LocksExclude'
  BY <1>8 DEF IInv, LocksExclude, Locked
<1>11. StoredScheduled'
  BY <1>2, <1>3, <1>4 DEF IInv, StoredScheduled, TypeOK
<1>12. LedgerExplainsWallet'
  <2>1. Explains(w, ledger[w], held[p])
    BY <1>1, <1>3, NoneAssumption DEF IInv, LedgerExplainsWallet, w
  <2>2. Explains(w, ledger[w] \o d.entries, d.wallet)
    <3>1. ledger[w] \in Seq(LedgerEntry)
      BY <1>3 DEF IInv, TypeOK
    <3>2. CASE d.entries = <<>> /\ d.wallet = held[p]
      <4>1. ledger[w] \o <<>> = ledger[w]
        BY <3>1
      <4> QED BY <2>1, <3>2, <4>1
    <3>3. CASE \E e \in LedgerEntry : d.entries = <<e>> /\ Moves(e, held[p], d.wallet)
      BY <1>1, <1>2, <1>3, <2>1, <3>1, <3>3, AppendExplains
    <3> QED BY <1>1, <3>2, <3>3 DEF Explained
  <2>3. d.wallet # None
    BY <1>2, NoneAssumption
  <2> SUFFICES ASSUME NEW v \in Wallet
               PROVE  IF wallets'[v] = None THEN ledger'[v] = <<>>
                      ELSE Explains(v, ledger'[v], wallets'[v])
    BY DEF LedgerExplainsWallet
  <2>4. CASE v = w
    <3>1. wallets'[v] = d.wallet /\ ledger'[v] = ledger[w] \o d.entries
      BY <1>3, <1>4, <2>4 DEF IInv, TypeOK
    <3> QED BY <2>2, <2>3, <2>4, <3>1
  <2>5. CASE v # w
    <3>1. wallets'[v] = wallets[v] /\ ledger'[v] = ledger[v]
      BY <1>4, <2>5 DEF IInv, TypeOK
    <3> QED BY <3>1 DEF IInv, LedgerExplainsWallet
  <2> QED BY <2>4, <2>5
<1> QED BY <1>7, <1>9, <1>10, <1>11, <1>12 DEF IInv

\* A wallet starts explained: by its opening entry, or by none.
LEMMA OpeningExplains ==
  ASSUME NEW w \in Wallet, NEW v \in WalletRow, v.version = 1
  PROVE  LET opening == createOpeningTransaction(w, v)
         IN  /\ opening.entries \in Seq(LedgerEntry)
             /\ opening.events \in Seq(Event)
             /\ Explains(w, opening.entries, v)
<1> DEFINE opening == createOpeningTransaction(w, v)
<1>1. v.balance \in Money /\ v.balance \in Int
  BY MaxIntAssumption DEF WalletRow, Money
<1>2. CASE v.balance = 0
  <2>1. opening.entries = <<>> /\ opening.events = <<>>
    BY <1>2 DEF createOpeningTransaction
  <2>2. Explains(w, <<>>, v)
    BY <1>2 DEF Explains, Linked, Unfunded
  <2> QED BY <2>1, <2>2
<1>3. CASE v.balance # 0
  <2> DEFINE e == [txn |-> w, dir |-> "CREDIT", amount |-> v.balance,
                   before |-> 0, after |-> v.balance]
  <2>1. opening = [entries |-> <<e>>,
                   events |-> Notice("WagerTransactionProcessed") \o BalanceChanged(v)]
    BY <1>3 DEF createOpeningTransaction
  <2>2. /\ e \in LedgerEntry /\ e.txn = w /\ e.dir = "CREDIT"
        /\ e.before = 0 /\ e.after = v.balance /\ e.amount = v.balance
    BY <1>1, MaxIntAssumption DEF LedgerEntry, Money
  <2>3. Notice("WagerTransactionProcessed") \o BalanceChanged(v) \in Seq(Event)
    BY NoticeType, BalanceChangedType
  <2>4. opening.entries = <<e>> /\ opening.events \in Seq(Event)
    <3> HIDE DEF e, opening
    <3> QED BY <2>1, <2>3
  <2> HIDE DEF e, opening
  <2>5. Linked(<<e>>)
    BY <1>1, <2>2 DEF Linked
  <2>6. Unfunded(w, <<e>>) = 0
    BY <2>2 DEF Unfunded
  <2>7. Explains(w, <<e>>, v)
    BY <2>2, <2>5, <2>6 DEF Explains
  <2> QED BY <2>2, <2>4, <2>7 DEF opening
<1> QED BY <1>2, <1>3

\* wallet.Service.Create adds a wallet that its opening entry explains; no
\* transaction holds it yet.
LEMMA CreateWalletStep ==
  ASSUME IInv, NEW w \in Wallet, NEW o \in Openings, CreateWallet(w, o)
  PROVE  IInv'
<1> DEFINE v == NewWallet(o)
           opening == createOpeningTransaction(w, v)
<1>1. v \in WalletRow /\ v.version = 1 /\ v # None
  BY OpeningsAssumption, MaxIntAssumption, NoneAssumption DEF NewWallet, WalletRow
<1>2. /\ opening.entries \in Seq(LedgerEntry)
      /\ opening.events \in Seq(Event)
      /\ Explains(w, opening.entries, v)
  BY <1>1, OpeningExplains
<1>3. /\ wallets[w] = None
      /\ wallets' = [wallets EXCEPT ![w] = v]
      /\ ledger' = [ledger EXCEPT ![w] = @ \o opening.entries]
      /\ outbox' = [outbox EXCEPT ![w] = @ \o opening.events]
      /\ UNCHANGED <<wagers, now, pc, row, held, found, at, draft, reply>>
  BY DEF CreateWallet, local
<1> HIDE DEF v, opening
<1>4. ledger[w] = <<>>
  BY <1>3 DEF IInv, LedgerExplainsWallet
<1>5. ledger[w] \o opening.entries = opening.entries
  BY <1>2, <1>4
<1>6. TypeOK'
  <2>1. outbox[w] \o opening.events \in Seq(Event)
    BY <1>2 DEF IInv, TypeOK
  <2>2. wallets' \in [Wallet -> WalletRow \cup {None}]
    BY <1>1, <1>3 DEF IInv, TypeOK
  <2>3. ledger' \in [Wallet -> Seq(LedgerEntry)]
    BY <1>2, <1>3, <1>5 DEF IInv, TypeOK
  <2>4. outbox' \in [Ext \cup Wallet -> Seq(Event)]
    BY <1>3, <2>1 DEF IInv, TypeOK
  <2> QED BY <1>3, <2>2, <2>3, <2>4 DEF IInv, TypeOK
<1>7. ASSUME NEW q \in Worker
      PROVE  RowKept(q)' /\ WalletKept(q)' /\ DraftKept(q)'
  <2>1. RowKept(q) /\ WalletKept(q) /\ DraftKept(q)
    BY DEF IInv
  <2>2. RowKept(q)' /\ DraftKept(q)'
    BY <1>3, <2>1 DEF RowKept, DraftKept
  <2>3. pc[q] \in Locked => /\ row[q].req.wallet \in Wallet
                            /\ row[q].req.wallet # w
    BY <1>3, <2>1, NoneAssumption
       DEF RowKept, WalletKept, Locked, WagerRow, Request
  <2>4. WalletKept(q)'
    BY <1>3, <2>1, <2>3 DEF WalletKept, IInv, TypeOK
  <2> QED BY <2>2, <2>4
<1>8. LocksExclude' /\ StoredScheduled'
  BY <1>3 DEF IInv, LocksExclude, StoredScheduled
<1>9. LedgerExplainsWallet'
  <2> SUFFICES ASSUME NEW u \in Wallet
               PROVE  IF wallets'[u] = None THEN ledger'[u] = <<>>
                      ELSE Explains(u, ledger'[u], wallets'[u])
    BY DEF LedgerExplainsWallet
  <2>1. CASE u = w
    <3>1. wallets'[u] = v /\ ledger'[u] = opening.entries
      BY <1>3, <1>5, <2>1 DEF IInv, TypeOK
    <3> QED BY <1>1, <1>2, <2>1, <3>1
  <2>2. CASE u # w
    <3>1. wallets'[u] = wallets[u] /\ ledger'[u] = ledger[u]
      BY <1>3, <2>2 DEF IInv, TypeOK
    <3> QED BY <3>1 DEF IInv, LedgerExplainsWallet
  <2> QED BY <2>1, <2>2
<1> QED BY <1>6, <1>7, <1>8, <1>9 DEF IInv

\* A step that changes neither tables nor transactions.
LEMMA QuietStep ==
  ASSUME IInv, UNCHANGED <<db, local, reply>>, now' \in Nat
  PROVE  IInv'
<1>1. UNCHANGED <<wallets, wagers, ledger, outbox, pc, row, held, found, at, draft, reply>>
  BY DEF db, local
<1>2. TypeOK'
  BY <1>1 DEF IInv, TypeOK
<1>3. \A q \in Worker : RowKept(q)' /\ WalletKept(q)' /\ DraftKept(q)'
  BY <1>1 DEF IInv, RowKept, WalletKept, DraftKept
<1>4. LocksExclude' /\ StoredScheduled' /\ LedgerExplainsWallet'
  BY <1>1 DEF IInv, LocksExclude, StoredScheduled, LedgerExplainsWallet
<1> QED BY <1>2, <1>3, <1>4 DEF IInv

-----------------------------------------------------------------------------
(* The theorems.                                                             *)

\* The empty database satisfies the invariant.
LEMMA InitIInv == Init => IInv
<1> SUFFICES ASSUME Init PROVE IInv
  OBVIOUS
<1>1. TypeOK
  BY DEF Init, TypeOK, PC
<1>2. \A p \in Worker : RowKept(p) /\ WalletKept(p) /\ DraftKept(p)
  BY DEF Init, RowKept, WalletKept, DraftKept, Locked
<1>3. LocksExclude /\ StoredScheduled /\ LedgerExplainsWallet
  BY DEF Init, LocksExclude, StoredScheduled, LedgerExplainsWallet, Locked
<1> QED BY <1>1, <1>2, <1>3 DEF IInv

\* Every step keeps the invariant: one lemma above for each action.
LEMMA NextIInv == IInv /\ [Next]_vars => IInv'
<1> SUFFICES ASSUME IInv, [Next]_vars PROVE IInv'
  OBVIOUS
<1>1. ASSUME NEW p \in Processor, NEW c \in Commands, Receive(p, c) PROVE IInv'
  BY <1>1, ReceiveStep
<1>2. ASSUME NEW r \in Resolver, findDuePendingReference(r) PROVE IInv'
  BY <1>2, ClaimStep
<1>3. ASSUME NEW p \in Worker, Advance(p) PROVE IInv'
  BY <1>3, LockStep, RecheckStep, CheckExternalStep, ConsultStep,
     CheckReversedStep, WriteStep, CommitStep DEF Advance
<1>4. ASSUME NEW p \in Worker, Abort(p) PROVE IInv'
  BY <1>4, FinishStep DEF Abort
<1>5. ASSUME NEW w \in Wallet, NEW o \in Openings, CreateWallet(w, o) PROVE IInv'
  BY <1>5, CreateWalletStep
<1>6. CASE Tick
  <2>1. UNCHANGED <<db, local, reply>> /\ now' \in Nat
    BY <1>6 DEF Tick, IInv, TypeOK
  <2> QED BY <2>1, QuietStep
<1>7. CASE UNCHANGED vars
  <2>1. UNCHANGED <<db, local, reply>> /\ now' \in Nat
    BY <1>7 DEF vars, db, local, IInv, TypeOK
  <2> QED BY <2>1, QuietStep
<1> QED BY <1>1, <1>2, <1>3, <1>4, <1>5, <1>6, <1>7 DEF Next

\* The inductive invariant holds in every reachable state.
THEOREM Invariance == Spec => []IInv
<1> QED BY InitIInv, NextIInv, PTL DEF Spec

\* Every row, ledger entry, event, draft and answer of the service is well
\* formed; in particular no balance is ever negative or beyond int64.
THEOREM TypeCorrect == Spec => []TypeOK
<1>1. IInv => TypeOK
  BY DEF IInv
<1> QED BY <1>1, Invariance, PTL

\* The wallet lock works: from lockWallet to the commit the wallet that a
\* transaction computes with is the committed one.
THEOREM LockIsEffective == Spec => []HeldIsCurrent
<1>1. IInv => HeldIsCurrent
  BY DEF IInv, WalletKept, HeldIsCurrent
<1> QED BY <1>1, Invariance, PTL

\* Balance and version of every wallet are explained by its ledger, for any
\* number of concurrent processors and resolvers that may fail at any step.
THEOREM LedgerIsComplete == Spec => []LedgerExplainsWallet
<1>1. IInv => LedgerExplainsWallet
  BY DEF IInv
<1> QED BY <1>1, Invariance, PTL

\* Every pending reference has a next attempt no later than its expiry.
THEOREM PendingStaysScheduled == Spec => []PendingIsScheduled
<1>1. IInv => PendingIsScheduled
  <2> SUFFICES ASSUME IInv, NEW x \in Ext, wagers[x] # None,
                      wagers[x].state = "PENDING_REFERENCE"
               PROVE  /\ wagers[x].next # None
                      /\ wagers[x].expires = wagers[x].created + ReferenceTTL
                      /\ wagers[x].next <= wagers[x].expires
    BY DEF PendingIsScheduled
  <2>1. Scheduled(wagers[x])
    BY DEF IInv, StoredScheduled
  <2> QED BY <2>1, NoneAssumption DEF Scheduled
<1> QED BY <1>1, Invariance, PTL
=============================================================================
