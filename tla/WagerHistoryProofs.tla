--------------------------- MODULE WagerHistoryProofs --------------------------
(***************************************************************************)
(* More proofs about WagerTx, for every value of its constants, on top of  *)
(* the invariant of WagerTxProofs.                                         *)
(*                                                                         *)
(* The first part says what a decision can be (Decision).  The invariants  *)
(* follow in layers, each proved with the help of the ones below it:       *)
(*   Identity    who may write which wager row (claims, keys, inserts),    *)
(*   References  what a decision says of its reference is still so when    *)
(*               it is committed,                                          *)
(*   Answers     what the clients were told stays true.                    *)
(***************************************************************************)
EXTENDS WagerTxProofs

-----------------------------------------------------------------------------
(* Decisions.                                                                *)

\* The direction in which a wager of this request moves money.
DirectionOf(req, ref) ==
  IF req.kind \in {"REFUND", "ROLLBACK"} THEN reversalDirection(req.kind, ref)
                                         ELSE ownDirection(req.kind)

\* The reference was read, and it was terminal, if the row records it.
Records(d, r, ref) ==
  d.row.refd # None => d.row.refd = r.req.ref /\ ~Unresolved(ref)

Pends(d, r) ==
  /\ d.row.state = "PENDING_REFERENCE"
  /\ d.row.refd = r.refd
  /\ d.row.expires # None
  /\ RequiresReference(r.req)
  /\ d.entries = <<>>
  /\ d.events = IF r.expires = None
                THEN Notice("WagerTransactionPendingReference") ELSE <<>>

Rejects(d, r, ref) ==
  /\ d.row.state = "REJECTED"
  /\ d.row.expires = r.expires
  /\ Records(d, r, ref)
  /\ d.entries = <<>>
  /\ d.events = Notice("WagerTransactionRejected")

Loses(d, r) ==
  /\ d.row.state = "PROCESSED"
  /\ d.row.expires = r.expires
  /\ d.row.refd = None
  /\ r.req.kind = "LOSS"
  /\ d.entries = <<>>
  /\ d.events = Notice("WagerTransactionProcessed")

\* "reversed": a processed reversal of the reference is stored already.
Settles(d, r, ref, reversed) ==
  /\ d.row.state = "PROCESSED"
  /\ d.row.expires = r.expires
  /\ Records(d, r, ref)
  /\ r.req.kind # "LOSS"
  /\ IsReversal(r) => /\ d.row.refd = r.req.ref
                      /\ Usable(r.req, ref)
                      /\ ~reversed
  /\ \E e \in LedgerEntry : /\ d.entries = <<e>>
                            /\ e.txn = r.req.ext
                            /\ e.amount = r.req.amount
                            /\ e.after = d.row.result
                            /\ e.dir = DirectionOf(r.req, ref)
  /\ d.events = Notice("WagerTransactionProcessed") \o BalanceChanged(d.wallet)

\* What draft d makes of row r, whose reference was read as ref.
Decision(d, r, ref, reversed) ==
  /\ d.row.key = r.key
  /\ d.row.req = r.req
  /\ Pends(d, r) \/ Rejects(d, r, ref) \/ Loses(d, r) \/ Settles(d, r, ref, reversed)

\* The fields that persistRejectedTransaction and rejectPendingReference write.
LEMMA RejectedFields ==
  ASSUME NEW r \in WagerRow, NEW w \in WalletRow, NEW code \in FailureCode,
         NEW refd \in Ext \cup {None}
  PROVE  LET d == persistRejected(r, w, code, refd)
         IN  /\ d.row.key = r.key /\ d.row.req = r.req
             /\ d.row.state = "REJECTED" /\ d.row.refd = refd
             /\ d.row.expires = r.expires
             /\ d.entries = <<>>
             /\ d.events = Notice("WagerTransactionRejected")
BY DEF persistRejected, WagerRow

\* The fields that persistPendingReference writes.
LEMMA PendingFields ==
  ASSUME NEW r \in WagerRow, NEW w \in WalletRow, NEW t \in Nat
  PROVE  LET d == persistPendingReference(r, w, t)
         IN  /\ d.row.key = r.key /\ d.row.req = r.req
             /\ d.row.state = "PENDING_REFERENCE" /\ d.row.refd = r.refd
             /\ d.row.expires = t + ReferenceTTL
             /\ d.entries = <<>>
             /\ d.events = Notice("WagerTransactionPendingReference")
BY DEF persistPendingReference, WagerRow

\* The fields that schedulePendingReferenceRetry writes.
LEMMA RetryFields ==
  ASSUME NEW r \in WagerRow, NEW w \in WalletRow, NEW t \in Nat
  PROVE  LET d == schedulePendingReferenceRetry(r, w, t)
         IN  /\ d.row.key = r.key /\ d.row.req = r.req
             /\ d.row.state = r.state /\ d.row.refd = r.refd
             /\ d.row.expires = r.expires
             /\ d.entries = <<>>
             /\ d.events = <<>>
<1> DEFINE due == t + referenceRetryBackoff(r.attempts + 1)
           next == IF due > r.expires THEN r.expires ELSE due
           s == [r EXCEPT !.attempts = r.attempts + 1, !.next = next]
<1> HIDE DEF next
<1>1. /\ s.key = r.key /\ s.req = r.req /\ s.state = r.state /\ s.refd = r.refd
      /\ s.expires = r.expires
  BY DEF WagerRow
<1>2. schedulePendingReferenceRetry(r, w, t)
        = [row |-> s, wallet |-> w, entries |-> <<>>, events |-> <<>>]
  BY DEF schedulePendingReferenceRetry, next
<1> HIDE DEF s
<1> QED BY <1>1, <1>2

\* The fields that persistProcessed writes for a LOSS.
LEMMA LossFields ==
  ASSUME NEW r \in WagerRow, NEW w \in WalletRow, NEW refd \in Ext \cup {None}
  PROVE  LET d == persistProcessed(r, w, w, "NONE", refd)
         IN  /\ d.row.key = r.key /\ d.row.req = r.req
             /\ d.row.state = "PROCESSED" /\ d.row.refd = refd
             /\ d.row.expires = r.expires
             /\ d.entries = <<>>
             /\ d.events = Notice("WagerTransactionProcessed")
<1> DEFINE s == [r EXCEPT !.state = "PROCESSED", !.code = "", !.refd = refd,
                          !.result = w.balance, !.next = None]
<1>1. /\ s.key = r.key /\ s.req = r.req /\ s.state = "PROCESSED" /\ s.refd = refd
      /\ s.expires = r.expires
  BY DEF WagerRow
<1>2. Notice("WagerTransactionProcessed") \o <<>> = Notice("WagerTransactionProcessed")
  BY NoticeType
<1>3. persistProcessed(r, w, w, "NONE", refd)
        = [row |-> s, wallet |-> w, entries |-> <<>>,
           events |-> Notice("WagerTransactionProcessed") \o <<>>]
  BY DEF persistProcessed
<1> HIDE DEF s
<1> QED BY <1>1, <1>2, <1>3

\* The fields that persistProcessed writes for a movement.
Processes(d, r, dir, refd) ==
  /\ d.row.key = r.key /\ d.row.req = r.req
  /\ d.row.state = "PROCESSED" /\ d.row.refd = refd
  /\ d.row.expires = r.expires
  /\ \E e \in LedgerEntry : /\ d.entries = <<e>>
                            /\ e.txn = r.req.ext
                            /\ e.amount = r.req.amount
                            /\ e.after = d.row.result
                            /\ e.dir = dir
  /\ d.events = Notice("WagerTransactionProcessed") \o BalanceChanged(d.wallet)

\* persistProcessed writes them.
LEMMA ProcessedFields ==
  ASSUME NEW r \in WagerRow, NEW w \in WalletRow, NEW v \in WalletRow,
         NEW dir \in {"CREDIT", "DEBIT"}, NEW refd \in Ext \cup {None}
  PROVE  Processes(persistProcessed(r, w, v, dir, refd), r, dir, refd)
<1> DEFINE d == persistProcessed(r, w, v, dir, refd)
           s == [r EXCEPT !.state = "PROCESSED", !.code = "", !.refd = refd,
                          !.result = v.balance, !.next = None]
           e == [txn |-> r.req.ext, dir |-> dir, amount |-> r.req.amount,
                 before |-> w.balance, after |-> v.balance]
<1>1. /\ s.key = r.key /\ s.req = r.req /\ s.state = "PROCESSED" /\ s.refd = refd
      /\ s.expires = r.expires /\ s.result = v.balance
  BY DEF WagerRow
<1>2. r.req.ext \in Ext /\ r.req.amount \in Money
  BY DEF WagerRow, Request
<1>3. e \in LedgerEntry /\ e.txn = r.req.ext /\ e.amount = r.req.amount
      /\ e.after = v.balance /\ e.dir = dir
  BY <1>2 DEF LedgerEntry, WalletRow
<1>4. d = [row |-> s, wallet |-> v, entries |-> <<e>>,
           events |-> Notice("WagerTransactionProcessed") \o BalanceChanged(v)]
  BY DEF persistProcessed
<1> HIDE DEF s, e, d
<1>5. d.row = s /\ d.wallet = v /\ d.entries = <<e>>
      /\ d.events = Notice("WagerTransactionProcessed") \o BalanceChanged(v)
  BY <1>4
<1>6. Processes(d, r, dir, refd)
  BY <1>1, <1>3, <1>5 DEF Processes
<1> QED BY <1>6 DEF d

\* A movement that a wager asks for fails, is rejected or is made.
LEMMA MovementKinds ==
  ASSUME NEW r \in WagerRow, NEW w \in WalletRow,
         NEW dir \in {"CREDIT", "DEBIT"}, NEW refd \in Ext \cup {None}
  PROVE  LET d == movement(r, w, dir, refd)
         IN  \/ d = None
             \/ \E code \in FailureCode : d = persistRejected(r, w, code, refd)
             \/ \E v \in WalletRow : d = persistProcessed(r, w, v, dir, refd)
<1> DEFINE amount == r.req.amount
<1>1. amount \in Money
  BY DEF WagerRow, Request
<1>2. InsufficientFunds(r.req.kind) \in FailureCode
  BY DEF InsufficientFunds, FailureCode
<1>3. /\ CanCredit(w, amount) => Credit(w, amount) \in WalletRow
      /\ CanDebit(w, amount) => Debit(w, amount) \in WalletRow
  BY <1>1, MovedWallet
<1>4. CASE dir = "CREDIT"
  BY <1>3, <1>4 DEF movement
<1>5. CASE dir = "DEBIT"
  BY <1>2, <1>3, <1>5 DEF movement
<1> QED BY <1>4, <1>5

\* So is the settlement of a pending reference.
LEMMA SettlementKinds ==
  ASSUME NEW r \in WagerRow, NEW w \in WalletRow,
         NEW dir \in {"CREDIT", "DEBIT"}, NEW refd \in Ext \cup {None}
  PROVE  LET d == settlePendingReference(r, w, dir, refd)
         IN  \/ d = None
             \/ \E code \in FailureCode : d = persistRejected(r, w, code, refd)
             \/ \E v \in WalletRow : d = persistProcessed(r, w, v, dir, refd)
<1> DEFINE amount == r.req.amount
<1>1. amount \in Money
  BY DEF WagerRow, Request
<1>2. "REVERSAL_INSUFFICIENT_FUNDS" \in FailureCode
  BY DEF FailureCode
<1>3. /\ CanCredit(w, amount) => Credit(w, amount) \in WalletRow
      /\ CanDebit(w, amount) => Debit(w, amount) \in WalletRow
  BY <1>1, MovedWallet
<1>4. \A code : rejectPendingReference(r, w, code, refd)
                  = persistRejected(r, w, code, refd)
  BY DEF rejectPendingReference, persistRejected
<1>5. CASE dir = "CREDIT"
  BY <1>3, <1>5 DEF settlePendingReference
<1>6. CASE dir = "DEBIT"
  BY <1>2, <1>3, <1>4, <1>6 DEF settlePendingReference
<1> QED BY <1>5, <1>6

\* A rejection is a decision, if the reference it records was terminal.
LEMMA RejectionDecides ==
  ASSUME NEW r \in WagerRow, NEW w \in WalletRow, NEW code \in FailureCode,
         NEW refd \in Ext \cup {None}, NEW ref, NEW reversed,
         refd # None => refd = r.req.ref /\ ~Unresolved(ref)
  PROVE  Decision(persistRejected(r, w, code, refd), r, ref, reversed)
<1> DEFINE d == persistRejected(r, w, code, refd)
<1>1. /\ d.row.key = r.key /\ d.row.req = r.req
      /\ d.row.state = "REJECTED" /\ d.row.refd = refd
      /\ d.row.expires = r.expires
      /\ d.entries = <<>>
      /\ d.events = Notice("WagerTransactionRejected")
  BY RejectedFields
<1> HIDE DEF d
<1>2. Rejects(d, r, ref)
  BY <1>1 DEF Rejects, Records
<1>3. Decision(d, r, ref, reversed)
  BY <1>1, <1>2 DEF Decision
<1> QED BY <1>3 DEF d

\* A movement in the right direction is a decision.
LEMMA ProcessedDecides ==
  ASSUME NEW r \in WagerRow, NEW w \in WalletRow, NEW v \in WalletRow,
         NEW dir \in {"CREDIT", "DEBIT"}, NEW refd \in Ext \cup {None},
         NEW ref, NEW reversed \in BOOLEAN,
         refd # None => refd = r.req.ref /\ ~Unresolved(ref),
         r.req.kind # "LOSS",
         IsReversal(r) => refd = r.req.ref /\ Usable(r.req, ref) /\ ~reversed,
         dir = DirectionOf(r.req, ref)
  PROVE  LET d == persistProcessed(r, w, v, dir, refd)
         IN  Decision(d, r, ref, reversed) /\ Settles(d, r, ref, reversed)
<1> DEFINE d == persistProcessed(r, w, v, dir, refd)
<1>1. Processes(d, r, dir, refd)
  BY ProcessedFields
<1> HIDE DEF d
<1>2. Settles(d, r, ref, reversed)
  BY <1>1 DEF Processes, Settles, Records
<1>3. Decision(d, r, ref, reversed)
  BY <1>1, <1>2 DEF Processes, Decision
<1> QED BY <1>2, <1>3 DEF d

\* What is left of a terminal reference that is not refused.
LEMMA AcceptedIsUsable ==
  ASSUME NEW req, NEW ref \in WagerRow \cup {None}, ~Unresolved(ref),
         ref.state \notin {"REJECTED", "FAILED"}, validateReference(req, ref) = ""
  PROVE  Usable(req, ref)
<1>1. ref \in WagerRow /\ ref.state \notin {"PENDING", "PENDING_REFERENCE"}
  BY DEF Unresolved
<1>2. ref.state \in State
  BY <1>1 DEF WagerRow
<1> QED BY <1>1, <1>2 DEF Usable, State

\* Service.ProcessTx with a terminal reference.
LEMMA ReferenceDecides ==
  ASSUME NEW r \in WagerRow, NEW w \in WalletRow, NEW ref \in WagerRow \cup {None},
         NEW reversed \in BOOLEAN, RequiresReference(r.req), ~Unresolved(ref)
  PROVE  \/ referenceOutcome(r, w, ref, reversed) = None
         \/ Decision(referenceOutcome(r, w, ref, reversed), r, ref, reversed)
<1> DEFINE d == referenceOutcome(r, w, ref, reversed)
           refd == r.req.ref
<1>1. refd \in Ext \cup {None}
  BY DEF WagerRow, Request
<1>2. /\ "REFERENCE_TERMINAL_UNSUCCESSFUL" \in FailureCode
      /\ "ALREADY_REVERSED" \in FailureCode
      /\ validateReference(r.req, ref) \in FailureCode
      /\ reversalDirection(r.req.kind, ref) \in {"CREDIT", "DEBIT"}
  BY ReferenceCodes DEF FailureCode
<1>3. \/ \E code \in FailureCode : d = persistRejected(r, w, code, refd)
      \/ /\ r.req.kind = "WIN"
         /\ d = movement(r, w, "CREDIT", refd)
      \/ /\ r.req.kind # "WIN"
         /\ ref.state \notin {"REJECTED", "FAILED"}
         /\ validateReference(r.req, ref) = ""
         /\ ~reversed
         /\ d = movement(r, w, reversalDirection(r.req.kind, ref), refd)
  BY <1>2, Zenon DEF referenceOutcome
<1> HIDE DEF d
<1>4. CASE \E code \in FailureCode : d = persistRejected(r, w, code, refd)
  BY <1>1, <1>4, RejectionDecides DEF d
<1>5. CASE r.req.kind = "WIN" /\ d = movement(r, w, "CREDIT", refd)
  <2>1. /\ "CREDIT" = DirectionOf(r.req, ref) /\ r.req.kind # "LOSS"
        /\ ~IsReversal(r)
    BY <1>5 DEF DirectionOf, ownDirection, IsReversal
  <2> QED BY <1>1, <1>5, <2>1, MovementKinds, RejectionDecides, ProcessedDecides DEF d
<1>6. CASE /\ r.req.kind # "WIN"
           /\ ref.state \notin {"REJECTED", "FAILED"}
           /\ validateReference(r.req, ref) = ""
           /\ ~reversed
           /\ d = movement(r, w, reversalDirection(r.req.kind, ref), refd)
  <2>1. r.req.kind \in {"REFUND", "ROLLBACK"}
    BY <1>6 DEF RequiresReference
  <2>2. /\ reversalDirection(r.req.kind, ref) = DirectionOf(r.req, ref)
        /\ r.req.kind # "LOSS"
    BY <2>1 DEF DirectionOf
  <2>3. Usable(r.req, ref)
    BY <1>6, AcceptedIsUsable
  <2> DEFINE dir == reversalDirection(r.req.kind, ref)
  <2> HIDE DEF dir
  <2>4. dir \in {"CREDIT", "DEBIT"} /\ dir = DirectionOf(r.req, ref)
    BY <1>2, <2>2 DEF dir
  <2>5. d = movement(r, w, dir, refd)
    BY <1>6 DEF dir
  <2>6. \/ d = None
        \/ \E code \in FailureCode : d = persistRejected(r, w, code, refd)
        \/ \E v \in WalletRow : d = persistProcessed(r, w, v, dir, refd)
    BY <1>1, <2>4, <2>5, MovementKinds
  <2>7. d = None \/ Decision(d, r, ref, reversed)
    BY <1>1, <1>6, <2>2, <2>3, <2>4, <2>6, RejectionDecides, ProcessedDecides
  <2> QED BY <2>7 DEF d
<1> QED BY <1>3, <1>4, <1>5, <1>6 DEF d

\* ResolveOne with a terminal reference.
LEMMA ResolvedDecides ==
  ASSUME NEW r \in WagerRow, NEW w \in WalletRow, NEW ref \in WagerRow \cup {None},
         NEW reversed \in BOOLEAN, RequiresReference(r.req), ~Unresolved(ref)
  PROVE  \/ resolveReference(r, w, ref, reversed) = None
         \/ Decision(resolveReference(r, w, ref, reversed), r, ref, reversed)
<1> DEFINE d == resolveReference(r, w, ref, reversed)
           refd == r.req.ref
<1>1. refd \in Ext \cup {None}
  BY DEF WagerRow, Request
<1>2. /\ "REFERENCE_TERMINAL_UNSUCCESSFUL" \in FailureCode
      /\ "ALREADY_REVERSED" \in FailureCode
      /\ validateReference(r.req, ref) \in FailureCode
      /\ reversalDirection(r.req.kind, ref) \in {"CREDIT", "DEBIT"}
  BY ReferenceCodes DEF FailureCode
<1>3. \/ \E code \in FailureCode : d = rejectPendingReference(r, w, code, refd)
      \/ /\ r.req.kind = "WIN"
         /\ d = settlePendingReference(r, w, "CREDIT", refd)
      \/ /\ r.req.kind # "WIN"
         /\ ref.state \notin {"REJECTED", "FAILED"}
         /\ validateReference(r.req, ref) = ""
         /\ ~reversed
         /\ d = settlePendingReference(r, w, reversalDirection(r.req.kind, ref), refd)
  BY <1>2, Zenon DEF resolveReference
<1> HIDE DEF d
<1>4. CASE \E code \in FailureCode : d = rejectPendingReference(r, w, code, refd)
  <2>1. \E code \in FailureCode : d = persistRejected(r, w, code, refd)
    BY <1>4 DEF rejectPendingReference, persistRejected
  <2> QED BY <1>1, <2>1, RejectionDecides DEF d
<1>5. CASE r.req.kind = "WIN" /\ d = settlePendingReference(r, w, "CREDIT", refd)
  <2>1. /\ "CREDIT" = DirectionOf(r.req, ref) /\ r.req.kind # "LOSS"
        /\ ~IsReversal(r)
    BY <1>5 DEF DirectionOf, ownDirection, IsReversal
  <2> QED BY <1>1, <1>5, <2>1, SettlementKinds, RejectionDecides, ProcessedDecides DEF d
<1>6. CASE /\ r.req.kind # "WIN"
           /\ ref.state \notin {"REJECTED", "FAILED"}
           /\ validateReference(r.req, ref) = ""
           /\ ~reversed
           /\ d = settlePendingReference(r, w, reversalDirection(r.req.kind, ref), refd)
  <2>1. r.req.kind \in {"REFUND", "ROLLBACK"}
    BY <1>6 DEF RequiresReference
  <2>2. /\ reversalDirection(r.req.kind, ref) = DirectionOf(r.req, ref)
        /\ r.req.kind # "LOSS"
    BY <2>1 DEF DirectionOf
  <2>3. Usable(r.req, ref)
    BY <1>6, AcceptedIsUsable
  <2> DEFINE dir == reversalDirection(r.req.kind, ref)
  <2> HIDE DEF dir
  <2>4. dir \in {"CREDIT", "DEBIT"} /\ dir = DirectionOf(r.req, ref)
    BY <1>2, <2>2 DEF dir
  <2>5. d = settlePendingReference(r, w, dir, refd)
    BY <1>6 DEF dir
  <2>6. \/ d = None
        \/ \E code \in FailureCode : d = persistRejected(r, w, code, refd)
        \/ \E v \in WalletRow : d = persistProcessed(r, w, v, dir, refd)
    BY <1>1, <2>4, <2>5, SettlementKinds
  <2>7. d = None \/ Decision(d, r, ref, reversed)
    BY <1>1, <1>6, <2>2, <2>3, <2>4, <2>6, RejectionDecides, ProcessedDecides
  <2> QED BY <2>7 DEF d
<1> QED BY <1>3, <1>4, <1>5, <1>6 DEF d

\* A command without a reference is decided by its kind alone.
LEMMA OwnDecides ==
  ASSUME NEW r \in WagerRow, NEW w \in WalletRow, NEW ref, NEW reversed \in BOOLEAN,
         ~RequiresReference(r.req)
  PROVE  LET d == movement(r, w, ownDirection(r.req.kind), None)
         IN  d = None \/ Decision(d, r, ref, reversed)
<1> DEFINE dir == ownDirection(r.req.kind)
           d == movement(r, w, dir, None)
<1>1. r.req.kind \in {"BET", "WIN", "LOSS"} /\ ~IsReversal(r)
  BY DEF WagerRow, Request, Kind, RequiresReference, IsReversal
<1>2. CASE r.req.kind = "LOSS"
  <2>1. d = persistProcessed(r, w, w, "NONE", None)
    BY <1>2 DEF ownDirection, movement
  <2> HIDE DEF d
  <2>2. /\ d.row.key = r.key /\ d.row.req = r.req
        /\ d.row.state = "PROCESSED" /\ d.row.refd = None
        /\ d.row.expires = r.expires
        /\ d.entries = <<>>
        /\ d.events = Notice("WagerTransactionProcessed")
    BY <2>1, LossFields
  <2>3. Decision(d, r, ref, reversed)
    BY <1>2, <2>2 DEF Decision, Loses
  <2> QED BY <2>3 DEF d
<1>3. CASE r.req.kind # "LOSS"
  <2>1. dir \in {"CREDIT", "DEBIT"} /\ dir = DirectionOf(r.req, ref)
    BY <1>1, <1>3 DEF ownDirection, DirectionOf
  <2> HIDE DEF dir
  <2>2. \/ d = None
        \/ \E code \in FailureCode : d = persistRejected(r, w, code, None)
        \/ \E v \in WalletRow : d = persistProcessed(r, w, v, dir, None)
    BY <2>1, MovementKinds
  <2> HIDE DEF d
  <2>3. d = None \/ Decision(d, r, ref, reversed)
    BY <1>1, <1>3, <2>1, <2>2, RejectionDecides, ProcessedDecides
  <2> QED BY <2>3 DEF d, dir
<1> QED BY <1>2, <1>3

\* Service.ProcessTx fails or decides.
LEMMA ProcessDecides ==
  ASSUME NEW r \in WagerRow, NEW w \in WalletRow, NEW ref \in WagerRow \cup {None},
         NEW reversed \in BOOLEAN, NEW t \in Nat, r.expires = None
  PROVE  LET d == ProcessOutcome(r, w, ref, reversed, t)
         IN  d = None \/ Decision(d, r, ref, reversed)
<1> DEFINE d == ProcessOutcome(r, w, ref, reversed, t)
           fresh == [r EXCEPT !.created = t]
<1>1. /\ fresh \in WagerRow /\ fresh.req = r.req /\ fresh.key = r.key
      /\ fresh.refd = r.refd /\ fresh.expires = None
  BY DEF WagerRow
<1>2. \/ ~RequiresReference(r.req) /\ d = movement(fresh, w, ownDirection(r.req.kind), None)
      \/ RequiresReference(r.req) /\ d = persistPendingReference(fresh, w, t)
      \/ /\ RequiresReference(r.req) /\ ~Unresolved(ref)
         /\ d = referenceOutcome(fresh, w, ref, reversed)
  BY DEF ProcessOutcome
<1> HIDE DEF d, fresh
<1>3. d = None \/ Decision(d, fresh, ref, reversed)
  <2>1. CASE ~RequiresReference(r.req) /\ d = movement(fresh, w, ownDirection(r.req.kind), None)
    BY <1>1, <2>1, OwnDecides
  <2>2. CASE RequiresReference(r.req) /\ d = persistPendingReference(fresh, w, t)
    <3>1. /\ d.row.key = fresh.key /\ d.row.req = fresh.req
          /\ d.row.state = "PENDING_REFERENCE" /\ d.row.refd = fresh.refd
          /\ d.row.expires = t + ReferenceTTL
          /\ d.entries = <<>>
          /\ d.events = Notice("WagerTransactionPendingReference")
      BY <1>1, <2>2, PendingFields
    <3>2. t + ReferenceTTL # None
      BY DelayAssumption, NoneAssumption
    <3> QED BY <1>1, <2>2, <3>1, <3>2 DEF Decision, Pends
  <2>3. CASE /\ RequiresReference(r.req) /\ ~Unresolved(ref)
             /\ d = referenceOutcome(fresh, w, ref, reversed)
    BY <1>1, <2>3, ReferenceDecides
  <2> QED BY <1>2, <2>1, <2>2, <2>3
<1>4. d = None \/ Decision(d, r, ref, reversed)
  BY <1>1, <1>3 DEF Decision, Pends, Rejects, Loses, Settles, Records, IsReversal
<1> QED BY <1>4 DEF d

\* ResolveOne fails or decides, and moves money only before the expiry.
LEMMA ResolveDecides ==
  ASSUME NEW r \in WagerRow, NEW w \in WalletRow, NEW ref \in WagerRow \cup {None},
         NEW reversed \in BOOLEAN, NEW t \in Nat, Scheduled(r),
         r.state = "PENDING_REFERENCE", RequiresReference(r.req)
  PROVE  LET d == ResolveOutcome(r, w, ref, reversed, t)
         IN  \/ d = None
             \/ /\ Decision(d, r, ref, reversed)
                /\ d.row.state = "PROCESSED" => ~Expired(r, t)
<1> DEFINE d == ResolveOutcome(r, w, ref, reversed, t)
<1>1. \/ d = rejectPendingReference(r, w, "REFERENCE_EXPIRED", None)
      \/ d = schedulePendingReferenceRetry(r, w, t)
      \/ /\ ~Expired(r, t) /\ ~Unresolved(ref)
         /\ d = resolveReference(r, w, ref, reversed)
  BY DEF ResolveOutcome
<1>2. "REFERENCE_EXPIRED" \in FailureCode
  BY DEF FailureCode
<1>3. r.expires # None
  BY NoneAssumption DEF Scheduled
<1> HIDE DEF d
<1>4. CASE d = rejectPendingReference(r, w, "REFERENCE_EXPIRED", None)
  <2>1. d = persistRejected(r, w, "REFERENCE_EXPIRED", None)
    BY <1>4 DEF rejectPendingReference, persistRejected
  <2>2. Decision(d, r, ref, reversed)
    BY <1>2, <2>1, RejectionDecides
  <2>3. d.row.state = "REJECTED"
    BY <1>2, <2>1, RejectedFields
  <2> QED BY <2>2, <2>3 DEF d
<1>5. CASE d = schedulePendingReferenceRetry(r, w, t)
  <2>1. /\ d.row.key = r.key /\ d.row.req = r.req
        /\ d.row.state = r.state /\ d.row.refd = r.refd
        /\ d.row.expires = r.expires
        /\ d.entries = <<>>
        /\ d.events = <<>>
    BY <1>5, RetryFields
  <2>2. Decision(d, r, ref, reversed)
    BY <1>3, <2>1 DEF Decision, Pends
  <2> QED BY <2>1, <2>2 DEF d
<1>6. CASE /\ ~Expired(r, t) /\ ~Unresolved(ref)
           /\ d = resolveReference(r, w, ref, reversed)
  <2>1. d = None \/ Decision(d, r, ref, reversed)
    BY <1>6, ResolvedDecides
  <2> QED BY <1>6, <2>1 DEF d
<1> QED BY <1>1, <1>4, <1>5, <1>6

-----------------------------------------------------------------------------
(* What a step of transaction p does, worker by worker.                      *)

Same(q) ==
  /\ pc'[q] = pc[q] /\ row'[q] = row[q] /\ held'[q] = held[q]
  /\ found'[q] = found[q] /\ at'[q] = at[q] /\ draft'[q] = draft[q]
  /\ reply'[q] = reply[q]

Alone(p) == \A q \in Worker \ {p} : Same(q)

TablesKept == UNCHANGED <<wallets, wagers, ledger, outbox, now>>

\* The transaction of p ends without effect and with answer a.
Ends(p, a) == pc'[p] = "idle" /\ reply'[p] = a /\ Alone(p) /\ TablesKept

\* The transaction of p goes on at label, with the row it works on.
GoesOn(p, label) ==
  /\ pc'[p] = label /\ row'[p] = row[p] /\ reply'[p] = reply[p]
  /\ Alone(p) /\ TablesKept

RefOf(r) == IF r.req.ref = None THEN None ELSE wagers[r.req.ref]

Outcome(p, ref, reversed, t) ==
  IF p \in Resolver THEN ResolveOutcome(row[p], held[p], ref, reversed, t)
                    ELSE ProcessOutcome(row[p], held[p], ref, reversed, t)

\* The deferred Rollback.
LEMMA FinishEffect ==
  ASSUME TypeOK, NEW p \in Worker, NEW a, Finish(p, a)
  PROVE  Ends(p, a)
BY DEF Finish, End, Ends, Alone, Same, TablesKept, db, TypeOK

\* Service.Process answers at once or starts a transaction.
LEMMA ReceiveEffect ==
  ASSUME TypeOK, NEW p \in Processor, NEW c \in Commands, Receive(p, c)
  PROVE  LET r == NewRow(c)
             replay == findIdempotentReplay(r)
         IN  /\ pc[p] = "idle"
             /\ \/ Ends(p, Refusal(r, "INVALID"))
                \/ replay # None /\ Ends(p, replay)
                \/ /\ pc'[p] = "lock" /\ row'[p] = r /\ reply'[p] = None
                   /\ ValidateExternal(c.req) /\ replay = None
                   /\ Alone(p) /\ TablesKept
<1> DEFINE r == NewRow(c)
           replay == findIdempotentReplay(r)
           refusal == Refusal(r, "INVALID")
           answer == IF ValidateExternal(c.req) THEN replay ELSE refusal
<1>1. p \in Worker
  BY DEF Worker
<1>2. /\ pc[p] = "idle"
      /\ reply' = [reply EXCEPT ![p] = answer]
      /\ IF answer # None THEN pc' = pc /\ row' = row
         ELSE pc' = [pc EXCEPT ![p] = "lock"] /\ row' = [row EXCEPT ![p] = r]
      /\ UNCHANGED <<wallets, wagers, ledger, outbox, now, held, found, at, draft>>
  BY DEF Receive, Goto, db
<1> HIDE DEF r, replay, refusal, answer
<1>3. Alone(p) /\ TablesKept
  BY <1>1, <1>2 DEF Alone, Same, TablesKept, TypeOK
<1>4. reply'[p] = answer
  BY <1>1, <1>2 DEF TypeOK
<1>5. answer # None => pc'[p] = "idle"
  BY <1>2
<1>6. answer = None => pc'[p] = "lock" /\ row'[p] = r
  BY <1>1, <1>2 DEF TypeOK
<1>7. refusal # None
  <2>1. r \in WagerRow
    <3>1. c.key \in Key /\ c.req \in Request
      BY CommandsAssumption DEF Command
    <3>2. 0 \in Money /\ "PENDING" \in State /\ "" \in FailureCode
      BY MaxIntAssumption DEF Money, State, FailureCode
    <3> QED BY <3>1, <3>2 DEF r, NewRow, WagerRow
  <2> QED BY <2>1, RefusalType, AnswerAssumption DEF refusal, Errors
<1> QED BY <1>2, <1>3, <1>4, <1>5, <1>6, <1>7 DEF Ends, answer, r, replay, refusal

\* findDuePendingReference: a due row that no resolver has claimed.
LEMMA ClaimEffect ==
  ASSUME TypeOK, NEW r \in Resolver, findDuePendingReference(r)
  PROVE  /\ pc[r] = "idle"
         /\ \E x \in Due : ~Claimed(x) /\ row'[r] = wagers[x]
         /\ pc'[r] = "lock" /\ reply'[r] = None
         /\ Alone(r) /\ TablesKept
<1>1. r \in Worker
  BY DEF Worker
<1>2. /\ pc[r] = "idle"
      /\ \E x \in Due : ~Claimed(x) /\ row' = [row EXCEPT ![r] = wagers[x]]
      /\ pc' = [pc EXCEPT ![r] = "lock"]
      /\ reply' = [reply EXCEPT ![r] = None]
      /\ UNCHANGED <<wallets, wagers, ledger, outbox, now, held, found, at, draft>>
  BY DEF findDuePendingReference, Goto, db
<1>3. PICK x \in Due : ~Claimed(x) /\ row' = [row EXCEPT ![r] = wagers[x]]
  BY <1>2
<1>4. row'[r] = wagers[x] /\ pc'[r] = "lock" /\ reply'[r] = None
  BY <1>1, <1>2, <1>3 DEF TypeOK
<1>5. Alone(r) /\ TablesKept
  BY <1>1, <1>2, <1>3 DEF Alone, Same, TablesKept, TypeOK
<1> QED BY <1>2, <1>3, <1>4, <1>5

\* lockWallet: nobody holds the wallet that is locked.
LEMMA LockEffect ==
  ASSUME TypeOK, NEW p \in Worker, lockWallet(p)
  PROVE  LET w == row[p].req.wallet
         IN  /\ pc[p] = "lock"
             /\ \/ Ends(p, Refusal(row[p], "WALLET_NOT_FOUND"))
                \/ /\ GoesOn(p, IF p \in Resolver THEN "consult" ELSE "recheck")
                   /\ \A q \in Worker : ~HoldsWallet(q, w)
                   /\ wallets[w] # None /\ held'[p] = wallets[w]
                   /\ p \in Resolver => at'[p] \in AppClock
<1> DEFINE w == row[p].req.wallet
           label == IF p \in Resolver THEN "consult" ELSE "recheck"
<1>1. CASE wallets[w] = None
  <2>1. pc[p] = "lock" /\ Finish(p, Refusal(row[p], "WALLET_NOT_FOUND"))
    BY <1>1 DEF lockWallet
  <2> QED BY <2>1, FinishEffect
<1>2. CASE wallets[w] # None
  <2>1. /\ pc[p] = "lock"
        /\ \A q \in Worker : ~HoldsWallet(q, w)
        /\ held' = [held EXCEPT ![p] = wallets[w]]
        /\ pc' = [pc EXCEPT ![p] = label]
        /\ UNCHANGED <<wallets, wagers, ledger, outbox, now, row, found, draft, reply>>
    BY <1>2 DEF lockWallet, Goto, db
  <2>2. IF p \in Resolver THEN \E t \in AppClock : at' = [at EXCEPT ![p] = t]
                          ELSE at' = at
    BY <1>2 DEF lockWallet
  <2> HIDE DEF label, w
  <2>3. /\ p \in Resolver => at'[p] \in AppClock
        /\ \A q \in Worker \ {p} : at'[q] = at[q]
    BY <2>2 DEF TypeOK
  <2>4. /\ pc'[p] = label /\ held'[p] = wallets[w] /\ row'[p] = row[p]
        /\ reply'[p] = reply[p]
    BY <2>1 DEF TypeOK
  <2>5. Alone(p) /\ TablesKept
    BY <2>1, <2>3 DEF Alone, Same, TablesKept, TypeOK
  <2> QED BY <1>2, <2>1, <2>3, <2>4, <2>5 DEF GoesOn, label, w
<1> QED BY <1>1, <1>2

\* A step that only moves the label of p.
LEMMA GotoEffect ==
  ASSUME TypeOK, NEW p \in Worker, NEW label, Goto(p, label),
         UNCHANGED <<db, now, row, held, found, at, draft, reply>>
  PROVE  /\ GoesOn(p, label)
         /\ held'[p] = held[p] /\ found'[p] = found[p] /\ at'[p] = at[p]
         /\ draft'[p] = draft[p]
BY DEF Goto, GoesOn, Alone, Same, TablesKept, db, TypeOK

\* The idempotency lookup under the wallet lock.
LEMMA RecheckEffect ==
  ASSUME TypeOK, NEW p \in Worker, Recheck(p)
  PROVE  LET replay == findIdempotentReplay(row[p])
         IN  /\ pc[p] = "recheck"
             /\ \/ replay # None /\ Ends(p, replay)
                \/ /\ replay = None /\ GoesOn(p, "external")
                   /\ held'[p] = held[p]
<1> DEFINE replay == findIdempotentReplay(row[p])
<1>1. pc[p] = "recheck" /\ \/ replay # None /\ Finish(p, replay)
                           \/ /\ replay = None /\ Goto(p, "external")
                              /\ UNCHANGED <<db, now, row, held, found, at, draft, reply>>
  BY DEF Recheck
<1> HIDE DEF replay
<1>2. replay # None /\ Finish(p, replay) => Ends(p, replay)
  BY FinishEffect
<1>3. Goto(p, "external") /\ UNCHANGED <<db, now, row, held, found, at, draft, reply>>
        => GoesOn(p, "external") /\ held'[p] = held[p]
  BY GotoEffect
<1> QED BY <1>1, <1>2, <1>3 DEF replay

\* externalTransactionExists and the checks of the wallet.
LEMMA ExternalEffect ==
  ASSUME TypeOK, NEW p \in Worker, CheckExternal(p)
  PROVE  LET req == row[p].req
         IN  /\ pc[p] = "external"
             /\ \/ wagers[req.ext] # None /\ Ends(p, Refusal(row[p], "EXTERNAL_EXISTS"))
                \/ Ends(p, Refusal(row[p], "PLAYER_MISMATCH"))
                \/ Ends(p, Refusal(row[p], "CURRENCY_MISMATCH"))
                \/ /\ GoesOn(p, "consult")
                   /\ wagers[req.ext] = None
                   /\ held[p].player = req.player /\ held[p].currency = req.currency
                   /\ held'[p] = held[p]
<1> DEFINE req == row[p].req
           quiet == UNCHANGED <<db, now, row, held, found, at, draft, reply>>
<1>1. /\ pc[p] = "external"
      /\ \/ /\ wagers[req.ext] # None
            /\ Finish(p, Refusal(row[p], "EXTERNAL_EXISTS"))
         \/ Finish(p, Refusal(row[p], "PLAYER_MISMATCH"))
         \/ Finish(p, Refusal(row[p], "CURRENCY_MISMATCH"))
         \/ /\ wagers[req.ext] = None
            /\ held[p].player = req.player /\ held[p].currency = req.currency
            /\ Goto(p, "consult") /\ quiet
  BY Zenon DEF CheckExternal
<1>2. Goto(p, "consult") /\ quiet => GoesOn(p, "consult") /\ held'[p] = held[p]
  BY GotoEffect
<1> QED BY <1>1, <1>2, FinishEffect

\* Deciding: an overflow ends the transaction, an outcome becomes the draft.
LEMMA DecideEffect ==
  ASSUME TypeOK, NEW p \in Worker, NEW ref, NEW reversed, Decide(p, ref, reversed)
  PROVE  \/ Ends(p, Refusal(row[p], "OVERFLOW"))
         \/ /\ GoesOn(p, "write") /\ held'[p] = held[p]
            /\ draft'[p] # None
            /\ \E t \in IF p \in Resolver THEN {at[p]} ELSE AppClock :
                 draft'[p] = Outcome(p, ref, reversed, t)
<1>1. PICK t \in IF p \in Resolver THEN {at[p]} ELSE AppClock :
        LET d == Outcome(p, ref, reversed, t)
        IN  IF d = None
            THEN Finish(p, Refusal(row[p], "OVERFLOW"))
            ELSE /\ Goto(p, "write")
                 /\ draft' = [draft EXCEPT ![p] = d]
                 /\ UNCHANGED <<db, now, row, held, found, at, reply>>
  BY DEF Decide, Outcome
<1> DEFINE d == Outcome(p, ref, reversed, t)
<1>2. \/ Finish(p, Refusal(row[p], "OVERFLOW"))
      \/ /\ d # None /\ Goto(p, "write")
         /\ draft' = [draft EXCEPT ![p] = d]
         /\ UNCHANGED <<db, now, row, held, found, at, reply>>
  BY <1>1, Zenon
<1> HIDE DEF d
<1>3. CASE /\ d # None /\ Goto(p, "write")
           /\ draft' = [draft EXCEPT ![p] = d]
           /\ UNCHANGED <<db, now, row, held, found, at, reply>>
  <2>1. GoesOn(p, "write") /\ held'[p] = held[p] /\ draft'[p] = d
    BY <1>3 DEF Goto, GoesOn, Alone, Same, TablesKept, db, TypeOK
  <2> QED BY <1>3, <2>1 DEF d
<1> QED BY <1>2, <1>3, FinishEffect

\* findReferencedTransaction: the reference is usable, or is decided upon.
LEMMA ConsultEffect ==
  ASSUME TypeOK, NEW p \in Worker, Consult(p)
  PROVE  LET ref == RefOf(row[p])
         IN  /\ pc[p] = "consult"
             /\ \/ /\ AsksReversal(p, ref) /\ GoesOn(p, "reversal")
                   /\ found'[p] = ref /\ held'[p] = held[p] /\ at'[p] = at[p]
                \/ ~AsksReversal(p, ref) /\ Decide(p, ref, FALSE)
<1> DEFINE ref == RefOf(row[p])
<1>1. /\ pc[p] = "consult"
      /\ \/ /\ AsksReversal(p, ref) /\ Goto(p, "reversal")
            /\ found' = [found EXCEPT ![p] = ref]
            /\ UNCHANGED <<db, now, row, held, at, draft, reply>>
         \/ ~AsksReversal(p, ref) /\ Decide(p, ref, FALSE)
  BY DEF Consult, RefOf
<1> HIDE DEF ref
<1>2. CASE /\ AsksReversal(p, ref) /\ Goto(p, "reversal")
           /\ found' = [found EXCEPT ![p] = ref]
           /\ UNCHANGED <<db, now, row, held, at, draft, reply>>
  <2>1. /\ GoesOn(p, "reversal") /\ found'[p] = ref
        /\ held'[p] = held[p] /\ at'[p] = at[p]
    BY <1>2 DEF Goto, GoesOn, Alone, Same, TablesKept, db, TypeOK
  <2> QED BY <1>1, <1>2, <2>1 DEF ref
<1> QED BY <1>1, <1>2 DEF ref

\* The INSERT or UPDATE of the wager row.
LEMMA WriteEffect ==
  ASSUME TypeOK, NEW p \in Worker, Write(p)
  PROVE  /\ pc[p] = "write"
         /\ \A q \in Worker : ~WaitsForWrite(p, q)
         /\ \/ WriteError(p) # None /\ Ends(p, Refusal(row[p], WriteError(p)))
            \/ /\ WriteError(p) = None /\ GoesOn(p, "commit")
               /\ held'[p] = held[p] /\ draft'[p] = draft[p]
<1>1. /\ pc[p] = "write"
      /\ \A q \in Worker : ~WaitsForWrite(p, q)
      /\ \/ WriteError(p) # None /\ Finish(p, Refusal(row[p], WriteError(p)))
         \/ /\ WriteError(p) = None /\ Goto(p, "commit")
            /\ UNCHANGED <<db, now, row, held, found, at, draft, reply>>
  BY DEF Write
<1>2. Goto(p, "commit") /\ UNCHANGED <<db, now, row, held, found, at, draft, reply>>
        => GoesOn(p, "commit") /\ held'[p] = held[p] /\ draft'[p] = draft[p]
  BY GotoEffect
<1> QED BY <1>1, <1>2, FinishEffect

\* The commit: the tables, entry by entry.
LEMMA CommitEffect ==
  ASSUME IInv, NEW p \in Worker, Commit(p)
  PROVE  LET d == draft[p]
             x == row[p].req.ext
             w == row[p].req.wallet
         IN  /\ pc[p] = "commit" /\ pc'[p] = "idle" /\ Alone(p)
             /\ x \in Ext /\ w \in Wallet /\ row[p] \in WagerRow
             /\ d \in Draft /\ d.row.req = row[p].req /\ d.row \in WagerRow
             /\ wagers'[x] = d.row
             /\ \A y \in Ext \ {x} : wagers'[y] = wagers[y]
             /\ wallets'[w] = d.wallet
             /\ \A v \in Wallet \ {w} : wallets'[v] = wallets[v]
             /\ ledger'[w] = ledger[w] \o d.entries
             /\ \A v \in Wallet \ {w} : ledger'[v] = ledger[v]
             /\ outbox'[x] = outbox[x] \o d.events
             /\ \A y \in (Ext \cup Wallet) \ {x} : outbox'[y] = outbox[y]
             /\ reply'[p] = IF p \in Processor THEN Result(row[p], d.row, "NEW") ELSE None
             /\ now' = now
<1> DEFINE d == draft[p]
           x == row[p].req.ext
           w == row[p].req.wallet
<1>1. /\ pc[p] = "commit" /\ row[p] \in WagerRow /\ d \in Draft
      /\ d.row.req = row[p].req
  BY DEF Commit, IInv, RowKept, DraftKept, Explained
<1>2. x \in Ext /\ w \in Wallet
  BY <1>1 DEF WagerRow, Request
<1>3. d.row \in WagerRow
  BY <1>1 DEF Draft
<1>4. /\ wagers' = [wagers EXCEPT ![x] = d.row]
      /\ wallets' = [wallets EXCEPT ![w] = d.wallet]
      /\ ledger' = [ledger EXCEPT ![w] = @ \o d.entries]
      /\ outbox' = [outbox EXCEPT ![x] = @ \o d.events]
      /\ now' = now
  BY <1>1 DEF Commit
<1>5. reply' = [reply EXCEPT ![p] = IF p \in Processor
                                    THEN Result(row[p], d.row, "NEW") ELSE None]
  BY DEF Commit
<1>6. pc'[p] = "idle" /\ Alone(p)
  BY <1>5 DEF Commit, End, Alone, Same, IInv, TypeOK
<1> HIDE DEF d, x, w
<1>7. /\ wagers'[x] = d.row
      /\ \A y \in Ext \ {x} : wagers'[y] = wagers[y]
      /\ wallets'[w] = d.wallet
      /\ \A v \in Wallet \ {w} : wallets'[v] = wallets[v]
  BY <1>2, <1>4 DEF IInv, TypeOK
<1>8. /\ ledger'[w] = ledger[w] \o d.entries
      /\ \A v \in Wallet \ {w} : ledger'[v] = ledger[v]
      /\ outbox'[x] = outbox[x] \o d.events
      /\ \A y \in (Ext \cup Wallet) \ {x} : outbox'[y] = outbox[y]
  BY <1>2, <1>4 DEF IInv, TypeOK
<1>9. reply'[p] = IF p \in Processor THEN Result(row[p], d.row, "NEW") ELSE None
  BY <1>5 DEF IInv, TypeOK
<1> QED BY <1>1, <1>2, <1>3, <1>4, <1>6, <1>7, <1>8, <1>9 DEF d, x, w

-----------------------------------------------------------------------------
(* Identity: who may write which wager row.                                  *)

\* A stored row is found under its external identity and was validated; a
\* pending one waits for a reference.
StoredWell(x) ==
  wagers[x] # None =>
    /\ wagers[x].req.ext = x
    /\ wagers[x].state \in {"PENDING_REFERENCE", "PROCESSED", "REJECTED"}
    /\ ValidateExternal(wagers[x].req)
    /\ wagers[x].state = "PENDING_REFERENCE" =>
         RequiresReference(wagers[x].req) /\ wagers[x].refd = None

UniqueKeys ==
  \A x, y \in Ext :
    (wagers[x] # None /\ wagers[y] # None /\ wagers[x].key = wagers[y].key) => x = y

ClaimsExclude ==
  \A r, s \in Resolver :
    (pc[r] # "idle" /\ pc[s] # "idle" /\ row[r].req.ext = row[s].req.ext) => r = s

WorkRow(p) ==
  pc[p] # "idle" =>
    /\ ValidateExternal(row[p].req)
    /\ row[p].refd = None
    /\ p \in Processor => row[p].expires = None
    /\ p \in Resolver => RequiresReference(row[p].req)

Decided(p) ==
  pc[p] \in {"write", "commit"} =>
    \E ref \in WagerRow \cup {None}, reversed \in BOOLEAN :
      Decision(draft[p], row[p], ref, reversed)

\* Nobody has stored what a processor is about to commit.
InsertIsNew(p) ==
  (p \in Processor /\ pc[p] = "commit") =>
    /\ wagers[row[p].req.ext] = None
    /\ \A y \in Ext : wagers[y] # None => wagers[y].key # row[p].key

\* Uncommitted rows differ in both identities: the second INSERT waits.
WritesExclude ==
  \A p, q \in Worker :
    (p # q /\ pc[p] = "commit" /\ pc[q] = "commit") =>
      row[p].req.ext # row[q].req.ext /\ row[p].key # row[q].key

Identity ==
  /\ \A x \in Ext : StoredWell(x)
  /\ UniqueKeys
  /\ ClaimIsCurrent
  /\ ClaimsExclude
  /\ \A p \in Worker : WorkRow(p) /\ Decided(p) /\ InsertIsNew(p)
  /\ WritesExclude

\* A step of p that leaves the wager rows and the other transactions alone.
LEMMA IdentityLocal ==
  ASSUME Identity, NEW p \in Worker, Alone(p), UNCHANGED wagers,
         WorkRow(p)', Decided(p)', InsertIsNew(p)',
         (p \in Resolver /\ pc'[p] # "idle") =>
           /\ row'[p] = wagers[row'[p].req.ext]
           /\ \A s \in Resolver \ {p} :
                pc[s] # "idle" => row[s].req.ext # row'[p].req.ext,
         pc'[p] = "commit" =>
           \A q \in Worker \ {p} : pc[q] = "commit" =>
             row'[p].req.ext # row[q].req.ext /\ row'[p].key # row[q].key
  PROVE  Identity'
<1>1. \A q \in Worker \ {p} : pc'[q] = pc[q] /\ row'[q] = row[q] /\ draft'[q] = draft[q]
  BY DEF Alone, Same
<1>2. (\A x \in Ext : StoredWell(x))' /\ UniqueKeys'
  BY DEF Identity, StoredWell, UniqueKeys
<1>3. ASSUME NEW q \in Worker PROVE WorkRow(q)' /\ Decided(q)' /\ InsertIsNew(q)'
  <2>1. CASE q = p
    BY <2>1
  <2>2. CASE q # p
    <3>1. WorkRow(q) /\ Decided(q) /\ InsertIsNew(q)
      BY DEF Identity
    <3> QED BY <1>1, <2>2, <3>1 DEF WorkRow, Decided, InsertIsNew
  <2> QED BY <2>1, <2>2
<1>4. \A r \in Resolver : r \in Worker
  BY DEF Worker
<1>5. ClaimIsCurrent'
  BY <1>1, <1>4 DEF Identity, ClaimIsCurrent
<1>6. ClaimsExclude'
  BY <1>1, <1>4 DEF Identity, ClaimsExclude
<1>7. WritesExclude'
  BY <1>1 DEF Identity, WritesExclude
<1> QED BY <1>2, <1>3, <1>5, <1>6, <1>7 DEF Identity

\* A transaction that ends without effect.
LEMMA IdentityEnds ==
  ASSUME Identity, NEW p \in Worker, NEW a, Ends(p, a)
  PROVE  Identity'
<1>1. Alone(p) /\ UNCHANGED wagers /\ pc'[p] = "idle"
  BY DEF Ends, TablesKept
<1>2. WorkRow(p)' /\ Decided(p)' /\ InsertIsNew(p)'
  BY <1>1 DEF WorkRow, Decided, InsertIsNew
<1> QED BY <1>1, <1>2, IdentityLocal

\* A transaction that goes on before it has decided.
LEMMA IdentityGoesOn ==
  ASSUME Identity, NEW p \in Worker, pc[p] # "idle",
         NEW label \in PC \ {"idle", "write", "commit"}, GoesOn(p, label)
  PROVE  Identity'
<1>1. /\ Alone(p) /\ UNCHANGED wagers /\ pc'[p] = label /\ row'[p] = row[p]
      /\ label \notin {"idle", "write", "commit"}
  BY DEF GoesOn, TablesKept
<1>2. WorkRow(p)' /\ Decided(p)' /\ InsertIsNew(p)'
  BY <1>1 DEF Identity, WorkRow, Decided, InsertIsNew
<1>3. p \in Resolver => /\ row'[p] = wagers[row'[p].req.ext]
                        /\ \A s \in Resolver \ {p} :
                             pc[s] # "idle" => row[s].req.ext # row'[p].req.ext
  BY <1>1 DEF Identity, ClaimIsCurrent, ClaimsExclude
<1> QED BY <1>1, <1>2, <1>3, IdentityLocal

\* Service.Process starts on a validated new row.
LEMMA IdentityReceive ==
  ASSUME IInv, Identity, NEW p \in Processor, NEW c \in Commands, Receive(p, c)
  PROVE  Identity'
<1> DEFINE r == NewRow(c)
           replay == findIdempotentReplay(r)
<1>1. p \in Worker /\ p \notin Resolver /\ TypeOK
  BY WorkerAssumption DEF Worker, IInv
<1>2. \/ Ends(p, Refusal(r, "INVALID"))
      \/ Ends(p, replay)
      \/ /\ pc'[p] = "lock" /\ row'[p] = r
         /\ ValidateExternal(c.req) /\ Alone(p) /\ TablesKept
  BY <1>1, ReceiveEffect
<1>3. r.req = c.req /\ r.refd = None /\ r.expires = None
  BY DEF NewRow
<1> HIDE DEF r, replay
<1>4. CASE /\ pc'[p] = "lock" /\ row'[p] = r
           /\ ValidateExternal(c.req) /\ Alone(p) /\ TablesKept
  <2>1. WorkRow(p)' /\ Decided(p)' /\ InsertIsNew(p)'
    BY <1>1, <1>3, <1>4 DEF WorkRow, Decided, InsertIsNew
  <2>2. UNCHANGED wagers
    BY <1>4 DEF TablesKept
  <2> QED BY <1>1, <1>4, <2>1, <2>2, IdentityLocal
<1> QED BY <1>1, <1>2, <1>4, IdentityEnds

\* FOR UPDATE SKIP LOCKED: the claimed row is the stored one and nobody else's.
LEMMA IdentityClaim ==
  ASSUME IInv, Identity, NEW r \in Resolver, findDuePendingReference(r)
  PROVE  Identity'
<1>1. r \in Worker /\ r \notin Processor /\ TypeOK
  BY WorkerAssumption DEF Worker, IInv
<1>2. /\ pc'[r] = "lock" /\ Alone(r) /\ TablesKept
      /\ \E x \in Due : ~Claimed(x) /\ row'[r] = wagers[x]
  BY <1>1, ClaimEffect
<1>3. PICK x \in Due : ~Claimed(x) /\ row'[r] = wagers[x]
  BY <1>2
<1>4. x \in Ext /\ wagers[x] # None /\ wagers[x].state = "PENDING_REFERENCE"
  BY DEF Due
<1>5. /\ wagers[x].req.ext = x /\ ValidateExternal(wagers[x].req)
      /\ RequiresReference(wagers[x].req) /\ wagers[x].refd = None
  BY <1>4 DEF Identity, StoredWell
<1>6. WorkRow(r)' /\ Decided(r)' /\ InsertIsNew(r)'
  BY <1>1, <1>2, <1>3, <1>5 DEF WorkRow, Decided, InsertIsNew
<1>7. /\ row'[r] = wagers[row'[r].req.ext]
      /\ \A s \in Resolver \ {r} : pc[s] # "idle" => row[s].req.ext # row'[r].req.ext
  BY <1>3, <1>5 DEF Claimed
<1>8. UNCHANGED wagers
  BY <1>2 DEF TablesKept
<1> QED BY <1>1, <1>2, <1>6, <1>7, <1>8, IdentityLocal

\* The draft of a transaction is a decision about its row.
LEMMA OutcomeDecides ==
  ASSUME IInv, Identity, NEW p \in Worker, pc[p] \in {"consult", "reversal"},
         NEW ref \in WagerRow \cup {None}, NEW reversed \in BOOLEAN,
         NEW t \in IF p \in Resolver THEN {at[p]} ELSE AppClock,
         Outcome(p, ref, reversed, t) # None
  PROVE  /\ Decision(Outcome(p, ref, reversed, t), row[p], ref, reversed)
         /\ (p \in Resolver /\ Outcome(p, ref, reversed, t).row.state = "PROCESSED") =>
              ~Expired(row[p], at[p])
<1>1. /\ row[p] \in WagerRow /\ Scheduled(row[p])
      /\ p \in Resolver => row[p].state = "PENDING_REFERENCE"
      /\ held[p] \in WalletRow
  BY DEF IInv, RowKept, WalletKept, Locked
<1>2. /\ p \in Processor => row[p].expires = None
      /\ p \in Resolver => RequiresReference(row[p].req)
  BY DEF Identity, WorkRow
<1>3. t \in Nat
  BY ClockType DEF IInv, TypeOK
<1>4. CASE p \in Resolver
  <2>1. Outcome(p, ref, reversed, t) = ResolveOutcome(row[p], held[p], ref, reversed, t)
    BY <1>4 DEF Outcome
  <2> QED BY <1>1, <1>2, <1>3, <1>4, <2>1, ResolveDecides
<1>5. CASE p \notin Resolver
  <2>1. Outcome(p, ref, reversed, t) = ProcessOutcome(row[p], held[p], ref, reversed, t)
    BY <1>5 DEF Outcome
  <2>2. row[p].expires = None
    BY <1>2, <1>5 DEF Worker
  <2> QED BY <1>1, <1>3, <1>5, <2>1, <2>2, ProcessDecides
<1> QED BY <1>4, <1>5

\* Deciding keeps the row and the claim.
LEMMA IdentityDecide ==
  ASSUME IInv, Identity, NEW p \in Worker, pc[p] \in {"consult", "reversal"},
         NEW ref \in WagerRow \cup {None}, NEW reversed \in BOOLEAN,
         Decide(p, ref, reversed)
  PROVE  Identity'
<1>1. TypeOK
  BY DEF IInv
<1>2. \/ Ends(p, Refusal(row[p], "OVERFLOW"))
      \/ /\ GoesOn(p, "write") /\ draft'[p] # None
         /\ \E t \in IF p \in Resolver THEN {at[p]} ELSE AppClock :
              draft'[p] = Outcome(p, ref, reversed, t)
  BY <1>1, DecideEffect
<1>3. CASE /\ GoesOn(p, "write") /\ draft'[p] # None
           /\ \E t \in IF p \in Resolver THEN {at[p]} ELSE AppClock :
                draft'[p] = Outcome(p, ref, reversed, t)
  <2>1. Decision(draft'[p], row[p], ref, reversed)
    BY <1>3, OutcomeDecides
  <2>2. Alone(p) /\ UNCHANGED wagers /\ pc'[p] = "write" /\ row'[p] = row[p]
    BY <1>3 DEF GoesOn, TablesKept
  <2>3. WorkRow(p)' /\ InsertIsNew(p)'
    BY <2>2 DEF Identity, WorkRow, InsertIsNew
  <2>4. Decided(p)'
    BY <2>1, <2>2 DEF Decided
  <2>5. p \in Resolver => /\ row'[p] = wagers[row'[p].req.ext]
                          /\ \A s \in Resolver \ {p} :
                               pc[s] # "idle" => row[s].req.ext # row'[p].req.ext
    BY <2>2 DEF Identity, ClaimIsCurrent, ClaimsExclude
  <2> QED BY <2>2, <2>3, <2>4, <2>5, IdentityLocal
<1> QED BY <1>2, <1>3, IdentityEnds

\* The INSERT succeeds only for an identity that is neither stored nor
\* uncommitted; the UPDATE of a resolver is about its claim.
LEMMA IdentityWrite ==
  ASSUME IInv, Identity, NEW p \in Worker, Write(p)
  PROVE  Identity'
<1>1. TypeOK
  BY DEF IInv
<1>2. /\ pc[p] = "write"
      /\ \A q \in Worker : ~WaitsForWrite(p, q)
      /\ \/ Ends(p, Refusal(row[p], WriteError(p)))
         \/ /\ WriteError(p) = None /\ GoesOn(p, "commit") /\ draft'[p] = draft[p]
  BY <1>1, WriteEffect
<1>3. CASE WriteError(p) = None /\ GoesOn(p, "commit") /\ draft'[p] = draft[p]
  <2>1. Alone(p) /\ UNCHANGED wagers /\ pc'[p] = "commit" /\ row'[p] = row[p]
    BY <1>3 DEF GoesOn, TablesKept
  <2>2. \A q \in Worker : pc[q] \in {"write", "commit"} =>
          draft[q].row.req = row[q].req /\ draft[q].row.key = row[q].key
    BY DEF Identity, Decided, Decision
  <2>3. row[p] \in WagerRow /\ row[p].req.ext \in Ext
    BY <1>2 DEF IInv, RowKept, WagerRow, Request
  <2>4. p \in Processor =>
          /\ wagers[row[p].req.ext] = None
          /\ \A y \in Ext : wagers[y] # None => wagers[y].key # row[p].key
    <3>1. SUFFICES ASSUME p \in Processor
                   PROVE  /\ wagers[row[p].req.ext] = None
                          /\ \A y \in Ext : wagers[y] # None => wagers[y].key # row[p].key
      OBVIOUS
    <3> DEFINE s == draft[p].row
               others == {wagers[y] : y \in {y \in Ext \ {s.req.ext} : wagers[y] # None}}
    <3>2. p \notin Resolver
      BY <3>1, WorkerAssumption
    <3>3. wagers[s.req.ext] = None
      BY <1>3, <3>1, <3>2, AnswerAssumption DEF WriteError, Errors
    <3>4. ~ \E r \in others : r.key = s.key
      BY <1>3, <3>1, <3>2, <3>3, AnswerAssumption DEF WriteError, Errors
    <3>5. s.req = row[p].req /\ s.key = row[p].key
      BY <1>2, <2>2
    <3> HIDE DEF s
    <3> QED BY <3>3, <3>4, <3>5
  <2>5. WorkRow(p)' /\ Decided(p)' /\ InsertIsNew(p)'
    BY <1>2, <1>3, <2>1, <2>4 DEF Identity, WorkRow, Decided, InsertIsNew
  <2>6. p \in Resolver => /\ row'[p] = wagers[row'[p].req.ext]
                          /\ \A s \in Resolver \ {p} :
                               pc[s] # "idle" => row[s].req.ext # row'[p].req.ext
    BY <1>2, <2>1 DEF Identity, ClaimIsCurrent, ClaimsExclude
  <2>7. \A q \in Worker \ {p} : pc[q] = "commit" =>
          row'[p].req.ext # row[q].req.ext /\ row'[p].key # row[q].key
    BY <1>2, <2>1, <2>2 DEF WaitsForWrite, Conflicts
  <2> QED BY <2>1, <2>5, <2>6, <2>7, IdentityLocal
<1> QED BY <1>2, <1>3, IdentityEnds

\* A commit inserts a new row or replaces the pending row that p has claimed.
LEMMA CommitReplaces ==
  ASSUME IInv, Identity, NEW p \in Worker, pc[p] = "commit"
  PROVE  LET x == row[p].req.ext
         IN  /\ p \in Processor => wagers[x] = None
             /\ p \in Resolver => /\ wagers[x] = row[p]
                                  /\ wagers[x].state = "PENDING_REFERENCE"
             /\ draft[p].row.key = row[p].key
             /\ draft[p].row.req = row[p].req
             /\ draft[p].row # None
<1>1. p \in Processor => wagers[row[p].req.ext] = None
  BY DEF Identity, InsertIsNew
<1>2. p \in Resolver => /\ wagers[row[p].req.ext] = row[p]
                        /\ row[p].state = "PENDING_REFERENCE"
  BY DEF Identity, ClaimIsCurrent, IInv, RowKept
<1>3. draft[p].row.key = row[p].key /\ draft[p].row.req = row[p].req
  BY DEF Identity, Decided, Decision
<1>4. draft[p].row # None
  BY NoneAssumption DEF IInv, DraftKept, Explained, Draft
<1> QED BY <1>1, <1>2, <1>3, <1>4

\* What happens to a stored row, at most.
RowsKept ==
  \A x \in Ext : wagers[x] # None =>
    /\ wagers'[x] # None
    /\ wagers'[x].key = wagers[x].key
    /\ wagers'[x].req = wagers[x].req
    /\ wagers[x].state # "PENDING_REFERENCE" => wagers'[x] = wagers[x]

\* No commit overwrites a terminal row or changes an identity.
LEMMA CommitKeepsRows ==
  ASSUME IInv, Identity, NEW p \in Worker, Commit(p)
  PROVE  RowsKept
<1> DEFINE x == row[p].req.ext
<1>1. /\ pc[p] = "commit" /\ wagers'[x] = draft[p].row
      /\ \A y \in Ext \ {x} : wagers'[y] = wagers[y]
  BY CommitEffect
<1>2. /\ p \in Processor => wagers[x] = None
      /\ p \in Resolver => /\ wagers[x] = row[p]
                           /\ wagers[x].state = "PENDING_REFERENCE"
      /\ draft[p].row.key = row[p].key
      /\ draft[p].row.req = row[p].req
      /\ draft[p].row # None
  BY <1>1, CommitReplaces
<1> HIDE DEF x
<1> QED BY <1>1, <1>2 DEF RowsKept, Worker

\* The commit keeps identities apart.
LEMMA IdentityCommit ==
  ASSUME IInv, Identity, NEW p \in Worker, Commit(p)
  PROVE  Identity'
<1> DEFINE d == draft[p]
           x == row[p].req.ext
<1>1. /\ pc[p] = "commit" /\ pc'[p] = "idle" /\ Alone(p)
      /\ x \in Ext /\ wagers'[x] = d.row
      /\ \A y \in Ext \ {x} : wagers'[y] = wagers[y]
  BY CommitEffect
<1>2. /\ p \in Processor => wagers[x] = None
      /\ p \in Resolver => /\ wagers[x] = row[p]
                           /\ wagers[x].state = "PENDING_REFERENCE"
      /\ d.row.key = row[p].key
      /\ d.row.req = row[p].req
      /\ d.row # None
  BY <1>1, CommitReplaces
<1>3. \A q \in Worker \ {p} : pc'[q] = pc[q] /\ row'[q] = row[q] /\ draft'[q] = draft[q]
  BY <1>1 DEF Alone, Same
<1>4. /\ d.row.state \in {"PENDING_REFERENCE", "PROCESSED", "REJECTED"}
      /\ d.row.state = "PENDING_REFERENCE" =>
           RequiresReference(row[p].req) /\ d.row.refd = None
      /\ ValidateExternal(row[p].req)
  <2>1. PICK ref \in WagerRow \cup {None}, reversed \in BOOLEAN :
          Decision(d, row[p], ref, reversed)
    BY <1>1 DEF Identity, Decided
  <2>2. ValidateExternal(row[p].req) /\ row[p].refd = None
    BY <1>1 DEF Identity, WorkRow
  <2>3. Pends(d, row[p]) \/ d.row.state \in {"PROCESSED", "REJECTED"}
    BY <2>1 DEF Decision, Rejects, Loses, Settles
  <2> QED BY <2>2, <2>3 DEF Pends
<1> HIDE DEF d, x
<1>5. \A y \in Ext \ {x} : wagers[y] # None => wagers[y].key # row[p].key
  <2>1. CASE p \in Processor
    BY <1>1, <2>1 DEF Identity, InsertIsNew
  <2>2. CASE p \in Resolver
    <3>1. wagers[x] # None /\ wagers[x].key = row[p].key
      BY <1>1, <1>2, <2>2, NoneAssumption DEF IInv, RowKept
    <3> QED BY <1>1, <3>1 DEF Identity, UniqueKeys
  <2> QED BY <2>1, <2>2 DEF Worker
<1>6. (\A y \in Ext : StoredWell(y))'
  <2> SUFFICES ASSUME NEW y \in Ext PROVE StoredWell(y)'
    OBVIOUS
  <2>1. CASE y = x
    <3>1. wagers'[y] = d.row /\ d.row.req = row[p].req /\ row[p].req.ext = x
      BY <1>1, <1>2, <2>1 DEF x
    <3> QED BY <1>4, <2>1, <3>1 DEF StoredWell
  <2>2. CASE y # x
    BY <1>1, <2>2 DEF Identity, StoredWell
  <2> QED BY <2>1, <2>2
<1>7. UniqueKeys'
  BY <1>1, <1>2, <1>5 DEF Identity, UniqueKeys
<1>8. \A r \in Resolver \ {p} : (pc[r] # "idle") =>
        row[r].req.ext \in Ext /\ row[r].req.ext # x /\ row[r] = wagers[row[r].req.ext]
  <2> SUFFICES ASSUME NEW r \in Resolver \ {p}, pc[r] # "idle"
               PROVE  row[r].req.ext \in Ext /\ row[r].req.ext # x
                      /\ row[r] = wagers[row[r].req.ext]
    OBVIOUS
  <2>1. r \in Worker /\ row[r] \in WagerRow
    BY DEF Worker, IInv, RowKept
  <2>2. row[r].req.ext \in Ext /\ row[r] # None
    BY <2>1, NoneAssumption DEF WagerRow, Request
  <2>3. row[r] = wagers[row[r].req.ext]
    BY DEF Identity, ClaimIsCurrent
  <2>4. row[r].req.ext # x
    <3>1. CASE p \in Processor
      BY <1>2, <2>2, <2>3, <3>1
    <3>2. CASE p \in Resolver
      BY <1>1, <3>2 DEF Identity, ClaimsExclude, x
    <3> QED BY <3>1, <3>2 DEF Worker
  <2> QED BY <2>2, <2>3, <2>4
<1>9. \A r \in Resolver : r \in Worker
  BY DEF Worker
<1>10. ClaimIsCurrent' /\ ClaimsExclude'
  BY <1>1, <1>3, <1>8, <1>9 DEF Identity, ClaimIsCurrent, ClaimsExclude
<1>11. ASSUME NEW q \in Worker
       PROVE  WorkRow(q)' /\ Decided(q)' /\ InsertIsNew(q)'
  <2>1. CASE q = p
    BY <1>1, <2>1 DEF WorkRow, Decided, InsertIsNew
  <2>2. CASE q # p
    <3>1. WorkRow(q) /\ Decided(q) /\ InsertIsNew(q)
      BY DEF Identity
    <3>2. WorkRow(q)' /\ Decided(q)'
      BY <1>3, <2>2, <3>1 DEF WorkRow, Decided
    <3>3. pc[q] = "commit" => /\ row[q].req.ext # x
                              /\ row[q].key # row[p].key
                              /\ row[q].req.ext \in Ext
      BY <1>1, <2>2 DEF Identity, WritesExclude, IInv, RowKept, WagerRow, Request, x
    <3>4. InsertIsNew(q)'
      BY <1>1, <1>2, <1>3, <2>2, <3>1, <3>3 DEF InsertIsNew
    <3> QED BY <3>2, <3>4
  <2> QED BY <2>1, <2>2
<1>12. WritesExclude'
  BY <1>1, <1>3 DEF Identity, WritesExclude
<1> QED BY <1>6, <1>7, <1>10, <1>11, <1>12 DEF Identity

\* A step that changes no wager row and no transaction.
LEMMA IdentityQuiet ==
  ASSUME Identity, UNCHANGED <<wagers, local>>
  PROVE  Identity'
<1>1. UNCHANGED <<wagers, pc, row, draft>>
  BY DEF local
<1>2. /\ (\A x \in Ext : StoredWell(x))' /\ UniqueKeys' /\ ClaimIsCurrent'
      /\ ClaimsExclude' /\ WritesExclude'
  BY <1>1 DEF Identity, StoredWell, UniqueKeys, ClaimIsCurrent, ClaimsExclude, WritesExclude
<1>3. \A p \in Worker : WorkRow(p)' /\ Decided(p)' /\ InsertIsNew(p)'
  BY <1>1 DEF Identity, WorkRow, Decided, InsertIsNew
<1> QED BY <1>2, <1>3 DEF Identity

\* The reference that a transaction reads is a row or nothing.
LEMMA RefOfType ==
  ASSUME TypeOK, NEW r \in WagerRow
  PROVE  RefOf(r) \in WagerRow \cup {None}
BY DEF RefOf, TypeOK, WagerRow, Request

\* Every step keeps the identities apart.
LEMMA NextIdentity ==
  ASSUME IInv, Identity, [Next]_vars
  PROVE  Identity' /\ RowsKept
<1>1. TypeOK
  BY DEF IInv
<1>2. ASSUME NEW p \in Processor, NEW c \in Commands, Receive(p, c)
      PROVE  Identity' /\ UNCHANGED wagers
  BY <1>2, IdentityReceive DEF Receive, db
<1>3. ASSUME NEW r \in Resolver, findDuePendingReference(r)
      PROVE  Identity' /\ UNCHANGED wagers
  BY <1>3, IdentityClaim DEF findDuePendingReference, db
<1>4. ASSUME NEW p \in Worker, lockWallet(p) PROVE Identity' /\ UNCHANGED wagers
  <2>1. /\ pc[p] = "lock"
        /\ \/ Ends(p, Refusal(row[p], "WALLET_NOT_FOUND"))
           \/ GoesOn(p, IF p \in Resolver THEN "consult" ELSE "recheck")
    BY <1>1, <1>4, LockEffect
  <2> QED BY <2>1, IdentityEnds, IdentityGoesOn DEF PC, Ends, GoesOn, TablesKept
<1>5. ASSUME NEW p \in Worker, Recheck(p) PROVE Identity' /\ UNCHANGED wagers
  <2>1. /\ pc[p] = "recheck"
        /\ \/ Ends(p, findIdempotentReplay(row[p]))
           \/ GoesOn(p, "external")
    BY <1>1, <1>5, RecheckEffect
  <2> QED BY <2>1, IdentityEnds, IdentityGoesOn DEF PC, Ends, GoesOn, TablesKept
<1>6. ASSUME NEW p \in Worker, CheckExternal(p) PROVE Identity' /\ UNCHANGED wagers
  <2>1. /\ pc[p] = "external"
        /\ \/ \E e \in Errors : Ends(p, Refusal(row[p], e))
           \/ GoesOn(p, "consult")
    BY <1>1, <1>6, ExternalEffect DEF Errors
  <2> QED BY <2>1, IdentityEnds, IdentityGoesOn DEF PC, Ends, GoesOn, TablesKept
<1>7. ASSUME NEW p \in Worker, pc[p] \in {"consult", "reversal"},
             NEW ref \in WagerRow \cup {None}, NEW reversed \in BOOLEAN,
             Decide(p, ref, reversed)
      PROVE  Identity' /\ UNCHANGED wagers
  <2>1. Identity'
    BY <1>7, IdentityDecide
  <2>2. \/ Ends(p, Refusal(row[p], "OVERFLOW"))
        \/ GoesOn(p, "write")
    BY <1>1, <1>7, DecideEffect
  <2> QED BY <2>1, <2>2 DEF Ends, GoesOn, TablesKept
<1>8. ASSUME NEW p \in Worker, Consult(p) PROVE Identity' /\ UNCHANGED wagers
  <2>1. /\ pc[p] = "consult"
        /\ \/ GoesOn(p, "reversal")
           \/ Decide(p, RefOf(row[p]), FALSE)
    BY <1>1, <1>8, ConsultEffect
  <2>2. RefOf(row[p]) \in WagerRow \cup {None}
    BY <1>1, <2>1, RefOfType DEF IInv, RowKept
  <2>3. CASE GoesOn(p, "reversal")
    BY <2>1, <2>3, IdentityGoesOn DEF PC, GoesOn, TablesKept
  <2>4. CASE Decide(p, RefOf(row[p]), FALSE)
    BY <1>7, <2>1, <2>2, <2>4
  <2> QED BY <2>1, <2>3, <2>4
<1>9. ASSUME NEW p \in Worker, CheckReversed(p) PROVE Identity' /\ UNCHANGED wagers
  <2> DEFINE reversed == referenceAlreadyReversed(wagers, row[p].req.ref)
  <2>1. reversed \in BOOLEAN
    BY DEF referenceAlreadyReversed
  <2>2. pc[p] = "reversal" /\ Decide(p, found[p], reversed)
    BY <1>9 DEF CheckReversed
  <2>3. found[p] \in WagerRow \cup {None}
    BY <1>1 DEF TypeOK
  <2> HIDE DEF reversed
  <2> QED BY <1>7, <2>1, <2>2, <2>3
<1>10. ASSUME NEW p \in Worker, Write(p) PROVE Identity' /\ UNCHANGED wagers
  <2>1. \/ Ends(p, Refusal(row[p], WriteError(p)))
        \/ GoesOn(p, "commit")
    BY <1>1, <1>10, WriteEffect
  <2> QED BY <1>10, <2>1, IdentityWrite DEF Ends, GoesOn, TablesKept
<1>11. ASSUME NEW p \in Worker, Commit(p) PROVE Identity' /\ RowsKept
  BY <1>11, IdentityCommit, CommitKeepsRows
<1>12. ASSUME NEW p \in Worker, Abort(p) PROVE Identity' /\ UNCHANGED wagers
  <2>1. Ends(p, None)
    BY <1>1, <1>12, FinishEffect DEF Abort
  <2> QED BY <2>1, IdentityEnds DEF Ends, TablesKept
<1>13. ASSUME \/ \E w \in Wallet, o \in Openings : CreateWallet(w, o)
              \/ Tick
              \/ UNCHANGED vars
       PROVE  Identity' /\ UNCHANGED wagers
  <2>1. UNCHANGED <<wagers, local>>
    BY <1>13 DEF CreateWallet, Tick, vars, local, db
  <2> QED BY <2>1, IdentityQuiet
<1>14. UNCHANGED wagers => RowsKept
  BY DEF RowsKept
<1>15. Identity' /\ (UNCHANGED wagers \/ RowsKept)
  BY <1>2, <1>3, <1>4, <1>5, <1>6, <1>8, <1>9, <1>10, <1>11, <1>12, <1>13
     DEF Next, Advance
<1> QED BY <1>14, <1>15

-----------------------------------------------------------------------------
(* References: what a decision says of its reference is so at the commit.    *)

Reversed(r) == referenceAlreadyReversed(wagers, r.req.ref)

\* A processed reversal has a processed reference in its own wallet.
StoredReversal(y) ==
  (wagers[y] # None /\ wagers[y].state = "PROCESSED" /\ IsReversal(wagers[y])) =>
    /\ wagers[y].refd = wagers[y].req.ref
    /\ wagers[y].refd # None
    /\ Usable(wagers[y].req, wagers[wagers[y].refd])

OneReversal ==
  \A y, z \in Ext :
    (wagers[y] # None /\ wagers[z] # None /\ SameReversal(wagers[y], wagers[z])) => y = z

\* The reference read by Consult is the stored one when it is used.
FoundKept(p) ==
  pc[p] = "reversal" =>
    /\ found[p] = RefOf(row[p])
    /\ IsReversal(row[p])
    /\ Usable(row[p].req, found[p])

\* The draft is a decision about the stored reference as it is now.
DecisionKept(p) ==
  pc[p] \in {"write", "commit"} =>
    Decision(draft[p], row[p], RefOf(row[p]), Reversed(row[p]))

References ==
  /\ \A y \in Ext : StoredReversal(y)
  /\ OneReversal
  /\ \A p \in Worker : FoundKept(p) /\ DecisionKept(p)

\* What a usable reference is: a processed wager of the same wallet.
LEMMA UsableMeans ==
  ASSUME NEW req, NEW ref, Usable(req, ref)
  PROVE  /\ ref # None /\ ~Unresolved(ref) /\ ref.state = "PROCESSED"
         /\ ref.req.wallet = req.wallet
         /\ ref.req.kind \in ReferenceKinds(req.kind)
         /\ req.kind # "WIN" => ref.req.amount = req.amount
<1>1. ~Unresolved(ref) /\ ref.state = "PROCESSED" /\ validateReference(req, ref) = ""
  BY DEF Usable
<1>2. /\ SameContext(req, ref)
      /\ ref.req.kind \in ReferenceKinds(req.kind)
      /\ req.kind # "WIN" => ref.req.amount = req.amount
  BY <1>1, Zenon DEF validateReference
<1> QED BY <1>1, <1>2 DEF Unresolved, SameContext

\* A decision outlives every change of a reference it does not rest on.
LEMMA DecisionStable ==
  ASSUME NEW d, NEW r, NEW ref, NEW new, NEW reversed, NEW again,
         Decision(d, r, ref, reversed),
         ~Unresolved(ref) => new = ref,
         (d.row.state = "PROCESSED" /\ IsReversal(r) /\ d.row.refd = r.req.ref
            /\ Usable(r.req, ref) /\ ~reversed) => ~again
  PROVE  Decision(d, r, new, again)
<1>1. CASE Pends(d, r)
  BY <1>1 DEF Decision
<1>2. CASE Rejects(d, r, ref)
  <2>1. Rejects(d, r, new)
    BY <1>2 DEF Rejects, Records
  <2> QED BY <2>1 DEF Decision
<1>3. CASE Loses(d, r)
  BY <1>3 DEF Decision
<1>4. CASE Settles(d, r, ref, reversed)
  <2>1. Records(d, r, new)
    BY <1>4 DEF Settles, Records
  <2>2. IsReversal(r) => new = ref /\ ~again
    BY <1>4 DEF Settles, Usable
  <2>3. DirectionOf(r.req, new) = DirectionOf(r.req, ref)
    BY <2>2 DEF DirectionOf, IsReversal
  <2>4. Settles(d, r, new, again)
    BY <1>4, <2>1, <2>2, <2>3 DEF Settles
  <2> QED BY <2>4 DEF Decision
<1> QED BY <1>1, <1>2, <1>3, <1>4 DEF Decision

\* A step of p that leaves the wager rows and the other transactions alone.
LEMMA ReferencesLocal ==
  ASSUME References, NEW p \in Worker, Alone(p), UNCHANGED wagers,
         FoundKept(p)', DecisionKept(p)'
  PROVE  References'
<1>1. \A q \in Worker \ {p} : /\ pc'[q] = pc[q] /\ row'[q] = row[q]
                              /\ draft'[q] = draft[q] /\ found'[q] = found[q]
  BY DEF Alone, Same
<1>2. (\A y \in Ext : StoredReversal(y))' /\ OneReversal'
  BY DEF References, StoredReversal, OneReversal
<1>3. ASSUME NEW q \in Worker PROVE FoundKept(q)' /\ DecisionKept(q)'
  <2>1. CASE q = p
    BY <2>1
  <2>2. CASE q # p
    <3>1. FoundKept(q) /\ DecisionKept(q)
      BY DEF References
    <3>2. RefOf(row[q])' = RefOf(row[q]) /\ Reversed(row[q])' = Reversed(row[q])
      BY <1>1, <2>2 DEF RefOf, Reversed
    <3> QED BY <1>1, <2>2, <3>1, <3>2 DEF FoundKept, DecisionKept
  <2> QED BY <2>1, <2>2
<1> QED BY <1>2, <1>3 DEF References

\* A transaction that ends or goes on without a reference at stake.
LEMMA ReferencesPass ==
  ASSUME References, NEW p \in Worker, Alone(p), UNCHANGED wagers,
         pc'[p] \notin {"reversal", "write", "commit"}
  PROVE  References'
<1>1. FoundKept(p)' /\ DecisionKept(p)'
  BY DEF FoundKept, DecisionKept
<1> QED BY <1>1, ReferencesLocal

\* Deciding: on the stored reference, and with the lookup of reversals or
\* where it makes no difference.
LEMMA ReferencesDecide ==
  ASSUME IInv, Identity, References, NEW p \in Worker,
         pc[p] \in {"consult", "reversal"}, NEW reversed \in BOOLEAN,
         Decide(p, RefOf(row[p]), reversed),
         \/ reversed = Reversed(row[p])
         \/ ~AsksReversal(p, RefOf(row[p]))
  PROVE  References'
<1> DEFINE ref == RefOf(row[p])
<1>1. TypeOK /\ ref \in WagerRow \cup {None}
  BY RefOfType DEF IInv, RowKept
<1>2. \/ Ends(p, Refusal(row[p], "OVERFLOW"))
      \/ /\ GoesOn(p, "write") /\ draft'[p] # None
         /\ \E t \in IF p \in Resolver THEN {at[p]} ELSE AppClock :
              draft'[p] = Outcome(p, ref, reversed, t)
  BY <1>1, DecideEffect
<1>3. CASE Ends(p, Refusal(row[p], "OVERFLOW"))
  BY <1>3, ReferencesPass DEF Ends, TablesKept
<1>4. CASE /\ GoesOn(p, "write") /\ draft'[p] # None
           /\ \E t \in IF p \in Resolver THEN {at[p]} ELSE AppClock :
                draft'[p] = Outcome(p, ref, reversed, t)
  <2> HIDE DEF ref
  <2>1. /\ Decision(draft'[p], row[p], ref, reversed)
        /\ p \in Resolver /\ draft'[p].row.state = "PROCESSED" => ~Expired(row[p], at[p])
    BY <1>1, <1>4, OutcomeDecides
  <2>2. /\ Alone(p) /\ UNCHANGED wagers /\ pc'[p] = "write" /\ row'[p] = row[p]
    BY <1>4 DEF GoesOn, TablesKept
  <2>3. (draft'[p].row.state = "PROCESSED" /\ IsReversal(row[p])
           /\ Usable(row[p].req, ref)) => reversed = Reversed(row[p])
    BY <2>1 DEF AsksReversal, ref
  <2>4. Decision(draft'[p], row[p], ref, Reversed(row[p]))
    BY <2>1, <2>3, DecisionStable
  <2>5. RefOf(row[p])' = ref /\ Reversed(row[p])' = Reversed(row[p])
    BY <2>2 DEF RefOf, Reversed, ref
  <2>6. FoundKept(p)' /\ DecisionKept(p)'
    BY <2>2, <2>4, <2>5 DEF FoundKept, DecisionKept
  <2> QED BY <2>2, <2>6, ReferencesLocal
<1> QED BY <1>2, <1>3, <1>4

\* A terminal row that a transaction has seen stays as it is.
LEMMA RefOfStable ==
  ASSUME TypeOK, RowsKept, NEW r \in WagerRow, ~Unresolved(RefOf(r))
  PROVE  r.req.ref \in Ext /\ RefOf(r)' = RefOf(r)
<1>1. RefOf(r) # None /\ RefOf(r).state # "PENDING_REFERENCE"
  BY DEF Unresolved
<1>2. r.req.ref # None /\ r.req.ref \in Ext
  BY <1>1 DEF RefOf, WagerRow, Request
<1>3. RefOf(r) = wagers[r.req.ref]
  BY <1>2 DEF RefOf
<1>4. wagers'[r.req.ref] = wagers[r.req.ref]
  BY <1>1, <1>2, <1>3 DEF RowsKept
<1> QED BY <1>2, <1>3, <1>4 DEF RefOf

\* Two reversals of one wager would hold the same wallet lock: while p may
\* commit a reversal, no other transaction is about to decide the same.
LEMMA OneReverser ==
  ASSUME IInv, References, NEW p \in Worker, NEW q \in Worker, p # q,
         pc[p] = "commit", pc[q] \in Locked,
         draft[p].row.state = "PROCESSED", IsReversal(row[p]),
         row[p].req.ref = row[q].req.ref, Usable(row[q].req, RefOf(row[q]))
  PROVE  FALSE
<1>1. Decision(draft[p], row[p], RefOf(row[p]), Reversed(row[p]))
  BY DEF References, DecisionKept
<1>2. Usable(row[p].req, RefOf(row[p]))
  <2>1. row[p].req.kind # "LOSS"
    BY DEF IsReversal
  <2> QED BY <1>1, <2>1 DEF Decision, Pends, Rejects, Loses, Settles
<1>3. RefOf(row[p]) = RefOf(row[q])
  BY DEF RefOf
<1>4. row[p].req.wallet = row[q].req.wallet
  BY <1>2, <1>3, UsableMeans
<1> QED BY <1>4 DEF IInv, LocksExclude, Locked

\* What a reversal about to be written has decided.
LEMMA ReversalDecision ==
  ASSUME References, NEW p \in Worker, pc[p] \in {"write", "commit"},
         draft[p].row.state = "PROCESSED", IsReversal(draft[p].row)
  PROVE  /\ IsReversal(row[p]) /\ draft[p].row.req = row[p].req
         /\ draft[p].row.refd = row[p].req.ref
         /\ Usable(row[p].req, RefOf(row[p])) /\ ~Reversed(row[p])
<1>1. Decision(draft[p], row[p], RefOf(row[p]), Reversed(row[p]))
  BY DEF References, DecisionKept
<1>2. IsReversal(row[p]) /\ draft[p].row.req = row[p].req
  BY <1>1 DEF Decision, IsReversal
<1>3. row[p].req.kind # "LOSS"
  BY <1>2 DEF IsReversal
<1>4. Settles(draft[p], row[p], RefOf(row[p]), Reversed(row[p]))
  BY <1>1, <1>3 DEF Decision, Pends, Rejects, Loses
<1> QED BY <1>2, <1>4 DEF Settles

\* The commit of one reversal leaves the decisions of the others true.
LEMMA ReferencesCommit ==
  ASSUME IInv, Identity, References, NEW p \in Worker, Commit(p)
  PROVE  References'
<1> DEFINE d == draft[p]
           x == row[p].req.ext
<1>1. /\ pc[p] = "commit" /\ pc'[p] = "idle" /\ Alone(p)
      /\ x \in Ext /\ wagers'[x] = d.row
      /\ \A y \in Ext \ {x} : wagers'[y] = wagers[y]
      /\ row[p] \in WagerRow
  BY CommitEffect
<1>2. RowsKept /\ TypeOK
  BY CommitKeepsRows DEF IInv
<1>3. /\ d.row.req = row[p].req
      /\ wagers[x] = None \/ wagers[x].state = "PENDING_REFERENCE"
  BY <1>1, CommitReplaces DEF Worker
<1>4. \A q \in Worker \ {p} : /\ pc'[q] = pc[q] /\ row'[q] = row[q]
                              /\ draft'[q] = draft[q] /\ found'[q] = found[q]
  BY <1>1 DEF Alone, Same
<1>5. ASSUME d.row.state = "PROCESSED", IsReversal(d.row)
      PROVE  /\ d.row.refd = row[p].req.ref /\ d.row.refd \in Ext
             /\ Usable(row[p].req, wagers[d.row.refd])
             /\ ~Reversed(row[p])
  <2>1. /\ d.row.refd = row[p].req.ref
        /\ Usable(row[p].req, RefOf(row[p])) /\ ~Reversed(row[p])
    BY <1>1, <1>5, ReversalDecision
  <2>2. ~Unresolved(RefOf(row[p]))
    BY <2>1, UsableMeans
  <2>3. row[p].req.ref \in Ext
    BY <1>1, <1>2, <2>2, RefOfStable
  <2>4. RefOf(row[p]) = wagers[row[p].req.ref]
    BY <2>3, NoneAssumption DEF RefOf
  <2> QED BY <2>1, <2>3, <2>4
<1>6. ASSUME NEW req, NEW z \in Ext, Usable(req, wagers[z])
      PROVE  wagers'[z] = wagers[z]
  <2>1. wagers[z] # None /\ wagers[z].state = "PROCESSED"
    BY <1>6, UsableMeans
  <2> QED BY <1>2, <2>1 DEF RowsKept
<1>7. ASSUME NEW y \in Ext PROVE StoredReversal(y)'
  <2> SUFFICES ASSUME wagers'[y] # None, wagers'[y].state = "PROCESSED",
                      IsReversal(wagers'[y])
               PROVE  /\ wagers'[y].refd = wagers'[y].req.ref
                      /\ wagers'[y].refd # None
                      /\ Usable(wagers'[y].req, wagers'[wagers'[y].refd])
    BY DEF StoredReversal, IsReversal
  <2>1. CASE y = x
    <3>1. /\ d.row.refd = row[p].req.ref /\ d.row.refd \in Ext
          /\ Usable(row[p].req, wagers[d.row.refd])
      BY <1>1, <1>5, <2>1
    <3>2. wagers'[d.row.refd] = wagers[d.row.refd]
      BY <1>6, <3>1
    <3> QED BY <1>1, <1>3, <2>1, <3>1, <3>2, NoneAssumption
  <2>2. CASE y # x
    <3>1. wagers'[y] = wagers[y]
      BY <1>1, <2>2
    <3>2. /\ wagers[y].refd = wagers[y].req.ref
          /\ wagers[y].refd # None
          /\ Usable(wagers[y].req, wagers[wagers[y].refd])
      BY <3>1 DEF References, StoredReversal
    <3>3. wagers[y].refd \in Ext
      BY <3>1, <3>2 DEF IInv, TypeOK, WagerRow
    <3>4. wagers'[wagers[y].refd] = wagers[wagers[y].refd]
      BY <1>6, <3>2, <3>3
    <3> QED BY <3>1, <3>2, <3>4
  <2> QED BY <2>1, <2>2
<1>8. ASSUME NEW y \in Ext, y # x, wagers[y] # None, wagers[y].state = "PROCESSED",
             IsReversal(wagers[y]), d.row.state = "PROCESSED", IsReversal(d.row)
      PROVE  wagers[y].refd # d.row.refd
  <2>1. d.row.refd = row[p].req.ref /\ ~Reversed(row[p])
    BY <1>5, <1>8
  <2> QED BY <1>8, <2>1 DEF Reversed, referenceAlreadyReversed
<1>9. OneReversal'
  <2> SUFFICES ASSUME NEW y \in Ext, NEW z \in Ext, wagers'[y] # None, wagers'[z] # None,
                      SameReversal(wagers'[y], wagers'[z])
               PROVE  y = z
    BY DEF OneReversal, SameReversal, IsReversal
  <2>1. /\ wagers'[y].state = "PROCESSED" /\ IsReversal(wagers'[y])
        /\ wagers'[z].state = "PROCESSED" /\ IsReversal(wagers'[z])
        /\ wagers'[z].refd = wagers'[y].refd
    BY DEF SameReversal
  <2>2. CASE y # x /\ z # x
    <3>1. wagers'[y] = wagers[y] /\ wagers'[z] = wagers[z]
      BY <1>1, <2>2
    <3> QED BY <3>1 DEF References, OneReversal
  <2>3. CASE y = x /\ z # x
    <3>1. wagers'[y] = d.row /\ wagers'[z] = wagers[z]
      BY <1>1, <2>3
    <3> QED BY <1>8, <2>1, <2>3, <3>1
  <2>4. CASE y # x /\ z = x
    <3>1. wagers'[y] = wagers[y] /\ wagers'[z] = d.row
      BY <1>1, <2>4
    <3> QED BY <1>8, <2>1, <2>4, <3>1
  <2> QED BY <2>2, <2>3, <2>4
<1>10. ASSUME NEW q \in Worker PROVE FoundKept(q)' /\ DecisionKept(q)'
  <2>1. CASE q = p
    BY <1>1, <2>1 DEF FoundKept, DecisionKept
  <2>2. CASE q # p
    <3>1. FoundKept(q) /\ DecisionKept(q)
      BY DEF References
    <3>2. pc[q] # "idle" => row[q] \in WagerRow
      BY DEF IInv, RowKept
    <3>3. ASSUME pc[q] # "idle", ~Unresolved(RefOf(row[q]))
          PROVE  RefOf(row[q])' = RefOf(row[q])
      <4>1. PICK r \in WagerRow : r = row[q]
        BY <3>2, <3>3
      <4>2. RefOf(r)' = RefOf(r)
        BY <1>2, <3>3, <4>1, RefOfStable
      <4>3. row'[q] = row[q]
        BY <1>4, <2>2
      <4> QED BY <4>1, <4>2, <4>3 DEF RefOf
    <3>4. FoundKept(q)'
      <4> SUFFICES ASSUME pc'[q] = "reversal"
                   PROVE  /\ found'[q] = RefOf(row[q])'
                          /\ IsReversal(row'[q])
                          /\ Usable(row'[q].req, found'[q])
        BY DEF FoundKept, IsReversal
      <4>1. /\ pc[q] = "reversal" /\ found[q] = RefOf(row[q]) /\ IsReversal(row[q])
            /\ Usable(row[q].req, found[q])
        BY <1>4, <2>2, <3>1 DEF FoundKept
      <4>2. ~Unresolved(RefOf(row[q]))
        BY <4>1, UsableMeans
      <4> QED BY <1>4, <2>2, <3>3, <4>1, <4>2
    <3>5. DecisionKept(q)'
      <4> SUFFICES ASSUME pc'[q] \in {"write", "commit"}
                   PROVE  Decision(draft[q], row[q], RefOf(row[q])', Reversed(row[q])')
        BY <1>4, <2>2 DEF DecisionKept
      <4>1. /\ pc[q] \in {"write", "commit"}
            /\ Decision(draft[q], row[q], RefOf(row[q]), Reversed(row[q]))
        BY <1>4, <2>2, <3>1 DEF DecisionKept
      <4>2. ASSUME draft[q].row.state = "PROCESSED", IsReversal(row[q]),
                   draft[q].row.refd = row[q].req.ref,
                   Usable(row[q].req, RefOf(row[q])), ~Reversed(row[q]), Reversed(row[q])'
            PROVE  FALSE
        <5>1. row'[q] = row[q]
          BY <1>4, <2>2
        <5>2. PICK y \in Ext : /\ wagers'[y] # None
                               /\ IsReversal(wagers'[y])
                               /\ wagers'[y].state = "PROCESSED"
                               /\ wagers'[y].refd = row[q].req.ref
          BY <4>2, <5>1 DEF Reversed, referenceAlreadyReversed, IsReversal
        <5>3. y = x
          BY <1>1, <4>2, <5>2 DEF Reversed, referenceAlreadyReversed
        <5>4. /\ IsReversal(d.row) /\ d.row.state = "PROCESSED"
              /\ d.row.refd = row[q].req.ref
          BY <1>1, <5>2, <5>3
        <5>5. IsReversal(row[p]) /\ d.row.refd = row[p].req.ref
          BY <1>1, <5>4, ReversalDecision
        <5> QED BY <1>1, <2>2, <4>1, <4>2, <5>4, <5>5, OneReverser DEF Locked
      <4>3. ~Unresolved(RefOf(row[q])) => RefOf(row[q])' = RefOf(row[q])
        BY <3>3, <4>1
      <4> QED BY <4>1, <4>2, <4>3, DecisionStable
    <3> QED BY <3>4, <3>5
  <2> QED BY <2>1, <2>2
<1> QED BY <1>7, <1>9, <1>10 DEF References

\* Every step keeps the decisions in agreement with the stored references.
LEMMA NextReferences ==
  ASSUME IInv, Identity, References, [Next]_vars
  PROVE  References'
<1>1. TypeOK
  BY DEF IInv
<1> DEFINE Passes(p) == /\ Alone(p) /\ UNCHANGED wagers
                        /\ pc'[p] \notin {"reversal", "write", "commit"}
<1>2. \A p \in Worker : Passes(p) => References'
  BY ReferencesPass
<1>3. \A p, a : Ends(p, a) => Passes(p)
  BY DEF Ends, TablesKept
<1>4. \A p : /\ GoesOn(p, "consult") => Passes(p)
             /\ GoesOn(p, "recheck") => Passes(p)
             /\ GoesOn(p, "external") => Passes(p)
  BY DEF GoesOn, TablesKept
<1> HIDE DEF Passes
<1>5. ASSUME NEW p \in Processor, NEW c \in Commands, Receive(p, c) PROVE References'
  <2>1. \/ Ends(p, Refusal(NewRow(c), "INVALID"))
        \/ Ends(p, findIdempotentReplay(NewRow(c)))
        \/ pc'[p] = "lock" /\ Alone(p) /\ TablesKept
    BY <1>1, <1>5, ReceiveEffect
  <2>2. Passes(p)
    BY <1>3, <2>1 DEF Passes, TablesKept
  <2> QED BY <1>2, <2>2 DEF Worker
<1>6. ASSUME NEW r \in Resolver, findDuePendingReference(r) PROVE References'
  <2>1. pc'[r] = "lock" /\ Alone(r) /\ TablesKept
    BY <1>1, <1>6, ClaimEffect
  <2>2. Passes(r)
    BY <2>1 DEF Passes, TablesKept
  <2> QED BY <1>2, <2>2 DEF Worker
<1>7. ASSUME NEW p \in Worker, lockWallet(p) \/ Recheck(p) \/ CheckExternal(p) \/ Abort(p)
      PROVE  References'
  <2>1. CASE lockWallet(p)
    <3>1. \/ Ends(p, Refusal(row[p], "WALLET_NOT_FOUND"))
          \/ GoesOn(p, IF p \in Resolver THEN "consult" ELSE "recheck")
      BY <1>1, <2>1, LockEffect
    <3> QED BY <1>2, <1>3, <1>4, <3>1
  <2>2. CASE Recheck(p)
    <3>1. Ends(p, findIdempotentReplay(row[p])) \/ GoesOn(p, "external")
      BY <1>1, <2>2, RecheckEffect
    <3> QED BY <1>2, <1>3, <1>4, <3>1
  <2>3. CASE CheckExternal(p)
    <3>1. (\E e \in Errors : Ends(p, Refusal(row[p], e))) \/ GoesOn(p, "consult")
      BY <1>1, <2>3, ExternalEffect DEF Errors
    <3> QED BY <1>2, <1>3, <1>4, <3>1
  <2>4. CASE Abort(p)
    <3>1. Ends(p, None)
      BY <1>1, <2>4, FinishEffect DEF Abort
    <3> QED BY <1>2, <1>3, <3>1
  <2> QED BY <1>7, <2>1, <2>2, <2>3, <2>4
<1>8. ASSUME NEW p \in Worker, Consult(p) PROVE References'
  <2> DEFINE ref == RefOf(row[p])
  <2>1. /\ pc[p] = "consult"
        /\ \/ AsksReversal(p, ref) /\ GoesOn(p, "reversal") /\ found'[p] = ref
           \/ ~AsksReversal(p, ref) /\ Decide(p, ref, FALSE)
    BY <1>1, <1>8, ConsultEffect
  <2>2. CASE AsksReversal(p, ref) /\ GoesOn(p, "reversal") /\ found'[p] = ref
    <3>1. Alone(p) /\ UNCHANGED wagers /\ pc'[p] = "reversal" /\ row'[p] = row[p]
      BY <2>2 DEF GoesOn, TablesKept
    <3>2. RefOf(row[p])' = ref
      BY <3>1 DEF RefOf
    <3>3. FoundKept(p)' /\ DecisionKept(p)'
      BY <2>2, <3>1, <3>2 DEF FoundKept, DecisionKept, AsksReversal, IsReversal
    <3> QED BY <3>1, <3>3, ReferencesLocal
  <2>3. CASE ~AsksReversal(p, ref) /\ Decide(p, ref, FALSE)
    BY <2>1, <2>3, ReferencesDecide
  <2> QED BY <2>1, <2>2, <2>3
<1>9. ASSUME NEW p \in Worker, CheckReversed(p) PROVE References'
  <2>1. Reversed(row[p]) \in BOOLEAN
    BY DEF Reversed, referenceAlreadyReversed
  <2>2. pc[p] = "reversal" /\ Decide(p, found[p], Reversed(row[p]))
    BY <1>9 DEF CheckReversed, Reversed
  <2>3. found[p] = RefOf(row[p])
    BY <2>2 DEF References, FoundKept
  <2> QED BY <2>1, <2>2, <2>3, ReferencesDecide
<1>10. ASSUME NEW p \in Worker, Write(p) PROVE References'
  <2>1. /\ pc[p] = "write"
        /\ \/ Ends(p, Refusal(row[p], WriteError(p)))
           \/ GoesOn(p, "commit") /\ draft'[p] = draft[p]
    BY <1>1, <1>10, WriteEffect
  <2>2. CASE GoesOn(p, "commit") /\ draft'[p] = draft[p]
    <3>1. Alone(p) /\ UNCHANGED wagers /\ pc'[p] = "commit" /\ row'[p] = row[p]
      BY <2>2 DEF GoesOn, TablesKept
    <3>2. RefOf(row[p])' = RefOf(row[p]) /\ Reversed(row[p])' = Reversed(row[p])
      BY <3>1 DEF RefOf, Reversed
    <3>3. FoundKept(p)' /\ DecisionKept(p)'
      BY <2>1, <2>2, <3>1, <3>2 DEF References, FoundKept, DecisionKept
    <3> QED BY <3>1, <3>3, ReferencesLocal
  <2> QED BY <1>2, <1>3, <2>1, <2>2
<1>11. ASSUME NEW p \in Worker, Commit(p) PROVE References'
  BY <1>11, ReferencesCommit
<1>12. ASSUME \/ \E w \in Wallet, o \in Openings : CreateWallet(w, o)
              \/ Tick
              \/ UNCHANGED vars
       PROVE  References'
  <2>1. UNCHANGED <<wagers, pc, row, found, draft>>
    BY <1>12 DEF CreateWallet, Tick, vars, local, db
  <2>2. (\A y \in Ext : StoredReversal(y))' /\ OneReversal'
    BY <2>1 DEF References, StoredReversal, OneReversal
  <2>3. ASSUME NEW p \in Worker PROVE FoundKept(p)' /\ DecisionKept(p)'
    <3>1. RefOf(row[p])' = RefOf(row[p]) /\ Reversed(row[p])' = Reversed(row[p])
      BY <2>1 DEF RefOf, Reversed
    <3> QED BY <2>1, <3>1 DEF References, FoundKept, DecisionKept
  <2> QED BY <2>2, <2>3 DEF References
<1> QED BY <1>5, <1>6, <1>7, <1>8, <1>9, <1>10, <1>11, <1>12 DEF Next, Advance

\* Neither the unique index on reversals nor the RowsAffected check is hit.
LEMMA BackstopsIdle ==
  ASSUME IInv, Identity, References, NEW p \in Worker, pc[p] = "write"
  PROVE  WriteError(p) # "INTERNAL"
<1> DEFINE r == draft[p].row
           x == row[p].req.ext
           others == {wagers[y] : y \in {y \in Ext \ {r.req.ext} : wagers[y] # None}}
<1>1. r.req = row[p].req /\ row[p] \in WagerRow
  BY DEF References, DecisionKept, Decision, IInv, RowKept
<1>2. p \in Resolver => wagers[r.req.ext] # None
                        /\ wagers[r.req.ext].state = "PENDING_REFERENCE"
  BY <1>1, NoneAssumption DEF Identity, ClaimIsCurrent, IInv, RowKept
<1>3. ~ \E s \in others : SameReversal(r, s)
  <2> SUFFICES ASSUME NEW y \in Ext, wagers[y] # None, SameReversal(r, wagers[y])
               PROVE  FALSE
    OBVIOUS
  <2>1. r.state = "PROCESSED" /\ IsReversal(r)
    BY DEF SameReversal
  <2>2. r.refd = row[p].req.ref /\ ~Reversed(row[p])
    BY <2>1, ReversalDecision
  <2> QED BY <2>2 DEF SameReversal, Reversed, referenceAlreadyReversed
<1> HIDE DEF r, others
<1>4. ~ (p \in Resolver /\ (wagers[r.req.ext] = None
                            \/ wagers[r.req.ext].state # "PENDING_REFERENCE"))
  BY <1>2
<1>5. "INTERNAL" # None
  BY AnswerAssumption DEF Errors
<1> QED BY <1>3, <1>4, <1>5, Zenon DEF WriteError, r, others

-----------------------------------------------------------------------------
(* Answers: what the clients were told stays true.                           *)

\* Past the second lookup the command itself is not stored by anybody else:
\* a rival with the same command would hold the same wallet.
FirstTime(p) ==
  (p \in Processor /\ pc[p] \in {"external", "consult", "reversal", "write", "commit"}) =>
    \A x \in Ext : wagers[x] # None =>
      ~ (wagers[x].key = row[p].key /\ wagers[x].req = row[p].req)

\* A refusal is founded on a different stored command with the same key or
\* the same external identity.
Founded(a) ==
  (/\ a # None
   /\ a.outcome \in {"IDEMPOTENCY_CONFLICT", "EXTERNAL_EXISTS", "INTERNAL"}) =>
    \E x \in Ext : /\ wagers[x] # None
                   /\ wagers[x].key # a.key \/ wagers[x].req # a.req
                   /\ wagers[x].key = a.key \/ x = a.req.ext

\* An answer tells what is stored.
TrueAnswer(a) ==
  (a # None /\ a.outcome \in {"NEW", "REPLAY"}) =>
    LET s == wagers[a.req.ext]
    IN  /\ s # None
        /\ s.key = a.key /\ s.req = a.req
        /\ a.state \in Terminal =>
             /\ s.state = a.state
             /\ s.code = a.code
             /\ s.result = a.balance

Answers ==
  /\ \A p \in Worker : FirstTime(p)
  /\ \A p \in Processor : Founded(reply[p]) /\ TrueAnswer(reply[p])

\* Stored rows keep founding an answer.
LEMMA AnswerStable ==
  ASSUME RowsKept, NEW a \in Reply \cup {None}, Founded(a), TrueAnswer(a)
  PROVE  Founded(a)' /\ TrueAnswer(a)'
<1>1. Founded(a)'
  <2> SUFFICES ASSUME a # None,
                      a.outcome \in {"IDEMPOTENCY_CONFLICT", "EXTERNAL_EXISTS", "INTERNAL"}
               PROVE  \E x \in Ext : /\ wagers'[x] # None
                                     /\ wagers'[x].key # a.key \/ wagers'[x].req # a.req
                                     /\ wagers'[x].key = a.key \/ x = a.req.ext
    BY DEF Founded
  <2>1. PICK x \in Ext : /\ wagers[x] # None
                         /\ wagers[x].key # a.key \/ wagers[x].req # a.req
                         /\ wagers[x].key = a.key \/ x = a.req.ext
    BY DEF Founded
  <2>2. /\ wagers'[x] # None /\ wagers'[x].key = wagers[x].key
        /\ wagers'[x].req = wagers[x].req
    BY <2>1 DEF RowsKept
  <2> QED BY <2>1, <2>2
<1>2. TrueAnswer(a)'
  <2> DEFINE x == a.req.ext
  <2> SUFFICES ASSUME a # None, a.outcome \in {"NEW", "REPLAY"}
               PROVE  /\ wagers'[x] # None
                      /\ wagers'[x].key = a.key /\ wagers'[x].req = a.req
                      /\ a.state \in Terminal =>
                           /\ wagers'[x].state = a.state
                           /\ wagers'[x].code = a.code
                           /\ wagers'[x].result = a.balance
    BY DEF TrueAnswer
  <2>1. x \in Ext
    BY DEF Reply, Request
  <2>2. /\ wagers[x] # None
        /\ wagers[x].key = a.key /\ wagers[x].req = a.req
        /\ a.state \in Terminal => /\ wagers[x].state = a.state
                                   /\ wagers[x].code = a.code
                                   /\ wagers[x].result = a.balance
    BY DEF TrueAnswer
  <2>3. /\ wagers'[x] # None
        /\ wagers'[x].key = wagers[x].key /\ wagers'[x].req = wagers[x].req
        /\ wagers[x].state # "PENDING_REFERENCE" => wagers'[x] = wagers[x]
    BY <2>1, <2>2 DEF RowsKept
  <2> QED BY <2>2, <2>3 DEF Terminal
<1> QED BY <1>1, <1>2

\* The idempotency lookup tells a stored outcome or a stored conflict.
LEMMA ReplayMeans ==
  ASSUME TypeOK, NEW r \in WagerRow
  PROVE  LET a == findIdempotentReplay(r)
         IN  \/ /\ a = None
                /\ \A x \in Ext : wagers[x] # None => wagers[x].key # r.key
             \/ \E x \in Ext : /\ wagers[x] # None /\ wagers[x].key = r.key
                               /\ wagers[x].req = r.req
                               /\ a = Result(r, wagers[x], "REPLAY")
             \/ \E x \in Ext : /\ wagers[x] # None /\ wagers[x].key = r.key
                               /\ wagers[x].req # r.req
                               /\ a = Refusal(r, "IDEMPOTENCY_CONFLICT")
<1> DEFINE hits == {x \in Ext : wagers[x] # None /\ wagers[x].key = r.key}
           y == CHOOSE x \in hits : TRUE
<1>1. CASE hits = {}
  BY <1>1 DEF findIdempotentReplay
<1>2. CASE hits # {}
  <2>1. y \in hits
    BY <1>2
  <2>2. findIdempotentReplay(r) = IF wagers[y].req = r.req
                                  THEN Result(r, wagers[y], "REPLAY")
                                  ELSE Refusal(r, "IDEMPOTENCY_CONFLICT")
    BY <1>2 DEF findIdempotentReplay
  <2> HIDE DEF y
  <2> QED BY <2>1, <2>2
<1> QED BY <1>1, <1>2

\* So its answers are founded and true.
LEMMA ReplayFounded ==
  ASSUME TypeOK, Identity, NEW r \in WagerRow
  PROVE  Founded(findIdempotentReplay(r)) /\ TrueAnswer(findIdempotentReplay(r))
<1> DEFINE a == findIdempotentReplay(r)
<1>1. CASE a = None
  BY <1>1 DEF Founded, TrueAnswer
<1>2. ASSUME NEW x \in Ext, wagers[x] # None, wagers[x].key = r.key,
             wagers[x].req = r.req, a = Result(r, wagers[x], "REPLAY")
      PROVE  Founded(a) /\ TrueAnswer(a)
  <2>1. /\ a.outcome = "REPLAY" /\ a.key = r.key /\ a.req = r.req
        /\ a.state = wagers[x].state /\ a.code = wagers[x].code
        /\ a.balance = wagers[x].result
    BY <1>2 DEF Result
  <2>2. a.req.ext = x
    BY <1>2, <2>1 DEF Identity, StoredWell
  <2> HIDE DEF a
  <2> QED BY <1>2, <2>1, <2>2 DEF Founded, TrueAnswer
<1>3. ASSUME NEW x \in Ext, wagers[x] # None, wagers[x].key = r.key,
             wagers[x].req # r.req, a = Refusal(r, "IDEMPOTENCY_CONFLICT")
      PROVE  Founded(a) /\ TrueAnswer(a)
  <2> HIDE DEF a
  <2>1. a.outcome = "IDEMPOTENCY_CONFLICT" /\ a.key = r.key /\ a.req = r.req
    BY <1>3 DEF Refusal
  <2> QED BY <1>3, <2>1 DEF Founded, TrueAnswer
<1> QED BY <1>1, <1>2, <1>3, ReplayMeans

\* A refusal that names no conflict says nothing about the stored rows.
LEMMA RefusalFounded ==
  ASSUME NEW r, NEW e \in Errors,
         e \in {"IDEMPOTENCY_CONFLICT", "EXTERNAL_EXISTS", "INTERNAL"} =>
           \E x \in Ext : /\ wagers[x] # None
                          /\ wagers[x].key # r.key \/ wagers[x].req # r.req
                          /\ wagers[x].key = r.key \/ x = r.req.ext
  PROVE  Founded(Refusal(r, e)) /\ TrueAnswer(Refusal(r, e))
<1> DEFINE a == Refusal(r, e)
<1>1. a.outcome = e /\ a.key = r.key /\ a.req = r.req
  BY DEF Refusal
<1> HIDE DEF a
<1>2. e \notin {"NEW", "REPLAY"}
  BY DEF Errors
<1>3. Founded(a) /\ TrueAnswer(a)
  BY <1>1, <1>2 DEF Founded, TrueAnswer
<1> QED BY <1>3 DEF a

\* A step of p that leaves the wager rows and the other transactions alone.
LEMMA AnswersLocal ==
  ASSUME TypeOK, Answers, NEW p \in Worker, Alone(p), UNCHANGED wagers, FirstTime(p)',
         p \in Processor => Founded(reply'[p]) /\ TrueAnswer(reply'[p])
  PROVE  Answers'
<1>1. \A q \in Worker \ {p} : pc'[q] = pc[q] /\ row'[q] = row[q] /\ reply'[q] = reply[q]
  BY DEF Alone, Same
<1>2. ASSUME NEW q \in Worker PROVE FirstTime(q)'
  BY <1>1 DEF Answers, FirstTime
<1>3. ASSUME NEW q \in Processor PROVE Founded(reply'[q]) /\ TrueAnswer(reply'[q])
  <2>1. q \in Worker
    BY DEF Worker
  <2> QED BY <1>1, <2>1 DEF Answers
<1>4. ASSUME NEW q \in Processor PROVE (Founded(reply[q]) /\ TrueAnswer(reply[q]))'
  BY <1>3 DEF Founded, TrueAnswer
<1> QED BY <1>2, <1>4 DEF Answers

\* A transaction that ends with an answer.
LEMMA AnswersEnd ==
  ASSUME TypeOK, Answers, NEW p \in Worker, NEW a, Ends(p, a),
         p \in Processor => Founded(a) /\ TrueAnswer(a)
  PROVE  Answers'
<1>1. Alone(p) /\ UNCHANGED wagers /\ pc'[p] = "idle" /\ reply'[p] = a
  BY DEF Ends, TablesKept
<1>2. FirstTime(p)'
  BY <1>1 DEF FirstTime
<1> QED BY <1>1, <1>2, AnswersLocal

\* A transaction that goes on, still with a command of its own.
LEMMA AnswersGoOn ==
  ASSUME TypeOK, Answers, NEW p \in Worker, NEW label, GoesOn(p, label),
         \/ p \notin Processor
         \/ label = "recheck"
         \/ pc[p] \in {"external", "consult", "reversal", "write", "commit"}
         \/ \A x \in Ext : wagers[x] # None => wagers[x].key # row[p].key
  PROVE  Answers'
<1>1. /\ Alone(p) /\ UNCHANGED wagers /\ pc'[p] = label /\ row'[p] = row[p]
      /\ reply'[p] = reply[p]
  BY DEF GoesOn, TablesKept
<1>2. FirstTime(p)'
  BY <1>1 DEF Answers, FirstTime
<1>3. p \in Processor => Founded(reply'[p]) /\ TrueAnswer(reply'[p])
  BY <1>1 DEF Answers
<1> QED BY <1>1, <1>2, <1>3, AnswersLocal

\* The first answer is the stored outcome; nobody else's command is touched.
LEMMA AnswersCommit ==
  ASSUME IInv, Identity, Answers, NEW p \in Worker, Commit(p)
  PROVE  Answers'
<1> DEFINE d == draft[p]
           x == row[p].req.ext
<1>1. /\ pc[p] = "commit" /\ pc'[p] = "idle" /\ Alone(p)
      /\ x \in Ext /\ wagers'[x] = d.row
      /\ \A y \in Ext \ {x} : wagers'[y] = wagers[y]
      /\ reply'[p] = IF p \in Processor THEN Result(row[p], d.row, "NEW") ELSE None
  BY CommitEffect
<1>2. d.row.key = row[p].key /\ d.row.req = row[p].req /\ d.row # None
  BY <1>1, CommitReplaces
<1>3. RowsKept /\ TypeOK
  BY CommitKeepsRows DEF IInv
<1>4. \A q \in Worker \ {p} : pc'[q] = pc[q] /\ row'[q] = row[q] /\ reply'[q] = reply[q]
  BY <1>1 DEF Alone, Same
<1>5. ASSUME NEW q \in Worker PROVE FirstTime(q)'
  <2>1. CASE q = p
    BY <1>1, <2>1 DEF FirstTime
  <2>2. CASE q # p
    <3>1. FirstTime(q)
      BY DEF Answers
    <3>2. (pc[q] \in Locked) => row[q].req # row[p].req
      BY <1>1, <2>2 DEF IInv, LocksExclude, Locked
    <3> QED BY <1>1, <1>2, <1>4, <2>2, <3>1, <3>2 DEF FirstTime, Locked
  <2> QED BY <2>1, <2>2
<1>6. ASSUME NEW q \in Processor PROVE (Founded(reply[q]) /\ TrueAnswer(reply[q]))'
  <2>1. q \in Worker
    BY DEF Worker
  <2>2. CASE q = p
    <3> DEFINE a == Result(row[p], d.row, "NEW")
    <3>1. reply'[q] = a
      BY <1>1, <2>2
    <3>2. /\ a.outcome = "NEW" /\ a.key = row[p].key /\ a.req = row[p].req
          /\ a.state = d.row.state /\ a.code = d.row.code /\ a.balance = d.row.result
      BY DEF Result
    <3> HIDE DEF a
    <3> QED BY <1>1, <1>2, <3>1, <3>2 DEF Founded, TrueAnswer
  <2>3. CASE q # p
    <3>1. PICK a \in Reply \cup {None} : a = reply[q]
      BY <1>3, <2>1 DEF TypeOK
    <3>2. Founded(a) /\ TrueAnswer(a)
      BY <3>1 DEF Answers
    <3>3. Founded(a)' /\ TrueAnswer(a)'
      BY <1>3, <3>2, AnswerStable
    <3>4. reply'[q] = a
      BY <1>4, <2>1, <2>3, <3>1
    <3> QED BY <3>3, <3>4 DEF Founded, TrueAnswer
  <2> QED BY <2>2, <2>3
<1> QED BY <1>5, <1>6 DEF Answers

\* A conflict that the INSERT meets is a stored one.
LEMMA AnswersWrite ==
  ASSUME IInv, Identity, References, Answers, NEW p \in Worker, Write(p)
  PROVE  Answers'
<1> DEFINE r == draft[p].row
           others == {wagers[y] : y \in {y \in Ext \ {r.req.ext} : wagers[y] # None}}
           error == WriteError(p)
<1>1. TypeOK
  BY DEF IInv
<1>2. /\ pc[p] = "write"
      /\ \/ error # None /\ Ends(p, Refusal(row[p], error))
         \/ GoesOn(p, "commit")
  BY <1>1, WriteEffect
<1>3. error # "INTERNAL"
  BY <1>2, BackstopsIdle
<1>4. /\ r.req = row[p].req /\ r.key = row[p].key
      /\ row[p] \in WagerRow /\ row[p].req.ext \in Ext
  BY <1>2 DEF References, DecisionKept, Decision, IInv, RowKept, WagerRow, Request
<1>5. ASSUME p \in Processor, error # None
      PROVE  /\ error \in Errors
             /\ \E x \in Ext : /\ wagers[x] # None
                               /\ wagers[x].key = row[p].key \/ x = row[p].req.ext
  <2>1. p \notin Resolver
    BY <1>5, WorkerAssumption
  <2>2. \/ error = "EXTERNAL_EXISTS" /\ wagers[r.req.ext] # None
        \/ error = "IDEMPOTENCY_CONFLICT" /\ \E s \in others : s.key = r.key
    BY <1>3, <1>5, <2>1 DEF WriteError
  <2> HIDE DEF r, error
  <2> QED BY <1>4, <2>2 DEF Errors
<1>6. CASE error # None /\ Ends(p, Refusal(row[p], error))
  <2>1. p \in Processor => Founded(Refusal(row[p], error)) /\ TrueAnswer(Refusal(row[p], error))
    <3> SUFFICES ASSUME p \in Processor
                 PROVE  Founded(Refusal(row[p], error)) /\ TrueAnswer(Refusal(row[p], error))
      OBVIOUS
    <3>1. PICK x \in Ext : /\ wagers[x] # None
                           /\ wagers[x].key = row[p].key \/ x = row[p].req.ext
      BY <1>5, <1>6
    <3>2. wagers[x].key # row[p].key \/ wagers[x].req # row[p].req
      BY <1>2, <3>1 DEF Answers, FirstTime
    <3>3. error \in Errors
      BY <1>5, <1>6
    <3> HIDE DEF error
    <3> QED BY <3>1, <3>2, <3>3, RefusalFounded
  <2> QED BY <1>1, <1>6, <2>1, AnswersEnd
<1> QED BY <1>1, <1>2, <1>6, AnswersGoOn

\* Every step keeps the answers true.
LEMMA NextAnswers ==
  ASSUME IInv, Identity, References, Answers, [Next]_vars
  PROVE  Answers'
<1>1. TypeOK
  BY DEF IInv
<1>2. \A p \in Worker : pc[p] # "idle" => row[p] \in WagerRow /\ row[p].req.ext \in Ext
  BY DEF IInv, RowKept, WagerRow, Request
<1>3. ASSUME NEW p \in Processor, NEW c \in Commands, Receive(p, c) PROVE Answers'
  <2> DEFINE r == NewRow(c)
  <2>1. p \in Worker
    BY DEF Worker
  <2>2. r \in WagerRow
    <3>1. c.key \in Key /\ c.req \in Request
      BY CommandsAssumption DEF Command
    <3>2. 0 \in Money /\ "PENDING" \in State /\ "" \in FailureCode
      BY MaxIntAssumption DEF Money, State, FailureCode
    <3> QED BY <3>1, <3>2 DEF NewRow, WagerRow
  <2>3. \/ Ends(p, Refusal(r, "INVALID"))
        \/ Ends(p, findIdempotentReplay(r))
        \/ pc'[p] = "lock" /\ reply'[p] = None /\ Alone(p) /\ TablesKept
    BY <1>1, <1>3, ReceiveEffect
  <2> HIDE DEF r
  <2>4. CASE Ends(p, Refusal(r, "INVALID"))
    <3>1. Founded(Refusal(r, "INVALID")) /\ TrueAnswer(Refusal(r, "INVALID"))
      BY RefusalFounded DEF Errors
    <3> QED BY <1>1, <2>1, <2>4, <3>1, AnswersEnd
  <2>5. CASE Ends(p, findIdempotentReplay(r))
    BY <1>1, <2>1, <2>2, <2>5, ReplayFounded, AnswersEnd
  <2>6. CASE pc'[p] = "lock" /\ reply'[p] = None /\ Alone(p) /\ TablesKept
    <3>1. FirstTime(p)' /\ Founded(reply'[p]) /\ TrueAnswer(reply'[p])
      BY <2>6 DEF FirstTime, Founded, TrueAnswer
    <3> QED BY <1>1, <2>1, <2>6, <3>1, AnswersLocal DEF TablesKept
  <2> QED BY <2>3, <2>4, <2>5, <2>6
<1>4. ASSUME NEW r \in Resolver, findDuePendingReference(r) PROVE Answers'
  <2>1. pc'[r] = "lock" /\ reply'[r] = None /\ Alone(r) /\ TablesKept
    BY <1>1, <1>4, ClaimEffect
  <2>2. r \in Worker /\ FirstTime(r)' /\ Founded(reply'[r]) /\ TrueAnswer(reply'[r])
    BY <2>1 DEF FirstTime, Founded, TrueAnswer, Worker
  <2> QED BY <1>1, <2>1, <2>2, AnswersLocal DEF TablesKept
<1>5. \A r : \A e \in Errors \ {"IDEMPOTENCY_CONFLICT", "EXTERNAL_EXISTS", "INTERNAL"} :
        Founded(Refusal(r, e)) /\ TrueAnswer(Refusal(r, e))
  BY RefusalFounded
<1>6. ASSUME NEW p \in Worker, lockWallet(p) PROVE Answers'
  <2>1. \/ Ends(p, Refusal(row[p], "WALLET_NOT_FOUND"))
        \/ GoesOn(p, IF p \in Resolver THEN "consult" ELSE "recheck")
    BY <1>1, <1>6, LockEffect
  <2>2. p \in Processor => p \notin Resolver
    BY WorkerAssumption
  <2>3. CASE Ends(p, Refusal(row[p], "WALLET_NOT_FOUND"))
    <3>1. "WALLET_NOT_FOUND" \in Errors \ {"IDEMPOTENCY_CONFLICT", "EXTERNAL_EXISTS", "INTERNAL"}
      BY DEF Errors
    <3> QED BY <1>1, <1>5, <2>3, <3>1, AnswersEnd
  <2>4. CASE GoesOn(p, IF p \in Resolver THEN "consult" ELSE "recheck")
    BY <1>1, <2>2, <2>4, AnswersGoOn
  <2> QED BY <2>1, <2>3, <2>4
<1>7. ASSUME NEW p \in Worker, Recheck(p) PROVE Answers'
  <2> DEFINE replay == findIdempotentReplay(row[p])
  <2>1. /\ pc[p] = "recheck"
        /\ \/ Ends(p, replay)
           \/ replay = None /\ GoesOn(p, "external")
    BY <1>1, <1>7, RecheckEffect
  <2>2. Founded(replay) /\ TrueAnswer(replay)
    BY <1>1, <1>2, <2>1, ReplayFounded
  <2>3. replay = None => \A x \in Ext : wagers[x] # None => wagers[x].key # row[p].key
    <3>1. \A x \in Ext : wagers[x] # None => Result(row[p], wagers[x], "REPLAY") \in Reply
      BY <1>1, <1>2, <2>1, ResultType DEF TypeOK
    <3>2. Refusal(row[p], "IDEMPOTENCY_CONFLICT") \in Reply
      BY <1>2, <2>1, RefusalType DEF Errors
    <3> QED BY <1>1, <1>2, <2>1, <3>1, <3>2, ReplayMeans, AnswerAssumption
  <2> HIDE DEF replay
  <2> QED BY <1>1, <2>1, <2>2, <2>3, AnswersEnd, AnswersGoOn
<1>8. ASSUME NEW p \in Worker, CheckExternal(p) PROVE Answers'
  <2>1. /\ pc[p] = "external"
        /\ \/ wagers[row[p].req.ext] # None /\ Ends(p, Refusal(row[p], "EXTERNAL_EXISTS"))
           \/ \E e \in {"PLAYER_MISMATCH", "CURRENCY_MISMATCH"} : Ends(p, Refusal(row[p], e))
           \/ GoesOn(p, "consult")
    BY <1>1, <1>8, ExternalEffect
  <2>2. CASE wagers[row[p].req.ext] # None /\ Ends(p, Refusal(row[p], "EXTERNAL_EXISTS"))
    <3>1. p \in Processor =>
            \/ wagers[row[p].req.ext].key # row[p].key
            \/ wagers[row[p].req.ext].req # row[p].req
      BY <1>2, <2>1, <2>2 DEF Answers, FirstTime
    <3>2. "EXTERNAL_EXISTS" \in Errors
      BY DEF Errors
    <3>3. p \in Processor => /\ Founded(Refusal(row[p], "EXTERNAL_EXISTS"))
                             /\ TrueAnswer(Refusal(row[p], "EXTERNAL_EXISTS"))
      BY <1>2, <2>1, <2>2, <3>1, <3>2, RefusalFounded
    <3> QED BY <1>1, <2>2, <3>3, AnswersEnd
  <2>3. CASE \E e \in {"PLAYER_MISMATCH", "CURRENCY_MISMATCH"} : Ends(p, Refusal(row[p], e))
    <3>1. PICK e \in {"PLAYER_MISMATCH", "CURRENCY_MISMATCH"} : Ends(p, Refusal(row[p], e))
      BY <2>3
    <3>2. e \in Errors \ {"IDEMPOTENCY_CONFLICT", "EXTERNAL_EXISTS", "INTERNAL"}
      BY DEF Errors
    <3> QED BY <1>1, <1>5, <3>1, <3>2, AnswersEnd
  <2>4. CASE GoesOn(p, "consult")
    BY <1>1, <2>1, <2>4, AnswersGoOn
  <2> QED BY <2>1, <2>2, <2>3, <2>4
<1>9. ASSUME NEW p \in Worker, pc[p] \in {"consult", "reversal"}, NEW ref, NEW reversed,
             Decide(p, ref, reversed)
      PROVE  Answers'
  <2>1. Ends(p, Refusal(row[p], "OVERFLOW")) \/ GoesOn(p, "write")
    BY <1>1, <1>9, DecideEffect
  <2>2. CASE Ends(p, Refusal(row[p], "OVERFLOW"))
    <3>1. "OVERFLOW" \in Errors \ {"IDEMPOTENCY_CONFLICT", "EXTERNAL_EXISTS", "INTERNAL"}
      BY DEF Errors
    <3> QED BY <1>1, <1>5, <2>2, <3>1, AnswersEnd
  <2>3. CASE GoesOn(p, "write")
    BY <1>1, <1>9, <2>3, AnswersGoOn
  <2> QED BY <2>1, <2>2, <2>3
<1>10. ASSUME NEW p \in Worker, Consult(p) PROVE Answers'
  <2>1. pc[p] = "consult" /\ (GoesOn(p, "reversal") \/ Decide(p, RefOf(row[p]), FALSE))
    BY <1>1, <1>10, ConsultEffect
  <2>2. CASE GoesOn(p, "reversal")
    BY <1>1, <2>1, <2>2, AnswersGoOn
  <2>3. CASE Decide(p, RefOf(row[p]), FALSE)
    BY <1>9, <2>1, <2>3
  <2> QED BY <2>1, <2>2, <2>3
<1>11. ASSUME NEW p \in Worker, CheckReversed(p) PROVE Answers'
  BY <1>9, <1>11 DEF CheckReversed
<1>12. ASSUME NEW p \in Worker, Write(p) PROVE Answers'
  BY <1>12, AnswersWrite
<1>13. ASSUME NEW p \in Worker, Commit(p) PROVE Answers'
  BY <1>13, AnswersCommit
<1>14. ASSUME NEW p \in Worker, Abort(p) PROVE Answers'
  <2>1. Ends(p, None)
    BY <1>1, <1>14, FinishEffect DEF Abort
  <2>2. Founded(None) /\ TrueAnswer(None)
    BY DEF Founded, TrueAnswer
  <2> QED BY <1>1, <2>1, <2>2, AnswersEnd
<1>15. ASSUME \/ \E w \in Wallet, o \in Openings : CreateWallet(w, o)
              \/ Tick
              \/ UNCHANGED vars
       PROVE  Answers'
  <2>1. UNCHANGED <<wagers, pc, row, reply>>
    BY <1>15 DEF CreateWallet, Tick, vars, local, db
  <2> QED BY <2>1 DEF Answers, FirstTime, Founded, TrueAnswer
<1> QED BY <1>3, <1>4, <1>6, <1>7, <1>8, <1>10, <1>11, <1>12, <1>13, <1>14, <1>15
        DEF Next, Advance

-----------------------------------------------------------------------------
(* History: what is written stays.                                           *)

\* A sequence is the beginning of what is appended to it.
LEMMA PrefixKept ==
  ASSUME NEW S, NEW s \in Seq(S), NEW t \in Seq(S)
  PROVE  SubSeq(s \o t, 1, Len(s)) = s /\ SubSeq(s, 1, Len(s)) = s
<1>1. /\ s \o t \in Seq(S) /\ Len(s) \in Nat
      /\ Len(s \o t) = Len(s) + Len(t) /\ Len(t) \in Nat
      /\ \A i \in 1..Len(s) : (s \o t)[i] = s[i]
  OBVIOUS
<1>2. /\ SubSeq(s \o t, 1, Len(s)) \in Seq(S)
      /\ Len(SubSeq(s \o t, 1, Len(s))) = Len(s)
      /\ \A i \in 1..Len(s) : SubSeq(s \o t, 1, Len(s))[i] = s[i]
  BY <1>1
<1>3. /\ SubSeq(s, 1, Len(s)) \in Seq(S)
      /\ Len(SubSeq(s, 1, Len(s))) = Len(s)
      /\ \A i \in 1..Len(s) : SubSeq(s, 1, Len(s))[i] = s[i]
  BY <1>1
<1> QED BY <1>2, <1>3

\* Only commits and new wallets change a table, and only Tick moves the clock.
LEMMA TablesStep ==
  ASSUME TypeOK, [Next]_vars
  PROVE  \/ \E p \in Worker : Commit(p)
         \/ \E w \in Wallet, o \in Openings : CreateWallet(w, o)
         \/ UNCHANGED db /\ (Tick \/ UNCHANGED now)
<1>1. \A p, a : Ends(p, a) => UNCHANGED <<db, now>>
  BY DEF Ends, TablesKept, db
<1>2. \A p, label : GoesOn(p, label) => UNCHANGED <<db, now>>
  BY DEF GoesOn, TablesKept, db
<1>3. ASSUME NEW p \in Processor, NEW c \in Commands, Receive(p, c) PROVE UNCHANGED <<db, now>>
  BY <1>3 DEF Receive
<1>4. ASSUME NEW r \in Resolver, findDuePendingReference(r) PROVE UNCHANGED <<db, now>>
  BY <1>4 DEF findDuePendingReference
<1>5. ASSUME NEW p \in Worker, lockWallet(p) PROVE UNCHANGED <<db, now>>
  BY <1>1, <1>2, <1>5, LockEffect
<1>6. ASSUME NEW p \in Worker, Recheck(p) PROVE UNCHANGED <<db, now>>
  BY <1>1, <1>2, <1>6, RecheckEffect
<1>7. ASSUME NEW p \in Worker, CheckExternal(p) PROVE UNCHANGED <<db, now>>
  BY <1>1, <1>2, <1>7, ExternalEffect
<1>8. ASSUME NEW p \in Worker, NEW ref, NEW reversed, Decide(p, ref, reversed)
      PROVE  UNCHANGED <<db, now>>
  BY <1>1, <1>2, <1>8, DecideEffect
<1>9. ASSUME NEW p \in Worker, Consult(p) PROVE UNCHANGED <<db, now>>
  BY <1>2, <1>8, <1>9, ConsultEffect
<1>10. ASSUME NEW p \in Worker, CheckReversed(p) PROVE UNCHANGED <<db, now>>
  BY <1>8, <1>10 DEF CheckReversed
<1>11. ASSUME NEW p \in Worker, Write(p) PROVE UNCHANGED <<db, now>>
  BY <1>1, <1>2, <1>11, WriteEffect
<1>12. ASSUME NEW p \in Worker, Abort(p) PROVE UNCHANGED <<db, now>>
  BY <1>1, <1>12, FinishEffect DEF Abort
<1>13. ASSUME Tick \/ UNCHANGED vars PROVE UNCHANGED db /\ (Tick \/ UNCHANGED now)
  BY <1>13 DEF Tick, vars, db
<1> QED BY <1>3, <1>4, <1>5, <1>6, <1>7, <1>9, <1>10, <1>11, <1>12, <1>13
        DEF Next, Advance

\* A new wallet, table by table.
LEMMA CreateEffect ==
  ASSUME IInv, NEW w \in Wallet, NEW o \in Openings, CreateWallet(w, o)
  PROVE  LET v == NewWallet(o)
             opening == createOpeningTransaction(w, v)
         IN  /\ wallets[w] = None /\ ledger[w] = <<>>
             /\ v \in WalletRow /\ v.version = 1
             /\ opening.entries \in Seq(LedgerEntry) /\ opening.events \in Seq(Event)
             /\ wallets'[w] = v
             /\ ledger'[w] = ledger[w] \o opening.entries
             /\ outbox'[w] = outbox[w] \o opening.events
             /\ \A u \in Wallet \ {w} : wallets'[u] = wallets[u] /\ ledger'[u] = ledger[u]
             /\ \A x \in (Ext \cup Wallet) \ {w} : outbox'[x] = outbox[x]
             /\ UNCHANGED <<wagers, now, pc, row, held, found, at, draft, reply>>
<1> DEFINE v == NewWallet(o)
           opening == createOpeningTransaction(w, v)
<1>1. v \in WalletRow /\ v.version = 1
  BY OpeningsAssumption, MaxIntAssumption DEF NewWallet, WalletRow
<1>2. opening.entries \in Seq(LedgerEntry) /\ opening.events \in Seq(Event)
  BY <1>1, OpeningExplains
<1>3. /\ wallets[w] = None
      /\ wallets' = [wallets EXCEPT ![w] = v]
      /\ ledger' = [ledger EXCEPT ![w] = @ \o opening.entries]
      /\ outbox' = [outbox EXCEPT ![w] = @ \o opening.events]
      /\ UNCHANGED <<wagers, now, pc, row, held, found, at, draft, reply>>
  BY DEF CreateWallet, local
<1> HIDE DEF v, opening
<1>4. ledger[w] = <<>>
  BY <1>3 DEF IInv, LedgerExplainsWallet
<1>5. /\ wallets'[w] = v /\ ledger'[w] = ledger[w] \o opening.entries
      /\ outbox'[w] = outbox[w] \o opening.events
  BY <1>3 DEF IInv, TypeOK
<1>6. /\ \A u \in Wallet \ {w} : wallets'[u] = wallets[u] /\ ledger'[u] = ledger[u]
      /\ \A x \in (Ext \cup Wallet) \ {w} : outbox'[x] = outbox[x]
  BY <1>3 DEF IInv, TypeOK
<1> QED BY <1>1, <1>2, <1>3, <1>4, <1>5, <1>6 DEF v, opening

\* Ledger entries and events are only appended.
LEMMA LogsGrow ==
  ASSUME IInv, [Next]_vars
  PROVE  /\ \A w \in Wallet : SubSeq(ledger'[w], 1, Len(ledger[w])) = ledger[w]
         /\ \A x \in Ext \cup Wallet : SubSeq(outbox'[x], 1, Len(outbox[x])) = outbox[x]
<1>1. /\ \A w \in Wallet : ledger[w] \in Seq(LedgerEntry)
      /\ \A x \in Ext \cup Wallet : outbox[x] \in Seq(Event)
      /\ TypeOK
  BY DEF IInv, TypeOK
<1> DEFINE Grows(s, t, S) == t = s \/ \E u \in Seq(S) : t = s \o u
<1>2. ASSUME NEW S, NEW s \in Seq(S), NEW t, Grows(s, t, S)
      PROVE  SubSeq(t, 1, Len(s)) = s
  <2>1. CASE t = s
    <3>1. <<>> \in Seq(S)
      OBVIOUS
    <3> QED BY <2>1, <3>1, PrefixKept
  <2>2. CASE \E u \in Seq(S) : t = s \o u
    BY <2>2, PrefixKept
  <2> QED BY <1>2, <2>1, <2>2
<1>3. /\ \A w \in Wallet : Grows(ledger[w], ledger'[w], LedgerEntry)
      /\ \A x \in Ext \cup Wallet : Grows(outbox[x], outbox'[x], Event)
  <2>1. CASE UNCHANGED db
    BY <2>1 DEF db
  <2>2. ASSUME NEW p \in Worker, Commit(p)
        PROVE  /\ \A w \in Wallet : Grows(ledger[w], ledger'[w], LedgerEntry)
               /\ \A x \in Ext \cup Wallet : Grows(outbox[x], outbox'[x], Event)
    <3> DEFINE d == draft[p]
               x == row[p].req.ext
               w == row[p].req.wallet
    <3>1. /\ d \in Draft
          /\ ledger'[w] = ledger[w] \o d.entries
          /\ \A v \in Wallet \ {w} : ledger'[v] = ledger[v]
          /\ outbox'[x] = outbox[x] \o d.events
          /\ \A y \in (Ext \cup Wallet) \ {x} : outbox'[y] = outbox[y]
      BY <2>2, CommitEffect
    <3>2. d.entries \in Seq(LedgerEntry) /\ d.events \in Seq(Event)
      BY <3>1 DEF Draft
    <3> HIDE DEF d, x, w
    <3> QED BY <3>1, <3>2
  <2>3. ASSUME NEW w \in Wallet, NEW o \in Openings, CreateWallet(w, o)
        PROVE  /\ \A v \in Wallet : Grows(ledger[v], ledger'[v], LedgerEntry)
               /\ \A x \in Ext \cup Wallet : Grows(outbox[x], outbox'[x], Event)
    <3> DEFINE opening == createOpeningTransaction(w, NewWallet(o))
    <3>1. /\ opening.entries \in Seq(LedgerEntry) /\ opening.events \in Seq(Event)
          /\ ledger'[w] = ledger[w] \o opening.entries
          /\ outbox'[w] = outbox[w] \o opening.events
          /\ \A u \in Wallet \ {w} : ledger'[u] = ledger[u]
          /\ \A x \in (Ext \cup Wallet) \ {w} : outbox'[x] = outbox[x]
      BY <2>3, CreateEffect
    <3> HIDE DEF opening
    <3> QED BY <3>1
  <2> QED BY <1>1, <2>1, <2>2, <2>3, TablesStep
<1> HIDE DEF Grows
<1> QED BY <1>1, <1>2, <1>3

-----------------------------------------------------------------------------
(* The theorems.                                                             *)

HInv == IInv /\ Identity /\ References /\ Answers

\* The empty database satisfies the invariant.
LEMMA InitHInv == Init => HInv
<1> SUFFICES ASSUME Init PROVE HInv
  OBVIOUS
<1>1. IInv
  BY InitIInv
<1>2. /\ \A p \in Worker : pc[p] = "idle" /\ reply[p] = None
      /\ \A x \in Ext : wagers[x] = None
      /\ \A p \in Processor : p \in Worker
      /\ \A r \in Resolver : r \in Worker
  BY DEF Init, Worker
<1>3. Identity
  BY <1>2 DEF Identity, StoredWell, UniqueKeys, ClaimIsCurrent, ClaimsExclude,
              WorkRow, Decided, InsertIsNew, WritesExclude
<1>4. References
  BY <1>2 DEF References, StoredReversal, OneReversal, FoundKept, DecisionKept
<1>5. Answers
  BY <1>2 DEF Answers, FirstTime, Founded, TrueAnswer
<1> QED BY <1>1, <1>3, <1>4, <1>5 DEF HInv

\* Every step keeps the layers, each with the help of those below it.
LEMMA NextHInv == HInv /\ [Next]_vars => HInv'
BY NextIInv, NextIdentity, NextReferences, NextAnswers DEF HInv

\* The layered invariant holds in every reachable state.
THEOREM HistoryInvariance == Spec => []HInv
<1> QED BY InitHInv, NextHInv, PTL DEF Spec

\* FOR UPDATE SKIP LOCKED works: between its claim and its commit a resolver
\* works on the pending row as it is stored.
THEOREM ClaimsAreEffective == Spec => []ClaimIsCurrent
<1>1. HInv => ClaimIsCurrent
  BY DEF HInv, Identity
<1> QED BY <1>1, HistoryInvariance, PTL

\* The wallet lock alone prevents double reversals and lost updates of pending
\* rows: the database constraints behind it are never hit.
THEOREM BackstopsNeverFire == Spec => []BackstopsStayIdle
<1>1. HInv => BackstopsStayIdle
  BY BackstopsIdle DEF HInv, BackstopsStayIdle
<1> QED BY <1>1, HistoryInvariance, PTL

\* The foreign key of a referenced transaction never waits for a claim.
THEOREM ForeignKeysAreFree == Spec => []ForeignKeyNeverWaits
<1>1. HInv => ForeignKeyNeverWaits
  <2> SUFFICES ASSUME HInv, NEW p \in Worker, pc[p] \in {"write", "commit"},
                      draft[p].row.refd # None, Claimed(draft[p].row.refd)
               PROVE  FALSE
    BY DEF ForeignKeyNeverWaits
  <2> DEFINE x == draft[p].row.refd
  <2>1. Decision(draft[p], row[p], RefOf(row[p]), Reversed(row[p]))
    BY DEF HInv, References, DecisionKept
  <2>2. row[p].refd = None
    BY DEF HInv, Identity, WorkRow
  <2>3. x = row[p].req.ref /\ ~Unresolved(RefOf(row[p]))
    BY <2>1, <2>2 DEF Decision, Pends, Rejects, Loses, Settles, Records
  <2>4. ~Unresolved(wagers[x])
    BY <2>3 DEF RefOf
  <2>5. PICK r \in Resolver : pc[r] # "idle" /\ row[r].req.ext = x
    BY DEF Claimed
  <2>6. r \in Worker /\ row[r] = wagers[x] /\ row[r].state = "PENDING_REFERENCE"
    BY <2>5 DEF Worker, HInv, Identity, ClaimIsCurrent, IInv, RowKept
  <2> QED BY <2>4, <2>6 DEF Unresolved
<1> QED BY <1>1, HistoryInvariance, PTL

\* A client that repeats its command is never refused because of itself.
THEOREM ConflictsAreReal == Spec => []DuplicatesNeverConflict
<1>1. HInv => DuplicatesNeverConflict
  <2> SUFFICES ASSUME HInv, NEW p \in Processor, reply[p] # None,
                      reply[p].outcome \in {"IDEMPOTENCY_CONFLICT", "EXTERNAL_EXISTS",
                                            "INTERNAL"},
                      NEW y \in Ext, wagers[y] # None,
                      wagers[y].key = reply[p].key, wagers[y].req = reply[p].req
               PROVE  FALSE
    BY DEF DuplicatesNeverConflict
  <2>1. PICK x \in Ext : /\ wagers[x] # None
                         /\ wagers[x].key # reply[p].key \/ wagers[x].req # reply[p].req
                         /\ wagers[x].key = reply[p].key \/ x = reply[p].req.ext
    BY DEF HInv, Answers, Founded
  <2>2. wagers[y].req.ext = y
    BY DEF HInv, Identity, StoredWell
  <2>3. x = y
    BY <2>1, <2>2 DEF HInv, Identity, UniqueKeys
  <2> QED BY <2>1, <2>3
<1> QED BY <1>1, HistoryInvariance, PTL

\* Every terminal answer, first or replayed, stays the stored outcome.
THEOREM AnswersAreFinal == Spec => []AnswersStayTrue
<1>1. HInv => AnswersStayTrue
  BY DEF HInv, Answers, TrueAnswer, AnswersStayTrue
<1> QED BY <1>1, HistoryInvariance, PTL

\* No stored command is lost or altered, no terminal state is left, and the
\* ledger and the outbox only grow.
THEOREM HistoryOnlyGrows == Spec => HistoryIsKept
<1> DEFINE Kept == /\ \A x \in Ext : wagers[x] # None =>
                        /\ wagers'[x] # None
                        /\ wagers'[x].key = wagers[x].key
                        /\ wagers'[x].req = wagers[x].req
                        /\ wagers[x].state \in Terminal => wagers'[x] = wagers[x]
                   /\ \A w \in Wallet : SubSeq(ledger'[w], 1, Len(ledger[w])) = ledger[w]
                   /\ \A x \in Ext \cup Wallet :
                        SubSeq(outbox'[x], 1, Len(outbox[x])) = outbox[x]
<1>1. HInv /\ [Next]_vars => Kept
  <2> SUFFICES ASSUME HInv, [Next]_vars PROVE Kept
    OBVIOUS
  <2>1. RowsKept
    BY NextIdentity DEF HInv
  <2>2. /\ \A w \in Wallet : SubSeq(ledger'[w], 1, Len(ledger[w])) = ledger[w]
        /\ \A x \in Ext \cup Wallet : SubSeq(outbox'[x], 1, Len(outbox[x])) = outbox[x]
    BY LogsGrow DEF HInv
  <2> QED BY <2>1, <2>2 DEF RowsKept, Terminal
<1>2. HInv /\ [Next]_vars => [Kept]_vars
  BY <1>1
<1> QED BY <1>2, HistoryInvariance, PTL DEF Spec, HistoryIsKept
=============================================================================
