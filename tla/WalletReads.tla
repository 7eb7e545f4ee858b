------------------------------ MODULE WalletReads -----------------------------
(***************************************************************************)
(* The readers of one wallet while others write to it: Reconcile, which    *)
(* compares the stored balance with the ledger, and LedgerPage, through    *)
(* which a client walks the ledger page by page.                           *)
(*                                                                         *)
(* A write is one transaction of WagerTx: it holds the wallet lock, takes  *)
(* time.Now() under it, and commits the new balance with one ledger entry. *)
(* Writers run on several instances, whose clocks may differ by Skew.      *)
(* Rows of ledger_entries are immutable (a trigger refuses UPDATE and      *)
(* DELETE), but the balance may be changed behind the platform's back;     *)
(* that is what reconciliation is there to find.                           *)
(***************************************************************************)
EXTENDS MoneyText, Sequences, SequencesExt, FiniteSets

CONSTANTS
  Texts,          \* amounts as clients write them
  MaxEntries,     \* bound of the ledger
  Skew,           \* how far the clock of an instance may be ahead
  Fixes,          \* balances that somebody may write directly
  DefaultPage,    \* DefaultLedgerPageSize, 50
  MaxPage,        \* MaxLedgerPageSize, 100
  Limits          \* values of the query parameter limit; None when absent

ASSUME ReadAssumption ==
  /\ Texts \subseteq Text
  /\ MaxEntries \in Nat /\ Skew \in Nat
  /\ Fixes \subseteq 0..MaxInt
  /\ {DefaultPage, MaxPage} \subseteq Nat \ {0} /\ DefaultPage <= MaxPage
  /\ Limits \subseteq Int \cup {None}
  /\ None \notin [at: Nat, id: Nat]

VARIABLES
  ledger,     \* ledger_entries of the wallet, in commit order
  balance,    \* wallets.balance
  snapshot,   \* what the reconciler's transaction sees, None outside of one
  report,     \* a ReconciliationResult, with the snapshot it is about
  walk        \* a client's walk: what it has been given, from which cursor on

vars == <<ledger, balance, snapshot, report, walk>>

Entry == [id: 1..MaxEntries, at: Nat, dir: {"CREDIT", "DEBIT"}, amount: 0..MaxInt,
          before: 0..MaxInt, after: 0..MaxInt, text: Text]

Snapshot == [balance: 0..MaxInt, entries: 0..MaxEntries]

NoWalk == [got |-> <<>>, cursor |-> None, begun |-> None, done |-> FALSE]

\* Rows are within int64 and results have the shape of the Go structs; the
\* balance of a ledger entry is never negative.
TypeOK ==
  /\ ledger \in Seq(Entry)
  /\ balance \in 0..MaxInt
  /\ snapshot \in Snapshot \cup {None}
  /\ \/ report = None
     \/ /\ report.of \in Snapshot
        /\ report.consistent \in BOOLEAN
        /\ report.difference \in (-MaxInt)..MaxInt
        /\ report.text \in Text
        /\ report.checked \in Nat
  /\ walk.got \in Seq(Entry)

Init ==
  /\ ledger = <<>>
  /\ balance = 0
  /\ snapshot = None
  /\ report = None
  /\ walk = NoWalk

-----------------------------------------------------------------------------
(* Writes.                                                                   *)

\* A wager moves money.  The n-th commit happens at time n, the entry is stamped
\* by the clock of the instance, and its id is random.
MoveMoney(text, dir) ==
  LET amount == ParseMoney(text)
      used == {ledger[i].id : i \in DOMAIN ledger}
      after == IF dir = "CREDIT" THEN balance + amount ELSE balance - amount
  IN  /\ Len(ledger) < MaxEntries
      /\ amount # None
      /\ amount > 0
      /\ after \in 0..MaxInt
      /\ balance' = after
      /\ \E id \in (1..MaxEntries) \ used, ahead \in 0..Skew :
           ledger' = Append(ledger,
                       [id |-> id, at |-> Len(ledger) + 1 + ahead, dir |-> dir,
                        amount |-> amount, before |-> balance, after |-> after,
                        text |-> text])
      /\ UNCHANGED <<snapshot, report, walk>>

\* The balance is changed without a ledger entry.
Tamper(value) ==
  /\ balance' = value
  /\ UNCHANGED <<ledger, snapshot, report, walk>>

\* ORDER BY created_at, id
Precedes(e, f) == e.at < f.at \/ (e.at = f.at /\ e.id < f.id)

Ordered(entries) ==
  CHOOSE rows \in [1..Cardinality(entries) -> entries] :
    \A i, j \in DOMAIN rows : i < j => Precedes(rows[i], rows[j])

-----------------------------------------------------------------------------
(* Reconcile.                                                                *)

\* Readers change nothing that another one sees: one reader, which makes one
\* request after another, stands for all.
Idle == snapshot = None /\ report = None /\ walk = NoWalk

\* The client has read the answer, or gives its walk up.
Forget ==
  /\ report # None \/ walk # NoWalk
  /\ report' = None
  /\ walk' = NoWalk
  /\ UNCHANGED <<ledger, balance, snapshot>>

\* BEGIN ISOLATION LEVEL REPEATABLE READ and loadReconciliationWallet: the first
\* statement fixes what the whole transaction sees.
loadReconciliationWallet ==
  /\ Idle
  /\ snapshot' = [balance |-> balance, entries |-> Len(ledger)]
  /\ UNCHANGED <<ledger, balance, report, walk>>

\* Variant: READ COMMITTED, each statement sees what is committed by then.
VisibleNow == {ledger[i] : i \in DOMAIN ledger}

\* The ledger entries in the snapshot.
Visible == {ledger[i] : i \in 1..snapshot.entries}

Expected(entry) ==
  IF entry.dir = "CREDIT" THEN entry.before + entry.amount
  ELSE entry.before - entry.amount

\* The loop over the entries: each starts where the one before it ended, and its
\* own arithmetic holds.
calculateLedgerBalance(entries) ==
  IF entries = <<>> THEN [balance |-> 0, valid |-> TRUE]
  ELSE [balance |-> Last(entries).after,
        valid |-> \A i \in DOMAIN entries :
                    /\ i > 1 => entries[i].before = entries[i - 1].after
                    /\ Expected(entries[i]) = entries[i].after]

\* loadReconciliationLedger, the calculation, COMMIT and the response.
ReportLedger ==
  /\ snapshot # None
  /\ LET entries == Ordered(Visible)
         calculated == calculateLedgerBalance(entries)
         difference == snapshot.balance - calculated.balance
     IN  report' = [of |-> snapshot,
                    calculated |-> calculated.balance,
                    difference |-> difference,
                    text |-> String(difference),
                    consistent |-> calculated.valid /\ difference = 0,
                    checked |-> Len(entries)]
  /\ snapshot' = None
  /\ UNCHANGED <<ledger, balance, walk>>

\* A statement fails; the transaction is rolled back and an error returned.
ReconcileFails ==
  /\ snapshot # None
  /\ snapshot' = None
  /\ UNCHANGED <<ledger, balance, report, walk>>

-----------------------------------------------------------------------------
(* LedgerPage, behind GET /wallets/{id}/ledger.                              *)

\* The handler answers 400 to a limit that is not positive, and the service
\* caps it.
Accepted(limit) == IF limit = None THEN TRUE ELSE limit > 0

PageSize(limit) ==
  IF limit = None THEN DefaultPage ELSE IF limit > MaxPage THEN MaxPage ELSE limit

\* The keyset condition.
Beyond(cursor) ==
  {e \in {ledger[i] : i \in DOMAIN ledger} :
     cursor # None => e.at > cursor.at \/ (e.at = cursor.at /\ e.id > cursor.id)}

\* Variant: LIMIT limit, without the extra row.
RowsWithoutExtra(cursor, size) ==
  LET rows == Ordered(Beyond(cursor))
  IN  SubSeq(rows, 1, IF Len(rows) < size THEN Len(rows) ELSE size)

\* LIMIT limit + 1
Rows(cursor, size) ==
  LET rows == Ordered(Beyond(cursor))
  IN  SubSeq(rows, 1, IF Len(rows) < size + 1 THEN Len(rows) ELSE size + 1)

\* One page.  There is a next cursor when the extra row was found; it names the
\* last entry of the page.
LedgerPage(limit) ==
  /\ Idle \/ walk.begun # None
  /\ ~walk.done
  /\ Accepted(limit)
  /\ LET size == PageSize(limit)
         rows == Rows(walk.cursor, size)
         more == Len(rows) > size
         page == IF more THEN SubSeq(rows, 1, size) ELSE rows
     IN  walk' = [got |-> walk.got \o page,
                  cursor |-> IF more THEN [at |-> Last(page).at, id |-> Last(page).id]
                             ELSE None,
                  begun |-> IF walk.begun = None THEN Len(ledger) ELSE walk.begun,
                  done |-> ~more]
  /\ UNCHANGED <<ledger, balance, snapshot, report>>

-----------------------------------------------------------------------------

Next ==
  \/ \E text \in Texts, dir \in {"CREDIT", "DEBIT"} : MoveMoney(text, dir)
  \/ \E value \in Fixes : Tamper(value)
  \/ loadReconciliationWallet \/ ReportLedger \/ ReconcileFails
  \/ \E limit \in Limits : LedgerPage(limit)
  \/ Forget

Spec == Init /\ [][Next]_vars

-----------------------------------------------------------------------------
(* Properties.                                                               *)

Change(entry) == IF entry.dir = "CREDIT" THEN entry.amount ELSE -entry.amount

\* The sums of the changes, from the balance that the first entry found.
Sums[n \in 0..Len(ledger)] ==
  IF n = 0 THEN IF ledger = <<>> THEN 0 ELSE ledger[1].before
  ELSE Sums[n - 1] + Change(ledger[n])

\* The balance that the first n entries lead to.
Total(n) == IF n = 0 THEN 0 ELSE Sums[n]

\* The stamps of the first n entries agree with the order of their commits.
StampsInOrder(n) == \A i \in 2..n : Precedes(ledger[i - 1], ledger[i])

\* Nobody wrote to the balance between two of the first n entries.
Continuous(n) == \A i \in 2..n : ledger[i].before = ledger[i - 1].after

\* A report speaks of one instant, however many writes commit while it is made.
\* With stamps in commit order it says consistent exactly when, at its snapshot,
\* the entries continued each other and led to the stored balance, and the
\* difference is exact.  (The code takes the starting balance from the first
\* entry, so a balance that was wrong before it goes unseen.)
ReportIsTrue ==
  report # None =>
    LET n == report.of.entries
        exact == report.of.balance - Total(n)
    IN  /\ report.checked = n
        /\ StampsInOrder(n) =>
             /\ report.consistent <=> Continuous(n) /\ exact = 0
             /\ Continuous(n) => report.difference = exact

\* Amounts survive the way from a client's text to cents and back: the text of
\* a report denotes its difference, negative or not, and the ledger holds and
\* prints the very amount that was sent.  ParseMoney refuses an amount only for
\* its sign or because int64 cannot hold it, to the last cent.
AmountsAreExact ==
  /\ report # None => Cents(report.text) = report.difference
  /\ \A i \in DOMAIN ledger : String(ledger[i].amount) = ledger[i].text
  /\ \A text \in Texts :
       ParseMoney(text) = IF text.minus \/ Cents(text) > MaxInt THEN None ELSE Cents(text)

\* "Stable keyset pagination": pages never overlap or go back, an entry that
\* was there when the walk began is not left behind, and if stamps are in
\* commit order the walk is a prefix of the ledger, new entries included.
WalkIsFaithful ==
  /\ \A i, j \in DOMAIN walk.got : i < j => Precedes(walk.got[i], walk.got[j])
  /\ \A i \in DOMAIN ledger :
       \/ \E j \in DOMAIN walk.got : walk.got[j] = ledger[i]
       \/ walk.begun = None \/ i > walk.begun
       \/ ~walk.done /\ \A j \in DOMAIN walk.got : Precedes(walk.got[j], ledger[i])
  /\ StampsInOrder(Len(ledger)) => walk.got = SubSeq(ledger, 1, Len(walk.got))
=============================================================================
