---------------------------- MODULE WagerMoneyProofs ---------------------------
(***************************************************************************)
(* What the ledger and the outbox say of the wagers, for every value of    *)
(* the constants of WagerTx: two more layers of invariants on top of those *)
(* of WagerHistoryProofs.                                                  *)
(*   Entries    every entry belongs to a wager that is PROCESSED or to the *)
(*              opening of its wallet, and every such wager has one,       *)
(*   Telling    every event tells what the tables hold.                    *)
(* A third one, Unstored, keeps the wager of a command out of the ledger   *)
(* until its commit; from it no write can break the schema.                *)
(***************************************************************************)
EXTENDS WagerHistoryProofs

-----------------------------------------------------------------------------
(* Movements.                                                                *)

\* A stored row that has moved money.
Moved(r) == r # None /\ r.state = "PROCESSED" /\ r.req.kind # "LOSS"

\* The entry that wager r leaves in wallet w.
EntryOf(e, r, w) ==
  /\ Moved(r)
  /\ r.req.wallet = w
  /\ e.amount = r.req.amount
  /\ e.after = r.result
  /\ e.dir = DirectionOf(r.req, RefOf(r))

\* Entry i of wallet w is the opening one, or that of a wager.
EntryKnown(w, i) ==
  LET e == ledger[w][i]
  IN  e.txn = w \/ (e.txn \in Ext /\ EntryOf(e, wagers[e.txn], w))

\* A wager that has moved money has an entry in its wallet.
HasEntry(x) ==
  Moved(wagers[x]) =>
    \E i \in 1..Len(ledger[wagers[x].req.wallet]) :
      ledger[wagers[x].req.wallet][i].txn = x

EntriesDiffer(w) ==
  \A i, j \in 1..Len(ledger[w]) : ledger[w][i].txn = ledger[w][j].txn => i = j

\* The entry of a processed reversal comes after the one it undoes.
UndoesEarlier(y) ==
  (Moved(wagers[y]) /\ IsReversal(wagers[y])) =>
    LET s == ledger[wagers[y].req.wallet]
    IN  \E i, j \in 1..Len(s) : i < j /\ s[i].txn = wagers[y].refd /\ s[j].txn = y

Entries ==
  /\ \A w \in Wallet : EntriesDiffer(w) /\ \A i \in 1..Len(ledger[w]) : EntryKnown(w, i)
  /\ \A x \in Ext : HasEntry(x) /\ UndoesEarlier(x)

\* What is appended to a sequence leaves its elements where they are.
LEMMA AppendOne ==
  ASSUME NEW S, NEW s \in Seq(S), NEW e \in S
  PROVE  /\ s \o <<e>> \in Seq(S)
         /\ Len(s \o <<e>>) = Len(s) + 1 /\ Len(s) \in Nat
         /\ (s \o <<e>>)[Len(s) + 1] = e
         /\ \A i \in 1..Len(s) : (s \o <<e>>)[i] = s[i]
OBVIOUS

\* The direction of a wager that has moved money does not change any more.
LEMMA DirectionStable ==
  ASSUME TypeOK, References, RowsKept, NEW x \in Ext, Moved(wagers[x])
  PROVE  DirectionOf(wagers[x].req, RefOf(wagers[x]))'
           = DirectionOf(wagers[x].req, RefOf(wagers[x]))
<1>1. wagers'[x] = wagers[x]
  BY DEF Moved, RowsKept
<1>2. wagers[x] \in WagerRow
  BY DEF Moved, TypeOK
<1>3. CASE IsReversal(wagers[x])
  <2>1. Usable(wagers[x].req, RefOf(wagers[x]))
    BY <1>3 DEF References, StoredReversal, RefOf, Moved
  <2>2. PICK r \in WagerRow : r = wagers[x]
    BY <1>2
  <2>3. RefOf(r)' = RefOf(r)
    BY <2>1, <2>2, UsableMeans, RefOfStable
  <2>4. RefOf(wagers[x])' = RefOf(wagers[x])
    BY <1>1, <2>2, <2>3 DEF RefOf
  <2> QED BY <1>1, <2>4 DEF DirectionOf
<1>4. CASE ~IsReversal(wagers[x])
  BY <1>1, <1>4 DEF DirectionOf, IsReversal
<1> QED BY <1>3, <1>4

\* An entry that belongs to a wager goes on belonging to it.
LEMMA EntryStable ==
  ASSUME TypeOK, References, RowsKept, NEW x \in Ext, NEW e, NEW w,
         EntryOf(e, wagers[x], w)
  PROVE  /\ wagers'[x] = wagers[x]
         /\ EntryOf(e, wagers[x], w)'
<1>1. Moved(wagers[x]) /\ wagers'[x] = wagers[x]
  BY DEF EntryOf, Moved, RowsKept
<1>2. DirectionOf(wagers[x].req, RefOf(wagers[x]))'
           = DirectionOf(wagers[x].req, RefOf(wagers[x]))
  BY <1>1, DirectionStable
<1>3. e.dir = DirectionOf(wagers'[x].req, RefOf(wagers[x])')
  BY <1>2 DEF EntryOf
<1> QED BY <1>1, <1>3 DEF EntryOf, Moved

\* A step that writes no ledger entry, and needs none.
LEMMA EntriesSilent ==
  ASSUME TypeOK, References, RowsKept, Entries, UNCHANGED ledger,
         \A x \in Ext : Moved(wagers'[x]) => Moved(wagers[x])
  PROVE  Entries'
<1>1. ASSUME NEW w \in Wallet, NEW i \in 1..Len(ledger[w]) PROVE EntryKnown(w, i)'
  <2>1. PICK e \in LedgerEntry : e = ledger[w][i]
    BY DEF TypeOK
  <2>2. e.txn = w \/ (e.txn \in Ext /\ EntryOf(e, wagers[e.txn], w))
    BY <2>1 DEF Entries, EntryKnown
  <2>3. e.txn = w \/ (e.txn \in Ext /\ EntryOf(e, wagers[e.txn], w)')
    BY <2>2, EntryStable
  <2>4. e = ledger'[w][i]
    BY <2>1
  <2> QED BY <2>3, <2>4 DEF EntryKnown, EntryOf
<1>2. ASSUME NEW w \in Wallet PROVE EntriesDiffer(w)'
  BY DEF Entries, EntriesDiffer
<1>3. ASSUME NEW x \in Ext PROVE HasEntry(x)' /\ UndoesEarlier(x)'
  <2>1. Moved(wagers'[x]) => Moved(wagers[x]) /\ wagers'[x] = wagers[x]
    BY DEF Moved, RowsKept
  <2>2. HasEntry(x) /\ UndoesEarlier(x)
    BY DEF Entries
  <2>3. HasEntry(x)'
    BY <2>1, <2>2 DEF HasEntry, Moved
  <2>4. UndoesEarlier(x)'
    BY <2>1, <2>2 DEF UndoesEarlier, Moved, IsReversal
  <2> QED BY <2>3, <2>4
<1> QED BY <1>1, <1>2, <1>3 DEF Entries

\* The row that the new entry e of wallet w is for: a reversal finds the entry
\* it undoes in place.
EntryFor(x, e, w) ==
  /\ e.txn = x
  /\ wagers'[x].req.wallet = w
  /\ IsReversal(wagers'[x]) =>
       \E i \in 1..Len(ledger[w]) : ledger[w][i].txn = wagers'[x].refd

\* A step that writes one entry, for the opening of a wallet or for the one
\* wager that now has moved money.
LEMMA EntriesAppend ==
  ASSUME TypeOK, References, RowsKept, Entries, NEW w \in Wallet, NEW e \in LedgerEntry,
         ledger'[w] = ledger[w] \o <<e>>,
         \A v \in Wallet \ {w} : ledger'[v] = ledger[v],
         \A i \in 1..Len(ledger[w]) : ledger[w][i].txn # e.txn,
         e.txn = w \/ (e.txn \in Ext /\ EntryOf(e, wagers[e.txn], w)'),
         \A x \in Ext : Moved(wagers'[x]) => Moved(wagers[x]) \/ EntryFor(x, e, w)
  PROVE  Entries'
<1> PICK s \in Seq(LedgerEntry) : s = ledger[w]
  BY DEF TypeOK
<1> DEFINE n == Len(s)
<1>1. /\ n \in Nat /\ n = Len(ledger[w])
      /\ Len(ledger'[w]) = n + 1
      /\ ledger'[w][n + 1] = e
      /\ \A i \in 1..n : ledger'[w][i] = ledger[w][i]
  BY AppendOne
<1>2. ASSUME NEW v \in Wallet
      PROVE  /\ Len(ledger[v]) \in Nat /\ Len(ledger'[v]) \in Nat
             /\ Len(ledger[v]) <= Len(ledger'[v])
             /\ \A i \in 1..Len(ledger[v]) : ledger'[v][i] = ledger[v][i]
  <2>1. ledger[v] \in Seq(LedgerEntry) /\ Len(ledger[v]) \in Nat
    BY DEF TypeOK
  <2>2. CASE v = w
    BY <1>1, <2>1, <2>2
  <2>3. CASE v # w
    BY <2>1, <2>3
  <2> QED BY <2>2, <2>3
<1> HIDE DEF n
<1>3. ASSUME NEW v \in Wallet, NEW i \in 1..Len(ledger[v]) PROVE EntryKnown(v, i)'
  <2>1. PICK f \in LedgerEntry : f = ledger[v][i]
    BY DEF TypeOK
  <2>2. f.txn = v \/ (f.txn \in Ext /\ EntryOf(f, wagers[f.txn], v))
    BY <2>1 DEF Entries, EntryKnown
  <2>3. f.txn = v \/ (f.txn \in Ext /\ EntryOf(f, wagers[f.txn], v)')
    BY <2>2, EntryStable
  <2>4. f = ledger'[v][i]
    BY <1>2, <2>1
  <2> QED BY <2>3, <2>4 DEF EntryKnown, EntryOf
<1>4. EntryKnown(w, n + 1)'
  BY <1>1 DEF EntryKnown, EntryOf
<1>5. ASSUME NEW v \in Wallet, NEW i \in 1..Len(ledger'[v]) PROVE EntryKnown(v, i)'
  <2>1. CASE i \in 1..Len(ledger[v])
    BY <1>3, <2>1
  <2>2. CASE i \notin 1..Len(ledger[v])
    <3>1. v = w /\ i = n + 1
      BY <1>1, <2>2
    <3> QED BY <1>4, <3>1
  <2> QED BY <2>1, <2>2
<1>6. ASSUME NEW v \in Wallet PROVE EntriesDiffer(v)'
  <2>1. EntriesDiffer(v)
    BY DEF Entries
  <2>2. CASE v # w
    BY <2>1, <2>2 DEF EntriesDiffer
  <2>3. CASE v = w
    <3> SUFFICES ASSUME NEW i \in 1..(n + 1), NEW j \in 1..(n + 1),
                        ledger'[w][i].txn = ledger'[w][j].txn
                 PROVE  i = j
      BY <1>1, <2>3 DEF EntriesDiffer
    <3>1. \A k \in 1..n : ledger'[w][k].txn # e.txn
      BY <1>1
    <3>2. CASE i \in 1..n /\ j \in 1..n
      BY <1>1, <2>1, <2>3, <3>2 DEF EntriesDiffer
    <3>3. CASE i = n + 1 \/ j = n + 1
      BY <1>1, <3>1, <3>3
    <3> QED BY <1>1, <3>2, <3>3
  <2> QED BY <2>2, <2>3
<1>7. ASSUME NEW x \in Ext PROVE HasEntry(x)' /\ UndoesEarlier(x)'
  <2>1. HasEntry(x) /\ UndoesEarlier(x)
    BY DEF Entries
  <2>2. CASE Moved(wagers[x])
    <3>1. wagers'[x] = wagers[x] /\ wagers[x].req.wallet \in Wallet
      BY <2>2 DEF Moved, RowsKept, TypeOK, WagerRow, Request
    <3>2. PICK v \in Wallet : v = wagers[x].req.wallet
      BY <3>1
    <3>3. \A i \in 1..Len(ledger[v]) :
            i \in 1..Len(ledger'[v]) /\ ledger'[v][i] = ledger[v][i]
      BY <1>2
    <3>4. \E i \in 1..Len(ledger'[v]) : ledger'[v][i].txn = x
      BY <2>1, <2>2, <3>2, <3>3 DEF HasEntry
    <3>5. IsReversal(wagers[x]) =>
            \E i, j \in 1..Len(ledger'[v]) :
              /\ i < j /\ ledger'[v][i].txn = wagers[x].refd
              /\ ledger'[v][j].txn = x
      <4> SUFFICES ASSUME IsReversal(wagers[x])
                   PROVE  \E i, j \in 1..Len(ledger'[v]) :
                            /\ i < j /\ ledger'[v][i].txn = wagers[x].refd
                            /\ ledger'[v][j].txn = x
        OBVIOUS
      <4>1. PICK i \in 1..Len(ledger[v]), j \in 1..Len(ledger[v]) :
              i < j /\ ledger[v][i].txn = wagers[x].refd /\ ledger[v][j].txn = x
        BY <2>1, <2>2, <3>2 DEF UndoesEarlier
      <4> QED BY <3>3, <4>1
    <3>6. HasEntry(x)'
      BY <3>1, <3>2, <3>4 DEF HasEntry
    <3>7. UndoesEarlier(x)'
      BY <3>1, <3>2, <3>5 DEF UndoesEarlier, IsReversal
    <3> QED BY <3>6, <3>7
  <2>3. CASE Moved(wagers'[x]) /\ EntryFor(x, e, w)
    <3>1. wagers'[x].req.wallet = w /\ e.txn = x /\ n + 1 \in 1..Len(ledger'[w])
          /\ ledger'[w][n + 1].txn = x
      BY <1>1, <2>3 DEF EntryFor
    <3>2. HasEntry(x)'
      BY <3>1 DEF HasEntry
    <3>3. UndoesEarlier(x)'
      <4> SUFFICES ASSUME IsReversal(wagers'[x])
                   PROVE  \E i, j \in 1..Len(ledger'[w]) :
                            /\ i < j /\ ledger'[w][i].txn = wagers'[x].refd
                            /\ ledger'[w][j].txn = x
        BY <3>1 DEF UndoesEarlier, IsReversal
      <4>1. PICK i \in 1..n : ledger[w][i].txn = wagers'[x].refd
        BY <1>1, <2>3 DEF EntryFor
      <4>2. i < n + 1 /\ i \in 1..Len(ledger'[w]) /\ ledger'[w][i] = ledger[w][i]
        BY <1>1, <1>2, <4>1
      <4> QED BY <3>1, <4>1, <4>2
    <3> QED BY <3>2, <3>3
  <2>4. CASE ~Moved(wagers'[x])
    BY <2>4 DEF HasEntry, UndoesEarlier, Moved
  <2> QED BY <2>2, <2>3, <2>4
<1> QED BY <1>5, <1>6, <1>7 DEF Entries

\* A usable reference has moved money in the wallet of the request.
LEMMA UsableMoved ==
  ASSUME NEW req, NEW ref, Usable(req, ref)
  PROVE  Moved(ref) /\ ref.req.wallet = req.wallet
<1>1. ReferenceKinds(req.kind) \subseteq {"BET", "WIN", "REFUND"}
  BY DEF ReferenceKinds
<1> QED BY <1>1, UsableMeans DEF Moved

\* Only a settlement moves money.
LEMMA OnlySettlementsMove ==
  ASSUME NEW d, NEW r, NEW ref, NEW reversed, Decision(d, r, ref, reversed)
  PROVE  \/ d.entries = <<>> /\ ~Moved(d.row)
         \/ Settles(d, r, ref, reversed)
BY DEF Decision, Pends, Rejects, Loses, Moved

\* The commit writes the entry of the wager that it makes PROCESSED, and none
\* otherwise.
LEMMA EntriesCommit ==
  ASSUME IInv, Identity, References, Entries, IInv', NEW p \in Worker, Commit(p)
  PROVE  Entries'
<1> DEFINE d == draft[p]
<1>1. PICK r \in WagerRow : r = row[p]
  BY CommitEffect
<1> DEFINE x == r.req.ext
           w == r.req.wallet
<1>2. /\ pc[p] = "commit"
      /\ x \in Ext /\ w \in Wallet
      /\ d \in Draft /\ d.row.req = r.req
      /\ wagers'[x] = d.row
      /\ \A y \in Ext \ {x} : wagers'[y] = wagers[y]
      /\ ledger'[w] = ledger[w] \o d.entries
      /\ \A v \in Wallet \ {w} : ledger'[v] = ledger[v]
  BY <1>1, CommitEffect
<1>3. RowsKept /\ TypeOK /\ TypeOK'
  BY CommitKeepsRows DEF IInv
<1>4. ~Moved(wagers[x]) /\ d.row # None
  BY <1>1, <1>2, CommitReplaces DEF Worker, Moved
<1>5. Decision(d, r, RefOf(r), Reversed(r))
  BY <1>1, <1>2 DEF References, DecisionKept
<1> HIDE DEF d, x, w
<1>6. CASE d.entries = <<>> /\ ~Moved(d.row)
  <2>1. ledger[w] \o <<>> = ledger[w]
    BY <1>2, <1>3 DEF TypeOK
  <2>2. UNCHANGED ledger
    BY <1>2, <1>3, <1>6, <2>1 DEF TypeOK
  <2>3. \A y \in Ext : Moved(wagers'[y]) => Moved(wagers[y])
    BY <1>2, <1>6
  <2> QED BY <1>3, <2>2, <2>3, EntriesSilent
<1>7. CASE Settles(d, r, RefOf(r), Reversed(r))
  <2>1. PICK e \in LedgerEntry : /\ d.entries = <<e>>
                                 /\ e.txn = x
                                 /\ e.amount = r.req.amount
                                 /\ e.after = d.row.result
                                 /\ e.dir = DirectionOf(r.req, RefOf(r))
    BY <1>7 DEF Settles, x
  <2>2. ledger'[w] = ledger[w] \o <<e>>
    BY <1>2, <2>1
  <2>3. ASSUME NEW i \in 1..Len(ledger[w]) PROVE ledger[w][i].txn # e.txn
    <3>1. \/ ledger[w][i].txn = w
          \/ Moved(wagers[ledger[w][i].txn])
      BY <1>2 DEF Entries, EntryKnown, EntryOf
    <3> QED BY <1>2, <1>4, <2>1, <3>1, IdentityAssumption
  <2>4. DirectionOf(r.req, RefOf(r)') = DirectionOf(r.req, RefOf(r))
    <3>1. CASE IsReversal(r)
      <4>1. ~Unresolved(RefOf(r))
        BY <1>7, <3>1, UsableMeans DEF Settles
      <4> QED BY <1>3, <4>1, RefOfStable
    <3>2. CASE ~IsReversal(r)
      BY <3>2 DEF DirectionOf, IsReversal
    <3> QED BY <3>1, <3>2
  <2>5. EntryOf(e, wagers[x], w)'
    <3>1. Moved(d.row)
      BY <1>2, <1>4, <1>7 DEF Settles, Moved
    <3>2. RefOf(wagers[x])' = RefOf(r)'
      BY <1>2 DEF RefOf
    <3>3. e.dir = DirectionOf(r.req, RefOf(wagers[x])')
      BY <2>1, <2>4, <3>2
    <3>4. d.row.req.wallet = w /\ e.amount = d.row.req.amount /\ e.after = d.row.result
      BY <1>2, <2>1 DEF w
    <3> QED BY <1>2, <3>1, <3>3, <3>4 DEF EntryOf, Moved, x, w
  <2>6. EntryFor(x, e, w)
    <3>1. wagers'[x].req.wallet = w
      BY <1>2 DEF w
    <3> SUFFICES ASSUME IsReversal(wagers'[x])
                 PROVE  \E i \in 1..Len(ledger[w]) : ledger[w][i].txn = wagers'[x].refd
      BY <2>1, <3>1 DEF EntryFor
    <3>2. IsReversal(r)
      BY <1>2 DEF IsReversal
    <3>3. d.row.refd = r.req.ref /\ Usable(r.req, RefOf(r))
      BY <1>7, <3>2 DEF Settles
    <3>4. r.req.ref \in Ext /\ RefOf(r) = wagers[r.req.ref]
      BY <1>3, <3>3, UsableMeans, RefOfStable, NoneAssumption DEF RefOf
    <3>5. Moved(wagers[r.req.ref]) /\ wagers[r.req.ref].req.wallet = w
      BY <3>3, <3>4, UsableMoved DEF w
    <3>6. \E i \in 1..Len(ledger[w]) : ledger[w][i].txn = r.req.ref
      BY <3>4, <3>5 DEF Entries, HasEntry
    <3> QED BY <1>2, <3>3, <3>6
  <2>7. \A y \in Ext : Moved(wagers'[y]) => Moved(wagers[y]) \/ EntryFor(y, e, w)
    BY <1>2, <2>6
  <2>8. e.txn \in Ext /\ EntryOf(e, wagers[e.txn], w)'
    <3>1. (e.txn)' = x /\ e.txn = x
      BY <2>1 DEF x
    <3> QED BY <1>2, <2>5, <3>1
  <2> QED BY <1>2, <1>3, <2>2, <2>3, <2>7, <2>8, EntriesAppend
<1> QED BY <1>5, <1>6, <1>7, OnlySettlementsMove

\* A new wallet starts with its opening entry, or with none.
LEMMA EntriesCreate ==
  ASSUME IInv, References, Entries, IInv', NEW w \in Wallet, NEW o \in Openings,
         CreateWallet(w, o)
  PROVE  Entries'
<1> DEFINE v == NewWallet(o)
           opening == createOpeningTransaction(w, v)
<1>1. /\ ledger[w] = <<>>
      /\ ledger'[w] = ledger[w] \o opening.entries
      /\ \A u \in Wallet \ {w} : ledger'[u] = ledger[u]
      /\ wagers' = wagers
      /\ opening.entries \in Seq(LedgerEntry)
  BY CreateEffect
<1>2. RowsKept /\ TypeOK /\ TypeOK'
  BY <1>1 DEF RowsKept, IInv
<1>3. \A x \in Ext : Moved(wagers'[x]) => Moved(wagers[x])
  BY <1>1
<1>4. CASE v.balance = 0
  <2>1. opening.entries = <<>>
    BY <1>4 DEF createOpeningTransaction
  <2> HIDE DEF opening
  <2>2. UNCHANGED ledger
    BY <1>1, <1>2, <2>1 DEF TypeOK
  <2> QED BY <1>2, <1>3, <2>2, EntriesSilent
<1>5. CASE v.balance # 0
  <2>1. \E e : opening.entries = <<e>> /\ e.txn = w
    BY <1>5 DEF createOpeningTransaction
  <2>2. PICK e \in LedgerEntry : opening.entries = <<e>> /\ e.txn = w
    BY <1>1, <2>1
  <2> HIDE DEF opening
  <2>3. \A i \in 1..Len(ledger[w]) : ledger[w][i].txn # e.txn
    BY <1>1
  <2>4. ledger'[w] = ledger[w] \o <<e>>
    BY <1>1, <2>2
  <2> QED BY <1>1, <1>2, <1>3, <2>2, <2>3, <2>4, EntriesAppend
<1> QED BY <1>4, <1>5

\* Every step keeps ledger and wagers in agreement.
LEMMA NextEntries ==
  ASSUME IInv, Identity, References, Entries, [Next]_vars
  PROVE  Entries'
<1>1. IInv' /\ RowsKept /\ TypeOK
  BY NextIInv, NextIdentity DEF IInv
<1>2. ASSUME NEW p \in Worker, Commit(p) PROVE Entries'
  BY <1>1, <1>2, EntriesCommit
<1>3. ASSUME NEW w \in Wallet, NEW o \in Openings, CreateWallet(w, o) PROVE Entries'
  BY <1>1, <1>3, EntriesCreate
<1>4. ASSUME UNCHANGED db PROVE Entries'
  <2>1. UNCHANGED <<wagers, ledger>>
    BY <1>4 DEF db
  <2> QED BY <1>1, <2>1, EntriesSilent
<1> QED BY <1>1, <1>2, <1>3, <1>4, TablesStep

-----------------------------------------------------------------------------
(* Telling: what the outbox says of the tables.                              *)

TypesOf(s) == [i \in DOMAIN s |-> s[i].type]

EventType == {"WagerTransactionProcessed", "WagerTransactionRejected",
              "WagerTransactionPendingReference", "WalletBalanceChanged"}

\* The events of wager x are those of its stored state, in order.
WagerTold(x) ==
  TypesOf(outbox[x]) = IF wagers[x] = None THEN <<>> ELSE Announced(wagers[x])

\* The last event of an entry's transaction tells where the entry led.
Tells(event, e, version) ==
  /\ event.type = "WalletBalanceChanged"
  /\ event.balance = e.after
  /\ event.version = version

LastEvent(x) == outbox[x][Len(outbox[x])]

EntryTold(w, i) ==
  Tells(LastEvent(ledger[w][i].txn), ledger[w][i], i + Unfunded(w, ledger[w]))

Telling ==
  /\ \A x \in Ext : WagerTold(x)
  /\ \A w \in Wallet : \A i \in 1..Len(ledger[w]) : EntryTold(w, i)

\* Where the elements of a concatenation come from.
LEMMA ConcatAt ==
  ASSUME NEW S, NEW s \in Seq(S), NEW t \in Seq(S)
  PROVE  /\ s \o t \in Seq(S) /\ Len(s \o t) = Len(s) + Len(t)
         /\ Len(s) \in Nat /\ Len(t) \in Nat
         /\ \A i \in 1..Len(s) : (s \o t)[i] = s[i]
         /\ \A i \in 1..Len(t) : (s \o t)[i + Len(s)] = t[i]
OBVIOUS

\* Sequences with the same elements are equal.
LEMMA SameElements ==
  ASSUME NEW S, NEW s \in Seq(S), NEW t \in Seq(S), Len(s) = Len(t),
         \A i \in 1..Len(s) : s[i] = t[i]
  PROVE  s = t
OBVIOUS

\* Two sequences of one element make one of two.
LEMMA ConcatPair ==
  ASSUME NEW S, NEW a \in S, NEW b \in S
  PROVE  /\ <<a>> \o <<b>> = <<a, b>>
         /\ <<>> \o <<a>> = <<a>>
         /\ <<a>> \o <<>> = <<a>>
         /\ <<>> \o <<a, b>> = <<a, b>>
<1>1. <<a>> \o <<b>> \in Seq(S) /\ Len(<<a>> \o <<b>>) = 2
      /\ (<<a>> \o <<b>>)[1] = a /\ (<<a>> \o <<b>>)[2] = b
  OBVIOUS
<1>2. <<a, b>> \in Seq(S) /\ Len(<<a, b>>) = 2 /\ <<a, b>>[1] = a /\ <<a, b>>[2] = b
  OBVIOUS
<1>3. <<a>> \o <<b>> = <<a, b>>
  <2> DEFINE s == <<a>> \o <<b>>
             t == <<a, b>>
  <2>1. s \in Seq(S) /\ t \in Seq(S) /\ Len(s) = 2 /\ Len(t) = 2
        /\ s[1] = t[1] /\ s[2] = t[2]
    BY <1>1, <1>2
  <2> HIDE DEF s, t
  <2>2. \A i \in 1..Len(s) : s[i] = t[i]
    BY <2>1
  <2>3. s = t
    BY <2>1, <2>2, SameElements
  <2> QED BY <2>3 DEF s, t
<1>4. <<a>> \in Seq(S) /\ <<a, b>> \in Seq(S)
  OBVIOUS
<1>5. \A s \in Seq(S) : <<>> \o s = s /\ s \o <<>> = s
  OBVIOUS
<1> QED BY <1>3, <1>4, <1>5

\* The types of appended events are appended.
LEMMA TypesConcat ==
  ASSUME NEW s \in Seq(Event), NEW t \in Seq(Event)
  PROVE  TypesOf(s \o t) = TypesOf(s) \o TypesOf(t)
<1>1. ASSUME NEW u \in Seq(Event)
      PROVE  /\ TypesOf(u) \in Seq(EventType) /\ Len(TypesOf(u)) = Len(u)
             /\ \A i \in 1..Len(u) : TypesOf(u)[i] = u[i].type
  <2>1. \A i \in 1..Len(u) : u[i].type \in EventType
    <3>1. \A i \in 1..Len(u) : u[i] \in Event
      OBVIOUS
    <3>2. \A e \in Event : e.type \in EventType
      BY DEF Event, EventType
    <3> QED BY <3>1, <3>2
  <2> QED BY <2>1 DEF TypesOf
<1>2. /\ s \o t \in Seq(Event) /\ Len(s \o t) = Len(s) + Len(t)
      /\ Len(s) \in Nat /\ Len(t) \in Nat
      /\ \A i \in 1..Len(s) : (s \o t)[i] = s[i]
      /\ \A i \in 1..Len(t) : (s \o t)[i + Len(s)] = t[i]
  BY ConcatAt
<1> DEFINE a == TypesOf(s)
           b == TypesOf(t)
           c == TypesOf(s \o t)
<1>4. /\ a \in Seq(EventType) /\ Len(a) = Len(s)
      /\ \A i \in 1..Len(s) : a[i] = s[i].type
  BY <1>1
<1>5. /\ b \in Seq(EventType) /\ Len(b) = Len(t)
      /\ \A i \in 1..Len(t) : b[i] = t[i].type
  BY <1>1
<1>6. /\ c \in Seq(EventType) /\ Len(c) = Len(s) + Len(t)
      /\ \A i \in 1..(Len(s) + Len(t)) : c[i] = (s \o t)[i].type
  BY <1>1, <1>2
<1> HIDE DEF a, b, c
<1>7. /\ a \o b \in Seq(EventType) /\ Len(a \o b) = Len(s) + Len(t)
      /\ \A i \in 1..Len(s) : (a \o b)[i] = a[i]
      /\ \A i \in 1..Len(t) : (a \o b)[i + Len(s)] = b[i]
  <2>1. /\ a \o b \in Seq(EventType) /\ Len(a \o b) = Len(a) + Len(b)
        /\ \A i \in 1..Len(a) : (a \o b)[i] = a[i]
        /\ \A i \in 1..Len(b) : (a \o b)[i + Len(a)] = b[i]
    <3>1. a \in Seq(EventType) /\ b \in Seq(EventType)
      BY <1>4, <1>5
    <3> QED BY <3>1, ConcatAt
  <2> QED BY <1>4, <1>5, <2>1
<1>8. ASSUME NEW i \in 1..(Len(s) + Len(t)) PROVE c[i] = (a \o b)[i]
  <2>1. CASE i <= Len(s)
    <3>1. i \in 1..Len(s)
      BY <1>2, <2>1
    <3> QED BY <1>2, <1>4, <1>6, <1>7, <3>1
  <2>2. CASE i > Len(s)
    <3>1. PICK j \in 1..Len(t) : i = j + Len(s)
      <4>1. i - Len(s) \in 1..Len(t) /\ i = (i - Len(s)) + Len(s)
        BY <1>2, <2>2
      <4> QED BY <4>1
    <3>2. (a \o b)[i] = t[j].type
      BY <1>5, <1>7, <3>1
    <3>3. c[i] = t[j].type
      BY <1>2, <1>6, <3>1
    <3> QED BY <3>2, <3>3
  <2>3. i <= Len(s) \/ i > Len(s)
    <3>1. Len(s) \in Nat /\ i \in Int
      BY <1>2
    <3> QED BY <3>1
  <2> QED BY <2>1, <2>2, <2>3
<1>9. c = a \o b
  BY <1>6, <1>7, <1>8
<1> QED BY <1>9 DEF a, b, c

\* The types of the notices.
LEMMA NoticeTypes ==
  /\ TypesOf(<<>>) = <<>>
  /\ \A type : TypesOf(Notice(type)) = <<type>>
<1>1. TypesOf(<<>>) = <<>>
  BY DEF TypesOf
<1>2. ASSUME NEW type PROVE TypesOf(Notice(type)) = <<type>>
  <2> DEFINE e == [type |-> type, version |-> 0, balance |-> 0]
  <2>1. e.type = type /\ Notice(type) = <<e>>
    BY DEF Notice
  <2> HIDE DEF e
  <2>2. TypesOf(<<e>>) = <<e.type>>
    BY DEF TypesOf
  <2> QED BY <2>1, <2>2
<1> QED BY <1>1, <1>2

\* The types of the events of a movement, the last of which tells the wallet.
LEMMA MovementTypes ==
  ASSUME NEW v \in WalletRow
  PROVE  LET s == Notice("WagerTransactionProcessed") \o BalanceChanged(v)
         IN  /\ s \in Seq(Event) /\ Len(s) = 2
             /\ s[2].type = "WalletBalanceChanged"
             /\ s[2].version = v.version /\ s[2].balance = v.balance
             /\ TypesOf(s) = <<"WagerTransactionProcessed", "WalletBalanceChanged">>
<1> DEFINE n == [type |-> "WagerTransactionProcessed", version |-> 0, balance |-> 0]
           b == [type |-> "WalletBalanceChanged", version |-> v.version,
                 balance |-> v.balance]
<1>1. Notice("WagerTransactionProcessed") = <<n>> /\ BalanceChanged(v) = <<b>>
  BY DEF Notice, BalanceChanged
<1>2. Notice("WagerTransactionProcessed") \o BalanceChanged(v) \in Seq(Event)
  BY NoticeType, BalanceChangedType
<1>3. /\ n.type = "WagerTransactionProcessed"
      /\ b.type = "WalletBalanceChanged"
      /\ b.version = v.version /\ b.balance = v.balance
  OBVIOUS
<1> HIDE DEF n, b
<1>4. <<n>> \o <<b>> = <<n, b>>
  <2>1. n \in {n, b} /\ b \in {n, b}
    OBVIOUS
  <2> QED BY <2>1, ConcatPair
<1>5. TypesOf(<<n, b>>) = <<n.type, b.type>>
  BY DEF TypesOf
<1>6. <<n, b>> \in Seq(Event) /\ Len(<<n, b>>) = 2 /\ <<n, b>>[2] = b
  BY <1>1, <1>2, <1>4
<1>7. Notice("WagerTransactionProcessed") \o BalanceChanged(v) = <<n, b>>
  BY <1>1, <1>4
<1> QED BY <1>3, <1>5, <1>6, <1>7

\* What a row that waits or waited for its reference has announced before.
Earlier(r) ==
  IF r.expires # None THEN <<"WagerTransactionPendingReference">> ELSE <<>>

\* A stored pending row has announced that it waits, and no more.
LEMMA PendingAnnounced ==
  ASSUME NEW r, r.state = "PENDING_REFERENCE", r.expires # None
  PROVE  Announced(r) = <<"WagerTransactionPendingReference">> /\ Earlier(r) = Announced(r)
<1>1. Announced(r) = <<"WagerTransactionPendingReference">> \o <<>>
  BY DEF Announced
<1>2. "WagerTransactionPendingReference" \in EventType
  BY DEF EventType
<1>3. Announced(r) = <<"WagerTransactionPendingReference">>
  BY <1>1, <1>2, ConcatPair
<1> QED BY <1>3 DEF Earlier

\* The events of a decision are what its row has to announce beyond that.
LEMMA DecisionTold ==
  ASSUME NEW d \in Draft, NEW r, NEW ref, NEW reversed, Decision(d, r, ref, reversed)
  PROVE  Announced(d.row) = Earlier(r) \o TypesOf(d.events)
<1>1. d.wallet \in WalletRow /\ d.row.req = r.req
  BY DEF Draft, Decision
<1>2. CASE Pends(d, r)
  <2>1. Announced(d.row) = <<"WagerTransactionPendingReference">>
    BY <1>2, PendingAnnounced DEF Pends
  <2>2. "WagerTransactionPendingReference" \in EventType
    BY DEF EventType
  <2>3. CASE r.expires = None
    <3>1. /\ Earlier(r) = <<>>
          /\ TypesOf(d.events) = <<"WagerTransactionPendingReference">>
      BY <1>2, <2>3, NoticeTypes DEF Pends, Earlier
    <3> QED BY <2>1, <2>2, <3>1, ConcatPair
  <2>4. CASE r.expires # None
    <3>1. /\ Earlier(r) = <<"WagerTransactionPendingReference">>
          /\ TypesOf(d.events) = <<>>
      BY <1>2, <2>4, NoticeTypes DEF Pends, Earlier
    <3> QED BY <2>1, <2>2, <3>1, ConcatPair
  <2> QED BY <2>3, <2>4
<1>3. CASE Rejects(d, r, ref)
  <2>1. TypesOf(d.events) = <<"WagerTransactionRejected">>
    BY <1>3, NoticeTypes DEF Rejects
  <2>2. Announced(d.row) = Earlier(r) \o <<"WagerTransactionRejected">>
    BY <1>3 DEF Rejects, Announced, Earlier
  <2> QED BY <2>1, <2>2
<1>4. CASE Loses(d, r)
  <2>1. TypesOf(d.events) = <<"WagerTransactionProcessed">>
    BY <1>4, NoticeTypes DEF Loses
  <2>2. Announced(d.row) = Earlier(r) \o <<"WagerTransactionProcessed">>
    BY <1>1, <1>4 DEF Loses, Announced, Earlier
  <2> QED BY <2>1, <2>2
<1>5. CASE Settles(d, r, ref, reversed)
  <2>1. TypesOf(d.events) = <<"WagerTransactionProcessed", "WalletBalanceChanged">>
    BY <1>1, <1>5, MovementTypes DEF Settles
  <2>2. Announced(d.row)
          = Earlier(r) \o <<"WagerTransactionProcessed", "WalletBalanceChanged">>
    BY <1>1, <1>5 DEF Settles, Announced, Earlier
  <2> QED BY <2>1, <2>2
<1> QED BY <1>2, <1>3, <1>4, <1>5 DEF Decision

\* The events t that transaction x adds tell of the entry it adds to wallet w,
\* if it adds one.
TellsEntry(x, w, t) ==
  \/ ledger'[w] = ledger[w]
  \/ \E e \in LedgerEntry, v \in WalletRow :
       /\ ledger'[w] = ledger[w] \o <<e>>
       /\ e.txn = x
       /\ wallets'[w] = v
       /\ t = Notice("WagerTransactionProcessed") \o BalanceChanged(v)

\* Entries stay told, and a new one is told: its wallet is the one that the
\* ledger explains after the step.
LEMMA EntriesTold ==
  ASSUME IInv, IInv', Telling, NEW x \in Ext \cup Wallet, NEW w \in Wallet,
         NEW t \in Seq(Event), TellsEntry(x, w, t),
         \A v \in Wallet \ {w} : ledger'[v] = ledger[v],
         \A v \in Wallet : \A i \in 1..Len(ledger[v]) : ledger[v][i].txn # x,
         outbox'[x] = outbox[x] \o t,
         \A y \in (Ext \cup Wallet) \ {x} : outbox'[y] = outbox[y],
         NEW v \in Wallet, NEW i \in 1..Len(ledger'[v])
  PROVE  EntryTold(v, i)'
<1>1. /\ ledger[v] \in Seq(LedgerEntry) /\ ledger'[v] \in Seq(LedgerEntry)
      /\ ledger[w] \in Seq(LedgerEntry) /\ outbox[x] \in Seq(Event)
  BY DEF IInv, TypeOK
<1>2. ASSUME i \in 1..Len(ledger[v]), ledger'[v][i] = ledger[v][i],
             Unfunded(v, ledger'[v]) = Unfunded(v, ledger[v])
      PROVE  EntryTold(v, i)'
  <2>1. PICK e \in LedgerEntry : e = ledger[v][i]
    BY <1>1, <1>2
  <2>2. e.txn \in Ext \cup Wallet /\ e.txn # x
    BY <1>2, <2>1 DEF LedgerEntry
  <2>3. outbox'[e.txn] = outbox[e.txn]
    BY <2>2
  <2>4. Tells(LastEvent(e.txn), e, i + Unfunded(v, ledger[v]))
    BY <1>2, <2>1 DEF Telling, EntryTold
  <2>5. ledger'[v][i] = e
    BY <1>2, <2>1
  <2> QED BY <1>2, <2>3, <2>4, <2>5 DEF EntryTold, Tells, LastEvent
<1>3. CASE ledger'[v] = ledger[v]
  BY <1>2, <1>3
<1>4. CASE ledger'[v] # ledger[v]
  <2>1. v = w
    BY <1>4
  <2>2. PICK e \in LedgerEntry, u \in WalletRow :
          /\ ledger'[w] = ledger[w] \o <<e>>
          /\ e.txn = x
          /\ wallets'[w] = u
          /\ t = Notice("WagerTransactionProcessed") \o BalanceChanged(u)
    BY <1>4, <2>1 DEF TellsEntry
  <2>3. PICK s \in Seq(LedgerEntry) : s = ledger[w]
    BY <1>1
  <2> DEFINE n == Len(s)
  <2>4. /\ n \in Nat /\ Len(ledger'[w]) = n + 1
        /\ ledger'[w][n + 1] = e
        /\ \A j \in 1..n : ledger'[w][j] = ledger[w][j]
    BY <2>2, <2>3, AppendOne
  <2>5. CASE i \in 1..n
    <3>1. ledger[w] # <<>> /\ ledger'[w] # <<>> /\ ledger'[w][1] = ledger[w][1]
      <4>1. 1 \in 1..n /\ n # 0 /\ n + 1 # 0
        BY <2>4, <2>5
      <4>2. Len(ledger[w]) # 0 /\ Len(ledger'[w]) # 0
        BY <2>3, <2>4, <4>1
      <4>3. Len(<<>>) = 0
        OBVIOUS
      <4>4. ledger[w] # <<>> /\ ledger'[w] # <<>>
        BY <4>2, <4>3
      <4> QED BY <2>4, <4>1, <4>4
    <3>2. Unfunded(v, ledger'[v]) = Unfunded(v, ledger[v])
      BY <2>1, <3>1 DEF Unfunded
    <3> QED BY <1>2, <2>1, <2>3, <2>4, <2>5, <3>2
  <2>6. CASE i = n + 1
    <3>1. /\ t \in Seq(Event) /\ Len(t) = 2
          /\ t[2].type = "WalletBalanceChanged"
          /\ t[2].version = u.version /\ t[2].balance = u.balance
      BY <2>2, MovementTypes
    <3>2. LastEvent(x)' = t[2]
      <4>1. PICK a \in Seq(Event) : a = outbox[x]
        BY <1>1
      <4>2. /\ Len(a \o t) = Len(a) + Len(t) /\ Len(a) \in Nat
            /\ \A j \in 1..Len(t) : (a \o t)[j + Len(a)] = t[j]
        BY ConcatAt
      <4>3. Len(a \o t) = 2 + Len(a) /\ (a \o t)[2 + Len(a)] = t[2]
        BY <3>1, <4>2
      <4>4. outbox'[x] = a \o t
        BY <4>1
      <4> QED BY <4>3, <4>4 DEF LastEvent
    <3>3. Explains(w, ledger'[w], u)
      <4>1. LedgerExplainsWallet'
        BY DEF IInv
      <4>2. IF wallets'[w] = None THEN ledger'[w] = <<>>
            ELSE Explains(w, ledger'[w], wallets'[w])
        BY <4>1 DEF LedgerExplainsWallet
      <4> QED BY <2>2, <4>2, NoneAssumption
    <3>4. /\ u.balance = e.after
          /\ u.version = n + 1 + Unfunded(w, ledger'[w])
      <4>1. ledger'[w] # <<>> /\ ledger'[w][Len(ledger'[w])] = e
        BY <1>1, <2>1, <2>4
      <4> QED BY <2>4, <3>3, <4>1 DEF Explains
    <3>5. ledger'[v][i] = e
      BY <2>1, <2>4, <2>6
    <3> HIDE DEF n
    <3> QED BY <2>1, <2>2, <2>6, <3>1, <3>2, <3>4, <3>5 DEF EntryTold, Tells
  <2> QED BY <2>1, <2>4, <2>5, <2>6
<1> QED BY <1>3, <1>4

\* The commit adds the events of its decision to those of its wager.
LEMMA TellingCommit ==
  ASSUME IInv, Identity, References, Entries, Telling, IInv', NEW p \in Worker, Commit(p)
  PROVE  Telling'
<1>1. PICK r \in WagerRow, d \in Draft : r = row[p] /\ d = draft[p]
  BY CommitEffect
<1> DEFINE x == r.req.ext
           w == r.req.wallet
<1>2. /\ pc[p] = "commit"
      /\ x \in Ext /\ w \in Wallet /\ d.row.req = r.req
      /\ wagers'[x] = d.row
      /\ \A y \in Ext \ {x} : wagers'[y] = wagers[y]
      /\ wallets'[w] = d.wallet
      /\ ledger'[w] = ledger[w] \o d.entries
      /\ \A v \in Wallet \ {w} : ledger'[v] = ledger[v]
      /\ outbox'[x] = outbox[x] \o d.events
      /\ \A y \in (Ext \cup Wallet) \ {x} : outbox'[y] = outbox[y]
  BY <1>1, CommitEffect
<1>3. /\ d.wallet \in WalletRow /\ d.events \in Seq(Event)
      /\ ledger[w] \in Seq(LedgerEntry) /\ outbox[x] \in Seq(Event)
  BY <1>2 DEF Draft, IInv, TypeOK
<1>4. /\ p \in Processor => wagers[x] = None
      /\ p \in Resolver => wagers[x] = r /\ r.state = "PENDING_REFERENCE"
      /\ d.row # None
  BY <1>1, <1>2, CommitReplaces
<1>5. Decision(d, r, RefOf(r), Reversed(r))
  BY <1>1, <1>2 DEF References, DecisionKept
<1>6. TypesOf(outbox[x]) = Earlier(r)
  <2>1. WagerTold(x)
    BY <1>2 DEF Telling
  <2>2. CASE p \in Processor
    <3>1. r.expires = None
      BY <1>1, <1>2, <2>2 DEF Identity, WorkRow
    <3> QED BY <1>4, <2>1, <2>2, <3>1 DEF WagerTold, Earlier
  <2>3. CASE p \in Resolver
    <3>1. r.expires # None
      BY <1>1, <1>2, <1>4, <2>3, NoneAssumption DEF IInv, RowKept, Scheduled
    <3>2. wagers[x] = r /\ r # None
      BY <1>4, <2>3, NoneAssumption
    <3> QED BY <1>4, <2>1, <2>3, <3>1, <3>2, PendingAnnounced DEF WagerTold
  <2> QED BY <2>2, <2>3 DEF Worker
<1> HIDE DEF x, w
<1>7. WagerTold(x)'
  <2>1. TypesOf(outbox[x] \o d.events) = TypesOf(outbox[x]) \o TypesOf(d.events)
    BY <1>3, TypesConcat
  <2>2. Announced(d.row) = Earlier(r) \o TypesOf(d.events)
    BY <1>5, DecisionTold
  <2>3. TypesOf(outbox'[x]) = Announced(wagers'[x]) /\ wagers'[x] # None
    BY <1>2, <1>4, <1>6, <2>1, <2>2
  <2> QED BY <2>3 DEF WagerTold
<1>8. ASSUME NEW y \in Ext, y # x PROVE WagerTold(y)'
  <2>1. WagerTold(y) /\ wagers'[y] = wagers[y] /\ outbox'[y] = outbox[y]
    BY <1>2, <1>8 DEF Telling
  <2> QED BY <2>1 DEF WagerTold
<1>9. TellsEntry(x, w, d.events)
  <2>1. CASE d.entries = <<>>
    <3>1. ledger[w] \o <<>> = ledger[w]
      BY <1>3
    <3> QED BY <1>2, <2>1, <3>1 DEF TellsEntry
  <2>2. CASE Settles(d, r, RefOf(r), Reversed(r))
    <3>1. PICK e \in LedgerEntry : d.entries = <<e>> /\ e.txn = x
      BY <2>2 DEF Settles, x
    <3>2. d.events = Notice("WagerTransactionProcessed") \o BalanceChanged(d.wallet)
      BY <2>2 DEF Settles
    <3>3. ledger'[w] = ledger[w] \o <<e>>
      BY <1>2, <3>1
    <3> QED BY <1>2, <1>3, <3>1, <3>2, <3>3 DEF TellsEntry
  <2> QED BY <1>5, <2>1, <2>2, OnlySettlementsMove
<1>10. ASSUME NEW v \in Wallet, NEW i \in 1..Len(ledger[v]) PROVE ledger[v][i].txn # x
  <2>1. ledger[v][i].txn = v \/ Moved(wagers[ledger[v][i].txn])
    BY DEF Entries, EntryKnown, EntryOf
  <2>2. ~Moved(wagers[x])
    BY <1>4 DEF Moved, Worker
  <2> QED BY <1>2, <2>1, <2>2, IdentityAssumption
<1>11. ASSUME NEW v \in Wallet, NEW i \in 1..Len(ledger'[v]) PROVE EntryTold(v, i)'
  <2>1. x \in Ext \cup Wallet /\ d.events \in Seq(Event)
    BY <1>2, <1>3
  <2> QED BY <1>2, <1>9, <1>10, <2>1, EntriesTold
<1> QED BY <1>7, <1>8, <1>11 DEF Telling

\* The events of a new wallet tell of its opening entry.
LEMMA TellingCreate ==
  ASSUME IInv, Entries, Telling, IInv', NEW w \in Wallet, NEW o \in Openings,
         CreateWallet(w, o)
  PROVE  Telling'
<1> DEFINE v == NewWallet(o)
           opening == createOpeningTransaction(w, v)
<1>1. /\ ledger[w] = <<>> /\ v \in WalletRow
      /\ opening.entries \in Seq(LedgerEntry) /\ opening.events \in Seq(Event)
      /\ wallets'[w] = v
      /\ ledger'[w] = ledger[w] \o opening.entries
      /\ outbox'[w] = outbox[w] \o opening.events
      /\ \A u \in Wallet \ {w} : ledger'[u] = ledger[u]
      /\ \A x \in (Ext \cup Wallet) \ {w} : outbox'[x] = outbox[x]
      /\ wagers' = wagers
  BY CreateEffect
<1>2. ASSUME NEW x \in Ext PROVE WagerTold(x)'
  <2>1. x # w
    BY IdentityAssumption
  <2>2. WagerTold(x) /\ wagers'[x] = wagers[x] /\ outbox'[x] = outbox[x]
    BY <1>1, <2>1 DEF Telling
  <2> QED BY <2>2 DEF WagerTold
<1>3. TellsEntry(w, w, opening.events)
  <2>1. CASE v.balance = 0
    <3>1. opening.entries = <<>>
      BY <2>1 DEF createOpeningTransaction
    <3> HIDE DEF opening
    <3>2. ledger'[w] = <<>>
      BY <1>1, <3>1
    <3> QED BY <1>1, <3>2 DEF TellsEntry
  <2>2. CASE v.balance # 0
    <3>1. \E e : opening.entries = <<e>> /\ e.txn = w
      BY <2>2 DEF createOpeningTransaction
    <3>2. opening.events = Notice("WagerTransactionProcessed") \o BalanceChanged(v)
      BY <2>2 DEF createOpeningTransaction
    <3>3. PICK e \in LedgerEntry : opening.entries = <<e>> /\ e.txn = w
      BY <1>1, <3>1
    <3> HIDE DEF opening, v
    <3>4. ledger'[w] = ledger[w] \o <<e>>
      BY <1>1, <3>3
    <3> QED BY <1>1, <3>2, <3>3, <3>4 DEF TellsEntry
  <2> QED BY <2>1, <2>2
<1>4. ASSUME NEW u \in Wallet, NEW i \in 1..Len(ledger[u]) PROVE ledger[u][i].txn # w
  <2>1. ledger[u][i].txn = u \/ ledger[u][i].txn \in Ext
    BY DEF Entries, EntryKnown
  <2>2. u # w
    BY <1>1
  <2> QED BY <2>1, <2>2, IdentityAssumption
<1>5. ASSUME NEW u \in Wallet, NEW i \in 1..Len(ledger'[u]) PROVE EntryTold(u, i)'
  <2>1. w \in Ext \cup Wallet
    OBVIOUS
  <2> HIDE DEF opening, v
  <2> QED BY <1>1, <1>3, <1>4, <2>1, EntriesTold
<1> QED BY <1>2, <1>5 DEF Telling

\* Every step keeps the outbox in agreement with the tables.
LEMMA NextTelling ==
  ASSUME IInv, Identity, References, Entries, Telling, [Next]_vars
  PROVE  Telling'
<1>1. IInv' /\ TypeOK
  BY NextIInv DEF IInv
<1>2. ASSUME NEW p \in Worker, Commit(p) PROVE Telling'
  BY <1>1, <1>2, TellingCommit
<1>3. ASSUME NEW w \in Wallet, NEW o \in Openings, CreateWallet(w, o) PROVE Telling'
  BY <1>1, <1>3, TellingCreate
<1>4. ASSUME UNCHANGED db PROVE Telling'
  BY <1>4 DEF db, Telling, WagerTold, EntryTold, LastEvent
<1> QED BY <1>1, <1>2, <1>3, <1>4, TablesStep

-----------------------------------------------------------------------------
(* The theorems.                                                             *)

MInv == HInv /\ Entries /\ Telling

\* The empty database satisfies the invariant.
LEMMA InitMInv == Init => MInv
<1> SUFFICES ASSUME Init PROVE MInv
  OBVIOUS
<1>1. HInv
  BY InitHInv
<1>2. /\ \A x \in Ext : wagers[x] = None /\ outbox[x] = <<>>
      /\ \A w \in Wallet : ledger[w] = <<>> /\ 1..Len(ledger[w]) = {}
  BY DEF Init
<1>3. Entries
  BY <1>2 DEF Entries, EntriesDiffer, HasEntry, UndoesEarlier, Moved
<1>4. Telling
  BY <1>2, NoticeTypes DEF Telling, WagerTold
<1> QED BY <1>1, <1>3, <1>4 DEF MInv

\* Every step keeps the layers, each with the help of those below it.
LEMMA NextMInv == MInv /\ [Next]_vars => MInv'
BY NextHInv, NextEntries, NextTelling DEF MInv, HInv

\* The layered invariant holds in every reachable state.
THEOREM MoneyInvariance == Spec => []MInv
<1> QED BY InitMInv, NextMInv, PTL DEF Spec

\* The entries that belong to a wager.
LEMMA MovementsAre ==
  ASSUME NEW x
  PROVE  \A m : m \in Movements(x) <=>
           \E w \in Wallet : \E i \in 1..Len(ledger[w]) :
             m = <<w, i>> /\ ledger[w][i].txn = x
<1> SUFFICES ASSUME NEW m
             PROVE  m \in Movements(x) <=>
                      \E w \in Wallet : \E i \in 1..Len(ledger[w]) :
                        m = <<w, i>> /\ ledger[w][i].txn = x
  OBVIOUS
<1>1. m \in Movements(x) <=>
        /\ \E w \in Wallet : m \in {w} \X (1..Len(ledger[w]))
        /\ ledger[m[1]][m[2]].txn = x
  BY DEF Movements
<1>2. \A w : m \in {w} \X (1..Len(ledger[w])) <=>
               \E i \in 1..Len(ledger[w]) : m = <<w, i>>
  OBVIOUS
<1>3. \A w, i : m = <<w, i>> => m[1] = w /\ m[2] = i
  OBVIOUS
<1> QED BY <1>1, <1>2, <1>3

\* No wager moves money twice, in another wallet, by another amount or without
\* being PROCESSED, and no PROCESSED one but a LOSS fails to.
THEOREM MoneyMovesOnce == Spec => []OneMovementPerWager
<1>1. MInv => OneMovementPerWager
  <2> SUFFICES ASSUME MInv, NEW x \in Ext
               PROVE  IF Moved(wagers[x])
                      THEN \E i \in 1..Len(ledger[wagers[x].req.wallet]) :
                             /\ Movements(x) = {<<wagers[x].req.wallet, i>>}
                             /\ ledger[wagers[x].req.wallet][i].amount = wagers[x].req.amount
                             /\ ledger[wagers[x].req.wallet][i].after = wagers[x].result
                      ELSE Movements(x) = {}
    BY DEF OneMovementPerWager, Moved
  <2> DEFINE w == wagers[x].req.wallet
  <2>1. ASSUME NEW v \in Wallet, NEW i \in 1..Len(ledger[v]), ledger[v][i].txn = x
        PROVE  EntryOf(ledger[v][i], wagers[x], v)
    <3>1. ledger[v][i].txn # v
      BY <2>1, IdentityAssumption
    <3> QED BY <2>1, <3>1 DEF MInv, Entries, EntryKnown
  <2>2. CASE Moved(wagers[x])
    <3>1. w \in Wallet
      BY <2>2 DEF Moved, MInv, HInv, IInv, TypeOK, WagerRow, Request
    <3>2. PICK i \in 1..Len(ledger[w]) : ledger[w][i].txn = x
      BY <2>2 DEF MInv, Entries, HasEntry
    <3>3. ASSUME NEW v \in Wallet, NEW j \in 1..Len(ledger[v]), ledger[v][j].txn = x
          PROVE  v = w /\ j = i
      <4>1. v = w
        BY <2>1, <3>3 DEF EntryOf
      <4> QED BY <3>1, <3>2, <3>3, <4>1 DEF MInv, Entries, EntriesDiffer
    <3> HIDE DEF w
    <3>4. Movements(x) = {<<w, i>>}
      BY <3>1, <3>2, <3>3, MovementsAre
    <3>5. EntryOf(ledger[w][i], wagers[x], w)
      BY <2>1, <3>1, <3>2
    <3> QED BY <2>2, <3>4, <3>5 DEF EntryOf, w
  <2>3. CASE ~Moved(wagers[x])
    <3>1. \A v \in Wallet : \A i \in 1..Len(ledger[v]) : ledger[v][i].txn # x
      BY <2>1, <2>3 DEF EntryOf
    <3>2. Movements(x) = {}
      BY <3>1, MovementsAre
    <3> QED BY <2>3, <3>2
  <2> QED BY <2>2, <2>3
<1> QED BY <1>1, MoneyInvariance, PTL

\* A reversal moves the amount of its reference the other way.
LEMMA ReversalOpposes ==
  ASSUME NEW req, NEW ref, NEW other, Usable(req, ref), req.kind \in {"REFUND", "ROLLBACK"}
  PROVE  /\ ref.req.amount = req.amount
         /\ DirectionOf(ref.req, other) # DirectionOf(req, ref)
<1>1. /\ ref.req.kind \in ReferenceKinds(req.kind)
      /\ ref.req.amount = req.amount
  BY UsableMeans
<1>2. CASE ref.req.kind = "BET"
  BY <1>1, <1>2 DEF DirectionOf, reversalDirection, ownDirection
<1>3. CASE ref.req.kind = "WIN" /\ req.kind = "ROLLBACK"
  BY <1>1, <1>3 DEF DirectionOf, reversalDirection, ownDirection
<1>4. CASE ref.req.kind = "REFUND" /\ req.kind = "ROLLBACK"
  BY <1>1, <1>4 DEF DirectionOf, reversalDirection
<1> QED BY <1>1, <1>2, <1>3, <1>4 DEF ReferenceKinds

\* A PROCESSED refund or rollback undoes an earlier movement of its wallet, by
\* the same amount the other way, and is the only one that does.
THEOREM ReversalsUndoOnce == Spec => []ReversalUndoesOnce
<1>1. MInv => ReversalUndoesOnce
  <2> SUFFICES ASSUME MInv, NEW y \in Ext, wagers[y] # None,
                      wagers[y].state = "PROCESSED", IsReversal(wagers[y])
               PROVE  LET x == wagers[y].refd
                          s == ledger[wagers[y].req.wallet]
                      IN  /\ \E i, j \in 1..Len(s) :
                               /\ i < j
                               /\ s[i].txn = x /\ s[j].txn = y
                               /\ s[i].amount = s[j].amount
                               /\ s[i].dir # s[j].dir
                          /\ \A z \in Ext \ {y} :
                               ~ (wagers[z] # None /\ SameReversal(wagers[y], wagers[z]))
    BY DEF ReversalUndoesOnce
  <2> DEFINE x == wagers[y].refd
             w == wagers[y].req.wallet
             s == ledger[w]
  <2>1. /\ x = wagers[y].req.ref /\ x # None
        /\ Usable(wagers[y].req, wagers[x])
    BY DEF MInv, HInv, References, StoredReversal
  <2>2. x \in Ext /\ w \in Wallet
    BY <2>1 DEF MInv, HInv, IInv, TypeOK, WagerRow, Request
  <2>3. Moved(wagers[y])
    BY DEF Moved, IsReversal
  <2>4. PICK i \in 1..Len(s), j \in 1..Len(s) : i < j /\ s[i].txn = x /\ s[j].txn = y
    BY <2>3 DEF MInv, Entries, UndoesEarlier
  <2> HIDE DEF x, w
  <2>5. ASSUME NEW k \in 1..Len(s), s[k].txn \in Ext
        PROVE  EntryOf(s[k], wagers[s[k].txn], w)
    <3>1. s[k].txn # w
      BY <2>2, <2>5, IdentityAssumption
    <3> QED BY <2>2, <2>5, <3>1 DEF MInv, Entries, EntryKnown
  <2>6. EntryOf(s[i], wagers[x], w) /\ EntryOf(s[j], wagers[y], w)
    BY <2>2, <2>4, <2>5
  <2>7. RefOf(wagers[y]) = wagers[x]
    BY <2>1 DEF RefOf
  <2>8. /\ wagers[x].req.amount = wagers[y].req.amount
        /\ DirectionOf(wagers[x].req, RefOf(wagers[x]))
             # DirectionOf(wagers[y].req, wagers[x])
    <3>1. wagers[y].req.kind \in {"REFUND", "ROLLBACK"}
      BY DEF IsReversal
    <3>2. PICK req, ref, other :
            req = wagers[y].req /\ ref = wagers[x] /\ other = RefOf(wagers[x])
      OBVIOUS
    <3>3. Usable(req, ref) /\ req.kind \in {"REFUND", "ROLLBACK"}
      BY <2>1, <3>1, <3>2
    <3>4. ref.req.amount = req.amount /\ DirectionOf(ref.req, other) # DirectionOf(req, ref)
      BY <3>3, ReversalOpposes
    <3> QED BY <3>2, <3>4
  <2>9. s[i].amount = s[j].amount /\ s[i].dir # s[j].dir
    BY <2>6, <2>7, <2>8 DEF EntryOf
  <2>10. \A z \in Ext \ {y} : ~ (wagers[z] # None /\ SameReversal(wagers[y], wagers[z]))
    BY DEF MInv, HInv, References, OneReversal
  <2> QED BY <2>4, <2>9, <2>10 DEF x, w
<1> QED BY <1>1, MoneyInvariance, PTL

\* The outbox holds the events of the stored states in the order of their
\* lifecycle, each balance change with the version and balance it led to.
THEOREM EventsTellTheState == Spec => []OutboxTellsState
<1>1. MInv => OutboxTellsState
  <2> SUFFICES ASSUME MInv PROVE OutboxTellsState
    OBVIOUS
  <2>1. \A x \in Ext : Types(x) = IF wagers[x] = None THEN <<>> ELSE Announced(wagers[x])
    BY DEF MInv, Telling, WagerTold, TypesOf, Types
  <2>2. \A w \in Wallet : \A i \in 1..Len(ledger[w]) : EntryTold(w, i)
    BY DEF MInv, Telling
  <2> QED BY <2>1, <2>2 DEF OutboxTellsState, EntryTold, Tells, LastEvent
<1> QED BY <1>1, MoneyInvariance, PTL

-----------------------------------------------------------------------------
(* The schema accepts every write.                                           *)

\* While a processor holds the wallet, nobody else stores its external identity
\* in that wallet; a rival that uses another wallet may.
Unstored(p) ==
  (p \in Processor /\ pc[p] \in {"consult", "reversal", "write", "commit"}) =>
    LET s == wagers[row[p].req.ext]
    IN  s # None => s.req.wallet # row[p].req.wallet

\* A step of p that leaves the wager rows and the other transactions alone.
LEMMA UnstoredLocal ==
  ASSUME NEW p \in Worker, \A q \in Worker : Unstored(q), Alone(p), UNCHANGED wagers,
         Unstored(p)'
  PROVE  \A q \in Worker : Unstored(q)'
BY DEF Alone, Same, Unstored

\* A transaction that goes on, with what it knows.
LEMMA UnstoredGoesOn ==
  ASSUME NEW p \in Worker, \A q \in Worker : Unstored(q), NEW label, GoesOn(p, label),
         \/ pc[p] \in {"consult", "reversal", "write", "commit"}
         \/ label \notin {"consult", "reversal", "write", "commit"}
         \/ p \notin Processor
         \/ wagers[row[p].req.ext] = None
  PROVE  \A q \in Worker : Unstored(q)'
<1>1. Alone(p) /\ wagers' = wagers /\ pc'[p] = label /\ row'[p] = row[p]
  BY DEF GoesOn, TablesKept
<1>2. Unstored(p)'
  BY <1>1 DEF Unstored
<1> QED BY <1>1, <1>2, UnstoredLocal

\* A transaction that is over.
LEMMA UnstoredEnds ==
  ASSUME NEW p \in Worker, \A q \in Worker : Unstored(q), NEW a, Ends(p, a)
  PROVE  \A q \in Worker : Unstored(q)'
<1>1. Alone(p) /\ wagers' = wagers /\ pc'[p] = "idle"
  BY DEF Ends, TablesKept
<1>2. Unstored(p)'
  BY <1>1 DEF Unstored
<1> QED BY <1>1, <1>2, UnstoredLocal

\* A commit stores a row of a wallet that no other transaction holds.
LEMMA UnstoredCommit ==
  ASSUME IInv, NEW p \in Worker, \A q \in Worker : Unstored(q), Commit(p)
  PROVE  \A q \in Worker : Unstored(q)'
<1> DEFINE x == row[p].req.ext
<1>1. /\ pc[p] = "commit" /\ pc'[p] = "idle" /\ Alone(p)
      /\ wagers'[x] = draft[p].row /\ draft[p].row.req = row[p].req
      /\ \A y \in Ext \ {x} : wagers'[y] = wagers[y]
  BY CommitEffect
<1> SUFFICES ASSUME NEW q \in Worker PROVE Unstored(q)'
  OBVIOUS
<1>2. CASE q = p
  BY <1>1, <1>2 DEF Unstored
<1>3. CASE q # p
  <2>1. Unstored(q) /\ pc'[q] = pc[q] /\ row'[q] = row[q]
    BY <1>1, <1>3 DEF Alone, Same
  <2> SUFFICES ASSUME q \in Processor, pc[q] \in {"consult", "reversal", "write", "commit"}
               PROVE  wagers'[row[q].req.ext] # None =>
                        wagers'[row[q].req.ext].req.wallet # row[q].req.wallet
    BY <2>1 DEF Unstored
  <2>2. row[q].req.ext \in Ext
    BY DEF IInv, RowKept, WagerRow, Request
  <2>3. row[q].req.wallet # row[p].req.wallet
    BY <1>1, <1>3 DEF IInv, LocksExclude, Locked
  <2>4. CASE row[q].req.ext = x
    BY <1>1, <2>3, <2>4
  <2>5. CASE row[q].req.ext # x
    BY <1>1, <2>1, <2>2, <2>5 DEF Unstored
  <2> QED BY <2>4, <2>5
<1> QED BY <1>2, <1>3

\* Every step keeps it.
LEMMA NextUnstored ==
  ASSUME IInv, \A q \in Worker : Unstored(q), [Next]_vars
  PROVE  \A q \in Worker : Unstored(q)'
<1> DEFINE Goal == \A q \in Worker : Unstored(q)'
<1>1. TypeOK
  BY DEF IInv
<1>2. ASSUME NEW p \in Processor, NEW c \in Commands, Receive(p, c) PROVE Goal
  <2>1. p \in Worker
    BY DEF Worker
  <2>2. \/ Ends(p, Refusal(NewRow(c), "INVALID"))
        \/ Ends(p, findIdempotentReplay(NewRow(c)))
        \/ pc'[p] = "lock" /\ Alone(p) /\ TablesKept
    BY <1>1, <1>2, ReceiveEffect
  <2>3. CASE pc'[p] = "lock" /\ Alone(p) /\ TablesKept
    <3>1. Unstored(p)' /\ wagers' = wagers
      BY <2>3 DEF Unstored, TablesKept
    <3> QED BY <2>1, <2>3, <3>1, UnstoredLocal
  <2> QED BY <2>1, <2>2, <2>3, UnstoredEnds
<1>3. ASSUME NEW r \in Resolver, findDuePendingReference(r) PROVE Goal
  <2>1. r \in Worker /\ pc'[r] = "lock" /\ Alone(r) /\ wagers' = wagers
    BY <1>1, <1>3, ClaimEffect DEF Worker, TablesKept
  <2>2. Unstored(r)'
    BY <2>1 DEF Unstored
  <2> QED BY <2>1, <2>2, UnstoredLocal
<1>4. ASSUME NEW p \in Worker, lockWallet(p) PROVE Goal
  <2>1. \/ Ends(p, Refusal(row[p], "WALLET_NOT_FOUND"))
        \/ GoesOn(p, IF p \in Resolver THEN "consult" ELSE "recheck")
    BY <1>1, <1>4, LockEffect
  <2>2. p \in Resolver => p \notin Processor
    BY WorkerAssumption
  <2> QED BY <2>1, <2>2, UnstoredEnds, UnstoredGoesOn
<1>5. ASSUME NEW p \in Worker, Recheck(p) PROVE Goal
  <2>1. Ends(p, findIdempotentReplay(row[p])) \/ GoesOn(p, "external")
    BY <1>1, <1>5, RecheckEffect
  <2> QED BY <2>1, UnstoredEnds, UnstoredGoesOn
<1>6. ASSUME NEW p \in Worker, CheckExternal(p) PROVE Goal
  <2>1. \/ \E e \in Errors : Ends(p, Refusal(row[p], e))
        \/ GoesOn(p, "consult") /\ wagers[row[p].req.ext] = None
    BY <1>1, <1>6, ExternalEffect DEF Errors
  <2> QED BY <2>1, UnstoredEnds, UnstoredGoesOn
<1>7. ASSUME NEW p \in Worker, NEW ref, NEW reversed, Decide(p, ref, reversed),
             pc[p] \in {"consult", "reversal"}
      PROVE  Goal
  <2>1. Ends(p, Refusal(row[p], "OVERFLOW")) \/ GoesOn(p, "write")
    BY <1>1, <1>7, DecideEffect
  <2> QED BY <1>7, <2>1, UnstoredEnds, UnstoredGoesOn
<1>8. ASSUME NEW p \in Worker, Consult(p) PROVE Goal
  <2>1. /\ pc[p] = "consult"
        /\ GoesOn(p, "reversal") \/ Decide(p, RefOf(row[p]), FALSE)
    BY <1>1, <1>8, ConsultEffect
  <2> QED BY <1>7, <2>1, UnstoredGoesOn
<1>9. ASSUME NEW p \in Worker, CheckReversed(p) PROVE Goal
  BY <1>7, <1>9 DEF CheckReversed
<1>10. ASSUME NEW p \in Worker, Write(p) PROVE Goal
  <2>1. /\ pc[p] = "write"
        /\ Ends(p, Refusal(row[p], WriteError(p))) \/ GoesOn(p, "commit")
    BY <1>1, <1>10, WriteEffect
  <2> QED BY <2>1, UnstoredEnds, UnstoredGoesOn
<1>11. ASSUME NEW p \in Worker, Commit(p) PROVE Goal
  BY <1>11, UnstoredCommit
<1>12. ASSUME NEW p \in Worker, Abort(p) PROVE Goal
  <2>1. Ends(p, None)
    BY <1>1, <1>12, FinishEffect DEF Abort
  <2> QED BY <2>1, UnstoredEnds
<1>13. ASSUME \/ \E w \in Wallet, o \in Openings : CreateWallet(w, o)
              \/ Tick
              \/ UNCHANGED vars
       PROVE  Goal
  <2>1. UNCHANGED <<wagers, pc, row>>
    BY <1>13 DEF CreateWallet, Tick, vars, local, db
  <2> QED BY <2>1 DEF Unstored
<1> QED BY <1>2, <1>3, <1>4, <1>5, <1>6, <1>8, <1>9, <1>10, <1>11, <1>12, <1>13
        DEF Next, Advance

SInv == MInv /\ \A p \in Worker : Unstored(p)

\* No transaction is open in the first state.
LEMMA InitSInv == Init => SInv
<1>1. Init => \A p \in Worker : Unstored(p)
  BY DEF Init, Unstored
<1> QED BY <1>1, InitMInv DEF SInv

\* Every step keeps it.
LEMMA NextSInv == SInv /\ [Next]_vars => SInv'
<1> SUFFICES ASSUME SInv, [Next]_vars PROVE SInv'
  OBVIOUS
<1>1. IInv /\ MInv /\ \A q \in Worker : Unstored(q)
  BY DEF SInv, MInv, HInv
<1>2. MInv'
  BY <1>1, NextMInv
<1>3. \A q \in Worker : Unstored(q)'
  BY <1>1, NextUnstored
<1> QED BY <1>2, <1>3 DEF SInv

\* Every reachable state satisfies SInv.
LEMMA SchemaInvariance == Spec => []SInv
<1> QED BY InitSInv, NextSInv, PTL DEF Spec

\* A row that is about to be written keeps the constraints of wager_transactions.
LEMMA WagersAccepted ==
  ASSUME HInv, NEW p \in Worker, pc[p] \in {"write", "commit"}
  PROVE  WagerAccepted(draft[p].row)
<1> DEFINE r == draft[p].row
<1>1. Decision(draft[p], row[p], RefOf(row[p]), Reversed(row[p]))
  BY DEF HInv, References, DecisionKept
<1>2. ValidateExternal(row[p].req) /\ row[p].refd = None
  BY DEF HInv, Identity, WorkRow
<1>3. r.req = row[p].req
  BY <1>1 DEF Decision
<1>4. r.refd # None => r.refd = r.req.ref /\ ~Unresolved(RefOf(row[p]))
  BY <1>1, <1>2, <1>3 DEF Decision, Pends, Rejects, Loses, Settles, Records
<1>5. r.refd # None => wagers[r.refd] # None
  BY <1>3, <1>4 DEF RefOf, Unresolved
<1> HIDE DEF r
<1>6. WagerAccepted(r)
  BY <1>2, <1>3, <1>4, <1>5 DEF WagerAccepted, ValidateExternal
<1> QED BY <1>6 DEF r

\* The entry of a transaction, if it writes one.
LEMMA EntriesAccepted ==
  ASSUME SInv, NEW p \in Worker, pc[p] \in {"write", "commit"},
         NEW i \in DOMAIN draft[p].entries
  PROVE  EntryAccepted(draft[p].row.req.wallet, draft[p].entries[i])
<1> DEFINE d == draft[p]
           w == row[p].req.wallet
           x == row[p].req.ext
<1>1. IInv /\ Identity /\ References /\ Entries
  BY DEF SInv, MInv, HInv
<1>2. Explained(d, row[p], held[p]) /\ d.row.req = row[p].req
  BY <1>1 DEF IInv, DraftKept, Explained
<1>3. Decision(d, row[p], RefOf(row[p]), Reversed(row[p]))
  BY <1>1 DEF References, DecisionKept
<1>4. PICK e \in LedgerEntry : d.entries = <<e>> /\ Moves(e, held[p], d.wallet)
  BY <1>2 DEF Explained
<1>5. d.entries[i] = e
  BY <1>4
<1>6. e.txn = x /\ e.amount = row[p].req.amount /\ row[p].req.kind # "LOSS"
  <2>1. d.entries # <<>>
    BY <1>4
  <2>2. Settles(d, row[p], RefOf(row[p]), Reversed(row[p]))
    BY <1>3, <2>1 DEF Decision, Pends, Rejects, Loses
  <2>3. PICK f \in LedgerEntry : /\ d.entries = <<f>>
                                 /\ f.txn = x
                                 /\ f.amount = row[p].req.amount
    BY <2>2 DEF Settles
  <2>4. f = e
    BY <1>4, <2>3
  <2> QED BY <2>2, <2>3, <2>4 DEF Settles
<1>7. e.amount > 0
  <2>1. ValidateExternal(row[p].req)
    BY <1>1 DEF Identity, WorkRow
  <2> QED BY <1>6, <2>1 DEF ValidateExternal
<1>8. e.after = IF e.dir = "DEBIT" THEN e.before - e.amount ELSE e.before + e.amount
  <2>1. e.dir \in {"CREDIT", "DEBIT"}
    BY DEF LedgerEntry
  <2> QED BY <1>4, <2>1 DEF Moves, Arithmetic
<1>9. w \in Wallet /\ x \in Ext
  BY <1>1 DEF IInv, RowKept, WagerRow, Request
<1>10. ASSUME NEW j \in 1..Len(ledger[w]), ledger[w][j].txn = x PROVE FALSE
  <2>1. Moved(wagers[x]) /\ wagers[x].req.wallet = w
    <3>1. EntryKnown(w, j)
      BY <1>1, <1>9 DEF Entries
    <3>2. x # w
      BY <1>9, IdentityAssumption
    <3> QED BY <1>10, <3>1, <3>2 DEF EntryKnown, EntryOf
  <2>2. CASE p \in Processor
    BY <2>1, <2>2 DEF SInv, Unstored, Moved
  <2>3. CASE p \in Resolver
    <3>1. wagers[x] = row[p] /\ row[p].state = "PENDING_REFERENCE"
      BY <1>1, <2>3 DEF Identity, ClaimIsCurrent, IInv, RowKept
    <3> QED BY <2>1, <3>1 DEF Moved
  <2> QED BY <2>2, <2>3 DEF Worker
<1>11. EntryAccepted(w, e)
  BY <1>6, <1>7, <1>8, <1>10 DEF EntryAccepted
<1> QED BY <1>2, <1>5, <1>11

\* No constraint of the schema ever stops a transaction, in particular not the
\* UNIQUE (wallet_id, transaction_id) of the ledger and no foreign key: the model
\* of the service is right to leave those failures out.
THEOREM ConstraintsNeverFire == Spec => []SchemaAccepts
<1>1. SInv => SchemaAccepts
  <2> SUFFICES ASSUME SInv PROVE SchemaAccepts
    OBVIOUS
  <2>1. HInv
    BY DEF SInv, MInv
  <2> QED BY <2>1, WagersAccepted, EntriesAccepted DEF SchemaAccepts
<1> QED BY <1>1, SchemaInvariance, PTL

-----------------------------------------------------------------------------
(* What the readers of a wallet rely on.                                     *)

\* A wallet that a step leaves alone, and one that it moves money in.
StaysPut(w) == Balance(w)' = Balance(w) /\ ledger'[w] = ledger[w]

MovedBy(w, e) ==
  /\ ledger'[w] = Append(ledger[w], e)
  /\ e.amount > 0
  /\ e.before = Balance(w)
  /\ e.after = Balance(w)'

\* The entry that a step appends is the last one of the ledger.
LEMMA LastIsNew ==
  ASSUME NEW w, NEW S, ledger[w] \in Seq(S), NEW e \in S, MovedBy(w, e)
  PROVE  e = ledger'[w][Len(ledger'[w])]
<1>1. PICK s \in Seq(S) : s = ledger[w]
  OBVIOUS
<1>2. Append(s, e)[Len(Append(s, e))] = e
  OBVIOUS
<1> QED BY <1>1, <1>2 DEF MovedBy

\* The commit of a transaction.
LEMMA CommitMoves ==
  ASSUME SInv, NEW p \in Worker, Commit(p), NEW w \in Wallet
  PROVE  StaysPut(w) \/ \E e \in LedgerEntry : MovedBy(w, e)
<1>1. IInv /\ TypeOK
  BY DEF SInv, MInv, HInv, IInv
<1>2. /\ pc[p] = "commit"
      /\ wallets'[row[p].req.wallet] = draft[p].wallet
      /\ \A v \in Wallet \ {row[p].req.wallet} : wallets'[v] = wallets[v]
      /\ ledger'[row[p].req.wallet] = ledger[row[p].req.wallet] \o draft[p].entries
      /\ \A v \in Wallet \ {row[p].req.wallet} : ledger'[v] = ledger[v]
      /\ draft[p].row.req = row[p].req
  BY <1>1, CommitEffect
<1>3. CASE w # row[p].req.wallet
  BY <1>2, <1>3 DEF StaysPut, Balance
<1>4. CASE w = row[p].req.wallet
  <2>1. PICK d \in Draft : d = draft[p]
    BY <1>1, <1>2 DEF IInv, DraftKept, Explained
  <2>2. PICK h \in WalletRow : h = held[p] /\ h = wallets[w]
    BY <1>1, <1>2, <1>4 DEF IInv, WalletKept, Locked
  <2>3. /\ d.wallet \in WalletRow /\ d.entries \in Seq(LedgerEntry)
        /\ ledger[w] \in Seq(LedgerEntry)
    BY <1>1 DEF Draft, TypeOK
  <2>4. Balance(w) = h.balance /\ Balance(w)' = d.wallet.balance
    BY <1>2, <1>4, <2>1, <2>2, <2>3, NoneAssumption DEF Balance
  <2>5. CASE d.entries = <<>> /\ d.wallet = h
    <3>1. ledger[w] \o d.entries = ledger[w]
      BY <2>3, <2>5
    <3> QED BY <1>2, <1>4, <2>1, <2>4, <2>5, <3>1 DEF StaysPut
  <2>6. ASSUME NEW e \in LedgerEntry, d.entries = <<e>>, Moves(e, h, d.wallet)
        PROVE  MovedBy(w, e)
    <3>1. ledger[w] \o <<e>> = Append(ledger[w], e)
      BY <2>3
    <3>2. e.amount > 0
      <4>1. 1 \in DOMAIN draft[p].entries /\ draft[p].entries[1] = e
        BY <2>1, <2>6
      <4> QED BY <1>2, <4>1, EntriesAccepted DEF EntryAccepted
    <3> QED BY <1>2, <1>4, <2>1, <2>4, <2>6, <3>1, <3>2 DEF MovedBy, Moves
  <2>7. Explained(d, row[p], h)
    BY <1>1, <1>2, <2>1, <2>2 DEF IInv, DraftKept
  <2> QED BY <2>5, <2>6, <2>7 DEF Explained
<1> QED BY <1>3, <1>4

\* The creation of a wallet: an opening balance is an entry, a zero one is none.
LEMMA CreateMoves ==
  ASSUME SInv, NEW v \in Wallet, NEW o \in Openings, CreateWallet(v, o), NEW w \in Wallet
  PROVE  StaysPut(w) \/ \E e \in LedgerEntry : MovedBy(w, e)
<1> DEFINE n == NewWallet(o)
           opening == createOpeningTransaction(v, n)
<1>1. IInv
  BY DEF SInv, MInv, HInv
<1>2. /\ wallets[v] = None /\ ledger[v] = <<>>
      /\ n \in WalletRow /\ opening.entries \in Seq(LedgerEntry)
      /\ wallets'[v] = n
      /\ ledger'[v] = ledger[v] \o opening.entries
      /\ \A u \in Wallet \ {v} : wallets'[u] = wallets[u] /\ ledger'[u] = ledger[u]
  BY <1>1, CreateEffect
<1>3. CASE w # v
  BY <1>2, <1>3 DEF StaysPut, Balance
<1>4. CASE w = v
  <2>1. Balance(w) = 0 /\ Balance(w)' = n.balance /\ n.balance \in Nat
    BY <1>2, <1>4, NoneAssumption, MaxIntAssumption DEF Balance, WalletRow, Money
  <2>2. CASE n.balance = 0
    <3>1. opening.entries = <<>>
      BY <2>2 DEF createOpeningTransaction
    <3> HIDE DEF opening
    <3>2. ledger'[w] = ledger[w]
      BY <1>2, <1>4, <3>1
    <3> QED BY <2>1, <2>2, <3>2 DEF StaysPut
  <2>3. CASE n.balance # 0
    <3> DEFINE e == [txn |-> v, dir |-> "CREDIT", amount |-> n.balance,
                     before |-> 0, after |-> n.balance]
    <3>1. opening.entries = <<e>>
      BY <2>3 DEF createOpeningTransaction
    <3>2. e.amount = n.balance /\ e.before = 0 /\ e.after = n.balance
      OBVIOUS
    <3> HIDE DEF opening, n, e
    <3>3. e \in LedgerEntry
      BY <1>2, <3>1
    <3>4. ledger'[w] = Append(ledger[w], e)
      <4>1. <<>> \o <<e>> = <<e>> /\ Append(<<>>, e) = <<e>>
        OBVIOUS
      <4> QED BY <1>2, <1>4, <3>1, <4>1
    <3>5. MovedBy(w, e)
      BY <2>1, <2>3, <3>2, <3>4 DEF MovedBy
    <3> QED BY <3>3, <3>5
  <2> QED BY <2>2, <2>3
<1> QED BY <1>3, <1>4

\* No step changes a balance without its entry or writes an entry without moving
\* the balance: the writer that WalletReads assumes.
THEOREM EveryMovementIsEntered == Spec => MoneyMovesByEntry
<1> DEFINE Entered ==
      \A w \in Wallet :
        \/ Balance(w)' = Balance(w) /\ ledger'[w] = ledger[w]
        \/ LET e == ledger'[w][Len(ledger'[w])]
           IN  /\ ledger'[w] = Append(ledger[w], e)
               /\ e.amount > 0
               /\ e.before = Balance(w)
               /\ e.after = Balance(w)'
<1>1. ASSUME SInv, [Next]_vars PROVE Entered
  <2>1. TypeOK
    BY <1>1 DEF SInv, MInv, HInv, IInv
  <2> SUFFICES ASSUME NEW w \in Wallet
               PROVE  \/ Balance(w)' = Balance(w) /\ ledger'[w] = ledger[w]
                      \/ LET e == ledger'[w][Len(ledger'[w])]
                         IN  /\ ledger'[w] = Append(ledger[w], e)
                             /\ e.amount > 0
                             /\ e.before = Balance(w)
                             /\ e.after = Balance(w)'
    OBVIOUS
  <2>2. StaysPut(w) \/ \E e \in LedgerEntry : MovedBy(w, e)
    <3>1. UNCHANGED db => StaysPut(w)
      BY DEF db, StaysPut, Balance
    <3> QED BY <1>1, <2>1, <3>1, TablesStep, CommitMoves, CreateMoves
  <2>3. ASSUME NEW e \in LedgerEntry, MovedBy(w, e)
        PROVE  e = ledger'[w][Len(ledger'[w])]
    BY <2>1, <2>3, LastIsNew DEF TypeOK
  <2> QED BY <2>2, <2>3 DEF StaysPut, MovedBy
<1>2. ASSUME SInv, [Next]_vars PROVE [Entered]_vars
  BY <1>1, <1>2
<1> QED BY <1>2, SchemaInvariance, PTL DEF Spec, MoneyMovesByEntry
=============================================================================
