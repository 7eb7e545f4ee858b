------------------------- MODULE WagerRefinementProofs -------------------------
(***************************************************************************)
(* WagerTx implements WagerLedger: every commit of the interleaved READ    *)
(* COMMITTED transactions is one indivisible step of the ledger, decided   *)
(* on the rows as they are at the commit, and nothing else is visible.     *)
(*                                                                         *)
(* The argument needs one more layer of invariants, Serializability: what  *)
(* a transaction has decided from rows it read several statements ago is   *)
(* what it would decide from the rows of now.                              *)
(*                                                                         *)
(* From the same invariant: WagerTx records commands the way               *)
(* CommandDelivery has it, a pending reference is given up when its time   *)
(* has come, not earlier, and whoever is refused is refused rightly.       *)
(***************************************************************************)
EXTENDS WagerHistoryProofs

-----------------------------------------------------------------------------
(* The rules of WagerLedger are those of WagerTx.                            *)

\* Both modules decide commands by the same rules.
LEMMA SameProcessOutcome ==
  ASSUME NEW r, NEW w, NEW ref, NEW reversed, NEW t
  PROVE  Serial!ProcessOutcome(r, w, ref, reversed, t)
           = ProcessOutcome(r, w, ref, reversed, t)
BY DEF Serial!ProcessOutcome, Serial!RequiresReference, Serial!movement,
       Serial!ownDirection, Serial!Unresolved, Serial!persistPendingReference,
       Serial!referenceOutcome, Serial!validateReference, Serial!SameContext,
       Serial!ReferenceKinds, Serial!persistRejected, Serial!persistProcessed,
       Serial!reversalDirection, Serial!CanCredit, Serial!CanDebit, Serial!Credit,
       Serial!Debit, Serial!HasFunds, Serial!InsufficientFunds, Serial!Notice,
       Serial!BalanceChanged,
       ProcessOutcome, RequiresReference, movement, ownDirection, Unresolved,
       persistPendingReference, referenceOutcome, validateReference, SameContext,
       ReferenceKinds, persistRejected, persistProcessed, reversalDirection,
       CanCredit, CanDebit, Credit, Debit, HasFunds, InsufficientFunds, Notice,
       BalanceChanged

\* Both modules decide resolver passes by the same rules.
LEMMA SameResolveOutcome ==
  ASSUME NEW r, NEW w, NEW ref, NEW reversed, NEW t
  PROVE  Serial!ResolveOutcome(r, w, ref, reversed, t)
           = ResolveOutcome(r, w, ref, reversed, t)
BY DEF Serial!ResolveOutcome, Serial!Expired, Serial!rejectPendingReference,
       Serial!Unresolved, Serial!schedulePendingReferenceRetry,
       Serial!referenceRetryBackoff, Serial!resolveReference,
       Serial!validateReference, Serial!SameContext, Serial!ReferenceKinds,
       Serial!settlePendingReference, Serial!persistProcessed,
       Serial!reversalDirection, Serial!CanCredit, Serial!CanDebit, Serial!Credit,
       Serial!Debit, Serial!HasFunds, Serial!Notice, Serial!BalanceChanged,
       ResolveOutcome, Expired, rejectPendingReference, Unresolved,
       schedulePendingReferenceRetry, referenceRetryBackoff, resolveReference,
       validateReference, SameContext, ReferenceKinds, settlePendingReference,
       persistProcessed, reversalDirection, CanCredit, CanDebit, Credit, Debit,
       HasFunds, Notice, BalanceChanged

-----------------------------------------------------------------------------
(* What an outcome depends on.                                               *)

\* An unresolved reference is an unresolved reference.
LEMMA UnresolvedAlike ==
  ASSUME NEW p, NEW a, NEW b, NEW reversed, NEW again, NEW t,
         Unresolved(a), Unresolved(b)
  PROVE  Outcome(p, a, reversed, t) = Outcome(p, b, again, t)
BY DEF Outcome, ProcessOutcome, ResolveOutcome

\* Whether the reference is reversed matters only to a reversal of a usable
\* reference that is not too late.
LEMMA ReversedMatters ==
  ASSUME NEW p, NEW ref \in WagerRow \cup {None}, NEW reversed, NEW again, NEW t,
         row[p] \in WagerRow, p \in Resolver => RequiresReference(row[p].req),
         \/ ~IsReversal(row[p])
         \/ ~Usable(row[p].req, ref)
         \/ p \in Resolver /\ Expired(row[p], t)
  PROVE  Outcome(p, ref, reversed, t) = Outcome(p, ref, again, t)
<1> DEFINE req == row[p].req
<1>1. req.kind \in Kind /\ (ref # None => ref.state \in State)
  BY DEF WagerRow, Request
<1>2. CASE Unresolved(ref)
  BY <1>2, UnresolvedAlike
<1>3. CASE ~Unresolved(ref) /\ p \in Resolver /\ Expired(row[p], t)
  BY <1>3 DEF Outcome, ResolveOutcome
<1>4. CASE ~Unresolved(ref) /\ (~IsReversal(row[p]) \/ ~Usable(req, ref))
  <2>1. \/ ref.state \in {"REJECTED", "FAILED"}
        \/ validateReference(req, ref) # ""
        \/ req.kind = "WIN"
        \/ req.kind \in {"BET", "LOSS"}
    BY <1>1, <1>4 DEF Unresolved, IsReversal, Usable, Kind, State
  <2>2. CASE req.kind \in {"BET", "LOSS"}
    <3>1. ~RequiresReference(row[p].req)
      BY <2>2 DEF RequiresReference
    <3> QED BY <3>1 DEF Outcome, ProcessOutcome
  <2>3. CASE \/ ref.state \in {"REJECTED", "FAILED"}
             \/ validateReference(req, ref) # ""
             \/ req.kind = "WIN"
    <3>1. \A r : r.req = req =>
            /\ referenceOutcome(r, held[p], ref, reversed)
                 = referenceOutcome(r, held[p], ref, again)
            /\ resolveReference(r, held[p], ref, reversed)
                 = resolveReference(r, held[p], ref, again)
      BY <2>3 DEF referenceOutcome, resolveReference
    <3>2. [row[p] EXCEPT !.created = t].req = req
      BY DEF WagerRow
    <3> QED BY <3>1, <3>2 DEF Outcome, ProcessOutcome, ResolveOutcome
  <2> QED BY <2>1, <2>2, <2>3
<1> QED BY <1>2, <1>3, <1>4

-----------------------------------------------------------------------------
(* Serializability: a decision is the one that the rows of now lead to.      *)

FromCommand(p) ==
  (p \in Processor /\ pc[p] # "idle") => \E c \in Commands : row[p] = NewRow(c)

\* The wallet is the one of the player, in the currency of the request.
Addressed(p) ==
  (p \in Processor /\ pc[p] \in {"consult", "reversal", "write", "commit"}) =>
    /\ held[p].player = row[p].req.player
    /\ held[p].currency = row[p].req.currency

DueKept(p) ==
  (p \in Resolver /\ pc[p] # "idle") => row[p].next <= now

\* The row of a resolver is due by the clock t, up to Skew.
OnTime(p, t) == p \in Resolver => row[p].next <= t + Skew

\* A resolver consults the reference after it locked the wallet and read the
\* clock.
ClockKept(p) ==
  p \in Resolver =>
    /\ pc[p] \notin {"recheck", "external"}
    /\ pc[p] \in {"consult", "reversal"} => at[p] \in 0..(now + Skew) /\ OnTime(p, at[p])

\* The draft is the outcome for the visible reference, as it is now.
Serialized(p) ==
  pc[p] \in {"write", "commit"} =>
    \E t \in 0..(now + Skew), ref \in Serial!Visible(row[p].req) :
      draft[p] = Outcome(p, ref, Reversed(row[p]), t) /\ OnTime(p, t)

Serializable(p) ==
  FromCommand(p) /\ Addressed(p) /\ DueKept(p) /\ ClockKept(p) /\ Serialized(p)

Serializability == \A p \in Worker : Serializable(p)

\* What is visible, and what is not: the reference as stored, or nothing.
LEMMA VisibleAre ==
  ASSUME TypeOK, NEW r \in WagerRow
  PROVE  /\ RefOf(r) \in Serial!Visible(r.req)
         /\ \A ref \in Serial!Visible(r.req) :
              /\ ref = RefOf(r) \/ ref = None
              /\ ref \in WagerRow \cup {None}
              /\ ref # RefOf(r) => RefOf(r).req.wallet # r.req.wallet
         /\ (RefOf(r) # None /\ RefOf(r).req.wallet # r.req.wallet)
              => None \in Serial!Visible(r.req)
<1>1. RefOf(r) \in WagerRow \cup {None}
  BY RefOfType
<1>2. CASE r.req.ref = None
  BY <1>2 DEF Serial!Visible, RefOf
<1>3. CASE r.req.ref # None
  <2>1. RefOf(r) = wagers[r.req.ref]
    BY <1>3 DEF RefOf
  <2> QED BY <1>1, <1>3, <2>1 DEF Serial!Visible
<1> QED BY <1>2, <1>3

\* A transaction that does nothing while no wager row changes.
LEMMA SerialKept ==
  ASSUME IInv, Serializability, NEW q \in Worker, Same(q), UNCHANGED wagers,
         now' \in Nat, now <= now'
  PROVE  Serializable(q)'
<1>1. /\ pc'[q] = pc[q] /\ row'[q] = row[q] /\ held'[q] = held[q]
      /\ at'[q] = at[q] /\ draft'[q] = draft[q]
  BY DEF Same
<1>2. Serializable(q) /\ RowKept(q) /\ now \in Nat
  BY DEF Serializability, IInv, TypeOK
<1>3. FromCommand(q)' /\ Addressed(q)'
  BY <1>1, <1>2 DEF Serializable, FromCommand, Addressed
<1>4. DueKept(q)'
  <2>1. (q \in Resolver /\ pc[q] # "idle") => row[q].next \in Nat
    BY <1>2 DEF RowKept, Scheduled
  <2> QED BY <1>1, <1>2, <2>1 DEF Serializable, DueKept
<1>5. 0..(now + Skew) \subseteq 0..(now' + Skew)
  <2>1. Skew \in Nat /\ now \in Nat /\ now' \in Nat /\ now <= now'
    BY <1>2, TimeAssumption
  <2>2. \A a, b, c \in Nat : a <= b => 0..(a + c) \subseteq 0..(b + c)
    OBVIOUS
  <2> QED BY <2>1, <2>2
<1>6. ClockKept(q)'
  BY <1>1, <1>2, <1>5 DEF Serializable, ClockKept, OnTime
<1>7. Serialized(q)'
  <2> SUFFICES ASSUME pc[q] \in {"write", "commit"}
               PROVE  \E t \in 0..(now' + Skew), ref \in Serial!Visible(row[q].req)' :
                        draft'[q] = Outcome(q, ref, Reversed(row[q]), t)' /\ OnTime(q, t)'
    BY <1>1 DEF Serialized
  <2>1. PICK t \in 0..(now + Skew), ref \in Serial!Visible(row[q].req) :
          draft[q] = Outcome(q, ref, Reversed(row[q]), t) /\ OnTime(q, t)
    BY <1>2 DEF Serializable, Serialized
  <2>2. Serial!Visible(row[q].req)' = Serial!Visible(row[q].req)
    BY <1>1 DEF Serial!Visible
  <2>3. Reversed(row[q])' = Reversed(row[q])
    BY <1>1 DEF Reversed
  <2>4. draft'[q] = Outcome(q, ref, Reversed(row[q]), t)'
    BY <1>1, <2>1, <2>3 DEF Outcome
  <2>5. OnTime(q, t)'
    BY <1>1, <2>1 DEF OnTime
  <2> QED BY <1>5, <2>1, <2>2, <2>4, <2>5
<1> QED BY <1>3, <1>4, <1>6, <1>7 DEF Serializable

\* A step of p that leaves the wager rows and the other transactions alone.
LEMMA SerialLocal ==
  ASSUME IInv, Serializability, NEW p \in Worker, Alone(p), TablesKept, Serializable(p)'
  PROVE  Serializability'
<1>1. now' \in Nat /\ now <= now' /\ UNCHANGED wagers
  BY DEF IInv, TypeOK, TablesKept
<1>2. ASSUME NEW q \in Worker PROVE Serializable(q)'
  BY <1>1, SerialKept DEF Alone
<1> QED BY <1>2 DEF Serializability

\* A transaction that is over has decided nothing.
LEMMA SerialEnds ==
  ASSUME IInv, Serializability, NEW p \in Worker, NEW a, Ends(p, a)
  PROVE  Serializability'
<1>1. Serializable(p)'
  BY DEF Ends, Serializable, FromCommand, Addressed, DueKept, ClockKept, Serialized
<1> QED BY <1>1, SerialLocal DEF Ends

\* A transaction that goes on keeps its row.
LEMMA SerialRow ==
  ASSUME IInv, Serializability, NEW p \in Worker, NEW label, GoesOn(p, label),
         pc[p] # "idle"
  PROVE  FromCommand(p)' /\ DueKept(p)'
<1>1. row'[p] = row[p] /\ now' = now
  BY DEF GoesOn, TablesKept
<1>2. FromCommand(p) /\ DueKept(p)
  BY DEF Serializability, Serializable
<1> QED BY <1>1, <1>2 DEF FromCommand, DueKept

\* The clock of an instance is at most Skew ahead.
LEMMA ClockBound ==
  ASSUME TypeOK, NEW t \in AppClock
  PROVE  t \in 0..(now + Skew)
<1>1. now \in Nat /\ Skew \in Nat
  BY TimeAssumption DEF TypeOK
<1> QED BY <1>1 DEF AppClock

\* Deciding on the stored reference.
LEMMA SerialDecide ==
  ASSUME IInv, Identity, Serializability, NEW p \in Worker,
         pc[p] \in {"consult", "reversal"}, NEW reversed,
         Decide(p, RefOf(row[p]), reversed),
         \/ reversed = Reversed(row[p])
         \/ ~AsksReversal(p, RefOf(row[p]))
  PROVE  Serializability'
<1>1. TypeOK /\ row[p] \in WagerRow
  BY DEF IInv, RowKept
<1>2. \/ Ends(p, Refusal(row[p], "OVERFLOW"))
      \/ /\ GoesOn(p, "write") /\ held'[p] = held[p]
         /\ \E t \in IF p \in Resolver THEN {at[p]} ELSE AppClock :
              draft'[p] = Outcome(p, RefOf(row[p]), reversed, t)
  BY <1>1, DecideEffect
<1>3. CASE Ends(p, Refusal(row[p], "OVERFLOW"))
  BY <1>3, SerialEnds
<1>4. CASE /\ GoesOn(p, "write") /\ held'[p] = held[p]
           /\ \E t \in IF p \in Resolver THEN {at[p]} ELSE AppClock :
                draft'[p] = Outcome(p, RefOf(row[p]), reversed, t)
  <2>1. /\ Alone(p) /\ TablesKept /\ pc'[p] = "write" /\ row'[p] = row[p]
        /\ wagers' = wagers /\ now' = now
    BY <1>4 DEF GoesOn, TablesKept
  <2>2. PICK t \in IF p \in Resolver THEN {at[p]} ELSE AppClock :
          draft'[p] = Outcome(p, RefOf(row[p]), reversed, t)
    BY <1>4
  <2>3. t \in 0..(now + Skew)
    <3>1. p \in Resolver => at[p] \in 0..(now + Skew)
      BY DEF Serializability, Serializable, ClockKept
    <3> QED BY <1>1, <2>2, <3>1, ClockBound
  <2>4. PICK r \in WagerRow : r = row[p]
    BY <1>1
  <2>5. PICK ref \in WagerRow \cup {None} : ref = RefOf(r)
    BY <1>1, RefOfType
  <2>6. Outcome(p, ref, reversed, t) = Outcome(p, ref, Reversed(row[p]), t)
    <3>1. p \in Resolver => RequiresReference(row[p].req)
      BY DEF Identity, WorkRow
    <3>2. CASE ~AsksReversal(p, ref)
      <4>1. \/ ~IsReversal(row[p])
            \/ ~Usable(row[p].req, ref)
            \/ p \in Resolver /\ Expired(row[p], t)
        BY <2>2, <3>2 DEF AsksReversal
      <4> QED BY <1>1, <3>1, <4>1, ReversedMatters
    <3> QED BY <2>4, <2>5, <3>2
  <2>7. ref \in Serial!Visible(r.req)
    BY <1>1, <2>5, VisibleAre
  <2>8. Serial!Visible(row[p].req)' = Serial!Visible(r.req)
    BY <2>1, <2>4 DEF Serial!Visible
  <2>9. draft'[p] = Outcome(p, ref, Reversed(row[p]), t)'
    <3>1. Reversed(row[p])' = Reversed(row[p])
      BY <2>1 DEF Reversed
    <3>2. draft'[p] = Outcome(p, ref, Reversed(row[p]), t)
      BY <2>2, <2>4, <2>5, <2>6
    <3> QED BY <1>4, <2>1, <3>1, <3>2 DEF Outcome
  <2>10. Serialized(p)'
    <3>1. OnTime(p, t)'
      <4>1. p \in Resolver => t = at[p] /\ OnTime(p, at[p])
        BY <2>2 DEF Serializability, Serializable, ClockKept
      <4> QED BY <2>1, <4>1 DEF OnTime
    <3> QED BY <2>1, <2>3, <2>7, <2>8, <2>9, <3>1 DEF Serialized
  <2>11. Addressed(p)' /\ ClockKept(p)'
    BY <1>4, <2>1 DEF Serializability, Serializable, Addressed, ClockKept
  <2>12. FromCommand(p)' /\ DueKept(p)'
    BY <1>4, SerialRow
  <2> QED BY <2>1, <2>10, <2>11, <2>12, SerialLocal DEF Serializable
<1> QED BY <1>2, <1>3, <1>4

\* The commit of p leaves the decision of q the one it would make now.  A row
\* of q's wallet cannot have changed, since q holds the lock; of a reference
\* in another wallet q may have seen nothing.
LEMMA SerialCommitOther ==
  ASSUME IInv, Identity, References, Serializability, NEW p \in Worker, Commit(p),
         NEW q \in Worker, q # p, pc[q] \in {"write", "commit"}
  PROVE  \E t \in 0..(now + Skew), ref \in Serial!Visible(row[q].req)' :
           draft'[q] = Outcome(q, ref, Reversed(row[q]), t)' /\ OnTime(q, t)'
<1> DEFINE x == row[p].req.ext
<1>1. /\ pc[p] = "commit" /\ Alone(p) /\ x \in Ext /\ row[p] \in WagerRow
      /\ wagers'[x] = draft[p].row /\ draft[p].row.req = row[p].req
      /\ \A y \in Ext \ {x} : wagers'[y] = wagers[y]
  BY CommitEffect
<1>2. /\ wagers[x] = None \/ wagers[x].state = "PENDING_REFERENCE"
      /\ wagers'[x] # None
  BY <1>1, CommitReplaces DEF Worker
<1>3. TypeOK /\ RowsKept /\ TypeOK'
  BY CommitKeepsRows, CommitStep DEF IInv
<1>4. row'[q] = row[q] /\ held'[q] = held[q] /\ draft'[q] = draft[q]
  BY <1>1 DEF Alone, Same
<1>5. PICK r \in WagerRow : r = row[q]
  BY DEF IInv, RowKept
<1>6. PICK t \in 0..(now + Skew), ref \in Serial!Visible(r.req) :
        draft[q] = Outcome(q, ref, Reversed(row[q]), t) /\ OnTime(q, t)'
  BY <1>4, <1>5 DEF Serializability, Serializable, Serialized, OnTime
<1>7. PICK again \in BOOLEAN : again = Reversed(row[q])'
  BY DEF Reversed, referenceAlreadyReversed
<1>8. \A a : Outcome(q, a, Reversed(row[q]), t)' = Outcome(q, a, again, t)
  BY <1>4, <1>7 DEF Outcome
<1>9. /\ ref = RefOf(r) \/ ref = None
      /\ ref \in WagerRow \cup {None}
  BY <1>3, <1>6, VisibleAre
<1>10. p \in Worker /\ pc[p] \in Locked /\ pc[q] \in Locked
  BY <1>1 DEF Locked
<1>11. CASE r.req.ref = None \/ wagers'[r.req.ref] = wagers[r.req.ref]
  <2>1. Serial!Visible(row[q].req)' = Serial!Visible(r.req)
    BY <1>4, <1>5, <1>11 DEF Serial!Visible
  <2>2. ASSUME IsReversal(row[q]), Usable(row[q].req, ref), Reversed(row[q]) # again
        PROVE  FALSE
    <3>1. ref = RefOf(row[q])
      BY <1>5, <1>9, <2>2, UsableMeans
    <3>2. ~ (Reversed(row[q]) /\ ~again)
      <4> SUFFICES ASSUME Reversed(row[q]) PROVE again
        OBVIOUS
      <4>1. PICK y \in Ext : /\ wagers[y] # None
                             /\ IsReversal(wagers[y])
                             /\ wagers[y].state = "PROCESSED"
                             /\ wagers[y].refd = row[q].req.ref
        BY DEF Reversed, referenceAlreadyReversed
      <4>2. wagers'[y] = wagers[y]
        BY <1>3, <4>1 DEF RowsKept
      <4> QED BY <1>4, <1>7, <4>1, <4>2 DEF Reversed, referenceAlreadyReversed, IsReversal
    <3>3. Reversed(row[q]) \in BOOLEAN
      BY DEF Reversed, referenceAlreadyReversed
    <3>4. ~Reversed(row[q]) /\ again
      BY <2>2, <3>2, <3>3
    <3>5. PICK y \in Ext : /\ wagers'[y] # None
                           /\ IsReversal(wagers'[y])
                           /\ wagers'[y].state = "PROCESSED"
                           /\ wagers'[y].refd = row[q].req.ref
      BY <1>4, <1>7, <3>4 DEF Reversed, referenceAlreadyReversed, IsReversal
    <3>6. y = x
      BY <1>1, <3>4, <3>5 DEF Reversed, referenceAlreadyReversed
    <3>7. /\ draft[p].row.state = "PROCESSED" /\ IsReversal(draft[p].row)
          /\ draft[p].row.refd = row[q].req.ref
      BY <1>1, <3>5, <3>6
    <3>8. IsReversal(row[p]) /\ draft[p].row.refd = row[p].req.ref
      BY <1>1, <3>7, ReversalDecision
    <3>9. row[p].req.ref = row[q].req.ref /\ Usable(row[q].req, RefOf(row[q]))
      BY <2>2, <3>1, <3>7, <3>8
    <3> QED BY <1>1, <1>10, <3>7, <3>8, <3>9, OneReverser
  <2>3. Outcome(q, ref, Reversed(row[q]), t) = Outcome(q, ref, again, t)
    <3>1. q \in Resolver => RequiresReference(row[q].req)
      BY DEF Identity, WorkRow
    <3>2. CASE ~IsReversal(row[q]) \/ ~Usable(row[q].req, ref)
      BY <1>5, <1>9, <3>1, <3>2, ReversedMatters
    <3> QED BY <2>2, <3>2
  <2>4. draft'[q] = Outcome(q, ref, Reversed(row[q]), t)'
    BY <1>4, <1>6, <1>8, <2>3
  <2> QED BY <1>6, <2>1, <2>4
<1>12. CASE r.req.ref # None /\ wagers'[r.req.ref] # wagers[r.req.ref]
  <2>1. r.req.ref = x
    BY <1>1, <1>12 DEF WagerRow, Request
  <2>2. Unresolved(ref) /\ Unresolved(None)
    BY <1>2, <1>9, <2>1 DEF RefOf, Unresolved
  <2>3. wagers'[x].req.wallet # r.req.wallet
    BY <1>1, <1>5, <1>10 DEF IInv, LocksExclude
  <2>4. None \in Serial!Visible(row[q].req)'
    BY <1>2, <1>4, <1>5, <1>12, <2>1, <2>3 DEF Serial!Visible
  <2>5. Outcome(q, ref, Reversed(row[q]), t) = Outcome(q, None, again, t)
    BY <2>2, UnresolvedAlike
  <2>6. draft'[q] = Outcome(q, None, Reversed(row[q]), t)'
    BY <1>4, <1>6, <1>8, <2>5
  <2> QED BY <1>6, <2>4, <2>6
<1> QED BY <1>11, <1>12

\* The commit of p keeps the decisions of all.
LEMMA SerialCommit ==
  ASSUME IInv, Identity, References, Serializability, NEW p \in Worker, Commit(p)
  PROVE  Serializability'
<1>1. pc'[p] = "idle" /\ Alone(p) /\ now' = now
  BY CommitEffect
<1>2. Serializable(p)'
  BY <1>1 DEF Serializable, FromCommand, Addressed, DueKept, ClockKept, Serialized
<1>3. ASSUME NEW q \in Worker, q # p PROVE Serializable(q)'
  <2>1. /\ pc'[q] = pc[q] /\ row'[q] = row[q] /\ held'[q] = held[q] /\ at'[q] = at[q]
    BY <1>1, <1>3 DEF Alone, Same
  <2>2. Serializable(q)
    BY DEF Serializability
  <2>3. FromCommand(q)' /\ Addressed(q)' /\ DueKept(q)' /\ ClockKept(q)'
    BY <1>1, <2>1, <2>2 DEF Serializable, FromCommand, Addressed, DueKept, ClockKept, OnTime
  <2>4. Serialized(q)'
    <3> SUFFICES ASSUME pc[q] \in {"write", "commit"}
                 PROVE  \E t \in 0..(now + Skew), ref \in Serial!Visible(row[q].req)' :
                          draft'[q] = Outcome(q, ref, Reversed(row[q]), t)' /\ OnTime(q, t)'
      BY <1>1, <2>1 DEF Serialized
    <3> QED BY <1>3, SerialCommitOther
  <2> QED BY <2>3, <2>4 DEF Serializable
<1> QED BY <1>2, <1>3 DEF Serializability

\* A step that no transaction takes.
LEMMA SerialQuiet ==
  ASSUME IInv, Serializability, UNCHANGED <<wagers, local, reply>>,
         now' \in Nat, now <= now'
  PROVE  Serializability'
<1>1. \A q \in Worker : Same(q)
  BY DEF Same, local
<1> QED BY <1>1, SerialKept DEF Serializability

\* Every step keeps the decisions serializable.
LEMMA NextSerial ==
  ASSUME IInv, Identity, References, Serializability, [Next]_vars
  PROVE  Serializability'
<1>1. TypeOK
  BY DEF IInv
<1>2. ASSUME NEW p \in Processor, NEW c \in Commands, Receive(p, c)
      PROVE  Serializability'
  <2>1. p \in Worker /\ p \notin Resolver
    BY WorkerAssumption DEF Worker
  <2>2. \/ Ends(p, Refusal(NewRow(c), "INVALID"))
        \/ Ends(p, findIdempotentReplay(NewRow(c)))
        \/ pc'[p] = "lock" /\ row'[p] = NewRow(c) /\ Alone(p) /\ TablesKept
    BY <1>1, <1>2, ReceiveEffect
  <2>3. CASE pc'[p] = "lock" /\ row'[p] = NewRow(c) /\ Alone(p) /\ TablesKept
    <3>1. Serializable(p)'
      BY <2>1, <2>3 DEF Serializable, FromCommand, Addressed, DueKept, ClockKept, Serialized
    <3> QED BY <2>1, <2>3, <3>1, SerialLocal
  <2> QED BY <2>1, <2>2, <2>3, SerialEnds
<1>3. ASSUME NEW r \in Resolver, findDuePendingReference(r) PROVE Serializability'
  <2>1. r \in Worker /\ r \notin Processor
    BY WorkerAssumption DEF Worker
  <2>2. /\ \E x \in Due : row'[r] = wagers[x]
        /\ pc'[r] = "lock" /\ Alone(r) /\ TablesKept
    BY <1>1, <1>3, ClaimEffect
  <2>3. row'[r].next <= now /\ now' = now
    <3>1. PICK x \in Due : row'[r] = wagers[x]
      BY <2>2
    <3>2. wagers[x].next \in Nat
      BY <3>1 DEF Due, IInv, StoredScheduled, Scheduled
    <3> QED BY <2>2, <3>1, <3>2, NoneAssumption DEF Due, TablesKept
  <2>4. Serializable(r)'
    BY <2>1, <2>2, <2>3 DEF Serializable, FromCommand, Addressed, DueKept, ClockKept,
                            Serialized
  <2> QED BY <2>1, <2>2, <2>4, SerialLocal
<1>4. ASSUME NEW p \in Worker, NEW label \in {"recheck", "external", "consult", "reversal",
                                              "commit"},
             pc[p] # "idle", GoesOn(p, label),
             Addressed(p)', ClockKept(p)', Serialized(p)'
      PROVE  Serializability'
  <2>1. FromCommand(p)' /\ DueKept(p)'
    BY <1>4, SerialRow
  <2> QED BY <1>4, <2>1, SerialLocal DEF Serializable, GoesOn
<1>5. ASSUME NEW p \in Worker, lockWallet(p) PROVE Serializability'
  <2>1. /\ pc[p] = "lock"
        /\ \/ Ends(p, Refusal(row[p], "WALLET_NOT_FOUND"))
           \/ /\ GoesOn(p, IF p \in Resolver THEN "consult" ELSE "recheck")
              /\ p \in Resolver => at'[p] \in AppClock
    BY <1>1, <1>5, LockEffect
  <2>2. CASE p \in Resolver /\ GoesOn(p, "consult") /\ at'[p] \in AppClock
    <3>1. pc'[p] = "consult" /\ now' = now /\ p \notin Processor
      BY <2>2, WorkerAssumption DEF GoesOn, TablesKept
    <3>2. at'[p] \in 0..(now + Skew) /\ OnTime(p, at[p])'
      <4>1. at'[p] \in 0..(now + Skew)
        BY <1>1, <2>2, ClockBound
      <4>2. row[p].next \in Nat /\ row[p].next <= now /\ row'[p] = row[p]
        BY <2>1, <2>2 DEF GoesOn, IInv, RowKept, Scheduled, Serializability, Serializable,
                          DueKept
      <4>3. at'[p] \in Nat /\ now <= at'[p] + Skew /\ now \in Nat /\ Skew \in Nat
        BY <1>1, <2>2, TimeAssumption DEF AppClock, TypeOK
      <4>4. row[p].next <= at'[p] + Skew
        BY <4>2, <4>3
      <4> QED BY <4>1, <4>2, <4>4 DEF OnTime
    <3>3. Addressed(p)' /\ ClockKept(p)' /\ Serialized(p)'
      BY <3>1, <3>2 DEF Addressed, ClockKept, Serialized
    <3> QED BY <1>4, <2>1, <2>2, <3>3
  <2>3. CASE p \notin Resolver /\ GoesOn(p, "recheck")
    <3>1. pc'[p] = "recheck"
      BY <2>3 DEF GoesOn
    <3>2. Addressed(p)' /\ ClockKept(p)' /\ Serialized(p)'
      BY <2>3, <3>1 DEF Addressed, ClockKept, Serialized
    <3> QED BY <1>4, <2>1, <2>3, <3>2
  <2> QED BY <2>1, <2>2, <2>3, SerialEnds
<1>6. ASSUME NEW p \in Worker, Recheck(p) PROVE Serializability'
  <2>1. /\ pc[p] = "recheck"
        /\ Ends(p, findIdempotentReplay(row[p])) \/ GoesOn(p, "external")
    BY <1>1, <1>6, RecheckEffect
  <2>2. CASE GoesOn(p, "external")
    <3>1. pc'[p] = "external" /\ p \notin Resolver
      BY <2>1, <2>2 DEF GoesOn, Serializability, Serializable, ClockKept
    <3>2. Addressed(p)' /\ ClockKept(p)' /\ Serialized(p)'
      BY <3>1 DEF Addressed, ClockKept, Serialized
    <3> QED BY <1>4, <2>1, <2>2, <3>2
  <2> QED BY <2>1, <2>2, SerialEnds
<1>7. ASSUME NEW p \in Worker, CheckExternal(p) PROVE Serializability'
  <2>1. /\ pc[p] = "external"
        /\ \/ \E e \in Errors : Ends(p, Refusal(row[p], e))
           \/ /\ GoesOn(p, "consult") /\ held'[p] = held[p]
              /\ held[p].player = row[p].req.player
              /\ held[p].currency = row[p].req.currency
    BY <1>1, <1>7, ExternalEffect DEF Errors
  <2>2. CASE /\ GoesOn(p, "consult") /\ held'[p] = held[p]
             /\ held[p].player = row[p].req.player
             /\ held[p].currency = row[p].req.currency
    <3>1. pc'[p] = "consult" /\ row'[p] = row[p] /\ p \notin Resolver
      BY <2>1, <2>2 DEF GoesOn, Serializability, Serializable, ClockKept
    <3>2. Addressed(p)' /\ ClockKept(p)' /\ Serialized(p)'
      BY <2>2, <3>1 DEF Addressed, ClockKept, Serialized
    <3> QED BY <1>4, <2>1, <2>2, <3>2
  <2> QED BY <2>1, <2>2, SerialEnds
<1>8. ASSUME NEW p \in Worker, Consult(p) PROVE Serializability'
  <2> DEFINE ref == RefOf(row[p])
  <2>1. /\ pc[p] = "consult"
        /\ \/ GoesOn(p, "reversal") /\ held'[p] = held[p] /\ at'[p] = at[p]
           \/ ~AsksReversal(p, ref) /\ Decide(p, ref, FALSE)
    BY <1>1, <1>8, ConsultEffect
  <2>2. CASE GoesOn(p, "reversal") /\ held'[p] = held[p] /\ at'[p] = at[p]
    <3>1. pc'[p] = "reversal" /\ row'[p] = row[p] /\ now' = now
      BY <2>2 DEF GoesOn, TablesKept
    <3>2. Addressed(p) /\ ClockKept(p)
      BY DEF Serializability, Serializable
    <3>3. Addressed(p)' /\ ClockKept(p)' /\ Serialized(p)'
      BY <2>1, <2>2, <3>1, <3>2 DEF Addressed, ClockKept, OnTime, Serialized
    <3> QED BY <1>4, <2>1, <2>2, <3>3
  <2>3. CASE ~AsksReversal(p, ref) /\ Decide(p, ref, FALSE)
    BY <2>1, <2>3, SerialDecide
  <2> QED BY <2>1, <2>2, <2>3
<1>9. ASSUME NEW p \in Worker, CheckReversed(p) PROVE Serializability'
  <2>1. pc[p] = "reversal" /\ Decide(p, found[p], Reversed(row[p]))
    BY <1>9 DEF CheckReversed, Reversed
  <2>2. found[p] = RefOf(row[p])
    BY <2>1 DEF References, FoundKept
  <2> QED BY <2>1, <2>2, SerialDecide
<1>10. ASSUME NEW p \in Worker, Write(p) PROVE Serializability'
  <2>1. /\ pc[p] = "write"
        /\ \/ Ends(p, Refusal(row[p], WriteError(p)))
           \/ GoesOn(p, "commit") /\ held'[p] = held[p] /\ draft'[p] = draft[p]
    BY <1>1, <1>10, WriteEffect
  <2>2. CASE GoesOn(p, "commit") /\ held'[p] = held[p] /\ draft'[p] = draft[p]
    <3>1. /\ pc'[p] = "commit" /\ row'[p] = row[p] /\ now' = now /\ wagers' = wagers
      BY <2>2 DEF GoesOn, TablesKept
    <3>2. Addressed(p) /\ Serialized(p)
      BY DEF Serializability, Serializable
    <3>3. Addressed(p)' /\ ClockKept(p)'
      BY <2>1, <2>2, <3>1, <3>2 DEF Addressed, ClockKept
    <3>4. Serialized(p)'
      <4>1. PICK t \in 0..(now + Skew), ref \in Serial!Visible(row[p].req) :
              draft[p] = Outcome(p, ref, Reversed(row[p]), t) /\ OnTime(p, t)
        BY <2>1, <3>2 DEF Serialized
      <4>2. Serial!Visible(row[p].req)' = Serial!Visible(row[p].req)
        BY <3>1 DEF Serial!Visible
      <4>3. Reversed(row[p])' = Reversed(row[p])
        BY <3>1 DEF Reversed
      <4>4. draft'[p] = Outcome(p, ref, Reversed(row[p]), t)'
        BY <2>2, <3>1, <4>1, <4>3 DEF Outcome
      <4>5. OnTime(p, t)'
        BY <3>1, <4>1 DEF OnTime
      <4> QED BY <3>1, <4>1, <4>2, <4>4, <4>5 DEF Serialized
    <3> QED BY <1>4, <2>1, <2>2, <3>3, <3>4
  <2> QED BY <2>1, <2>2, SerialEnds
<1>11. ASSUME NEW p \in Worker, Commit(p) PROVE Serializability'
  BY <1>11, SerialCommit
<1>12. ASSUME NEW p \in Worker, Abort(p) PROVE Serializability'
  <2>1. Ends(p, None)
    BY <1>1, <1>12, FinishEffect DEF Abort
  <2> QED BY <2>1, SerialEnds
<1>13. ASSUME \/ \E w \in Wallet, o \in Openings : CreateWallet(w, o)
              \/ Tick
              \/ UNCHANGED vars
       PROVE  Serializability'
  <2>1. UNCHANGED <<wagers, local, reply>>
    BY <1>13 DEF CreateWallet, Tick, vars, local, db
  <2>2. now' \in Nat /\ now <= now'
    <3>1. now \in Nat
      BY <1>1 DEF TypeOK
    <3>2. now' = now \/ now' = now + 1
      BY <1>13 DEF CreateWallet, Tick, vars
    <3> QED BY <3>1, <3>2
  <2> QED BY <2>1, <2>2, SerialQuiet
<1> QED BY <1>2, <1>3, <1>5, <1>6, <1>7, <1>8, <1>9, <1>10, <1>11, <1>12, <1>13
        DEF Next, Advance

-----------------------------------------------------------------------------
(* Refinement, step by step.                                                 *)

\* The commit of a processor is a command that takes effect at once.
LEMMA ProcessorRefines ==
  ASSUME IInv, Identity, Serializability, NEW p \in Processor, Commit(p)
  PROVE  \E t \in 0..(now + Skew), c \in Commands : Serial!Handle(c, t)
<1>1. p \in Worker /\ p \notin Resolver /\ pc[p] = "commit"
  BY WorkerAssumption DEF Worker, Commit
<1>2. PICK c \in Commands : row[p] = NewRow(c)
  BY <1>1 DEF Serializability, Serializable, FromCommand
<1> DEFINE r == NewRow(c)
<1>3. r.req = c.req /\ r.key = c.key
  BY DEF NewRow
<1> HIDE DEF r
<1>4. PICK t \in 0..(now + Skew), ref \in Serial!Visible(c.req) :
        draft[p] = Outcome(p, ref, Reversed(r), t)
  BY <1>1, <1>2, <1>3 DEF Serializability, Serializable, Serialized, r
<1>5. draft[p] = Serial!ProcessOutcome(Serial!NewRow(c), wallets[c.req.wallet], ref,
                   Serial!referenceAlreadyReversed(wagers, c.req.ref), t)
  <2>1. held[p] = wallets[c.req.wallet]
    BY <1>1, <1>2, <1>3 DEF IInv, WalletKept, Locked, r
  <2>2. draft[p] = ProcessOutcome(r, wallets[c.req.wallet], ref, Reversed(r), t)
    BY <1>1, <1>2, <1>4, <2>1 DEF Outcome, r
  <2>3. Serial!NewRow(c) = r
    BY DEF Serial!NewRow, NewRow, r
  <2>4. Serial!referenceAlreadyReversed(wagers, c.req.ref) = Reversed(r)
    BY <1>3 DEF Serial!referenceAlreadyReversed, Serial!IsReversal,
                Reversed, referenceAlreadyReversed, IsReversal
  <2> QED BY <2>2, <2>3, <2>4, SameProcessOutcome
<1>6. draft[p] # None /\ Serial!Apply(draft[p])
  <2>1. draft[p] # None
    BY <1>1, NoneAssumption DEF IInv, DraftKept, Explained
  <2> QED BY <2>1 DEF Commit, Serial!Apply
<1>7. Serial!ValidateExternal(c.req)
  <2>1. ValidateExternal(c.req)
    BY <1>1, <1>2, <1>3 DEF Identity, WorkRow, r
  <2> QED BY <2>1 DEF ValidateExternal, Serial!ValidateExternal, Kind, Serial!Kind
<1>8. /\ \A x \in Ext : wagers[x] # None => wagers[x].key # c.key
      /\ wagers[c.req.ext] = None
  BY <1>1, <1>2, <1>3 DEF Identity, InsertIsNew, r
<1>9. /\ wallets[c.req.wallet] # None
      /\ wallets[c.req.wallet].player = c.req.player
      /\ wallets[c.req.wallet].currency = c.req.currency
  <2>1. held[p] \in WalletRow /\ held[p] = wallets[c.req.wallet]
    BY <1>1, <1>2, <1>3 DEF IInv, WalletKept, Locked, r
  <2>2. held[p].player = c.req.player /\ held[p].currency = c.req.currency
    BY <1>1, <1>2, <1>3 DEF Serializability, Serializable, Addressed, r
  <2> QED BY <2>1, <2>2, NoneAssumption
<1>10. Serial!Handle(c, t)
  BY <1>4, <1>5, <1>6, <1>7, <1>8, <1>9 DEF Serial!Handle
<1> QED BY <1>4, <1>10

\* The commit of a resolver is a pass that takes effect at once.
LEMMA ResolverRefines ==
  ASSUME IInv, Identity, Serializability, NEW p \in Resolver, Commit(p)
  PROVE  \E t \in 0..(now + Skew), x \in Ext : Serial!Resolve(x, t)
<1>1. p \in Worker /\ pc[p] = "commit"
  BY DEF Worker, Commit
<1>2. PICK r \in WagerRow : r = row[p]
  BY <1>1 DEF IInv, RowKept
<1> DEFINE x == r.req.ext
<1>3. x \in Ext /\ wagers[x] = r /\ r.state = "PENDING_REFERENCE"
  BY <1>1, <1>2 DEF Identity, ClaimIsCurrent, IInv, RowKept, WagerRow, Request
<1>4. r.next <= now /\ r # None
  BY <1>1, <1>2, NoneAssumption DEF Serializability, Serializable, DueKept
<1>5. PICK t \in 0..(now + Skew), ref \in Serial!Visible(r.req) :
        draft[p] = Outcome(p, ref, Reversed(r), t) /\ r.next <= t + Skew
  BY <1>1, <1>2 DEF Serializability, Serializable, Serialized, OnTime
<1> HIDE DEF x
<1>6. draft[p] = Serial!ResolveOutcome(r, wallets[r.req.wallet], ref,
                   Serial!referenceAlreadyReversed(wagers, r.req.ref), t)
  <2>1. held[p] = wallets[r.req.wallet]
    BY <1>1, <1>2 DEF IInv, WalletKept, Locked
  <2>2. draft[p] = ResolveOutcome(r, wallets[r.req.wallet], ref, Reversed(r), t)
    BY <1>2, <1>5, <2>1 DEF Outcome
  <2>3. Serial!referenceAlreadyReversed(wagers, r.req.ref) = Reversed(r)
    BY DEF Serial!referenceAlreadyReversed, Serial!IsReversal,
           Reversed, referenceAlreadyReversed, IsReversal
  <2> QED BY <2>2, <2>3, SameResolveOutcome
<1>7. draft[p] # None /\ Serial!Apply(draft[p])
  <2>1. draft[p] # None
    BY <1>1, NoneAssumption DEF IInv, DraftKept, Explained
  <2> QED BY <2>1 DEF Commit, Serial!Apply
<1>8. Serial!Resolve(x, t)
  BY <1>3, <1>4, <1>5, <1>6, <1>7 DEF Serial!Resolve
<1> QED BY <1>3, <1>5, <1>8

\* Every step is a step of the ledger or leaves it alone.
LEMMA NextRefines ==
  ASSUME IInv, Identity, Serializability, [Next]_vars
  PROVE  [Serial!Next]_Serial!vars
<1>1. TypeOK
  BY DEF IInv
<1>2. ASSUME NEW p \in Worker, Commit(p) PROVE Serial!Next
  <2>1. CASE p \in Processor
    BY <1>2, <2>1, ProcessorRefines DEF Serial!Next
  <2>2. CASE p \in Resolver
    BY <1>2, <2>2, ResolverRefines DEF Serial!Next
  <2> QED BY <2>1, <2>2 DEF Worker
<1>3. ASSUME NEW w \in Wallet, NEW o \in Openings, CreateWallet(w, o) PROVE Serial!Next
  <2>1. Serial!CreateWallet(w, o)
    BY <1>3 DEF CreateWallet, Serial!CreateWallet, NewWallet, Serial!NewWallet,
                createOpeningTransaction, Serial!createOpeningTransaction, Notice,
                Serial!Notice, BalanceChanged, Serial!BalanceChanged
  <2> QED BY <2>1 DEF Serial!Next
<1>4. ASSUME Tick PROVE Serial!Next
  BY <1>4 DEF Tick, db, Serial!Tick, Serial!db, Serial!Next
<1>5. ASSUME UNCHANGED db, UNCHANGED now PROVE UNCHANGED Serial!vars
  BY <1>5 DEF db, Serial!vars
<1> QED BY <1>1, <1>2, <1>3, <1>4, <1>5, TablesStep

-----------------------------------------------------------------------------
(* WagerTx implements WagerLedger.                                           *)

\* What a commit needs to be a step of WagerLedger.
RInv == HInv /\ Serializability

\* No transaction is open in the first state.
LEMMA InitRInv == Init => RInv
<1> SUFFICES ASSUME Init PROVE RInv
  OBVIOUS
<1>1. HInv
  BY InitHInv
<1>2. \A p \in Worker : pc[p] = "idle"
  BY DEF Init
<1>3. Serializability
  BY <1>2 DEF Serializability, Serializable, FromCommand, Addressed, DueKept, ClockKept,
              Serialized
<1> QED BY <1>1, <1>3 DEF RInv

\* No step breaks it.
LEMMA NextRInv == ASSUME RInv, [Next]_vars PROVE RInv'
BY NextHInv, NextSerial DEF RInv, HInv

\* Every reachable state satisfies RInv.
THEOREM RefinementInvariance == Spec => []RInv
<1> QED BY InitRInv, NextRInv, PTL DEF Spec

\* The first state is an initial state of WagerLedger.
LEMMA InitRefines == Init => Serial!Init
BY DEF Init, Serial!Init

\* Every commit of processWagerTx or of the resolver acts on the tables as if its
\* whole transaction had run alone at that moment, by a clock at most Skew ahead of
\* it and, for a resolver, at most Skew short of the attempt that was due: the
\* transactions are serializable in the order of their commits.
THEOREM LedgerIsImplemented == Spec => ImplementsLedger
<1>1. ASSUME RInv, [Next]_vars PROVE [Serial!Next]_Serial!vars
  BY <1>1, NextRefines DEF RInv, HInv
<1> QED BY <1>1, InitRefines, RefinementInvariance, PTL
        DEF Spec, ImplementsLedger, Serial!Spec

-----------------------------------------------------------------------------
(* WagerTx records commands as CommandDelivery has it.                       *)

\* The one wager stored under a key decides what is recorded there.
LEMMA RecordedIs ==
  ASSUME NEW k, NEW x \in Ext
  PROVE  /\ StoredUnder(k) = {x} => Recorded(k) = wagers[x].req
         /\ (StoredUnder(k) = {x})' => Recorded(k)' = wagers'[x].req
<1>1. ASSUME StoredUnder(k) = {x} PROVE Recorded(k) = wagers[x].req
  <2>1. (CHOOSE y \in Ext : StoredUnder(k) = {y}) = x
    BY <1>1
  <2> QED BY <1>1, <2>1 DEF Recorded
<1>2. ASSUME (StoredUnder(k) = {x})' PROVE Recorded(k)' = wagers'[x].req
  <2>1. (CHOOSE y \in Ext : StoredUnder(k)' = {y}) = x
    BY <1>2
  <2> QED BY <1>2, <2>1 DEF Recorded
<1> QED BY <1>1, <1>2

\* Nothing is recorded under a key that no stored wager has.
LEMMA RecordedNothing ==
  ASSUME NEW k
  PROVE  /\ StoredUnder(k) = {} => Recorded(k) = None
         /\ (StoredUnder(k) = {})' => Recorded(k)' = None
BY DEF Recorded

\* A step that keeps the identities of the wagers with key k.
LEMMA RecordedKept ==
  ASSUME Identity, NEW k, StoredUnder(k)' = StoredUnder(k),
         \A x \in StoredUnder(k) : wagers'[x].req = wagers[x].req
  PROVE  Recorded(k)' = Recorded(k)
<1>1. CASE StoredUnder(k) = {}
  BY <1>1, RecordedNothing
<1>2. CASE StoredUnder(k) # {}
  <2>1. PICK x \in Ext : x \in StoredUnder(k)
    BY <1>2 DEF StoredUnder
  <2>2. StoredUnder(k) = {x}
    BY <2>1 DEF StoredUnder, Identity, UniqueKeys
  <2> QED BY <2>1, <2>2, RecordedIs
<1> QED BY <1>1, <1>2

\* The commit of a processor records its command under a free key.
LEMMA ProcessorRecords ==
  ASSUME RInv, NEW p \in Processor, Commit(p)
  PROVE  \E k \in Key : Recording!Record(k)
<1>1. /\ IInv /\ Identity /\ p \in Worker /\ pc[p] = "commit"
      /\ Serializability
  BY DEF RInv, HInv, Worker, Commit
<1>2. PICK k \in Key, x \in Ext : k = row[p].key /\ x = row[p].req.ext
  BY <1>1 DEF IInv, RowKept, WagerRow, Request
<1>3. /\ wagers'[x] = draft[p].row /\ draft[p].row.req = row[p].req
      /\ \A y \in Ext \ {x} : wagers'[y] = wagers[y]
  BY <1>2, <1>1, CommitEffect
<1>4. wagers[x] = None /\ draft[p].row.key = k /\ draft[p].row # None
  BY <1>2, <1>1, CommitReplaces
<1>5. \A y \in Ext : wagers[y] # None => wagers[y].key # k
  BY <1>2, <1>1 DEF Identity, InsertIsNew
<1>6. row[p].req \in {c.req : c \in Commands}
  <2>1. PICK c \in Commands : row[p] = NewRow(c)
    BY <1>1 DEF Serializability, Serializable, FromCommand
  <2>2. NewRow(c).req = c.req
    BY DEF NewRow
  <2> QED BY <2>1, <2>2
<1>7. StoredUnder(k) = {} /\ StoredUnder(k)' = {x}
  BY <1>3, <1>4, <1>5 DEF StoredUnder
<1>8. Recorded(k) = None /\ Recorded(k)' = row[p].req
  BY <1>3, <1>7, RecordedIs, RecordedNothing
<1>9. ASSUME NEW j \in Key, j # k PROVE Recorded(j)' = Recorded(j)
  <2>1. StoredUnder(j)' = StoredUnder(j) /\ x \notin StoredUnder(j)
    BY <1>3, <1>4, <1>9 DEF StoredUnder
  <2>2. \A y \in StoredUnder(j) : wagers'[y].req = wagers[y].req
    BY <1>3, <2>1 DEF StoredUnder
  <2> QED BY <1>1, <2>1, <2>2, RecordedKept
<1> DEFINE old == [j \in Key |-> Recorded(j)]
           new == [j \in Key |-> Recorded(j)']
<1>10. new = [old EXCEPT ![k] = row[p].req] /\ old[k] = None
  BY <1>8, <1>9
<1>11. Recording!Record(k)
  BY <1>6, <1>10 DEF Recording!Record
<1> QED BY <1>11

\* The other steps record nothing: a resolver keeps the identity of its row.
LEMMA OthersRecordNothing ==
  ASSUME RInv, \/ \E p \in Resolver : Commit(p)
               \/ UNCHANGED wagers
  PROVE  UNCHANGED Recording!vars
<1>1. IInv /\ Identity
  BY DEF RInv, HInv
<1>2. ASSUME NEW k \in Key PROVE Recorded(k)' = Recorded(k)
  <2>1. CASE UNCHANGED wagers
    <3>1. StoredUnder(k)' = StoredUnder(k)
      BY <2>1 DEF StoredUnder
    <3> QED BY <1>1, <2>1, <3>1, RecordedKept
  <2>2. ASSUME NEW p \in Resolver, Commit(p) PROVE Recorded(k)' = Recorded(k)
    <3>1. p \in Worker /\ pc[p] = "commit"
      BY <2>2 DEF Worker, Commit
    <3> DEFINE x == row[p].req.ext
    <3>2. /\ x \in Ext /\ row[p] \in WagerRow
          /\ wagers'[x] = draft[p].row
          /\ \A y \in Ext \ {x} : wagers'[y] = wagers[y]
      BY <1>1, <2>2, <3>1, CommitEffect
    <3>3. /\ wagers[x] = row[p] /\ draft[p].row.key = row[p].key
          /\ draft[p].row.req = row[p].req /\ draft[p].row # None
      BY <1>1, <2>2, <3>1, CommitReplaces
    <3>4. wagers[x] # None
      BY <3>2, <3>3, NoneAssumption
    <3> HIDE DEF x
    <3>5. StoredUnder(k)' = StoredUnder(k)
      BY <3>2, <3>3, <3>4 DEF StoredUnder
    <3>6. \A y \in StoredUnder(k) : wagers'[y].req = wagers[y].req
      BY <3>2, <3>3 DEF StoredUnder
    <3> QED BY <1>1, <3>5, <3>6, RecordedKept
  <2> QED BY <2>1, <2>2
<1> QED BY <1>2 DEF Recording!vars

\* The service records every command at most once, under a key that stays taken:
\* what CommandConsumer assumes of ProcessTx and of the HTTP side, WagerTx does.
THEOREM RecordingIsImplemented == Spec => ImplementsRecording
<1>1. Init => Recording!Init
  <2> SUFFICES ASSUME Init PROVE Recording!Init
    OBVIOUS
  <2>1. \A k \in Key : StoredUnder(k) = {}
    BY DEF Init, StoredUnder
  <2>2. [k \in Key |-> Recorded(k)] = [k \in Key |-> None]
    BY <2>1, RecordedNothing
  <2> QED BY <2>2 DEF Recording!Init, Nobody
<1>2. ASSUME RInv, [Next]_vars PROVE [Recording!Next]_Recording!vars
  <2>1. TypeOK
    BY <1>2 DEF RInv, HInv, IInv
  <2>2. \/ \E p \in Processor : Commit(p)
        \/ \E p \in Resolver : Commit(p)
        \/ UNCHANGED wagers
    BY <1>2, <2>1, TablesStep DEF Worker, CreateWallet, db
  <2> QED BY <1>2, <2>2, ProcessorRecords, OthersRecordNothing DEF Recording!Next
<1> QED BY <1>1, <1>2, RefinementInvariance, PTL
        DEF Spec, ImplementsRecording, Recording!Spec

-----------------------------------------------------------------------------
(* Expiry: a pending reference is given up for its age only, and in time.    *)

\* The codes that a reference is refused with.
LEMMA ValidationCodes ==
  ASSUME NEW req, NEW ref
  PROVE  validateReference(req, ref) # "REFERENCE_EXPIRED"
BY DEF validateReference

\* A rejected row keeps its creation and its expiry.
LEMMA RejectedCode ==
  ASSUME NEW r \in WagerRow, NEW w, NEW code, NEW refd
  PROVE  /\ rejectPendingReference(r, w, code, refd).row.code = code
         /\ rejectPendingReference(r, w, code, refd).row.state = "REJECTED"
         /\ rejectPendingReference(r, w, code, refd).row.expires = r.expires
         /\ rejectPendingReference(r, w, code, refd).row.created = r.created
         /\ persistRejected(r, w, code, refd).row.code = code
BY DEF rejectPendingReference, persistRejected, WagerRow

\* A processed row has no code.
LEMMA ProcessedCode ==
  ASSUME NEW r \in WagerRow, NEW w, NEW v, NEW dir, NEW refd
  PROVE  persistProcessed(r, w, v, dir, refd).row.code = ""
BY DEF persistProcessed, WagerRow

\* A row that waits keeps its code.
LEMMA WaitingCode ==
  ASSUME NEW r \in WagerRow, NEW w, NEW t
  PROVE  /\ schedulePendingReferenceRetry(r, w, t).row.code = r.code
         /\ persistPendingReference(r, w, t).row.code = r.code
BY DEF schedulePendingReferenceRetry, persistPendingReference, WagerRow

\* A resolver pass gives a row up exactly when its clock is past the expiry.
LEMMA ResolveExpires ==
  ASSUME NEW r \in WagerRow, NEW w, NEW ref, NEW reversed, NEW t,
         r.code # "REFERENCE_EXPIRED",
         ResolveOutcome(r, w, ref, reversed, t) # None
  PROVE  LET d == ResolveOutcome(r, w, ref, reversed, t)
         IN  /\ Expired(r, t) => d.row.code = "REFERENCE_EXPIRED"
             /\ d.row.code = "REFERENCE_EXPIRED" =>
                  /\ Expired(r, t)
                  /\ d.row.state = "REJECTED"
                  /\ d.row.expires = r.expires
                  /\ d.row.created = r.created
<1> DEFINE d == ResolveOutcome(r, w, ref, reversed, t)
<1>1. CASE Expired(r, t)
  <2>1. d = rejectPendingReference(r, w, "REFERENCE_EXPIRED", None)
    BY <1>1 DEF ResolveOutcome
  <2> HIDE DEF d
  <2>2. /\ d.row.code = "REFERENCE_EXPIRED" /\ d.row.state = "REJECTED"
        /\ d.row.expires = r.expires /\ d.row.created = r.created
    BY <2>1, RejectedCode
  <2> QED BY <1>1, <2>2 DEF d
<1>2. CASE ~Expired(r, t)
  <2>1. \/ d = schedulePendingReferenceRetry(r, w, t)
        \/ d = resolveReference(r, w, ref, reversed)
    BY <1>2 DEF ResolveOutcome
  <2>2. d # None
    OBVIOUS
  <2> HIDE DEF d
  <2>3. d = resolveReference(r, w, ref, reversed) =>
          \/ d = rejectPendingReference(r, w, "REFERENCE_TERMINAL_UNSUCCESSFUL", r.req.ref)
          \/ d = rejectPendingReference(r, w, validateReference(r.req, ref), r.req.ref)
          \/ d = rejectPendingReference(r, w, "ALREADY_REVERSED", r.req.ref)
          \/ \E dir : d = settlePendingReference(r, w, dir, r.req.ref)
    BY Zenon DEF resolveReference
  <2>4. \A dir : d = settlePendingReference(r, w, dir, r.req.ref) =>
          \/ d = rejectPendingReference(r, w, "REVERSAL_INSUFFICIENT_FUNDS", r.req.ref)
          \/ \E v : d = persistProcessed(r, w, v, dir, r.req.ref)
    BY <2>2, Zenon DEF settlePendingReference
  <2>5. d = schedulePendingReferenceRetry(r, w, t) => d.row.code # "REFERENCE_EXPIRED"
    <3>1. schedulePendingReferenceRetry(r, w, t).row.code = r.code
      BY WaitingCode
    <3> QED BY <3>1
  <2>6. ASSUME NEW code, code # "REFERENCE_EXPIRED",
               d = rejectPendingReference(r, w, code, r.req.ref)
        PROVE  d.row.code # "REFERENCE_EXPIRED"
    BY <2>6, RejectedCode
  <2>7. ASSUME NEW dir, d = settlePendingReference(r, w, dir, r.req.ref)
        PROVE  d.row.code # "REFERENCE_EXPIRED"
    <3>1. ASSUME NEW v, d = persistProcessed(r, w, v, dir, r.req.ref)
          PROVE  d.row.code # "REFERENCE_EXPIRED"
      BY <3>1, ProcessedCode
    <3>2. "REVERSAL_INSUFFICIENT_FUNDS" # "REFERENCE_EXPIRED"
      OBVIOUS
    <3> QED BY <2>4, <2>6, <2>7, <3>1, <3>2
  <2>8. /\ "REFERENCE_TERMINAL_UNSUCCESSFUL" # "REFERENCE_EXPIRED"
        /\ "ALREADY_REVERSED" # "REFERENCE_EXPIRED"
        /\ validateReference(r.req, ref) # "REFERENCE_EXPIRED"
    BY ValidationCodes
  <2>9. d.row.code # "REFERENCE_EXPIRED"
    BY <2>1, <2>3, <2>5, <2>6, <2>7, <2>8
  <2> QED BY <1>2, <2>9 DEF d
<1> QED BY <1>1, <1>2

\* A new command is never refused for its age.
LEMMA ProcessNeverExpires ==
  ASSUME NEW r \in WagerRow, NEW w, NEW ref, NEW reversed, NEW t \in Nat,
         r.code # "REFERENCE_EXPIRED",
         ProcessOutcome(r, w, ref, reversed, t) # None
  PROVE  ProcessOutcome(r, w, ref, reversed, t).row.code # "REFERENCE_EXPIRED"
<1>1. PICK f \in WagerRow : f = [r EXCEPT !.created = t] /\ f.code = r.code
  <2>1. [r EXCEPT !.created = t] \in WagerRow
    BY DEF WagerRow
  <2>2. [r EXCEPT !.created = t].code = r.code
    BY DEF WagerRow
  <2> QED BY <2>1, <2>2
<1> DEFINE d == ProcessOutcome(r, w, ref, reversed, t)
           Directions == {"NONE", "CREDIT", "DEBIT"}
<1>2. /\ ownDirection(r.req.kind) \in Directions
      /\ reversalDirection(f.req.kind, ref) \in Directions
  BY DEF ownDirection, reversalDirection
<1>3. \/ d = movement(f, w, ownDirection(r.req.kind), None)
      \/ d = persistPendingReference(f, w, t)
      \/ d = referenceOutcome(f, w, ref, reversed)
  BY <1>1, Zenon DEF ProcessOutcome
<1>4. d # None
  OBVIOUS
<1> HIDE DEF d
<1>5. d = referenceOutcome(f, w, ref, reversed) =>
        \/ d = persistRejected(f, w, "REFERENCE_TERMINAL_UNSUCCESSFUL", f.req.ref)
        \/ d = persistRejected(f, w, validateReference(f.req, ref), f.req.ref)
        \/ d = persistRejected(f, w, "ALREADY_REVERSED", f.req.ref)
        \/ d = movement(f, w, "CREDIT", f.req.ref)
        \/ d = movement(f, w, reversalDirection(f.req.kind, ref), f.req.ref)
  BY Zenon DEF referenceOutcome
<1>6. ASSUME NEW dir \in Directions, NEW refd, d = movement(f, w, dir, refd)
      PROVE  d.row.code # "REFERENCE_EXPIRED"
  <2>1. \/ \E v : d = persistProcessed(f, w, v, dir, refd)
        \/ d = persistRejected(f, w, InsufficientFunds(f.req.kind), refd)
    BY <1>4, <1>6 DEF movement
  <2>2. InsufficientFunds(f.req.kind) # "REFERENCE_EXPIRED"
    BY DEF InsufficientFunds
  <2>3. CASE d = persistRejected(f, w, InsufficientFunds(f.req.kind), refd)
    BY <2>2, <2>3, RejectedCode
  <2>4. ASSUME NEW v, d = persistProcessed(f, w, v, dir, refd)
        PROVE  d.row.code # "REFERENCE_EXPIRED"
    BY <2>4, ProcessedCode
  <2> QED BY <2>1, <2>3, <2>4
<1>7. d.row.code # "REFERENCE_EXPIRED"
  <2>1. CASE d = persistPendingReference(f, w, t)
    <3>1. persistPendingReference(f, w, t).row.code = f.code
      BY WaitingCode
    <3> QED BY <1>1, <2>1, <3>1
  <2>2. ASSUME NEW code, code # "REFERENCE_EXPIRED",
               d = persistRejected(f, w, code, f.req.ref)
        PROVE  d.row.code # "REFERENCE_EXPIRED"
    BY <2>2, RejectedCode
  <2>3. /\ "REFERENCE_TERMINAL_UNSUCCESSFUL" # "REFERENCE_EXPIRED"
        /\ "ALREADY_REVERSED" # "REFERENCE_EXPIRED"
        /\ validateReference(f.req, ref) # "REFERENCE_EXPIRED"
        /\ "CREDIT" \in Directions
    BY ValidationCodes
  <2> HIDE DEF Directions
  <2> QED BY <1>2, <1>3, <1>5, <1>6, <2>1, <2>2, <2>3
<1> QED BY <1>7 DEF d

\* The row that a commit stores is given up for its age only when that is due.
LEMMA CommitExpires ==
  ASSUME RInv, ExpiryIsDue, NEW p \in Worker, pc[p] = "commit",
         draft[p].row.code = "REFERENCE_EXPIRED"
  PROVE  /\ draft[p].row.state = "REJECTED"
         /\ draft[p].row.expires = draft[p].row.created + ReferenceTTL
         /\ draft[p].row.expires <= now + Skew
<1>1. IInv /\ Identity /\ Serializable(p) /\ now \in Nat /\ Skew \in Nat
  BY TimeAssumption DEF RInv, HInv, Serializability, IInv, TypeOK
<1>2. PICK r \in WagerRow : r = row[p]
  BY <1>1 DEF IInv, RowKept
<1>3. PICK t \in 0..(now + Skew), ref \in Serial!Visible(r.req) :
        draft[p] = Outcome(p, ref, Reversed(r), t)
  BY <1>1, <1>2 DEF Serializable, Serialized
<1>4. draft[p] # None
  BY <1>1, NoneAssumption DEF IInv, DraftKept, Explained
<1>5. CASE p \in Processor
  <2>1. p \notin Resolver
    BY <1>5, WorkerAssumption
  <2>2. r.code # "REFERENCE_EXPIRED"
    <3>1. PICK c \in Commands : r = NewRow(c)
      BY <1>1, <1>2, <1>5 DEF Serializable, FromCommand
    <3>2. NewRow(c).code = ""
      BY DEF NewRow
    <3> QED BY <3>1, <3>2
  <2>3. draft[p] = ProcessOutcome(r, held[p], ref, Reversed(r), t)
    BY <1>2, <1>3, <2>1 DEF Outcome
  <2>4. t \in Nat
    BY <1>3
  <2> QED BY <1>4, <2>2, <2>3, <2>4, ProcessNeverExpires
<1>6. CASE p \in Resolver
  <2>1. r.req.ext \in Ext /\ wagers[r.req.ext] = r /\ r.state = "PENDING_REFERENCE"
        /\ r # None
    BY <1>1, <1>2, <1>6, CommitReplaces, NoneAssumption DEF WagerRow, Request
  <2>2. r.code # "REFERENCE_EXPIRED"
    BY <2>1 DEF ExpiryIsDue
  <2>3. draft[p] = ResolveOutcome(r, held[p], ref, Reversed(r), t)
    BY <1>2, <1>3, <1>6 DEF Outcome
  <2>4. /\ Expired(r, t)
        /\ draft[p].row.state = "REJECTED"
        /\ draft[p].row.expires = r.expires
        /\ draft[p].row.created = r.created
    BY <1>4, <2>2, <2>3, ResolveExpires
  <2>5. r.expires \in Nat /\ r.expires = r.created + ReferenceTTL
    BY <1>1, <1>2, <2>1 DEF IInv, RowKept, Scheduled
  <2>6. r.expires <= t /\ t <= now + Skew /\ t \in Nat
    BY <1>3, <2>4, <2>5 DEF Expired
  <2>7. r.expires <= now + Skew
    BY <1>1, <2>5, <2>6
  <2> QED BY <2>4, <2>5, <2>7
<1> QED BY <1>5, <1>6 DEF Worker

\* Every step keeps it: time does not run back.
LEMMA NextExpiry ==
  ASSUME RInv, ExpiryIsDue, [Next]_vars
  PROVE  ExpiryIsDue'
<1>1. IInv /\ Identity /\ TypeOK /\ now \in Nat /\ Skew \in Nat
  BY TimeAssumption DEF RInv, HInv, IInv, TypeOK
<1>2. ASSUME NEW p \in Worker, Commit(p) PROVE ExpiryIsDue'
  <2> DEFINE x == row[p].req.ext
  <2>1. /\ pc[p] = "commit" /\ wagers'[x] = draft[p].row
        /\ \A y \in Ext \ {x} : wagers'[y] = wagers[y]
    BY <1>1, <1>2, CommitEffect
  <2>2. now' = now
    BY <1>2 DEF Commit
  <2> HIDE DEF x
  <2>3. ASSUME NEW y \in Ext, wagers'[y] # None, wagers'[y].code = "REFERENCE_EXPIRED"
        PROVE  /\ wagers'[y].state = "REJECTED"
               /\ wagers'[y].expires = wagers'[y].created + ReferenceTTL
               /\ wagers'[y].expires <= now' + Skew
    <3>1. CASE y = x
      BY <2>1, <2>2, <2>3, <3>1, CommitExpires
    <3>2. CASE y # x
      BY <2>1, <2>2, <2>3, <3>2 DEF ExpiryIsDue
    <3> QED BY <3>1, <3>2
  <2> QED BY <2>3 DEF ExpiryIsDue
<1>3. ASSUME UNCHANGED wagers, now' = now \/ now' = now + 1
      PROVE  ExpiryIsDue'
  <2> SUFFICES ASSUME NEW y \in Ext, wagers[y] # None, wagers[y].code = "REFERENCE_EXPIRED"
               PROVE  /\ wagers[y].state = "REJECTED"
                      /\ wagers[y].expires = wagers[y].created + ReferenceTTL
                      /\ wagers[y].expires <= now' + Skew
    BY <1>3 DEF ExpiryIsDue
  <2>1. /\ wagers[y].state = "REJECTED"
        /\ wagers[y].expires = wagers[y].created + ReferenceTTL
        /\ wagers[y].expires <= now + Skew
    BY DEF ExpiryIsDue
  <2>2. wagers[y].created \in Nat /\ ReferenceTTL \in Nat
    BY <1>1, DelayAssumption DEF TypeOK, WagerRow
  <2>3. wagers[y].expires \in Nat
    BY <2>1, <2>2
  <2> QED BY <1>1, <1>3, <2>1, <2>3
<1>4. \/ \E p \in Worker : Commit(p)
      \/ UNCHANGED wagers /\ (now' = now \/ now' = now + 1)
  BY <1>1, TablesStep DEF CreateWallet, Tick, db
<1> QED BY <1>2, <1>3, <1>4

\* A pending reference is given up for its age only, whatever the schedule of the
\* resolvers, and no earlier than its TTL by a clock at most Skew ahead.
THEOREM NobodyGivesUpEarly == Spec => []ExpiryIsDue
<1>1. Init => ExpiryIsDue
  BY DEF Init, ExpiryIsDue
<1>2. RInv /\ ExpiryIsDue /\ [Next]_vars => ExpiryIsDue'
  BY NextExpiry
<1> QED BY <1>1, <1>2, RefinementInvariance, PTL DEF Spec

\* "Scheduling exactly at expiry guarantees that the next resolver pass takes the
\* REFERENCE_EXPIRED path": it does where the clocks of the instances and of the
\* database agree.  Where they do not, the run clock_skew shows a pass that misses.
THEOREM LastAttemptsExpire ==
  ASSUME Skew = 0
  PROVE  Spec => []LastAttemptExpires
<1>1. RInv => LastAttemptExpires
  <2> SUFFICES ASSUME RInv,
                      NEW p \in Resolver, pc[p] \in {"write", "commit"},
                      row[p].next = row[p].expires
               PROVE  draft[p].row.code = "REFERENCE_EXPIRED"
    BY DEF LastAttemptExpires
  <2>1. p \in Worker /\ IInv /\ Serializable(p)
    BY DEF Worker, RInv, HInv, Serializability
  <2>2. PICK r \in WagerRow : r = row[p] /\ r.next = r.expires /\ r.expires \in Nat
    BY <2>1 DEF IInv, RowKept, Scheduled
  <2>3. PICK t \in 0..(now + Skew), ref \in Serial!Visible(r.req) :
          draft[p] = Outcome(p, ref, Reversed(r), t) /\ r.next <= t + Skew
    BY <2>1, <2>2 DEF Serializable, Serialized, OnTime
  <2>4. Expired(r, t)
    <3>1. t \in Nat /\ r.expires <= t
      BY <2>2, <2>3
    <3> QED BY <2>2, <3>1, NoneAssumption DEF Expired
  <2>5. draft[p] = rejectPendingReference(r, held[p], "REFERENCE_EXPIRED", None)
    BY <2>2, <2>3, <2>4 DEF Outcome, ResolveOutcome
  <2> QED BY <2>5, RejectedCode
<1> QED BY <1>1, RefinementInvariance, PTL

-----------------------------------------------------------------------------
(* Refusals: a command is refused for a reason that holds at the commit.     *)

Shortage == {"INSUFFICIENT_FUNDS", "REVERSAL_INSUFFICIENT_FUNDS"}

Unsuccessful == {"REJECTED", "FAILED"}

\* What the code of a refusal d of row r says of what the decision was based on.
Reasoned(d, r, w, ref, reversed) ==
  d.row.state = "REJECTED" =>
    /\ d.row.code \in Shortage => ~HasFunds(w, r.req.amount)
    /\ d.row.code = "ALREADY_REVERSED" => reversed
    /\ d.row.code = "REFERENCE_TERMINAL_UNSUCCESSFUL" =>
         ~Unresolved(ref) /\ ref.state \in Unsuccessful

\* The state and the code that each way to end a decision stores.
LEMMA StoredStates ==
  ASSUME NEW r \in WagerRow, NEW w, NEW v, NEW code, NEW dir, NEW refd, NEW t
  PROVE  /\ persistRejected(r, w, code, refd).row.code = code
         /\ rejectPendingReference(r, w, code, refd).row.code = code
         /\ persistProcessed(r, w, v, dir, refd).row.state = "PROCESSED"
         /\ persistPendingReference(r, w, t).row.state = "PENDING_REFERENCE"
         /\ schedulePendingReferenceRetry(r, w, t).row.state = r.state
BY DEF persistRejected, rejectPendingReference, persistProcessed,
       persistPendingReference, schedulePendingReferenceRetry, WagerRow

\* The codes of validateReference are others.
LEMMA ValidationIsNoShortage ==
  ASSUME NEW req, NEW ref
  PROVE  validateReference(req, ref) \notin
           Shortage \cup {"ALREADY_REVERSED", "REFERENCE_TERMINAL_UNSUCCESSFUL"}
BY DEF validateReference, Shortage

\* A movement is refused for want of funds only.
LEMMA MovementReasoned ==
  ASSUME NEW r \in WagerRow, NEW w, NEW dir \in {"NONE", "CREDIT", "DEBIT"}, NEW refd,
         NEW ref, NEW reversed, movement(r, w, dir, refd) # None
  PROVE  Reasoned(movement(r, w, dir, refd), r, w, ref, reversed)
<1> DEFINE d == movement(r, w, dir, refd)
<1>1. \/ \E v : d = persistProcessed(r, w, v, dir, refd)
      \/ /\ d = persistRejected(r, w, InsufficientFunds(r.req.kind), refd)
         /\ ~HasFunds(w, r.req.amount)
  BY DEF movement
<1> HIDE DEF d
<1>2. ASSUME NEW v, d = persistProcessed(r, w, v, dir, refd)
      PROVE  Reasoned(d, r, w, ref, reversed)
  <2>1. d.row.state = "PROCESSED"
    BY <1>2, StoredStates
  <2> QED BY <2>1 DEF Reasoned
<1>3. ASSUME d = persistRejected(r, w, InsufficientFunds(r.req.kind), refd),
             ~HasFunds(w, r.req.amount)
      PROVE  Reasoned(d, r, w, ref, reversed)
  <2>1. d.row.code = InsufficientFunds(r.req.kind)
    BY <1>3, StoredStates
  <2>2. /\ InsufficientFunds(r.req.kind) # "ALREADY_REVERSED"
        /\ InsufficientFunds(r.req.kind) # "REFERENCE_TERMINAL_UNSUCCESSFUL"
    BY DEF InsufficientFunds
  <2> QED BY <1>3, <2>1, <2>2 DEF Reasoned
<1> QED BY <1>1, <1>2, <1>3 DEF d

\* Nor is the movement of a pending row.
LEMMA SettlementReasoned ==
  ASSUME NEW r \in WagerRow, NEW w, NEW dir, NEW refd, NEW ref, NEW reversed,
         settlePendingReference(r, w, dir, refd) # None
  PROVE  Reasoned(settlePendingReference(r, w, dir, refd), r, w, ref, reversed)
<1> DEFINE d == settlePendingReference(r, w, dir, refd)
<1>1. \/ \E v : d = persistProcessed(r, w, v, dir, refd)
      \/ /\ d = rejectPendingReference(r, w, "REVERSAL_INSUFFICIENT_FUNDS", refd)
         /\ ~HasFunds(w, r.req.amount)
  BY Zenon DEF settlePendingReference
<1> HIDE DEF d
<1>2. ASSUME NEW v, d = persistProcessed(r, w, v, dir, refd)
      PROVE  Reasoned(d, r, w, ref, reversed)
  <2>1. d.row.state = "PROCESSED"
    BY <1>2, StoredStates
  <2> QED BY <2>1 DEF Reasoned
<1>3. ASSUME d = rejectPendingReference(r, w, "REVERSAL_INSUFFICIENT_FUNDS", refd),
             ~HasFunds(w, r.req.amount)
      PROVE  Reasoned(d, r, w, ref, reversed)
  <2>1. d.row.code = "REVERSAL_INSUFFICIENT_FUNDS"
    BY <1>3, StoredStates
  <2> QED BY <1>3, <2>1 DEF Reasoned
<1> QED BY <1>1, <1>2, <1>3 DEF d

\* A refusal for the reference, by a processor or by a resolver.
LEMMA ReferenceReasoned ==
  ASSUME NEW r \in WagerRow, NEW w, NEW ref, NEW reversed, NEW d, ~Unresolved(ref),
         NEW code,
         \/ d = persistRejected(r, w, code, r.req.ref)
         \/ d = rejectPendingReference(r, w, code, r.req.ref),
         \/ code = "REFERENCE_TERMINAL_UNSUCCESSFUL" /\ ref.state \in Unsuccessful
         \/ code = validateReference(r.req, ref)
         \/ code = "ALREADY_REVERSED" /\ reversed
  PROVE  Reasoned(d, r, w, ref, reversed)
<1>1. d.row.code = code
  BY StoredStates
<1>2. CASE code = "REFERENCE_TERMINAL_UNSUCCESSFUL" /\ ref.state \in Unsuccessful
  BY <1>1, <1>2 DEF Reasoned, Shortage
<1>3. CASE code = validateReference(r.req, ref)
  <2>1. code \notin Shortage \cup {"ALREADY_REVERSED", "REFERENCE_TERMINAL_UNSUCCESSFUL"}
    BY <1>3, ValidationIsNoShortage
  <2> QED BY <1>1, <2>1 DEF Reasoned
<1>4. CASE code = "ALREADY_REVERSED" /\ reversed
  BY <1>1, <1>4 DEF Reasoned, Shortage
<1> QED BY <1>2, <1>3, <1>4

\* What ProcessTx refuses, it refuses with reason.
LEMMA ProcessReasoned ==
  ASSUME NEW r \in WagerRow, NEW w, NEW ref, NEW reversed, NEW t \in Nat,
         ProcessOutcome(r, w, ref, reversed, t) # None
  PROVE  Reasoned(ProcessOutcome(r, w, ref, reversed, t), r, w, ref, reversed)
<1>1. PICK f \in WagerRow : f = [r EXCEPT !.created = t] /\ f.req = r.req
  <2>1. [r EXCEPT !.created = t] \in WagerRow
    BY DEF WagerRow
  <2>2. [r EXCEPT !.created = t].req = r.req
    BY DEF WagerRow
  <2> QED BY <2>1, <2>2
<1> DEFINE d == ProcessOutcome(r, w, ref, reversed, t)
           Directions == {"NONE", "CREDIT", "DEBIT"}
           code1 == "REFERENCE_TERMINAL_UNSUCCESSFUL"
           code2 == validateReference(f.req, ref)
           code3 == "ALREADY_REVERSED"
<1>2. /\ ownDirection(r.req.kind) \in Directions /\ "CREDIT" \in Directions
      /\ reversalDirection(f.req.kind, ref) \in Directions
  BY DEF ownDirection, reversalDirection
<1>3. \/ d = movement(f, w, ownDirection(r.req.kind), None)
      \/ d = persistPendingReference(f, w, t)
      \/ ~Unresolved(ref) /\ d = referenceOutcome(f, w, ref, reversed)
  BY <1>1, Zenon DEF ProcessOutcome
<1>4. d # None
  OBVIOUS
<1> HIDE DEF d
<1>5. d = referenceOutcome(f, w, ref, reversed) =>
        \/ ref.state \in Unsuccessful /\ d = persistRejected(f, w, code1, f.req.ref)
        \/ d = persistRejected(f, w, code2, f.req.ref)
        \/ reversed /\ d = persistRejected(f, w, code3, f.req.ref)
        \/ d = movement(f, w, "CREDIT", f.req.ref)
        \/ d = movement(f, w, reversalDirection(f.req.kind, ref), f.req.ref)
  BY Zenon DEF referenceOutcome, Unsuccessful
<1>6. ASSUME NEW dir \in Directions, NEW refd, d = movement(f, w, dir, refd)
      PROVE  Reasoned(d, f, w, ref, reversed)
  BY <1>4, <1>6, MovementReasoned
<1>7. ASSUME d = persistPendingReference(f, w, t) PROVE Reasoned(d, f, w, ref, reversed)
  <2>1. d.row.state = "PENDING_REFERENCE"
    BY <1>7, StoredStates
  <2> QED BY <2>1 DEF Reasoned
<1>8. ASSUME ~Unresolved(ref),
             ref.state \in Unsuccessful /\ d = persistRejected(f, w, code1, f.req.ref)
      PROVE  Reasoned(d, f, w, ref, reversed)
  BY <1>8, ReferenceReasoned
<1>9. ASSUME ~Unresolved(ref), d = persistRejected(f, w, code2, f.req.ref)
      PROVE  Reasoned(d, f, w, ref, reversed)
  BY <1>9, ReferenceReasoned
<1>10. ASSUME ~Unresolved(ref), reversed /\ d = persistRejected(f, w, code3, f.req.ref)
       PROVE  Reasoned(d, f, w, ref, reversed)
  BY <1>10, ReferenceReasoned
<1> HIDE DEF Directions, code1, code2, code3
<1>11. Reasoned(d, f, w, ref, reversed)
  BY <1>2, <1>3, <1>5, <1>6, <1>7, <1>8, <1>9, <1>10, Zenon
<1> QED BY <1>1, <1>11 DEF Reasoned, d

\* What ResolveOne refuses, it refuses with reason.
LEMMA ResolveReasoned ==
  ASSUME NEW r \in WagerRow, NEW w, NEW ref, NEW reversed, NEW t,
         r.state # "REJECTED", ResolveOutcome(r, w, ref, reversed, t) # None
  PROVE  Reasoned(ResolveOutcome(r, w, ref, reversed, t), r, w, ref, reversed)
<1> DEFINE d == ResolveOutcome(r, w, ref, reversed, t)
           code0 == "REFERENCE_EXPIRED"
           code1 == "REFERENCE_TERMINAL_UNSUCCESSFUL"
           code2 == validateReference(r.req, ref)
           code3 == "ALREADY_REVERSED"
<1>1. \/ d = rejectPendingReference(r, w, code0, None)
      \/ d = schedulePendingReferenceRetry(r, w, t)
      \/ ~Unresolved(ref) /\ d = resolveReference(r, w, ref, reversed)
  BY Zenon DEF ResolveOutcome
<1>2. d # None
  OBVIOUS
<1> HIDE DEF d
<1>3. d = resolveReference(r, w, ref, reversed) =>
        \/ ref.state \in Unsuccessful /\ d = rejectPendingReference(r, w, code1, r.req.ref)
        \/ d = rejectPendingReference(r, w, code2, r.req.ref)
        \/ reversed /\ d = rejectPendingReference(r, w, code3, r.req.ref)
        \/ \E dir : d = settlePendingReference(r, w, dir, r.req.ref)
  BY Zenon DEF resolveReference, Unsuccessful
<1>4. ASSUME NEW dir, d = settlePendingReference(r, w, dir, r.req.ref)
      PROVE  Reasoned(d, r, w, ref, reversed)
  BY <1>2, <1>4, SettlementReasoned
<1>5. ASSUME d = schedulePendingReferenceRetry(r, w, t)
      PROVE  Reasoned(d, r, w, ref, reversed)
  <2>1. d.row.state = r.state
    BY <1>5, StoredStates
  <2> QED BY <2>1 DEF Reasoned
<1>6. ASSUME d = rejectPendingReference(r, w, code0, None)
      PROVE  Reasoned(d, r, w, ref, reversed)
  <2>1. d.row.code = "REFERENCE_EXPIRED"
    BY <1>6, StoredStates
  <2> QED BY <2>1 DEF Reasoned, Shortage
<1>7. ASSUME ~Unresolved(ref), ref.state \in Unsuccessful
             /\ d = rejectPendingReference(r, w, code1, r.req.ref)
      PROVE  Reasoned(d, r, w, ref, reversed)
  BY <1>7, ReferenceReasoned
<1>8. ASSUME ~Unresolved(ref), d = rejectPendingReference(r, w, code2, r.req.ref)
      PROVE  Reasoned(d, r, w, ref, reversed)
  BY <1>8, ReferenceReasoned
<1>9. ASSUME ~Unresolved(ref), reversed /\ d = rejectPendingReference(r, w, code3, r.req.ref)
      PROVE  Reasoned(d, r, w, ref, reversed)
  BY <1>9, ReferenceReasoned
<1> HIDE DEF code0, code1, code2, code3
<1> QED BY <1>1, <1>3, <1>4, <1>5, <1>6, <1>7, <1>8, <1>9, Zenon DEF d

\* The refusal that a commit stores is founded on the rows as they are.
LEMMA CommitIsFounded ==
  ASSUME RInv, NEW p \in Worker, pc[p] = "commit", draft[p].row.state = "REJECTED"
  PROVE  ReasonHolds(draft[p].row)
<1>1. IInv /\ Identity /\ TypeOK /\ Serializable(p)
  BY DEF RInv, HInv, Serializability, IInv
<1>2. PICK r \in WagerRow : r = row[p]
  BY <1>1 DEF IInv, RowKept
<1>3. PICK t \in 0..(now + Skew), ref \in Serial!Visible(r.req) :
        draft[p] = Outcome(p, ref, Reversed(r), t)
  BY <1>1, <1>2 DEF Serializable, Serialized
<1>4. draft[p] # None /\ draft[p].row.req = r.req
  BY <1>1, <1>2, NoneAssumption DEF IInv, DraftKept, Explained
<1>5. Reasoned(draft[p], r, held[p], ref, Reversed(r))
  <2>1. t \in Nat
    BY <1>3
  <2>2. CASE p \in Resolver
    <3>1. r.state = "PENDING_REFERENCE"
      BY <1>1, <1>2, <2>2 DEF IInv, RowKept, Identity, ClaimIsCurrent
    <3>2. draft[p] = ResolveOutcome(r, held[p], ref, Reversed(r), t)
      BY <1>2, <1>3, <2>2 DEF Outcome
    <3> QED BY <1>4, <3>1, <3>2, ResolveReasoned
  <2>3. CASE p \notin Resolver
    <3>1. draft[p] = ProcessOutcome(r, held[p], ref, Reversed(r), t)
      BY <1>2, <1>3, <2>3 DEF Outcome
    <3> QED BY <1>4, <2>1, <3>1, ProcessReasoned
  <2> QED BY <2>2, <2>3
<1>6. ASSUME draft[p].row.code \in Shortage PROVE Balance(r.req.wallet) < r.req.amount
  <2>1. ~HasFunds(held[p], r.req.amount)
    BY <1>5, <1>6 DEF Reasoned
  <2>2. held[p] \in WalletRow /\ held[p] = wallets[r.req.wallet]
    BY <1>1, <1>2 DEF IInv, WalletKept, Locked
  <2>3. held[p].balance \in Int /\ r.req.amount \in Int /\ held[p] # None
    BY <2>2, NoneAssumption, MaxIntAssumption DEF WalletRow, WagerRow, Request, Money
  <2> QED BY <2>1, <2>2, <2>3 DEF HasFunds, Balance
<1>7. ASSUME draft[p].row.code = "ALREADY_REVERSED"
      PROVE  referenceAlreadyReversed(wagers, r.req.ref)
  BY <1>5, <1>7 DEF Reasoned, Reversed
<1>8. ASSUME draft[p].row.code = "REFERENCE_TERMINAL_UNSUCCESSFUL"
      PROVE  wagers[r.req.ref] # None /\ wagers[r.req.ref].state \in Unsuccessful
  <2>1. ~Unresolved(ref) /\ ref.state \in Unsuccessful
    BY <1>5, <1>8 DEF Reasoned
  <2>2. ref # None
    BY <2>1 DEF Unresolved
  <2>3. ref = wagers[r.req.ref]
    BY <1>1, <1>3, <2>2, VisibleAre DEF RefOf
  <2> QED BY <2>1, <2>2, <2>3
<1> QED BY <1>4, <1>6, <1>7, <1>8 DEF ReasonHolds, Shortage, Unsuccessful

\* A final refusal is right when it is committed: no bet or reversal is refused for
\* funds that are there, for a rival that did not commit or for a reference that
\* has not failed, whatever was read statements before.
THEOREM NobodyIsRefusedWrongly == Spec => RefusalsAreFounded
<1> DEFINE Right ==
      \A x \in Ext :
        (wagers'[x] # wagers[x] /\ wagers'[x].state = "REJECTED")
          => ReasonHolds(wagers'[x])
<1>1. ASSUME RInv, [Next]_vars PROVE Right
  <2>1. IInv /\ TypeOK
    BY <1>1 DEF RInv, HInv, IInv
  <2>2. ASSUME NEW p \in Worker, Commit(p) PROVE Right
    <3>1. /\ pc[p] = "commit" /\ wagers'[row[p].req.ext] = draft[p].row
          /\ \A y \in Ext \ {row[p].req.ext} : wagers'[y] = wagers[y]
      BY <2>1, <2>2, CommitEffect
    <3> QED BY <1>1, <3>1, CommitIsFounded
  <2>3. UNCHANGED wagers => Right
    OBVIOUS
  <2> QED BY <1>1, <2>1, <2>2, <2>3, TablesStep DEF CreateWallet, Tick, db
<1>2. ASSUME RInv, [Next]_vars PROVE [Right]_vars
  BY <1>1, <1>2
<1> QED BY <1>2, RefinementInvariance, PTL DEF Spec, RefusalsAreFounded
=============================================================================
