------------------------- MODULE OutboxPublisherProofs ------------------------
(***************************************************************************)
(* Proofs about OutboxPublisher, for any number of publishers and events   *)
(* and any lifecycle: claims are exclusive, published_at is committed only *)
(* for what the broker has accepted, and it is final.                      *)
(***************************************************************************)
EXTENDS OutboxPublisher, FiniteSetTheorems, TLAPS

-----------------------------------------------------------------------------
(* The inductive invariant.                                                  *)

Stamps == {rows[e].occurred : e \in Stored} \cup {0}

\* The table is finite, so there is a latest stamp for the next insertion.
FiniteTable ==
  /\ IsFiniteSet(Stored)
  /\ \E m \in Stamps : \A n \in Stamps : n <= m

\* The events of transactions that have not committed yet are not in the table.
FutureIsNew ==
  \A a \in Aggregate : \A i \in DOMAIN Lifecycle[a] :
    i > stage[a] => \A e \in Lifecycle[a][i] : rows[e] = None

\* A claimed row is due and stays so, and what is to be marked was accepted.
ClaimsAreDue ==
  \A p \in Publisher :
    /\ \A e \in Claimed(p) : rows[e].wait = 0
    /\ \A e \in marked[p] : copies[e] > 0

\* An event of a batch is sent once, and then either marked or rescheduled.
OneFate(p) ==
  /\ \A i, j \in DOMAIN batch[p] : i # j => batch[p][i] # batch[p][j]
  /\ InBatch(p) \cap (marked[p] \cup retried[p]) = {}
  /\ marked[p] \cap retried[p] = {}

\* A published row has no retry ahead.
PublishedIsDue == \A e \in Stored : rows[e].published => rows[e].wait = 0

IInv ==
  /\ TypeOK
  /\ FiniteTable
  /\ FutureIsNew
  /\ ClaimsAreExclusive
  /\ ClaimsAreDue
  /\ \A p \in Publisher : OneFate(p)
  /\ PublishedIsDue
  /\ PublishedWasSent

-----------------------------------------------------------------------------
(* Rows and batches.                                                         *)

\* A stored row has the fields of a row.
LEMMA RowFields ==
  ASSUME TypeOK, NEW e \in Event, rows[e] # None
  PROVE  /\ rows[e] \in Row
         /\ rows[e].occurred \in Nat /\ rows[e].attempts \in 0..MaxAttempts
         /\ rows[e].wait \in 0..MaxRetry /\ rows[e].published \in BOOLEAN
<1>1. rows[e] \in Row
  BY DEF TypeOK
<1> QED BY <1>1 DEF Row

\* What a publisher has claimed are events.
LEMMA ClaimedType ==
  ASSUME TypeOK, NEW p \in Publisher
  PROVE  Claimed(p) \subseteq Event
BY DEF TypeOK, Claimed, InBatch

\* A batch that ORDER BY ... LIMIT may return is a sequence of free events.
LEMMA BatchType ==
  ASSUME NEW free, IsFiniteSet(free), NEW s \in Batches(free)
  PROVE  s \in Seq(free) /\ \A i, j \in DOMAIN s : i # j => s[i] # s[j]
<1> DEFINE size == IF Cardinality(free) < BatchSize THEN Cardinality(free) ELSE BatchSize
<1>1. size \in Nat
  BY FS_CardinalityType, BoundAssumption
<1>2. /\ s \in [1..size -> free]
      /\ \A i, j \in 1..size : i < j => s[i] # s[j]
  BY DEF Batches
<1> QED BY <1>1, <1>2

\* retryDelay never exceeds maxRetryDelay, whatever the attempt.
LEMMA RetryDelayBound ==
  ASSUME NEW n \in Nat
  PROVE  retryDelay(n + 1) \in Int /\ retryDelay(n + 1) <= MaxRetry
<1>1. 2^((n + 1) - 1) \in Int
  <2>1. (n + 1) - 1 = n
    OBVIOUS
  <2>2. 2^n \in Int
    OBVIOUS
  <2> QED BY <2>1, <2>2, Zenon
<1> DEFINE delay == RetryBase * 2^((n + 1) - 1)
<1>2. delay \in Int
  BY <1>1, BoundAssumption
<1>3. retryDelay(n + 1) = IF delay < MaxRetry THEN delay ELSE MaxRetry
  BY DEF retryDelay
<1> HIDE DEF delay
<1> QED BY <1>2, <1>3, BoundAssumption

\* A rescheduled row is a row with the same stamp and state.
LEMMA RescheduledType ==
  ASSUME NEW r \in Row, NEW t \in 0..MaxRetry
  PROVE  /\ Rescheduled(r, t) \in Row
         /\ Rescheduled(r, t).occurred = r.occurred
         /\ Rescheduled(r, t).published = r.published
<1> DEFINE delay == retryDelay(r.attempts + 1)
           n == IF r.attempts < MaxAttempts THEN r.attempts + 1 ELSE r.attempts
           w == IF delay > t THEN delay - t ELSE 0
<1>1. r.attempts \in 0..MaxAttempts
  BY DEF Row
<1>2. delay \in Int /\ delay <= MaxRetry
  BY <1>1, RetryDelayBound, BoundAssumption
<1>3. n \in 0..MaxAttempts
  BY <1>1, BoundAssumption
<1>4. w \in 0..MaxRetry
  <2> HIDE DEF delay
  <2> QED BY <1>2, BoundAssumption
<1>5. Rescheduled(r, t) = [r EXCEPT !.attempts = n, !.wait = w]
  BY DEF Rescheduled
<1> HIDE DEF n, w
<1> QED BY <1>3, <1>4, <1>5 DEF Row

-----------------------------------------------------------------------------
(* Steps of a publisher before its commit, and its rollback.                 *)

\* A step that changes no row keeps the invariant when the publisher claims only
\* what is due and free, and marks only what was accepted.
LEMMA HoldStep ==
  ASSUME IInv, TypeOK', UNCHANGED <<rows, stage>>, NEW p \in Publisher,
         \A q \in Publisher \ {p} :
           batch'[q] = batch[q] /\ marked'[q] = marked[q] /\ retried'[q] = retried[q],
         OneFate(p)',
         Claimed(p)' \subseteq Claimed(p) \cup (Pending \ LockedRows),
         \A e \in marked'[p] : copies'[e] > 0,
         \A e \in Event : copies[e] > 0 => copies'[e] > 0
  PROVE  IInv'
<1>1. Stored' = Stored /\ Stamps' = Stamps
  BY DEF Stored, Stamps
<1>2. FiniteTable' /\ FutureIsNew' /\ PublishedIsDue'
  BY <1>1 DEF IInv, FiniteTable, FutureIsNew, PublishedIsDue
<1>3. PublishedWasSent'
  BY <1>1 DEF IInv, PublishedWasSent, Stored
<1>4. \A q \in Publisher \ {p} : Claimed(q)' = Claimed(q)
  BY DEF Claimed, InBatch
<1>5. \A q \in Publisher : OneFate(q)'
  BY DEF IInv, OneFate, InBatch
<1>6. ClaimsAreExclusive'
  <2>1. ASSUME NEW q \in Publisher \ {p} PROVE Claimed(p)' \cap Claimed(q)' = {}
    BY <1>4 DEF IInv, ClaimsAreExclusive, LockedRows
  <2>2. ASSUME NEW e \in Claimed(p)' PROVE rows[e] # None /\ ~rows[e].published
    BY DEF IInv, ClaimsAreExclusive, Pending, Stored
  <2> QED BY <1>4, <2>1, <2>2 DEF IInv, ClaimsAreExclusive
<1>7. ClaimsAreDue'
  <2>1. ASSUME NEW e \in Claimed(p)' PROVE rows[e].wait = 0
    BY DEF IInv, ClaimsAreDue, Pending
  <2>2. ASSUME NEW q \in Publisher, NEW e \in marked'[q] PROVE copies'[e] > 0
    BY DEF IInv, TypeOK, ClaimsAreDue
  <2> QED BY <1>4, <2>1, <2>2 DEF IInv, ClaimsAreDue
<1> QED BY <1>2, <1>3, <1>5, <1>6, <1>7 DEF IInv

\* Claiming a batch keeps the invariant.
LEMMA FindStep ==
  ASSUME IInv, NEW p \in Publisher, findPending(p)
  PROVE  IInv'
<1> DEFINE free == Pending \ LockedRows
<1>1. PICK s \in Batches(free) : batch' = [batch EXCEPT ![p] = s]
  BY DEF findPending
<1>2. IsFiniteSet(free) /\ free \subseteq Event
  BY FS_Subset DEF IInv, FiniteTable, Pending, Stored
<1>3. s \in Seq(free) /\ s \in Seq(Event) /\ \A i, j \in DOMAIN s : i # j => s[i] # s[j]
  <2>1. s \in Seq(free) /\ \A i, j \in DOMAIN s : i # j => s[i] # s[j]
    BY <1>2, BatchType
  <2> QED BY <1>2, <2>1
<1>4. UNCHANGED <<rows, stage, marked, retried, queue, copies>>
      /\ age' = [age EXCEPT ![p] = 0] /\ failed' = [failed EXCEPT ![p] = FALSE]
  BY DEF findPending
<1>5. TypeOK'
  BY <1>1, <1>3, <1>4, BoundAssumption DEF IInv, TypeOK
<1>6. batch'[p] = s /\ \A q \in Publisher \ {p} : batch'[q] = batch[q]
  BY <1>1 DEF IInv, TypeOK
<1>7. InBatch(p)' \subseteq free
  BY <1>3, <1>6 DEF InBatch
<1>8. Claimed(p)' \subseteq Claimed(p) \cup free
  BY <1>4, <1>7 DEF Claimed
<1>9. OneFate(p)'
  <2>1. free \cap Claimed(p) = {}
    BY DEF LockedRows
  <2> QED BY <1>3, <1>4, <1>6, <1>7, <2>1 DEF IInv, OneFate, Claimed
<1>10. \A e \in marked'[p] : copies'[e] > 0
  BY <1>4 DEF IInv, ClaimsAreDue
<1> QED BY <1>4, <1>5, <1>6, <1>8, <1>9, <1>10, HoldStep

\* What the broker does with a send.
LEMMA AcceptFacts ==
  ASSUME TypeOK, NEW e \in Event, Accept(e)
  PROVE  /\ queue' \in Seq(Event)
         /\ copies' \in [Event -> 0..MaxCopies]
         /\ copies'[e] > 0
         /\ \A f \in Event \ {e} : copies'[f] = copies[f]
         /\ \A f \in Event : copies[f] > 0 => copies'[f] > 0
<1>1. queue' \in Seq(Event)
  BY DEF TypeOK, Accept
<1>2. copies[e] \in 0..MaxCopies /\ MaxCopies \in Nat \ {0}
  BY BoundAssumption DEF TypeOK
<1> QED BY <1>1, <1>2 DEF TypeOK, Accept

\* Taking the head off a batch.
LEMMA DropFacts ==
  ASSUME TypeOK, NEW p \in Publisher, batch[p] # <<>>, Drop(p)
  PROVE  /\ Head(batch[p]) \in InBatch(p) /\ Head(batch[p]) \in Event
         /\ batch' \in [Publisher -> Seq(Event)]
         /\ InBatch(p)' \subseteq InBatch(p)
         /\ OneFate(p) => /\ Head(batch[p]) \notin InBatch(p)'
                          /\ \A i, j \in DOMAIN batch'[p] :
                               i # j => batch'[p][i] # batch'[p][j]
         /\ \A q \in Publisher \ {p} : batch'[q] = batch[q]
<1>1. batch[p] \in Seq(Event) /\ Tail(batch[p]) \in Seq(Event)
  BY DEF TypeOK
<1>2. batch'[p] = Tail(batch[p]) /\ batch' \in [Publisher -> Seq(Event)]
  BY <1>1 DEF TypeOK, Drop
<1>3. Head(batch[p]) \in InBatch(p) /\ Head(batch[p]) \in Event
  BY <1>1 DEF InBatch
<1>4. InBatch(p)' \subseteq InBatch(p)
  BY <1>1, <1>2 DEF InBatch
<1>5. OneFate(p) => \A i \in DOMAIN batch'[p] : /\ batch'[p][i] = batch[p][i + 1]
                                                /\ i + 1 \in DOMAIN batch[p]
                                                /\ batch'[p][i] # Head(batch[p])
  BY <1>1, <1>2 DEF OneFate
<1>6. OneFate(p) => /\ Head(batch[p]) \notin InBatch(p)'
                    /\ \A i, j \in DOMAIN batch'[p] :
                         i # j => batch'[p][i] # batch'[p][j]
  BY <1>1, <1>2, <1>5 DEF OneFate, InBatch
<1> QED BY <1>2, <1>3, <1>4, <1>6 DEF TypeOK, Drop

\* A send keeps the invariant, whether the publisher learns of it or not.
LEMMA SendStep ==
  ASSUME IInv, NEW p \in Publisher, Publish(p) \/ PublishFails(p)
  PROVE  IInv'
<1> DEFINE h == Head(batch[p])
<1>1. /\ batch[p] # <<>> /\ Drop(p)
      /\ UNCHANGED <<rows, stage, age, failed>>
      /\ Accept(h) \/ UNCHANGED <<queue, copies>>
      /\ \/ /\ marked' = [marked EXCEPT ![p] = marked[p] \cup {h}]
            /\ Accept(h) /\ retried' = retried
         \/ /\ retried' = [retried EXCEPT ![p] = retried[p] \cup {h}]
            /\ marked' = marked
  BY DEF Publish, PublishFails, scheduleRetry
<1>2. /\ h \in InBatch(p) /\ h \in Event
      /\ batch' \in [Publisher -> Seq(Event)]
      /\ InBatch(p)' \subseteq InBatch(p)
      /\ h \notin InBatch(p)'
      /\ \A i, j \in DOMAIN batch'[p] : i # j => batch'[p][i] # batch'[p][j]
      /\ \A q \in Publisher \ {p} : batch'[q] = batch[q]
  BY <1>1, DropFacts DEF IInv
<1>3. /\ queue' \in Seq(Event)
      /\ copies' \in [Event -> 0..MaxCopies]
      /\ Accept(h) => copies'[h] > 0
      /\ \A f \in Event : copies[f] > 0 => copies'[f] > 0
  BY <1>1, <1>2, AcceptFacts DEF IInv, TypeOK
<1>4. /\ marked' \in [Publisher -> SUBSET Event] /\ retried' \in [Publisher -> SUBSET Event]
      /\ \A q \in Publisher \ {p} : marked'[q] = marked[q] /\ retried'[q] = retried[q]
      /\ marked'[p] \cup retried'[p] \subseteq marked[p] \cup retried[p] \cup {h}
      /\ marked'[p] \cap retried'[p] = {}
      /\ \A e \in marked'[p] : e \in marked[p] \/ (e = h /\ Accept(h))
  <2> HIDE DEF h
  <2>1. CASE /\ marked' = [marked EXCEPT ![p] = marked[p] \cup {h}]
             /\ Accept(h) /\ retried' = retried
    BY <1>2, <2>1 DEF IInv, TypeOK, OneFate
  <2>2. CASE /\ retried' = [retried EXCEPT ![p] = retried[p] \cup {h}]
             /\ marked' = marked
    BY <1>2, <2>2 DEF IInv, TypeOK, OneFate
  <2> QED BY <1>1, <2>1, <2>2
<1>5. TypeOK'
  BY <1>1, <1>2, <1>3, <1>4 DEF IInv, TypeOK
<1>6. Claimed(p)' \subseteq Claimed(p)
  BY <1>2, <1>4 DEF Claimed
<1>7. OneFate(p)'
  BY <1>2, <1>4 DEF IInv, OneFate
<1>8. \A e \in marked'[p] : copies'[e] > 0
  BY <1>3, <1>4 DEF IInv, ClaimsAreDue, TypeOK
<1> QED BY <1>1, <1>2, <1>3, <1>4, <1>5, <1>6, <1>7, <1>8, HoldStep

\* The end of a transaction releases its claims.
LEMMA EndFacts ==
  ASSUME TypeOK, NEW p \in Publisher, NEW error \in BOOLEAN, EndBatch(p, error)
  PROVE  /\ batch' \in [Publisher -> Seq(Event)]
         /\ marked' \in [Publisher -> SUBSET Event] /\ retried' \in [Publisher -> SUBSET Event]
         /\ age' \in [Publisher -> (0..MaxRetry) \cup {None}]
         /\ failed' \in [Publisher -> BOOLEAN]
         /\ Claimed(p)' = {} /\ marked'[p] = {} /\ OneFate(p)'
         /\ \A q \in Publisher \ {p} :
              /\ batch'[q] = batch[q] /\ marked'[q] = marked[q] /\ retried'[q] = retried[q]
              /\ Claimed(q)' = Claimed(q)
BY DEF TypeOK, EndBatch, Claimed, InBatch, OneFate

\* A rollback keeps the invariant.
LEMMA AbortStep ==
  ASSUME IInv, NEW p \in Publisher, Abort(p)
  PROVE  IInv'
<1>1. EndBatch(p, TRUE) /\ UNCHANGED <<rows, stage, queue, copies>>
  BY DEF Abort
<1>2. TypeOK'
  BY <1>1, EndFacts DEF IInv, TypeOK
<1> QED BY <1>1, <1>2, EndFacts, HoldStep DEF IInv

-----------------------------------------------------------------------------
(* Steps that change rows.                                                   *)

\* An update that keeps occurred_at keeps the set of stamps, and rows appear
\* nowhere.
LEMMA SameStamps ==
  ASSUME \A e \in Event : /\ rows'[e] = None <=> rows[e] = None
                          /\ rows[e] # None => rows'[e].occurred = rows[e].occurred
  PROVE  Stored' = Stored /\ Stamps' = Stamps
<1>1. Stored' = Stored
  BY DEF Stored
<1>2. ASSUME NEW e \in Stored PROVE rows'[e].occurred = rows[e].occurred
  BY DEF Stored
<1> QED BY <1>1, <1>2 DEF Stamps

\* What the COMMIT of a batch makes of each row.
LEMMA CommitEffect ==
  ASSUME IInv, NEW p \in Publisher, Commit(p), NEW e \in Event
  PROVE  /\ rows'[e] \in Row \cup {None}
         /\ rows'[e] = None <=> rows[e] = None
         /\ rows[e] # None => rows'[e].occurred = rows[e].occurred
         /\ e \notin Claimed(p) => rows'[e] = rows[e]
         /\ e \in marked[p] => rows'[e].published /\ rows'[e].wait = 0
         /\ e \in Claimed(p) /\ e \notin marked[p] => ~rows'[e].published
<1> DEFINE done(f) == [rows[f] EXCEPT !.published = TRUE]
<1>1. /\ age[p] # None /\ batch[p] = <<>>
      /\ rows' = [f \in Event |->
                    CASE f \in marked[p]  -> done(f)
                      [] f \in retried[p] -> Rescheduled(rows[f], age[p])
                      [] OTHER -> rows[f]]
  BY DEF Commit
<1>2. age[p] \in 0..MaxRetry
  BY <1>1 DEF IInv, TypeOK
<1>3. e \in Claimed(p) <=> e \in marked[p] \/ e \in retried[p]
  BY <1>1 DEF Claimed, InBatch
<1>4. e \in Claimed(p) => rows[e] \in Row /\ rows[e] # None /\ ~rows[e].published /\ rows[e].wait = 0
  BY RowFields DEF IInv, ClaimsAreExclusive, ClaimsAreDue
<1>5. CASE e \in marked[p]
  <2>1. rows'[e] = done(e)
    <3>1. e \notin retried[p]
      BY <1>5 DEF IInv, OneFate
    <3> HIDE DEF done
    <3> QED BY <1>1, <1>5, <3>1
  <2>2. ASSUME NEW r \in Row
        PROVE  /\ [r EXCEPT !.published = TRUE] \in Row
               /\ [r EXCEPT !.published = TRUE].occurred = r.occurred
               /\ [r EXCEPT !.published = TRUE].wait = r.wait
               /\ [r EXCEPT !.published = TRUE].published
    BY DEF Row
  <2>3. /\ rows'[e] \in Row /\ rows'[e].occurred = rows[e].occurred
        /\ rows'[e].wait = rows[e].wait /\ rows'[e].published
    BY <1>3, <1>4, <1>5, <2>1, <2>2
  <2> QED BY <1>3, <1>4, <1>5, <2>3, NoneAssumption
<1>6. CASE e \in retried[p] /\ e \notin marked[p]
  <2>1. rows'[e] = Rescheduled(rows[e], age[p])
    BY <1>1, <1>6
  <2>2. /\ rows'[e] \in Row /\ rows'[e].occurred = rows[e].occurred
        /\ rows'[e].published = rows[e].published
    BY <1>2, <1>3, <1>4, <1>6, <2>1, RescheduledType
  <2> QED BY <1>3, <1>4, <1>6, <2>2, NoneAssumption
<1>7. CASE e \notin retried[p] /\ e \notin marked[p]
  <2>1. rows'[e] = rows[e]
    BY <1>1, <1>7
  <2> QED BY <1>3, <1>7, <2>1 DEF IInv, TypeOK
<1> QED BY <1>5, <1>6, <1>7

\* The COMMIT of a batch keeps the invariant.
LEMMA CommitStep ==
  ASSUME IInv, NEW p \in Publisher, Commit(p)
  PROVE  IInv'
<1>1. /\ EndBatch(p, FALSE) /\ UNCHANGED <<stage, queue, copies>>
      /\ DOMAIN rows' = Event /\ rows' = [e \in Event |-> rows'[e]]
  <2>1. EndBatch(p, FALSE) /\ UNCHANGED <<stage, queue, copies>>
    BY DEF Commit
  <2>2. rows' = [e \in Event |->
                  CASE e \in marked[p]  -> [rows[e] EXCEPT !.published = TRUE]
                    [] e \in retried[p] -> Rescheduled(rows[e], age[p])
                    [] OTHER -> rows[e]]
    BY DEF Commit
  <2>3. DOMAIN rows' = Event /\ rows' = [e \in Event |-> rows'[e]]
    BY <2>2
  <2> QED BY <2>1, <2>3
<1>2. TypeOK'
  <2>1. rows' \in [Event -> Row \cup {None}]
    BY <1>1, CommitEffect
  <2> QED BY <1>1, <2>1, EndFacts DEF IInv, TypeOK
<1>3. Stored' = Stored /\ Stamps' = Stamps
  BY CommitEffect, SameStamps
<1>4. FiniteTable'
  BY <1>3 DEF IInv, FiniteTable
<1>5. FutureIsNew'
  BY <1>1, CommitEffect, LifecycleAssumption DEF IInv, FutureIsNew
<1>6. /\ Claimed(p)' = {} /\ marked'[p] = {} /\ OneFate(p)'
      /\ \A q \in Publisher \ {p} :
           /\ batch'[q] = batch[q] /\ marked'[q] = marked[q] /\ retried'[q] = retried[q]
           /\ Claimed(q)' = Claimed(q)
  BY <1>1, EndFacts DEF IInv
<1>7. ASSUME NEW q \in Publisher \ {p}, NEW e \in Claimed(q) PROVE rows'[e] = rows[e]
  <2>1. e \in Event /\ e \notin Claimed(p)
    BY ClaimedType DEF IInv, ClaimsAreExclusive
  <2> QED BY <2>1, CommitEffect
<1>8. ClaimsAreExclusive' /\ ClaimsAreDue'
  BY <1>1, <1>6, <1>7 DEF IInv, ClaimsAreExclusive, ClaimsAreDue
<1>9. ASSUME NEW e \in Stored, rows'[e].published
      PROVE  rows'[e].wait = 0 /\ copies[e] > 0
  <2>1. e \in Event /\ rows[e] # None
    BY DEF Stored
  <2>2. CASE e \in marked[p]
    BY <2>1, <2>2, CommitEffect DEF IInv, ClaimsAreDue
  <2>3. CASE e \notin marked[p]
    <3>1. rows'[e] = rows[e]
      BY <1>9, <2>1, <2>3, CommitEffect
    <3> QED BY <1>9, <3>1 DEF IInv, PublishedIsDue, PublishedWasSent
  <2> QED BY <2>2, <2>3
<1>10. PublishedIsDue' /\ PublishedWasSent'
  BY <1>1, <1>3, <1>9 DEF PublishedIsDue, PublishedWasSent
<1>11. \A q \in Publisher : OneFate(q)'
  BY <1>6 DEF IInv, OneFate, InBatch
<1> QED BY <1>2, <1>4, <1>5, <1>8, <1>10, <1>11 DEF IInv

\* What a tick makes of each row.
LEMMA TickEffect ==
  ASSUME IInv, Tick, NEW e \in Event
  PROVE  /\ rows'[e] \in Row \cup {None}
         /\ rows'[e] = None <=> rows[e] = None
         /\ rows[e] # None => /\ rows'[e].occurred = rows[e].occurred
                              /\ rows'[e].published = rows[e].published
         /\ rows[e] # None /\ rows[e].wait = 0 => rows'[e] = rows[e]
<1>1. rows'[e] = IF rows[e] = None \/ rows[e].wait = 0 THEN rows[e]
                 ELSE [rows[e] EXCEPT !.wait = rows[e].wait - 1]
  BY DEF Tick
<1>2. CASE rows[e] = None \/ rows[e].wait = 0
  BY <1>1, <1>2 DEF IInv, TypeOK
<1>3. CASE ~(rows[e] = None \/ rows[e].wait = 0)
  <2>1. ASSUME NEW r \in Row, NEW w \in 0..MaxRetry
        PROVE  /\ [r EXCEPT !.wait = w] \in Row
               /\ [r EXCEPT !.wait = w].occurred = r.occurred
               /\ [r EXCEPT !.wait = w].published = r.published
    BY DEF Row
  <2>2. rows[e] \in Row /\ rows[e].wait - 1 \in 0..MaxRetry
    BY <1>3, RowFields, BoundAssumption DEF IInv
  <2>3. /\ rows'[e] \in Row /\ rows'[e].occurred = rows[e].occurred
        /\ rows'[e].published = rows[e].published
    BY <1>1, <1>3, <2>1, <2>2
  <2> QED BY <1>3, <2>3, NoneAssumption
<1> QED BY <1>2, <1>3

\* The passing of time keeps the invariant.
LEMMA TickStep ==
  ASSUME IInv, Tick
  PROVE  IInv'
<1>1. /\ UNCHANGED <<stage, batch, marked, retried, failed, queue, copies>>
      /\ rows' = [e \in Event |-> rows'[e]]
      /\ age' = [p \in Publisher |-> IF age[p] = None \/ age[p] = MaxRetry THEN age[p]
                                     ELSE age[p] + 1]
  BY DEF Tick
<1>2. TypeOK'
  <2>1. rows' \in [Event -> Row \cup {None}]
    BY <1>1, TickEffect
  <2>2. age' \in [Publisher -> (0..MaxRetry) \cup {None}]
    BY <1>1, BoundAssumption DEF IInv, TypeOK
  <2> QED BY <1>1, <2>1, <2>2 DEF IInv, TypeOK
<1>3. Stored' = Stored /\ Stamps' = Stamps
  BY TickEffect, SameStamps
<1>4. FiniteTable' /\ FutureIsNew'
  BY <1>1, <1>3, TickEffect, LifecycleAssumption DEF IInv, FiniteTable, FutureIsNew
<1>5. \A p \in Publisher : Claimed(p)' = Claimed(p) /\ Claimed(p) \subseteq Event
  BY <1>1, ClaimedType DEF IInv, Claimed, InBatch
<1>6. \A p \in Publisher : \A e \in Claimed(p) : rows'[e] = rows[e]
  BY <1>5, TickEffect DEF IInv, ClaimsAreExclusive, ClaimsAreDue
<1>7. ClaimsAreExclusive' /\ ClaimsAreDue'
  BY <1>1, <1>5, <1>6 DEF IInv, ClaimsAreExclusive, ClaimsAreDue
<1>8. PublishedIsDue' /\ PublishedWasSent'
  BY <1>1, <1>3, TickEffect DEF IInv, PublishedIsDue, PublishedWasSent, Stored
<1>9. \A p \in Publisher : OneFate(p)'
  BY <1>1 DEF IInv, OneFate, InBatch
<1> QED BY <1>2, <1>4, <1>7, <1>8, <1>9 DEF IInv

\* What a committed transaction of an aggregate adds to the table: rows of
\* events that were not there, with one stamp that none exceeds.
LEMMA InsertEffect ==
  ASSUME IInv, NEW a \in Aggregate, InsertEvents(a)
  PROVE  \E new \in SUBSET Event, r \in Row :
           /\ stage[a] + 1 \in DOMAIN Lifecycle[a] /\ new = Lifecycle[a][stage[a] + 1]
           /\ IsFiniteSet(new)
           /\ \A e \in new : rows[e] = None
           /\ rows' = [e \in Event |-> IF e \in new THEN r ELSE rows[e]]
           /\ ~r.published
           /\ \A n \in Stamps : n <= r.occurred
<1> DEFINE new == Lifecycle[a][stage[a] + 1]
           latest == CHOOSE m \in Stamps : \A n \in Stamps : n <= m
<1>1. /\ stage[a] \in Nat /\ stage[a] + 1 \in DOMAIN Lifecycle[a]
      /\ Lifecycle[a] \in Seq(SUBSET Event)
  <2>1. stage[a] \in Nat /\ stage[a] < Len(Lifecycle[a])
    BY DEF InsertEvents, IInv, TypeOK
  <2>2. Lifecycle[a] \in Seq(SUBSET Event)
    BY LifecycleAssumption
  <2> QED BY <2>1, <2>2
<1>2. new \in SUBSET Event /\ IsFiniteSet(new)
  BY <1>1, FreshAssumption
<1>3. \A e \in new : rows[e] = None
  BY <1>1 DEF IInv, FutureIsNew
<1>4. Stamps \subseteq Nat
  BY RowFields DEF IInv, Stamps, Stored
<1>5. latest \in Stamps /\ \A n \in Stamps : n <= latest
  BY DEF IInv, FiniteTable
<1> HIDE DEF latest
<1>6. PICK later \in {0, 1}, away \in 0..Ahead :
        rows' = [e \in Event |-> IF e \in new
                                 THEN [occurred |-> later + latest, attempts |-> 0,
                                       wait |-> away, published |-> FALSE]
                                 ELSE rows[e]]
  BY Zenon DEF InsertEvents, latest, Stamps
<1> DEFINE r == [occurred |-> later + latest, attempts |-> 0,
                 wait |-> away, published |-> FALSE]
<1>7. r \in Row /\ r.occurred = later + latest /\ ~r.published
  BY <1>4, <1>5, BoundAssumption DEF Row
<1>8. \A n \in Stamps : n <= r.occurred
  BY <1>4, <1>5, <1>7
<1>9. rows' = [e \in Event |-> IF e \in new THEN r ELSE rows[e]]
  BY <1>6
<1> HIDE DEF r
<1> QED BY <1>1, <1>2, <1>3, <1>7, <1>8, <1>9

\* A transaction that inserts events keeps the invariant.
LEMMA InsertStep ==
  ASSUME IInv, NEW a \in Aggregate, InsertEvents(a)
  PROVE  IInv'
<1>1. PICK new \in SUBSET Event, r \in Row :
        /\ stage[a] + 1 \in DOMAIN Lifecycle[a] /\ new = Lifecycle[a][stage[a] + 1]
        /\ IsFiniteSet(new)
        /\ \A e \in new : rows[e] = None
        /\ rows' = [e \in Event |-> IF e \in new THEN r ELSE rows[e]]
        /\ ~r.published
        /\ \A n \in Stamps : n <= r.occurred
  BY InsertEffect
<1>2. /\ stage' = [stage EXCEPT ![a] = stage[a] + 1]
      /\ UNCHANGED <<batch, marked, retried, age, failed, queue, copies>>
  BY DEF InsertEvents
<1>3. stage[a] \in Nat /\ r # None /\ r.occurred \in Nat
  BY NoneAssumption DEF IInv, TypeOK, Row
<1>4. TypeOK'
  BY <1>1, <1>2, <1>3 DEF IInv, TypeOK
<1>5. Stored' = Stored \cup new
  BY <1>1, <1>3 DEF Stored
<1>6. \A e \in Stored : rows'[e] = rows[e]
  BY <1>1 DEF Stored
<1>7. FiniteTable'
  <2>1. IsFiniteSet(Stored')
    BY <1>1, <1>5, FS_Union DEF IInv, FiniteTable
  <2>2. CASE new = {}
    <3>1. Stamps' = Stamps
      BY <1>5, <1>6, <2>2 DEF Stamps
    <3> QED BY <2>1, <3>1 DEF IInv, FiniteTable
  <2>3. CASE new # {}
    <3>1. \A e \in new : rows'[e] = r
      BY <1>1
    <3>2. \A n \in Stamps' : n \in Stamps \/ n = r.occurred
      BY <1>5, <1>6, <3>1 DEF Stamps
    <3>3. r.occurred \in Stamps'
      BY <1>5, <2>3, <3>1 DEF Stamps
    <3>4. \A n \in Stamps' : n <= r.occurred
      BY <1>1, <1>3, <3>2
    <3> QED BY <2>1, <3>3, <3>4 DEF FiniteTable
  <2> QED BY <2>2, <2>3
<1>8. FutureIsNew'
  <2> SUFFICES ASSUME NEW b \in Aggregate, NEW i \in DOMAIN Lifecycle[b], i > stage'[b],
                      NEW e \in Lifecycle[b][i]
               PROVE  rows'[e] = None
    BY DEF FutureIsNew
  <2>1. i \in Nat /\ e \in Event
    BY LifecycleAssumption
  <2>2. i > stage[b] /\ (b # a \/ i # stage[a] + 1)
    BY <1>2, <1>3, <2>1 DEF IInv, TypeOK
  <2>3. e \notin new
    BY <1>1, <2>2, FreshAssumption
  <2> QED BY <1>1, <2>1, <2>2, <2>3 DEF IInv, FutureIsNew
<1>9. \A p \in Publisher : Claimed(p)' = Claimed(p)
  BY <1>2 DEF Claimed, InBatch
<1>10. \A p \in Publisher : \A e \in Claimed(p) : rows'[e] = rows[e]
  BY <1>6, ClaimedType DEF IInv, ClaimsAreExclusive, Stored
<1>11. ClaimsAreExclusive' /\ ClaimsAreDue'
  BY <1>2, <1>9, <1>10 DEF IInv, ClaimsAreExclusive, ClaimsAreDue
<1>12. PublishedIsDue' /\ PublishedWasSent'
  <2>1. \A e \in new : rows'[e] = r
    BY <1>1
  <2> QED BY <1>1, <1>2, <1>5, <1>6, <2>1 DEF IInv, PublishedIsDue, PublishedWasSent
<1>13. \A p \in Publisher : OneFate(p)'
  BY <1>2 DEF IInv, OneFate, InBatch
<1> QED BY <1>4, <1>7, <1>8, <1>11, <1>12, <1>13 DEF IInv

-----------------------------------------------------------------------------
(* The theorems.                                                             *)

\* The first state satisfies the invariant.
LEMMA InitIInv == Init => IInv
<1> SUFFICES ASSUME Init PROVE IInv
  OBVIOUS
<1>1. TypeOK
  BY BoundAssumption DEF Init, TypeOK
<1>2. Stored = {} /\ \A e \in Event : rows[e] = None
  BY DEF Init, Stored
<1>3. FiniteTable
  BY <1>2, FS_EmptySet DEF FiniteTable, Stamps
<1>4. FutureIsNew
  BY <1>2, LifecycleAssumption DEF FutureIsNew
<1>5. \A p \in Publisher : Claimed(p) = {} /\ marked[p] = {}
  BY DEF Init, Claimed, InBatch
<1>6. \A p \in Publisher : OneFate(p)
  BY DEF Init, OneFate, InBatch
<1> QED BY <1>1, <1>2, <1>3, <1>4, <1>5, <1>6
        DEF IInv, ClaimsAreExclusive, ClaimsAreDue, PublishedIsDue, PublishedWasSent

\* Every step keeps the invariant.
LEMMA NextIInv == ASSUME IInv, [Next]_vars PROVE IInv'
<1>1. CASE UNCHANGED vars
  <2>1. TypeOK' /\ Stored' = Stored /\ Stamps' = Stamps
    BY <1>1 DEF vars, IInv, TypeOK, Stored, Stamps
  <2>2. \A p \in Publisher : Claimed(p)' = Claimed(p) /\ OneFate(p)'
    BY <1>1 DEF vars, Claimed, InBatch, IInv, OneFate
  <2> QED BY <1>1, <2>1, <2>2 DEF vars, IInv, FiniteTable, FutureIsNew,
             ClaimsAreExclusive, ClaimsAreDue, PublishedIsDue, PublishedWasSent
<1> QED BY <1>1, InsertStep, FindStep, SendStep, CommitStep, AbortStep, TickStep DEF Next

\* The inductive invariant holds in every reachable state.
THEOREM Invariance == Spec => []IInv
<1> QED BY InitIInv, NextIInv, PTL DEF Spec

\* Every row, claim and counter has its type; no backoff exceeds maxRetryDelay.
THEOREM TypeCorrect == Spec => []TypeOK
<1>1. IInv => TypeOK
  BY DEF IInv
<1> QED BY <1>1, Invariance, PTL

\* published_at is committed only for events that the broker has accepted.
THEOREM PublishedMeansSent == Spec => []PublishedWasSent
<1>1. IInv => PublishedWasSent
  BY DEF IInv
<1> QED BY <1>1, Invariance, PTL

\* FOR UPDATE SKIP LOCKED works for any number of publishers: an event is in
\* the hands of one of them, and unpublished until that one commits.
THEOREM ClaimsStayExclusive == Spec => []ClaimsAreExclusive
<1>1. IInv => ClaimsAreExclusive
  BY DEF IInv
<1> QED BY <1>1, Invariance, PTL

\* A step never touches a published row and never sends its event again.
LEMMA FinalStep ==
  ASSUME IInv, [Next]_vars, NEW e \in Stored, rows[e].published
  PROVE  rows'[e] = rows[e] /\ copies'[e] = copies[e]
<1>1. e \in Event /\ rows[e] # None
  BY DEF Stored
<1>2. \A p \in Publisher : e \notin Claimed(p)
  BY DEF IInv, ClaimsAreExclusive
<1>3. ASSUME NEW a \in Aggregate, InsertEvents(a)
      PROVE  rows'[e] = rows[e] /\ copies'[e] = copies[e]
  <2>1. rows'[e] = rows[e]
    BY <1>1, <1>3, InsertEffect
  <2> QED BY <1>3, <2>1 DEF InsertEvents
<1>4. ASSUME NEW p \in Publisher, findPending(p) \/ Abort(p)
      PROVE  rows'[e] = rows[e] /\ copies'[e] = copies[e]
  BY <1>4 DEF findPending, Abort
<1>5. ASSUME NEW p \in Publisher, Publish(p) \/ PublishFails(p)
      PROVE  rows'[e] = rows[e] /\ copies'[e] = copies[e]
  <2>1. /\ batch[p] # <<>> /\ Drop(p) /\ rows' = rows
        /\ Accept(Head(batch[p])) \/ copies' = copies
    BY <1>5 DEF Publish, PublishFails, scheduleRetry
  <2>2. Head(batch[p]) \in Event /\ Head(batch[p]) # e
    BY <1>2, <2>1, DropFacts DEF IInv, Claimed
  <2>3. Accept(Head(batch[p])) => copies'[e] = copies[e]
    BY <1>1, <2>2, AcceptFacts DEF IInv
  <2> QED BY <2>1, <2>3
<1>6. ASSUME NEW p \in Publisher, Commit(p)
      PROVE  rows'[e] = rows[e] /\ copies'[e] = copies[e]
  <2>1. rows'[e] = rows[e]
    BY <1>1, <1>2, <1>6, CommitEffect
  <2> QED BY <1>6, <2>1 DEF Commit
<1>7. CASE Tick
  <2>1. rows'[e] = rows[e]
    BY <1>1, <1>7, TickEffect DEF IInv, PublishedIsDue
  <2> QED BY <1>7, <2>1 DEF Tick
<1>8. CASE UNCHANGED vars
  BY <1>8 DEF vars
<1> QED BY <1>3, <1>4, <1>5, <1>6, <1>7, <1>8 DEF Next

\* Once published_at is committed, the row is final and its event is not sent
\* again by anyone.
THEOREM PublicationIsFinal == Spec => PublishedIsFinal
<1>1. IInv /\ [Next]_vars =>
        [\A e \in Stored : rows[e].published =>
           /\ rows'[e] = rows[e]
           /\ copies'[e] = copies[e]]_vars
  BY FinalStep
<1> QED BY <1>1, Invariance, PTL DEF Spec, PublishedIsFinal
=============================================================================
