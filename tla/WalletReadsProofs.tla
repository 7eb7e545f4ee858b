-------------------------- MODULE WalletReadsProofs ---------------------------
(***************************************************************************)
(* Theorems about WalletReads, for every bound of the ledger, page sizes,  *)
(* skew and amounts: amounts survive their way through text, a report is   *)
(* true of its snapshot, and a walk over the pages is faithful.            *)
(*                                                                         *)
(* The lemmas come first: texts, the least element of a set of numbers     *)
(* (which stands in for induction), sorting, and the running sums.         *)
(***************************************************************************)
EXTENDS WalletReads, FiniteSetTheorems, WellFoundedInduction, TLAPS

(* Texts.                                                                    *)

\* Division with remainder.
LEMMA Division ==
  ASSUME NEW a \in Nat
  PROVE  /\ a \div 100 \in Nat
         /\ a - 100 * (a \div 100) \in 0..99
OBVIOUS

\* The quotient is the only one.
LEMMA Quotient ==
  ASSUME NEW w \in Nat, NEW f \in 0..99
  PROVE  (100 * w + f) \div 100 = w
OBVIOUS

\* Money.String is a text of the amount, negative or not.
LEMMA StringDenotes ==
  ASSUME NEW a \in Int
  PROVE  String(a) \in Text /\ Cents(String(a)) = a
<1>1. CASE a >= 0
  <2>1. a \in Nat
    BY <1>1
  <2>2. /\ Whole(a) = a \div 100
        /\ Remainder(a) = a - 100 * Whole(a)
        /\ Whole(a) \in Nat /\ Remainder(a) \in 0..99
    BY <1>1, <2>1, Division DEF Whole, Remainder
  <2>3. String(a) = [minus |-> FALSE, whole |-> Whole(a), fraction |-> Remainder(a)]
    BY <1>1 DEF String
  <2> QED BY <2>2, <2>3 DEF Text, Cents
<1>2. CASE a < 0
  <2> DEFINE q == (-a) \div 100
  <2>1. -a \in Nat /\ ~(a >= 0)
    BY <1>2
  <2>2. q \in Nat /\ (-a) - 100 * q \in 0..99
    BY <2>1, Division
  <2>3. Whole(a) = -q /\ Remainder(a) = a - 100 * Whole(a)
    BY <2>1 DEF Whole, Remainder
  <2> HIDE DEF q
  <2>4. -Remainder(a) = (-a) - 100 * q /\ -Remainder(a) \in 0..99
    BY <2>2, <2>3
  <2>5. CASE q = 0
    <3>1. Whole(a) = 0
      <4>1. \A i \in Int : i <= 0 /\ i >= 0 => -i = 0
        OBVIOUS
      <4>2. q \in Int /\ q <= 0 /\ q >= 0
        BY <2>2, <2>5
      <4> QED BY <2>3, <4>1, <4>2, Zenon
    <3>2. String(a) = [minus |-> TRUE, whole |-> 0, fraction |-> -Remainder(a)]
      BY <2>1, <3>1, Zenon DEF String
    <3> QED BY <2>4, <2>5, <3>2 DEF Text, Cents
  <2>6. CASE q # 0
    <3>1. Whole(a) < 0 /\ Whole(a) # 0 /\ -Whole(a) = q
      BY <2>2, <2>3, <2>6
    <3>2. String(a) = [minus |-> TRUE, whole |-> q, fraction |-> -Remainder(a)]
      BY <2>1, <3>1 DEF String
    <3> QED BY <2>2, <2>4, <3>2 DEF Text, Cents
  <2> QED BY <2>5, <2>6
<1> QED BY <1>1, <1>2

\* ParseMoney's check, which avoids the product, draws the line at MaxInt.
LEMMA ParseBound ==
  ASSUME NEW text \in Text
  PROVE  ParseMoney(text) = IF text.minus \/ Cents(text) > MaxInt THEN None ELSE Cents(text)
<1>1. PICK w \in Nat, f \in 0..99 : w = text.whole /\ f = text.fraction
  BY DEF Text
<1>2. PICK limit \in Int : limit = (MaxInt - f) \div 100
  BY MoneyAssumption
<1>3. 100 * limit <= MaxInt - f /\ MaxInt - f < 100 * (limit + 1)
  BY <1>2, MoneyAssumption
<1>4. w > limit <=> 100 * w + f > MaxInt
  BY <1>3, MoneyAssumption
<1>5. text.minus \in BOOLEAN
  BY DEF Text
<1>6. CASE text.minus
  BY <1>6 DEF ParseMoney
<1>7. CASE ~text.minus
  <2>1. Cents(text) = 100 * w + f /\ w * 100 + f = 100 * w + f
    BY <1>1, <1>7 DEF Cents
  <2>2. ParseMoney(text) = IF w > limit THEN None ELSE w * 100 + f
    BY <1>1, <1>2, <1>7 DEF ParseMoney
  <2> QED BY <1>4, <1>7, <2>1, <2>2
<1> QED BY <1>5, <1>6, <1>7

\* What ParseMoney accepts is an int64 that prints as the very text it came from.
LEMMA ParseExact ==
  ASSUME NEW text \in Text, ParseMoney(text) # None
  PROVE  /\ ParseMoney(text) \in 0..MaxInt
         /\ String(ParseMoney(text)) = text
<1>1. PICK w \in Nat, f \in 0..99 : text = [minus |-> text.minus, whole |-> w, fraction |-> f]
  BY DEF Text
<1>2. /\ ~text.minus
      /\ ~(w > (MaxInt - f) \div 100)
      /\ ParseMoney(text) = w * 100 + f
  BY <1>1 DEF ParseMoney
<1>3. w * 100 + f \in 0..MaxInt
  BY <1>2, MoneyAssumption
<1>4. Whole(w * 100 + f) = w /\ Remainder(w * 100 + f) = f
  BY <1>3, Quotient DEF Whole, Remainder
<1>5. String(w * 100 + f) = [minus |-> FALSE, whole |-> w, fraction |-> f]
  <2>1. w * 100 + f >= 0
    OBVIOUS
  <2> QED BY <1>4, <2>1, Zenon DEF String
<1>6. text = [minus |-> FALSE, whole |-> w, fraction |-> f]
  BY <1>1, <1>2 DEF Text
<1> QED BY <1>2, <1>3, <1>5, <1>6

-----------------------------------------------------------------------------
(* Sorting.                                                                  *)

\* A set of naturals has a least element.
LEMMA Least ==
  ASSUME NEW T, T \subseteq Nat, T # {}
  PROVE  \E n \in T : \A m \in T : n <= m
<1>1. PICK n \in T : \A m \in T : ~(<<m, n>> \in OpToRel(<, Nat))
  BY NatLessThanWellFounded, WFMin
<1>2. \A m \in T : ~(m < n)
  BY <1>1 DEF OpToRel
<1> QED BY <1>2

\* The numbers up to m.
LEMMA IntervalCounts ==
  ASSUME NEW m \in Nat
  PROVE  IsFiniteSet(1..m) /\ Cardinality(1..m) = m
BY FS_Interval

\* No two of these entries have the same id.
Distinct(E) == \A e, f \in E : e.id = f.id => e = f

\* Precedes is a strict order, total on entries of different ids.
LEMMA OrderIsStrict ==
  /\ \A e \in Entry : ~Precedes(e, e)
  /\ \A e, f \in Entry : Precedes(e, f) => ~Precedes(f, e)
  /\ \A e, f, g \in Entry : Precedes(e, f) /\ Precedes(f, g) => Precedes(e, g)
  /\ \A e, f \in Entry : e.id # f.id => Precedes(e, f) \/ Precedes(f, e)
<1>1. \A e \in Entry : e.at \in Nat /\ e.id \in Nat
  BY ReadAssumption DEF Entry
<1> QED BY <1>1 DEF Precedes

\* s is E in order, without repetition.
Sorts(s, E) ==
  /\ \A i, j \in DOMAIN s : i < j => Precedes(s[i], s[j])
  /\ \A e \in E : \E i \in DOMAIN s : s[i] = e

\* Every finite set of distinct entries can be put in order: an entry goes to the
\* place that the number of its predecessors gives it.
LEMMA OrderExists ==
  ASSUME NEW E, E \subseteq Entry, IsFiniteSet(E), Distinct(E)
  PROVE  \E s \in [1..Cardinality(E) -> E] :
           \A i, j \in DOMAIN s : i < j => Precedes(s[i], s[j])
<1> DEFINE n == Cardinality(E)
           before(e) == {f \in E : Precedes(f, e)}
           place == [e \in E |-> Cardinality(before(e)) + 1]
<1>1. n \in Nat
  BY FS_CardinalityType
<1>2. ASSUME NEW e \in E
      PROVE  /\ IsFiniteSet(before(e)) /\ Cardinality(before(e)) \in Nat
             /\ Cardinality(before(e)) < n
  <2>1. before(e) \in SUBSET E /\ e \notin before(e)
    BY OrderIsStrict
  <2>2. /\ IsFiniteSet(before(e)) /\ Cardinality(before(e)) <= n
        /\ (n = Cardinality(before(e)) => E = before(e))
    BY <2>1, FS_Subset
  <2>3. Cardinality(before(e)) \in Nat
    BY <2>2, FS_CardinalityType
  <2> QED BY <1>1, <2>1, <2>2, <2>3
<1>3. ASSUME NEW e \in E, NEW f \in E, Precedes(e, f)
      PROVE  place[e] < place[f]
  <2>1. before(e) \in SUBSET before(f) /\ e \in before(f) /\ e \notin before(e)
    BY <1>3, OrderIsStrict
  <2>2. /\ Cardinality(before(e)) <= Cardinality(before(f))
        /\ (Cardinality(before(f)) = Cardinality(before(e)) => before(f) = before(e))
    BY <1>2, <2>1, FS_Subset
  <2>3. Cardinality(before(e)) # Cardinality(before(f))
    BY <2>1, <2>2
  <2> HIDE DEF before
  <2> QED BY <1>2, <2>2, <2>3
<1>4. place \in [E -> 1..n]
  <2> HIDE DEF before
  <2> QED BY <1>1, <1>2
<1> HIDE DEF place
<1>5. place \in Injection(E, 1..n)
  <2>1. ASSUME NEW e \in E, NEW f \in E, place[e] = place[f], e # f PROVE FALSE
    <3>1. Precedes(e, f) \/ Precedes(f, e)
      BY <2>1, OrderIsStrict DEF Distinct
    <3> QED BY <1>1, <1>3, <1>4, <2>1, <3>1
  <2> QED BY <1>4, <2>1 DEF Injection, IsInjective
<1>6. place \in Surjection(E, 1..n)
  <2>1. IsFiniteSet(1..n) /\ Cardinality(1..n) = n
    BY <1>1, IntervalCounts
  <2> QED BY <1>5, <2>1, FS_Injection
<1> DEFINE s == [i \in 1..n |-> CHOOSE e \in E : place[e] = i]
<1>7. \A i \in 1..n : s[i] \in E /\ place[s[i]] = i
  BY <1>6 DEF Surjection
<1>8. s \in [1..n -> E]
  BY <1>7
<1> HIDE DEF s
<1>9. ASSUME NEW i \in 1..n, NEW j \in 1..n, i < j PROVE Precedes(s[i], s[j])
  <2>1. s[i] \in E /\ s[j] \in E /\ place[s[i]] = i /\ place[s[j]] = j
    BY <1>7
  <2>2. ~Precedes(s[j], s[i])
    BY <1>1, <1>3, <1>9, <2>1
  <2>3. s[i] # s[j]
    BY <1>1, <1>9, <2>1
  <2> QED BY <2>1, <2>2, <2>3, OrderIsStrict DEF Distinct
<1> QED BY <1>8, <1>9

\* ORDER BY created_at, id returns every row once, in order.
LEMMA OrderedSorts ==
  ASSUME NEW E, E \subseteq Entry, IsFiniteSet(E), Distinct(E)
  PROVE  /\ Cardinality(E) \in Nat
         /\ Ordered(E) \in [1..Cardinality(E) -> E]
         /\ Sorts(Ordered(E), E)
<1> DEFINE n == Cardinality(E)
           s == Ordered(E)
<1>1. n \in Nat
  BY FS_CardinalityType
<1>2. s \in [1..n -> E] /\ \A i, j \in DOMAIN s : i < j => Precedes(s[i], s[j])
  BY OrderExists DEF Ordered
<1> HIDE DEF s
<1>3. s \in Injection(1..n, E)
  <2>1. ASSUME NEW i \in 1..n, NEW j \in 1..n, s[i] = s[j] PROVE i = j
    <3>1. s[i] \in Entry /\ ~Precedes(s[i], s[i])
      BY <1>2, OrderIsStrict
    <3>2. ~(i < j) /\ ~(j < i)
      BY <1>2, <2>1, <3>1
    <3> QED BY <1>1, <3>2
  <2> QED BY <1>2, <2>1 DEF Injection, IsInjective
<1>4. s \in Surjection(1..n, E)
  <2>1. IsFiniteSet(1..n) /\ Cardinality(1..n) = n
    BY <1>1, IntervalCounts
  <2> QED BY <1>3, <2>1, FS_Injection
<1> QED BY <1>1, <1>2, <1>4 DEF Sorts, Surjection, s

\* There is only one way to put a set in order.
LEMMA OrderIsUnique ==
  ASSUME NEW n \in Nat, NEW E, E \subseteq Entry,
         NEW s \in [1..n -> E], NEW t \in [1..n -> E], Sorts(s, E), Sorts(t, E)
  PROVE  s = t
<1> DEFINE D == {i \in 1..n : s[i] # t[i]}
<1>1. SUFFICES ASSUME D # {} PROVE FALSE
  BY <1>1
<1>2. PICK k \in D : \A m \in D : k <= m
  <2>1. D \subseteq Nat
    OBVIOUS
  <2> HIDE DEF D
  <2> QED BY <1>1, <2>1, Least
<1>3. k \in 1..n /\ s[k] # t[k] /\ \A i \in 1..n : i < k => s[i] = t[i]
  BY <1>2
<1>4. PICK j \in 1..n : t[j] = s[k]
  BY <1>3 DEF Sorts
<1>5. PICK i \in 1..n : s[i] = t[k]
  BY <1>3 DEF Sorts
<1>6. s[k] \in Entry /\ t[k] \in Entry
  BY <1>3
<1>7. k < j
  <2>1. ~(j < k)
    BY <1>3, <1>4, <1>6, OrderIsStrict DEF Sorts
  <2> QED BY <1>3, <1>4, <2>1
<1>8. k < i
  <2>1. ~(i < k)
    BY <1>3, <1>5, <1>6, OrderIsStrict DEF Sorts
  <2> QED BY <1>3, <1>5, <2>1
<1>9. Precedes(t[k], s[k]) /\ Precedes(s[k], t[k])
  BY <1>3, <1>4, <1>5, <1>7, <1>8 DEF Sorts
<1> QED BY <1>6, <1>9, OrderIsStrict

-----------------------------------------------------------------------------
(* The ledger.                                                               *)

\* The first n stamps are in order, each before all that follow.
LEMMA StampsAscend ==
  ASSUME ledger \in Seq(Entry), NEW n \in 0..Len(ledger), StampsInOrder(n),
         NEW i \in 1..n
  PROVE  \A j \in 1..n : i < j => Precedes(ledger[i], ledger[j])
<1> DEFINE D == {j \in 1..n : i < j /\ ~Precedes(ledger[i], ledger[j])}
<1>1. SUFFICES ASSUME D # {} PROVE FALSE
  BY <1>1
<1>2. PICK k \in D : \A m \in D : k <= m
  <2>1. D \subseteq Nat
    OBVIOUS
  <2> HIDE DEF D
  <2> QED BY <1>1, <2>1, Least
<1>3. /\ k \in 2..n /\ k - 1 \in 1..n /\ i < k /\ Len(ledger) \in Nat
      /\ ~Precedes(ledger[i], ledger[k])
  BY <1>2
<1>4. Precedes(ledger[k - 1], ledger[k])
  BY <1>3 DEF StampsInOrder
<1>5. k - 1 \notin D
  BY <1>2, <1>3
<1>6. k - 1 # i
  BY <1>3, <1>4
<1>7. Precedes(ledger[i], ledger[k - 1])
  BY <1>3, <1>5, <1>6
<1>8. ledger[i] \in Entry /\ ledger[k - 1] \in Entry /\ ledger[k] \in Entry
  BY <1>3
<1> QED BY <1>3, <1>4, <1>7, <1>8, OrderIsStrict

\* No two rows of ledger_entries have the same id.
IdsDiffer == \A i, j \in DOMAIN ledger : ledger[i].id = ledger[j].id => i = j

\* Consecutive entries are a set of that many distinct entries.
LEMMA SliceCounts ==
  ASSUME ledger \in Seq(Entry), IdsDiffer,
         NEW n \in 0..Len(ledger), NEW k \in 0..n
  PROVE  LET E == {ledger[i] : i \in (k + 1)..n}
         IN  /\ E \subseteq Entry /\ IsFiniteSet(E) /\ Distinct(E)
             /\ Cardinality(E) = n - k
<1> DEFINE E == {ledger[i] : i \in (k + 1)..n}
           s == [i \in 1..(n - k) |-> ledger[k + i]]
<1>1. Len(ledger) \in Nat /\ DOMAIN ledger = 1..Len(ledger) /\ n - k \in Nat
  OBVIOUS
<1>2. E \subseteq Entry /\ Distinct(E)
  BY <1>1 DEF Distinct, IdsDiffer
<1>3. s \in [1..(n - k) -> E]
  <2>1. \A i \in 1..(n - k) : k + i \in (k + 1)..n
    BY <1>1
  <2> QED BY <2>1
<1>4. s \in Bijection(1..(n - k), E)
  <2>1. ASSUME NEW i \in 1..(n - k), NEW j \in 1..(n - k), s[i] = s[j] PROVE i = j
    <3>1. k + i \in 1..Len(ledger) /\ k + j \in 1..Len(ledger)
      BY <1>1
    <3>2. ledger[k + i].id = ledger[k + j].id
      BY <2>1
    <3>3. k + i = k + j
      BY <1>1, <3>1, <3>2 DEF IdsDiffer
    <3> QED BY <3>3
  <2>2. ASSUME NEW e \in E PROVE \E i \in 1..(n - k) : s[i] = e
    <3>1. PICK j \in (k + 1)..n : e = ledger[j]
      OBVIOUS
    <3>2. j - k \in 1..(n - k) /\ k + (j - k) = j
      BY <1>1
    <3> QED BY <3>1, <3>2
  <2> HIDE DEF s, E
  <2> QED BY <1>3, <2>1, <2>2 DEF Bijection, Injection, Surjection, IsInjective
<1>5. IsFiniteSet(E) /\ Cardinality(E) = n - k
  <2>1. IsFiniteSet(1..(n - k)) /\ Cardinality(1..(n - k)) = n - k
    BY <1>1, IntervalCounts
  <2>2. ExistsBijection(1..(n - k), E)
    BY <1>4 DEF ExistsBijection
  <2> HIDE DEF E
  <2> QED BY <2>1, <2>2, FS_Bijection
<1> QED BY <1>2, <1>5

\* With stamps in commit order, ORDER BY returns them in commit order.
LEMMA SliceOrdered ==
  ASSUME ledger \in Seq(Entry), IdsDiffer,
         NEW n \in 0..Len(ledger), NEW k \in 0..n, StampsInOrder(n)
  PROVE  Ordered({ledger[i] : i \in (k + 1)..n}) = [i \in 1..(n - k) |-> ledger[k + i]]
<1> DEFINE E == {ledger[i] : i \in (k + 1)..n}
           s == [i \in 1..(n - k) |-> ledger[k + i]]
<1>1. Len(ledger) \in Nat /\ n - k \in Nat
  OBVIOUS
<1>2. /\ E \subseteq Entry /\ IsFiniteSet(E) /\ Distinct(E)
      /\ Cardinality(E) = n - k
  BY SliceCounts
<1>3. s \in [1..(n - k) -> E]
  <2>1. \A i \in 1..(n - k) : k + i \in (k + 1)..n
    BY <1>1
  <2> QED BY <2>1
<1>4. Sorts(s, E)
  <2>1. ASSUME NEW i \in 1..(n - k), NEW j \in 1..(n - k), i < j
        PROVE  Precedes(s[i], s[j])
    <3>1. k + i \in 1..n /\ k + j \in 1..n /\ k + i < k + j
      BY <1>1, <2>1
    <3>2. Precedes(ledger[k + i], ledger[k + j])
      BY <3>1, StampsAscend
    <3> QED BY <3>2
  <2>2. ASSUME NEW e \in E PROVE \E i \in 1..(n - k) : s[i] = e
    <3>1. PICK j \in (k + 1)..n : e = ledger[j]
      OBVIOUS
    <3>2. j - k \in 1..(n - k) /\ k + (j - k) = j
      BY <1>1
    <3> QED BY <3>1, <3>2
  <2>3. DOMAIN s = 1..(n - k)
    OBVIOUS
  <2> HIDE DEF s, E
  <2> QED BY <2>1, <2>2, <2>3 DEF Sorts
<1> HIDE DEF s, E
<1>5. Ordered(E) \in [1..(n - k) -> E] /\ Sorts(Ordered(E), E)
  BY <1>2, OrderedSorts
<1>6. Ordered(E) = s
  BY <1>1, <1>2, <1>3, <1>4, <1>5, OrderIsUnique
<1> QED BY <1>6 DEF E, s

-----------------------------------------------------------------------------
(* The running sums.                                                         *)

\* A sum with a first value and a summand for each step exists.
LEMMA SumExists ==
  ASSUME NEW L \in Nat, NEW base \in Int, NEW d \in [1..L -> Int]
  PROVE  \E f \in [0..L -> Int] : f[0] = base /\ \A i \in 1..L : f[i] = f[i - 1] + d[i]
<1> DEFINE Sum(n, f) == f[0] = base /\ \A i \in 1..n : f[i] = f[i - 1] + d[i]
           D == {n \in 0..L : ~ \E f \in [0..n -> Int] : Sum(n, f)}
<1>1. SUFFICES ASSUME D # {} PROVE FALSE
  <2>1. L \in 0..L
    OBVIOUS
  <2>2. \E f \in [0..L -> Int] : Sum(L, f)
    BY <1>1, <2>1
  <2> QED BY <2>2
<1>2. PICK k \in D : \A m \in D : k <= m
  <2>1. D \subseteq Nat
    OBVIOUS
  <2> HIDE DEF D
  <2> QED BY <1>1, <2>1, Least
<1>3. k \in 0..L /\ ~ \E f \in [0..k -> Int] : Sum(k, f)
  BY <1>2
<1>4. k # 0
  <2>1. [i \in 0..0 |-> base] \in [0..0 -> Int] /\ Sum(0, [i \in 0..0 |-> base])
    OBVIOUS
  <2> QED BY <1>3, <2>1
<1>5. k - 1 \in 0..L /\ k - 1 \notin D
  <2>1. k \in 0..L
    BY <1>3
  <2> HIDE DEF D
  <2> QED BY <1>2, <1>4, <2>1
<1>6. PICK f \in [0..(k - 1) -> Int] : Sum(k - 1, f)
  BY <1>5
<1> DEFINE g == [i \in 0..k |-> IF i = k THEN f[k - 1] + d[k] ELSE f[i]]
<1>7. g \in [0..k -> Int]
  <2>1. f[k - 1] \in Int /\ d[k] \in Int
    BY <1>3, <1>4, <1>5, <1>6
  <2>2. \A i \in 0..k : i # k => i \in 0..(k - 1)
    BY <1>3
  <2> QED BY <1>6, <2>1, <2>2
<1>8. Sum(k, g)
  <2>1. \A i \in 0..(k - 1) : g[i] = f[i] /\ i \in 0..k
    BY <1>3, <1>5
  <2>2. g[k] = f[k - 1] + d[k]
    BY <1>3
  <2> HIDE DEF g
  <2>3. g[0] = base
    BY <1>3, <1>4, <1>5, <1>6, <2>1
  <2>4. ASSUME NEW i \in 1..k PROVE g[i] = g[i - 1] + d[i]
    <3>1. CASE i = k
      BY <1>3, <1>5, <2>1, <2>2, <3>1
    <3>2. CASE i # k
      <4>1. i \in 1..(k - 1) /\ i \in 0..(k - 1) /\ i - 1 \in 0..(k - 1)
        BY <1>3, <3>2
      <4> QED BY <1>6, <2>1, <4>1
    <3> QED BY <3>1, <3>2
  <2> QED BY <2>3, <2>4
<1> QED BY <1>3, <1>7, <1>8

\* Sums is such a sum.
LEMMA SumsAre ==
  ASSUME ledger \in Seq(Entry)
  PROVE  /\ Sums[0] = IF ledger = <<>> THEN 0 ELSE ledger[1].before
         /\ \A n \in 1..Len(ledger) : Sums[n] = Sums[n - 1] + Change(ledger[n])
<1> DEFINE L == Len(ledger)
           base == IF ledger = <<>> THEN 0 ELSE ledger[1].before
           d == [i \in 1..L |-> Change(ledger[i])]
           body(f) == [n \in 0..L |-> IF n = 0 THEN base ELSE f[n - 1] + Change(ledger[n])]
<1>1. L \in Nat /\ \A i \in 1..L : ledger[i] \in Entry
  OBVIOUS
<1>2. base \in Int
  <2>1. CASE ledger = <<>>
    BY <2>1
  <2>2. CASE ledger # <<>>
    <3>1. ledger[1] \in Entry
      BY <2>2
    <3>2. ledger[1].before \in Int
      BY <3>1, MoneyAssumption DEF Entry
    <3> QED BY <2>2, <3>2
  <2> QED BY <2>1, <2>2
<1>3. d \in [1..L -> Int]
  <2>1. \A e \in Entry : Change(e) \in Int
    BY MoneyAssumption DEF Entry, Change
  <2> QED BY <1>1, <2>1
<1>4. PICK f \in [0..L -> Int] : f[0] = base /\ \A i \in 1..L : f[i] = f[i - 1] + d[i]
  <2> HIDE DEF L, base, d
  <2> QED BY <1>1, <1>2, <1>3, SumExists
<1>5. f = body(f)
  <2>1. ASSUME NEW n \in 0..L
        PROVE  f[n] = IF n = 0 THEN base ELSE f[n - 1] + Change(ledger[n])
    <3>1. CASE n = 0
      BY <1>4, <3>1
    <3>2. CASE n # 0
      <4>1. n \in 1..L
        BY <1>1, <3>2
      <4>2. f[n] = f[n - 1] + Change(ledger[n])
        BY <1>4, <4>1
      <4> QED BY <3>2, <4>2
    <3> QED BY <3>1, <3>2
  <2> HIDE DEF L, base
  <2> QED BY <1>4, <2>1
<1>6. Sums = body(Sums)
  <2>1. Sums = CHOOSE g : g = body(g)
    BY DEF Sums
  <2> HIDE DEF body
  <2> QED BY <1>5, <2>1
<1>7. \A n \in 0..L : Sums[n] = IF n = 0 THEN base ELSE Sums[n - 1] + Change(ledger[n])
  <2> HIDE DEF L, base
  <2> QED BY <1>6
<1>8. 0 \in 0..L /\ \A n \in 1..L : n \in 0..L /\ n # 0
  BY <1>1
<1> HIDE DEF L, base
<1>9. Sums[0] = base /\ \A n \in 1..L : Sums[n] = Sums[n - 1] + Change(ledger[n])
  BY <1>7, <1>8
<1> QED BY <1>9 DEF L, base

\* The arithmetic of each entry holds.
EntriesAdd == \A i \in DOMAIN ledger : Expected(ledger[i]) = ledger[i].after

\* Entries that continue each other lead to the balance after the last of them.
LEMMA SumIsLast ==
  ASSUME ledger \in Seq(Entry), EntriesAdd, NEW n \in 1..Len(ledger), Continuous(n)
  PROVE  Total(n) = ledger[n].after
<1> DEFINE D == {k \in 1..n : Sums[k] # ledger[k].after}
<1>1. Len(ledger) \in Nat /\ DOMAIN ledger = 1..Len(ledger) /\ ledger # <<>>
  OBVIOUS
<1>2. ASSUME D # {} PROVE FALSE
  <2>1. PICK k \in D : \A m \in D : k <= m
    <3>1. D \subseteq Nat
      OBVIOUS
    <3> HIDE DEF D
    <3> QED BY <1>2, <3>1, Least
  <2>2. k \in 1..n /\ k \in DOMAIN ledger /\ Sums[k] # ledger[k].after
    BY <1>1, <2>1
  <2>3. Sums[k] = Sums[k - 1] + Change(ledger[k])
    BY <1>1, <2>2, SumsAre
  <2>4. Sums[k - 1] = ledger[k].before
    <3>1. CASE k = 1
      BY <1>1, <3>1, SumsAre
    <3>2. CASE k # 1
      <4>1. k \in 2..n /\ k - 1 \in 1..n /\ k - 1 \notin D
        BY <1>1, <2>1, <2>2, <3>2
      <4>2. Sums[k - 1] = ledger[k - 1].after
        BY <4>1
      <4> QED BY <4>1, <4>2 DEF Continuous
    <3> QED BY <3>1, <3>2
  <2>5. ledger[k].before \in Int /\ ledger[k].amount \in Int
    <3>1. ledger[k] \in Entry
      BY <1>1, <2>2
    <3>2. \A e \in Entry : e.before \in Int /\ e.amount \in Int
      BY MoneyAssumption DEF Entry
    <3> QED BY <3>1, <3>2
  <2>6. ledger[k].before + Change(ledger[k]) = Expected(ledger[k])
    BY <2>5 DEF Change, Expected
  <2> QED BY <2>2, <2>3, <2>4, <2>6 DEF EntriesAdd
<1>3. Sums[n] = ledger[n].after
  BY <1>2
<1> QED BY <1>3 DEF Total

-----------------------------------------------------------------------------
(* The inductive invariant.                                                  *)

\* The balance after the first n entries, as the last of them says.
Closing(n) == IF n = 0 THEN 0 ELSE ledger[n].after

LedgerSound ==
  /\ Len(ledger) <= MaxEntries
  /\ IdsDiffer
  /\ EntriesAdd
  /\ \A i \in DOMAIN ledger : String(ledger[i].amount) = ledger[i].text

SnapshotIsPast == snapshot # None => snapshot.entries <= Len(ledger)

\* A report about the first n entries.
ReportFits(n) ==
  /\ n <= Len(ledger)
  /\ report.checked = n
  /\ Cents(report.text) = report.difference
  /\ StampsInOrder(n) =>
       /\ report.difference = report.of.balance - Closing(n)
       /\ report.consistent <=> Continuous(n) /\ report.of.balance = Closing(n)

\* Where a walk stands: it has not begun, it goes on behind the last entry it
\* was given, or it is done.
WalkStands ==
  /\ walk.done \in BOOLEAN
  /\ walk.begun = None => walk.got = <<>> /\ walk.cursor = None /\ ~walk.done
  /\ walk.begun # None =>
       /\ walk.begun \in 0..Len(ledger)
       /\ walk.done \/ /\ walk.got # <<>>
                       /\ walk.cursor = [at |-> Last(walk.got).at, id |-> Last(walk.got).id]
  /\ \A j \in DOMAIN walk.got : \E i \in DOMAIN ledger : walk.got[j] = ledger[i]
  /\ StampsInOrder(Len(ledger)) => Len(walk.got) <= Len(ledger)

IInv ==
  /\ TypeOK
  /\ LedgerSound
  /\ SnapshotIsPast
  /\ report # None => ReportFits(report.of.entries)
  /\ WalkStands
  /\ WalkIsFaithful

\* The first state satisfies it.
LEMMA InitIInv == Init => IInv
<1> SUFFICES ASSUME Init PROVE IInv
  OBVIOUS
<1>1. /\ ledger = <<>> /\ balance = 0 /\ snapshot = None /\ report = None
      /\ walk.got = <<>> /\ walk.cursor = None /\ walk.begun = None /\ walk.done = FALSE
  BY DEF Init, NoWalk
<1>2. TypeOK
  BY <1>1, MoneyAssumption DEF TypeOK
<1>3. LedgerSound
  BY <1>1, ReadAssumption DEF LedgerSound, IdsDiffer, EntriesAdd
<1>4. WalkStands
  <2>1. DOMAIN walk.got = {} /\ Len(walk.got) <= Len(ledger)
    BY <1>1
  <2> QED BY <1>1, <2>1, Zenon DEF WalkStands
<1>5. WalkIsFaithful
  BY <1>1 DEF WalkIsFaithful
<1> QED BY <1>1, <1>2, <1>3, <1>4, <1>5 DEF IInv, SnapshotIsPast

\* What is proved of a step: the ledger stays, or gets one more entry.
Grows(e) ==
  /\ ledger' = Append(ledger, e)
  /\ Len(ledger') = Len(ledger) + 1
  /\ \A i \in DOMAIN ledger : ledger'[i] = ledger[i]
  /\ ledger'[Len(ledger) + 1] = e

\* A report and a walk are not disturbed by a new entry.
LEMMA ReportGrows ==
  ASSUME IInv, NEW e, Grows(e), UNCHANGED report, report # None,
         NEW n, n = report.of.entries
  PROVE  ReportFits(n)'
<1>1. n \in Nat /\ n <= Len(ledger) /\ Len(ledger) \in Nat /\ ReportFits(n)
  BY DEF IInv, TypeOK, Snapshot, ReportFits
<1>2. \A i \in 1..n : ledger'[i] = ledger[i]
  BY <1>1 DEF Grows, IInv, TypeOK
<1>3. StampsInOrder(n)' <=> StampsInOrder(n)
  BY <1>1, <1>2 DEF StampsInOrder
<1>4. Continuous(n)' <=> Continuous(n)
  <2>1. \A i \in 2..n : i \in 1..n /\ i - 1 \in 1..n
    BY <1>1
  <2> QED BY <1>2, <2>1, Zenon DEF Continuous
<1>5. Closing(n)' = Closing(n)
  BY <1>1, <1>2 DEF Closing
<1>6. n <= Len(ledger')
  BY <1>1 DEF Grows
<1> QED BY <1>1, <1>3, <1>4, <1>5, <1>6 DEF ReportFits

LEMMA WalkGrows ==
  ASSUME IInv, NEW e, Grows(e), UNCHANGED walk
  PROVE  WalkStands' /\ WalkIsFaithful'
<1>1. /\ Len(ledger) \in Nat /\ DOMAIN ledger = 1..Len(ledger)
      /\ walk.got \in Seq(Entry) /\ Len(walk.got) \in Nat
      /\ DOMAIN ledger' = 1..(Len(ledger) + 1)
      /\ WalkStands /\ WalkIsFaithful
  BY DEF IInv, TypeOK, Grows
<1>2. StampsInOrder(Len(ledger))' => StampsInOrder(Len(ledger))
  <2>1. SUFFICES ASSUME StampsInOrder(Len(ledger))', NEW i \in 2..Len(ledger)
                 PROVE  Precedes(ledger[i - 1], ledger[i])
    BY DEF StampsInOrder
  <2>2. i \in 2..Len(ledger') /\ i - 1 \in DOMAIN ledger /\ i \in DOMAIN ledger
    BY <1>1 DEF Grows
  <2>3. Precedes(ledger'[i - 1], ledger'[i])
    BY <2>1, <2>2 DEF StampsInOrder
  <2> QED BY <2>2, <2>3 DEF Grows
<1>3. WalkStands'
  <2>1. Len(ledger') = Len(ledger) + 1 /\ \A i \in DOMAIN ledger : ledger'[i] = ledger[i]
    BY DEF Grows
  <2>2. \A j \in DOMAIN walk'.got : \E i \in DOMAIN ledger' : walk'.got[j] = ledger'[i]
    BY <1>1, <2>1 DEF WalkStands
  <2>3. walk'.begun # None => walk'.begun \in 0..Len(ledger')
    BY <1>1, <2>1 DEF WalkStands
  <2>4. StampsInOrder(Len(ledger))' => Len(walk'.got) <= Len(ledger')
    BY <1>1, <1>2, <2>1 DEF WalkStands
  <2> QED BY <1>1, <2>2, <2>3, <2>4 DEF WalkStands
<1>4. WalkIsFaithful'
  <2>1. \A i, j \in DOMAIN walk'.got : i < j => Precedes(walk'.got[i], walk'.got[j])
    BY <1>1 DEF WalkIsFaithful
  <2>2. ASSUME NEW i \in DOMAIN ledger'
        PROVE  \/ \E j \in DOMAIN walk'.got : walk'.got[j] = ledger'[i]
               \/ walk'.begun = None \/ i > walk'.begun
               \/ ~walk'.done /\ \A j \in DOMAIN walk'.got : Precedes(walk'.got[j], ledger'[i])
    <3>1. CASE i \in DOMAIN ledger
      BY <1>1, <3>1 DEF Grows, WalkIsFaithful
    <3>2. CASE i = Len(ledger) + 1
      BY <1>1, <3>2 DEF WalkStands
    <3> QED BY <1>1, <2>2, <3>1, <3>2
  <2>3. StampsInOrder(Len(ledger))' => walk'.got = SubSeq(ledger', 1, Len(walk'.got))
    <3>1. SUFFICES ASSUME StampsInOrder(Len(ledger))'
                   PROVE  walk.got = SubSeq(ledger', 1, Len(walk.got))
      OBVIOUS
    <3>2. walk.got = SubSeq(ledger, 1, Len(walk.got)) /\ Len(walk.got) <= Len(ledger)
      BY <1>1, <1>2, <3>1 DEF WalkStands, WalkIsFaithful
    <3>3. \A i \in 1..Len(walk.got) : walk.got[i] = ledger'[i]
      <4>1. \A i \in 1..Len(walk.got) : SubSeq(ledger, 1, Len(walk.got))[i] = ledger[i]
        BY <1>1, <3>2 DEF IInv, TypeOK
      <4>2. \A i \in 1..Len(walk.got) : ledger'[i] = ledger[i]
        BY <1>1, <3>2 DEF Grows
      <4> QED BY <3>2, <4>1, <4>2
    <3>4. SubSeq(ledger', 1, Len(walk.got)) = [i \in 1..Len(walk.got) |-> ledger'[i]]
      BY <1>1
    <3>5. walk.got = [i \in 1..Len(walk.got) |-> walk.got[i]]
      BY <1>1
    <3> QED BY <3>3, <3>4, <3>5
  <2> QED BY <2>1, <2>2, <2>3 DEF WalkIsFaithful
<1> QED BY <1>3, <1>4

\* MoveMoney adds a sound entry.
LEMMA MoveStep ==
  ASSUME IInv, NEW text \in Texts, NEW dir \in {"CREDIT", "DEBIT"}, MoveMoney(text, dir)
  PROVE  IInv'
<1> DEFINE amount == ParseMoney(text)
           after == IF dir = "CREDIT" THEN balance + amount ELSE balance - amount
<1>1. /\ Len(ledger) < MaxEntries /\ amount # None
      /\ after \in 0..MaxInt /\ balance' = after
      /\ UNCHANGED <<snapshot, report, walk>>
  BY DEF MoveMoney
<1>2. PICK id \in (1..MaxEntries) \ {ledger[i].id : i \in DOMAIN ledger}, ahead \in 0..Skew :
        ledger' = Append(ledger,
                    [id |-> id, at |-> Len(ledger) + 1 + ahead, dir |-> dir,
                     amount |-> amount, before |-> balance, after |-> after,
                     text |-> text])
  BY DEF MoveMoney
<1>3. text \in Text /\ amount \in 0..MaxInt /\ String(amount) = text
  BY <1>1, ParseExact, ReadAssumption
<1> HIDE DEF amount
<1>4. /\ ledger \in Seq(Entry) /\ Len(ledger) \in Nat /\ DOMAIN ledger = 1..Len(ledger)
      /\ balance \in 0..MaxInt
  BY DEF IInv, TypeOK
<1>5. PICK e : e = [id |-> id, at |-> Len(ledger) + 1 + ahead, dir |-> dir,
                    amount |-> amount, before |-> balance, after |-> after, text |-> text]
  OBVIOUS
<1>6. e \in Entry
  BY <1>1, <1>3, <1>4, <1>5, ReadAssumption DEF Entry
<1>7. /\ e.id = id /\ e.amount = amount /\ e.text = text /\ Expected(e) = e.after
  BY <1>5 DEF Expected
<1>8. Grows(e) /\ ledger' \in Seq(Entry)
  BY <1>2, <1>4, <1>5, <1>6 DEF Grows
<1>9. DOMAIN ledger' = 1..(Len(ledger) + 1)
  BY <1>4, <1>8 DEF Grows
<1>10. TypeOK'
  BY <1>1, <1>8 DEF IInv, TypeOK
<1>11. LedgerSound'
  <2>1. LedgerSound
    BY DEF IInv
  <2>2. Len(ledger') <= MaxEntries
    BY <1>1, <1>4, <1>8, ReadAssumption DEF Grows
  <2>3. IdsDiffer'
    <3>1. SUFFICES ASSUME NEW i \in DOMAIN ledger', NEW j \in DOMAIN ledger',
                          ledger'[i].id = ledger'[j].id
                   PROVE  i = j
      BY DEF IdsDiffer
    <3>2. \A k \in DOMAIN ledger : ledger'[k] = ledger[k] /\ ledger'[k].id # id
      BY <1>8 DEF Grows
    <3>3. ledger'[Len(ledger) + 1].id = id
      BY <1>7, <1>8 DEF Grows
    <3>4. \A k \in DOMAIN ledger' : k \in DOMAIN ledger \/ k = Len(ledger) + 1
      BY <1>4, <1>9
    <3> QED BY <2>1, <3>1, <3>2, <3>3, <3>4 DEF LedgerSound, IdsDiffer
  <2>4. ASSUME NEW i \in DOMAIN ledger'
        PROVE  /\ Expected(ledger'[i]) = ledger'[i].after
               /\ String(ledger'[i].amount) = ledger'[i].text
    <3>1. CASE i \in DOMAIN ledger
      BY <1>8, <2>1, <3>1 DEF LedgerSound, EntriesAdd, Grows
    <3>2. CASE i = Len(ledger) + 1
      BY <1>3, <1>7, <1>8, <3>2 DEF Grows
    <3> QED BY <1>4, <1>9, <3>1, <3>2
  <2> QED BY <2>2, <2>3, <2>4 DEF LedgerSound, EntriesAdd, Expected
<1>12. SnapshotIsPast'
  BY <1>1, <1>4, <1>8 DEF IInv, SnapshotIsPast, Grows, TypeOK, Snapshot
<1>13. report' # None => ReportFits(report.of.entries)'
  <2>1. SUFFICES ASSUME report # None PROVE ReportFits(report.of.entries)'
    BY <1>1
  <2>2. PICK n : n = report.of.entries
    OBVIOUS
  <2>3. ReportFits(n)'
    BY <1>1, <1>8, <2>1, <2>2, ReportGrows
  <2> QED BY <1>1, <2>2, <2>3
<1> QED BY <1>1, <1>8, <1>10, <1>11, <1>12, <1>13, WalkGrows DEF IInv

\* A step that leaves the ledger and a reader alone leaves what is known of it.
LEMMA ReaderKept ==
  ASSUME IInv, UNCHANGED ledger
  PROVE  /\ LedgerSound'
         /\ UNCHANGED snapshot => SnapshotIsPast'
         /\ UNCHANGED report => (report' # None => ReportFits(report.of.entries)')
         /\ UNCHANGED walk => WalkStands' /\ WalkIsFaithful'
BY DEF IInv, LedgerSound, IdsDiffer, EntriesAdd, SnapshotIsPast, ReportFits, Closing,
       StampsInOrder, Continuous, WalkStands, WalkIsFaithful

LEMMA TamperStep ==
  ASSUME IInv, NEW value \in Fixes, Tamper(value)
  PROVE  IInv'
<1>1. UNCHANGED <<ledger, snapshot, report, walk>> /\ balance' \in 0..MaxInt
  BY ReadAssumption DEF Tamper
<1>2. TypeOK'
  BY <1>1 DEF IInv, TypeOK
<1> QED BY <1>1, <1>2, ReaderKept DEF IInv

LEMMA ForgetStep ==
  ASSUME IInv, Forget
  PROVE  IInv'
<1>1. /\ UNCHANGED <<ledger, balance, snapshot>> /\ report' = None
      /\ walk'.got = <<>> /\ walk'.cursor = None /\ walk'.begun = None /\ walk'.done = FALSE
  BY DEF Forget, NoWalk
<1>2. TypeOK'
  BY <1>1 DEF IInv, TypeOK
<1>3. DOMAIN walk'.got = {} /\ Len(walk'.got) = 0 /\ 0 <= Len(ledger')
  BY <1>1 DEF IInv, TypeOK
<1>4. WalkStands'
  BY <1>1, <1>3, Zenon DEF WalkStands
<1>5. WalkIsFaithful'
  <2>1. walk'.got = SubSeq(ledger', 1, Len(walk'.got))
    BY <1>1, <1>2, <1>3 DEF TypeOK
  <2> QED BY <1>1, <1>3, <2>1, Zenon DEF WalkIsFaithful
<1> QED BY <1>1, <1>2, <1>4, <1>5, ReaderKept DEF IInv

LEMMA LoadStep ==
  ASSUME IInv, loadReconciliationWallet
  PROVE  IInv'
<1>1. /\ UNCHANGED <<ledger, balance, report, walk>>
      /\ snapshot' = [balance |-> balance, entries |-> Len(ledger)]
  BY DEF loadReconciliationWallet
<1>2. Len(ledger) \in Nat /\ Len(ledger) <= MaxEntries /\ balance \in 0..MaxInt
  BY DEF IInv, TypeOK, LedgerSound
<1>3. snapshot' \in Snapshot /\ snapshot'.entries = Len(ledger)
  BY <1>1, <1>2, ReadAssumption DEF Snapshot
<1>4. TypeOK'
  BY <1>1, <1>3 DEF IInv, TypeOK
<1>5. SnapshotIsPast'
  BY <1>1, <1>2, <1>3 DEF SnapshotIsPast
<1> QED BY <1>1, <1>4, <1>5, ReaderKept DEF IInv

LEMMA FailStep ==
  ASSUME IInv, ReconcileFails
  PROVE  IInv'
<1>1. UNCHANGED <<ledger, balance, report, walk>> /\ snapshot' = None
  BY DEF ReconcileFails
<1>2. TypeOK' /\ SnapshotIsPast'
  BY <1>1 DEF IInv, TypeOK, SnapshotIsPast
<1> QED BY <1>1, <1>2, ReaderKept DEF IInv

\* What calculateLedgerBalance returns for entries in commit order.
LEMMA CalculatesInOrder ==
  ASSUME ledger \in Seq(Entry), EntriesAdd, NEW n \in 0..Len(ledger),
         NEW s, s = [i \in 1..n |-> ledger[i]]
  PROVE  /\ calculateLedgerBalance(s).balance = Closing(n)
         /\ calculateLedgerBalance(s).valid <=> Continuous(n)
<1>1. /\ n \in Nat /\ Len(ledger) \in Nat
      /\ \A i \in 1..n : ledger[i] \in Entry /\ i \in DOMAIN ledger
  OBVIOUS
<1>2. s \in Seq(Entry) /\ Len(s) = n /\ DOMAIN s = 1..n /\ \A i \in 1..n : s[i] = ledger[i]
  BY <1>1
<1>3. CASE n = 0
  <2>1. s = <<>>
    BY <1>2, <1>3
  <2>2. Continuous(n)
    BY <1>3 DEF Continuous
  <2>3. calculateLedgerBalance(s) = [balance |-> 0, valid |-> TRUE]
    BY <2>1, Zenon DEF calculateLedgerBalance
  <2> QED BY <1>3, <2>2, <2>3 DEF Closing
<1>4. CASE n # 0
  <2> DEFINE ok == \A i \in DOMAIN s : /\ i > 1 => s[i].before = s[i - 1].after
                                       /\ Expected(s[i]) = s[i].after
  <2>1. s # <<>> /\ Last(s) = ledger[n]
    BY <1>1, <1>2, <1>4 DEF Last
  <2>2. calculateLedgerBalance(s) = [balance |-> Last(s).after, valid |-> ok]
    BY <2>1, Zenon DEF calculateLedgerBalance
  <2>3. ok <=> Continuous(n)
    <3>1. \A i \in 1..n : i > 1 <=> i \in 2..n
      BY <1>1
    <3>2. \A i \in 2..n : i \in 1..n /\ i - 1 \in 1..n
      BY <1>1
    <3>3. \A i \in 1..n : Expected(s[i]) = s[i].after
      BY <1>1, <1>2 DEF EntriesAdd
    <3>4. \A i \in 2..n : s[i].before = s[i - 1].after <=> ledger[i].before = ledger[i - 1].after
      BY <1>2, <3>2
    <3> QED BY <1>2, <3>1, <3>2, <3>3, <3>4, Zenon DEF Continuous
  <2>4. ok \in BOOLEAN
    BY Zenon
  <2> HIDE DEF ok
  <2>5. /\ calculateLedgerBalance(s).balance = Last(s).after
        /\ calculateLedgerBalance(s).valid = ok
    BY <2>2, <2>4
  <2> QED BY <1>4, <2>1, <2>3, <2>5 DEF Closing
<1> QED BY <1>3, <1>4

\* And for any entries: a balance that one of them names.
LEMMA CalculatesAmount ==
  ASSUME NEW s \in Seq(Entry)
  PROVE  /\ calculateLedgerBalance(s).balance \in 0..MaxInt
         /\ calculateLedgerBalance(s).valid \in BOOLEAN
<1>1. CASE s = <<>>
  <2>1. calculateLedgerBalance(s) = [balance |-> 0, valid |-> TRUE]
    BY <1>1, Zenon DEF calculateLedgerBalance
  <2> QED BY <2>1, MoneyAssumption
<1>2. CASE s # <<>>
  <2> DEFINE ok == \A i \in DOMAIN s : /\ i > 1 => s[i].before = s[i - 1].after
                                       /\ Expected(s[i]) = s[i].after
  <2>1. Last(s) \in Entry
    BY <1>2 DEF Last
  <2>2. Last(s).after \in 0..MaxInt
    BY <2>1 DEF Entry
  <2>3. calculateLedgerBalance(s) = [balance |-> Last(s).after, valid |-> ok]
    BY <1>2, Zenon DEF calculateLedgerBalance
  <2>4. ok \in BOOLEAN
    BY Zenon
  <2> HIDE DEF ok
  <2> QED BY <2>2, <2>3, <2>4
<1> QED BY <1>1, <1>2

LEMMA ReportStep ==
  ASSUME IInv, ReportLedger
  PROVE  IInv'
<1>1. PICK n : n = snapshot.entries
  OBVIOUS
<1>2. PICK stored : stored = snapshot.balance
  OBVIOUS
<1>3. /\ snapshot \in Snapshot /\ n \in 0..Len(ledger) /\ Len(ledger) \in Nat
      /\ n \in Nat /\ stored \in 0..MaxInt
      /\ ledger \in Seq(Entry) /\ IdsDiffer /\ EntriesAdd
  BY <1>1, <1>2 DEF ReportLedger, IInv, TypeOK, SnapshotIsPast, Snapshot, LedgerSound
<1>4. PICK s : s = Ordered(Visible)
  OBVIOUS
<1>5. PICK c : c = calculateLedgerBalance(s)
  OBVIOUS
<1>6. PICK d : d = stored - c.balance
  OBVIOUS
<1>7. /\ report' = [of |-> snapshot, calculated |-> c.balance, difference |-> d,
                    text |-> String(d), consistent |-> c.valid /\ d = 0, checked |-> Len(s)]
      /\ snapshot' = None /\ UNCHANGED <<ledger, balance, walk>>
  BY <1>2, <1>4, <1>5, <1>6 DEF ReportLedger
<1>8. PICK ok : ok = (c.valid /\ d = 0)
  OBVIOUS
<1>9. /\ report'.of = snapshot /\ report'.difference = d /\ report'.text = String(d)
      /\ report'.consistent = ok /\ report'.checked = Len(s)
  BY <1>7, <1>8
<1>10. PICK k \in 0..n : k = 0 /\ n - k = n /\ Visible = {ledger[i] : i \in (k + 1)..n}
  <2>1. 0 \in 0..n /\ n - 0 = n /\ 0 + 1 = 1
    BY <1>3
  <2> QED BY <1>1, <2>1 DEF Visible
<1>11. /\ Visible \subseteq Entry /\ IsFiniteSet(Visible) /\ Distinct(Visible)
       /\ Cardinality(Visible) = n
  BY <1>3, <1>10, SliceCounts
<1>12. s \in Seq(Entry) /\ Len(s) = n
  <2>1. s \in [1..n -> Visible]
    BY <1>4, <1>11, OrderedSorts
  <2> QED BY <1>3, <1>11, <2>1
<1>13. c.balance \in 0..MaxInt /\ c.valid \in BOOLEAN
  BY <1>5, <1>12, CalculatesAmount
<1>14. d \in (-MaxInt)..MaxInt /\ d \in Int /\ ok \in BOOLEAN
  BY <1>3, <1>6, <1>8, <1>13, MoneyAssumption
<1>15. String(d) \in Text /\ Cents(String(d)) = d
  BY <1>14, StringDenotes
<1>16. TypeOK'
  BY <1>3, <1>7, <1>9, <1>12, <1>14, <1>15 DEF IInv, TypeOK
<1>17. ReportFits(n)'
  <2>1. ASSUME StampsInOrder(n)
        PROVE  d = stored - Closing(n) /\ (ok <=> Continuous(n) /\ stored = Closing(n))
    <3>1. s = [i \in 1..n |-> ledger[i]]
      <4>1. s = [i \in 1..(n - k) |-> ledger[k + i]]
        BY <1>3, <1>4, <1>10, <2>1, SliceOrdered
      <4>2. \A i \in 1..n : k + i = i
        BY <1>3, <1>10
      <4> QED BY <1>10, <4>1, <4>2
    <3>2. c.balance = Closing(n) /\ (c.valid <=> Continuous(n))
      BY <1>3, <1>5, <3>1, CalculatesInOrder
    <3>3. d = 0 <=> stored = c.balance
      BY <1>3, <1>6, <1>13
    <3> QED BY <1>6, <1>8, <3>2, <3>3
  <2>2. /\ StampsInOrder(n)' <=> StampsInOrder(n)
        /\ Continuous(n)' <=> Continuous(n)
        /\ Closing(n)' = Closing(n)
    BY <1>7 DEF StampsInOrder, Continuous, Closing
  <2>3. report'.of.balance = stored
    BY <1>2, <1>9
  <2> QED BY <1>3, <1>7, <1>9, <1>12, <1>15, <2>1, <2>2, <2>3 DEF ReportFits
<1>18. ReportFits(report.of.entries)'
  BY <1>1, <1>9, <1>17
<1>19. SnapshotIsPast'
  BY <1>7 DEF SnapshotIsPast
<1> QED BY <1>7, <1>16, <1>18, <1>19, ReaderKept DEF IInv

-----------------------------------------------------------------------------
(* LedgerPage.                                                               *)

\* A page has room for an entry.
LEMMA PageIsPositive ==
  ASSUME NEW limit \in Limits, Accepted(limit)
  PROVE  PageSize(limit) \in Nat /\ PageSize(limit) >= 1
<1>1. DefaultPage \in Nat /\ DefaultPage >= 1 /\ MaxPage \in Nat /\ MaxPage >= 1
  BY ReadAssumption
<1>2. CASE limit = None
  BY <1>1, <1>2 DEF PageSize
<1>3. CASE limit # None
  <2>1. limit \in Int
    BY <1>3, ReadAssumption
  <2>2. limit > 0
    BY <1>3, Zenon DEF Accepted
  <2>3. PageSize(limit) = IF limit > MaxPage THEN MaxPage ELSE limit
    BY <1>3, Zenon DEF PageSize
  <2> QED BY <1>1, <2>1, <2>2, <2>3
<1> QED BY <1>2, <1>3

\* LIMIT limit + 1, cut to limit: the first rows, and whether there are more.
LEMMA PageIsPrefix ==
  ASSUME NEW s \in Seq(Entry), NEW size \in Nat, size >= 1,
         NEW rows, rows = SubSeq(s, 1, IF Len(s) < size + 1 THEN Len(s) ELSE size + 1),
         NEW page, page = IF Len(rows) > size THEN SubSeq(rows, 1, size) ELSE rows
  PROVE  /\ Len(rows) > size <=> Len(s) > size
         /\ page \in Seq(Entry)
         /\ Len(page) = IF Len(s) > size THEN size ELSE Len(s)
         /\ \A i \in 1..Len(page) : page[i] = s[i]
<1>1. Len(s) \in Nat
  OBVIOUS
<1>2. CASE Len(s) > size
  <2>1. rows = SubSeq(s, 1, size + 1)
    BY <1>1, <1>2
  <2>2. /\ rows \in Seq(Entry) /\ Len(rows) = size + 1
        /\ \A i \in 1..(size + 1) : rows[i] = s[i]
    BY <1>1, <1>2, <2>1
  <2>3. page = SubSeq(rows, 1, size)
    BY <2>2
  <2>4. page \in Seq(Entry) /\ Len(page) = size /\ \A i \in 1..size : page[i] = rows[i]
    BY <2>2, <2>3
  <2> QED BY <1>2, <2>2, <2>4
<1>3. CASE ~(Len(s) > size)
  <2>1. rows = SubSeq(s, 1, Len(s))
    BY <1>1, <1>3
  <2>2. /\ rows \in Seq(Entry) /\ Len(rows) = Len(s)
        /\ \A i \in 1..Len(s) : rows[i] = s[i]
    BY <1>1, <2>1
  <2>3. page = rows
    BY <1>3, <2>2
  <2> QED BY <1>3, <2>2, <2>3
<1> QED BY <1>2, <1>3

\* The rows behind a cursor are distinct entries, and finitely many.
LEMMA BeyondIsSound ==
  ASSUME IInv, NEW cursor
  PROVE  /\ Beyond(cursor) \subseteq Entry /\ IsFiniteSet(Beyond(cursor))
         /\ Distinct(Beyond(cursor))
<1>1. ledger \in Seq(Entry) /\ IdsDiffer /\ Len(ledger) \in Nat
  BY DEF IInv, TypeOK, LedgerSound
<1>2. PICK n, k : n = Len(ledger) /\ k = 0 /\ n \in 0..Len(ledger) /\ k \in 0..n /\ k + 1 = 1
  BY <1>1
<1>3. PICK E : E = {ledger[i] : i \in DOMAIN ledger}
  OBVIOUS
<1>4. E = {ledger[i] : i \in (k + 1)..n}
  BY <1>1, <1>2, <1>3
<1>5. E \subseteq Entry /\ IsFiniteSet(E) /\ Distinct(E)
  BY <1>1, <1>2, <1>4, SliceCounts
<1>6. Beyond(cursor) \in SUBSET E
  BY <1>3 DEF Beyond
<1> QED BY <1>5, <1>6, FS_Subset DEF Distinct

\* What a page adds to a walk: the first rows behind its cursor.
LEMMA PageEffect ==
  ASSUME IInv, NEW limit \in Limits, LedgerPage(limit)
  PROVE  \E s \in Seq(Entry), page \in Seq(Entry), more \in BOOLEAN :
           /\ Sorts(s, Beyond(walk.cursor))
           /\ \A i \in 1..Len(s) : s[i] \in Beyond(walk.cursor)
           /\ s = Ordered(Beyond(walk.cursor))
           /\ Len(page) <= Len(s)
           /\ \A i \in 1..Len(page) : page[i] = s[i]
           /\ IF more THEN Len(page) >= 1 ELSE Len(page) = Len(s)
           /\ walk'.got = walk.got \o page
           /\ walk'.done = ~more
           /\ walk'.begun = IF walk.begun = None THEN Len(ledger) ELSE walk.begun
           /\ more => walk'.cursor = [at |-> Last(page).at, id |-> Last(page).id]
           /\ UNCHANGED <<ledger, balance, snapshot, report>>
<1>1. PICK size : size = PageSize(limit)
  OBVIOUS
<1>2. size \in Nat /\ size >= 1
  BY <1>1, PageIsPositive DEF LedgerPage
<1>3. PICK E : E = Beyond(walk.cursor)
  OBVIOUS
<1>4. E \subseteq Entry /\ IsFiniteSet(E) /\ Distinct(E)
  BY <1>3, BeyondIsSound
<1>5. PICK s : s = Ordered(E)
  OBVIOUS
<1>6. Cardinality(E) \in Nat /\ s \in [1..Cardinality(E) -> E] /\ Sorts(s, E)
  BY <1>4, <1>5, OrderedSorts
<1>7. s \in Seq(Entry) /\ Len(s) \in Nat /\ \A i \in 1..Len(s) : s[i] \in E
  BY <1>4, <1>6
<1>8. PICK rows : rows = SubSeq(s, 1, IF Len(s) < size + 1 THEN Len(s) ELSE size + 1)
  OBVIOUS
<1>9. PICK page : page = IF Len(rows) > size THEN SubSeq(rows, 1, size) ELSE rows
  OBVIOUS
<1>10. /\ Len(rows) > size <=> Len(s) > size
       /\ page \in Seq(Entry)
       /\ Len(page) = IF Len(s) > size THEN size ELSE Len(s)
       /\ \A i \in 1..Len(page) : page[i] = s[i]
  BY <1>2, <1>7, <1>8, <1>9, PageIsPrefix
<1>11. PICK more \in BOOLEAN : more = (Len(rows) > size)
  <2>1. (Len(rows) > size) \in BOOLEAN
    OBVIOUS
  <2> QED BY <2>1, Zenon
<1>12. rows = Rows(walk.cursor, size)
  BY <1>3, <1>5, <1>8 DEF Rows
<1>13. page = IF more THEN SubSeq(rows, 1, size) ELSE rows
  BY <1>9, <1>11, Zenon
<1>14. /\ walk' = [got |-> walk.got \o page,
                   cursor |-> IF more THEN [at |-> Last(page).at, id |-> Last(page).id]
                              ELSE None,
                   begun |-> IF walk.begun = None THEN Len(ledger) ELSE walk.begun,
                   done |-> ~more]
       /\ UNCHANGED <<ledger, balance, snapshot, report>>
  BY <1>1, <1>11, <1>12, <1>13, Zenon DEF LedgerPage
<1>15. /\ walk'.got = walk.got \o page
       /\ walk'.done = ~more
       /\ walk'.begun = IF walk.begun = None THEN Len(ledger) ELSE walk.begun
       /\ more => walk'.cursor = [at |-> Last(page).at, id |-> Last(page).id]
  BY <1>14
<1>16. Len(page) <= Len(s) /\ IF more THEN Len(page) >= 1 ELSE Len(page) = Len(s)
  <2>1. CASE Len(s) > size
    <3>1. Len(page) = size /\ more
      BY <1>10, <1>11, <2>1, Zenon
    <3> QED BY <1>2, <1>7, <2>1, <3>1
  <2>2. CASE ~(Len(s) > size)
    <3>1. Len(page) = Len(s) /\ ~more
      BY <1>10, <1>11, <2>2, Zenon
    <3> QED BY <1>7, <3>1
  <2> QED BY <2>1, <2>2
<1> QED BY <1>3, <1>5, <1>6, <1>7, <1>10, <1>11, <1>14, <1>15, <1>16

\* The rows behind the cursor are those that follow everything the walk has got,
\* and an entry that follows it all is among them.
LEMMA BeyondFollows ==
  ASSUME IInv, walk.begun = None \/ ~walk.done
  PROVE  /\ \A e \in Beyond(walk.cursor) :
              \A j \in DOMAIN walk.got : Precedes(walk.got[j], e)
         /\ \A i \in DOMAIN ledger :
              (\A j \in DOMAIN walk.got : Precedes(walk.got[j], ledger[i]))
                => ledger[i] \in Beyond(walk.cursor)
<1>1. walk.got \in Seq(Entry) /\ WalkStands /\ WalkIsFaithful /\ ledger \in Seq(Entry)
  BY DEF IInv, TypeOK
<1>2. \A i \in DOMAIN ledger : ledger[i] \in Entry
  BY <1>1
<1>3. CASE walk.begun = None
  <2>1. walk.got = <<>> /\ walk.cursor = None
    BY <1>1, <1>3 DEF WalkStands
  <2>2. DOMAIN walk.got = {}
    BY <2>1
  <2>3. \A i \in DOMAIN ledger : ledger[i] \in Beyond(walk.cursor)
    BY <2>1, Zenon DEF Beyond
  <2> QED BY <2>2, <2>3
<1>4. CASE walk.begun # None
  <2>1. PICK l : l = Last(walk.got)
    OBVIOUS
  <2>2. walk.got # <<>> /\ walk.cursor = [at |-> l.at, id |-> l.id]
    BY <1>1, <1>4, <2>1 DEF WalkStands
  <2>3. PICK m : m = Len(walk.got)
    OBVIOUS
  <2>4. m \in DOMAIN walk.got /\ m \in Nat /\ l = walk.got[m] /\ l \in Entry
        /\ \A j \in DOMAIN walk.got : j \in Nat /\ j <= m /\ walk.got[j] \in Entry
    BY <1>1, <2>1, <2>2, <2>3 DEF Last
  <2>5. l.at \in Nat /\ l.id \in Nat
    BY <2>4, ReadAssumption DEF Entry
  <2>6. walk.cursor # None /\ walk.cursor.at = l.at /\ walk.cursor.id = l.id
    BY <2>2, <2>5, ReadAssumption
  <2>7. Beyond(walk.cursor) = {e \in {ledger[i] : i \in DOMAIN ledger} : Precedes(l, e)}
    <3>1. \A e \in {ledger[i] : i \in DOMAIN ledger} :
            (walk.cursor # None => e.at > walk.cursor.at
                                    \/ (e.at = walk.cursor.at /\ e.id > walk.cursor.id))
            <=> Precedes(l, e)
      <4>1. \A e \in Entry : e.at \in Nat /\ e.id \in Nat
        BY ReadAssumption DEF Entry
      <4> QED BY <1>2, <2>5, <2>6, <4>1 DEF Precedes
    <3> QED BY <3>1, Zenon DEF Beyond
  <2>8. ASSUME NEW e \in Beyond(walk.cursor), NEW j \in DOMAIN walk.got
        PROVE  Precedes(walk.got[j], e)
    <3>1. e \in Entry /\ Precedes(l, e)
      BY <1>2, <2>7
    <3>2. j = m \/ Precedes(walk.got[j], l)
      BY <1>1, <2>4 DEF WalkIsFaithful
    <3> QED BY <2>4, <3>1, <3>2, OrderIsStrict
  <2>9. \A i \in DOMAIN ledger :
          (\A j \in DOMAIN walk.got : Precedes(walk.got[j], ledger[i]))
            => ledger[i] \in Beyond(walk.cursor)
    BY <2>4, <2>7
  <2> QED BY <2>8, <2>9
<1> QED BY <1>3, <1>4

\* With stamps in commit order the rows behind the cursor are the rest of the ledger.
LEMMA BeyondIsRest ==
  ASSUME IInv, walk.begun = None \/ ~walk.done, StampsInOrder(Len(ledger)),
         NEW k, k = Len(walk.got), NEW n, n = Len(ledger)
  PROVE  /\ k \in 0..n /\ n \in Nat
         /\ Beyond(walk.cursor) = {ledger[i] : i \in (k + 1)..n}
<1>1. /\ walk.got \in Seq(Entry) /\ ledger \in Seq(Entry) /\ n \in Nat /\ k \in 0..n
      /\ DOMAIN walk.got = 1..k /\ DOMAIN ledger = 1..n
  BY DEF IInv, TypeOK, WalkStands
<1>2. \A j \in 1..k : walk.got[j] = ledger[j]
  <2>1. walk.got = SubSeq(ledger, 1, k)
    BY DEF IInv, WalkIsFaithful
  <2>2. \A j \in 1..k : SubSeq(ledger, 1, k)[j] = ledger[j]
    BY <1>1
  <2> QED BY <2>1, <2>2
<1>3. \A i, j \in 1..n : i < j => Precedes(ledger[i], ledger[j])
  BY <1>1, StampsAscend
<1>4. ASSUME NEW i \in (k + 1)..n PROVE ledger[i] \in Beyond(walk.cursor)
  <2>1. i \in 1..n /\ \A j \in 1..k : j \in 1..n /\ j < i
    BY <1>1
  <2>2. \A j \in 1..k : Precedes(walk.got[j], ledger[i])
    BY <1>2, <1>3, <2>1
  <2> QED BY <1>1, <2>1, <2>2, BeyondFollows
<1>5. ASSUME NEW e \in Beyond(walk.cursor) PROVE e \in {ledger[i] : i \in (k + 1)..n}
  <2>1. PICK i \in 1..n : e = ledger[i]
    BY <1>1 DEF Beyond
  <2>2. i \notin 1..k
    <3>1. SUFFICES ASSUME i \in 1..k PROVE FALSE
      OBVIOUS
    <3>2. Precedes(ledger[i], ledger[i])
      BY <1>1, <1>2, <2>1, <3>1, BeyondFollows
    <3> QED BY <1>1, <3>2, OrderIsStrict
  <2>3. i \in (k + 1)..n
    BY <1>1, <2>2
  <2> QED BY <2>1, <2>3
<1> QED BY <1>1, <1>4, <1>5

LEMMA PageStep ==
  ASSUME IInv, NEW limit \in Limits, LedgerPage(limit)
  PROVE  IInv'
<1>1. PICK s \in Seq(Entry), page \in Seq(Entry), more \in BOOLEAN :
        /\ Sorts(s, Beyond(walk.cursor))
        /\ \A i \in 1..Len(s) : s[i] \in Beyond(walk.cursor)
        /\ s = Ordered(Beyond(walk.cursor))
        /\ Len(page) <= Len(s)
        /\ \A i \in 1..Len(page) : page[i] = s[i]
        /\ IF more THEN Len(page) >= 1 ELSE Len(page) = Len(s)
        /\ walk'.got = walk.got \o page
        /\ walk'.done = ~more
        /\ walk'.begun = IF walk.begun = None THEN Len(ledger) ELSE walk.begun
        /\ more => walk'.cursor = [at |-> Last(page).at, id |-> Last(page).id]
        /\ UNCHANGED <<ledger, balance, snapshot, report>>
  BY PageEffect
<1>2. walk.begun = None \/ ~walk.done
  BY DEF LedgerPage
<1>3. PICK got, g, n, m : /\ got = walk.got /\ g = Len(walk.got)
                          /\ n = Len(ledger) /\ m = Len(page)
  OBVIOUS
<1>4. /\ ledger \in Seq(Entry) /\ n \in Nat /\ DOMAIN ledger = 1..n
      /\ got \in Seq(Entry) /\ g \in Nat /\ DOMAIN got = 1..g /\ DOMAIN walk.got = 1..g
      /\ m \in Nat /\ DOMAIN page = 1..m /\ Len(s) \in Nat /\ DOMAIN s = 1..Len(s)
  BY <1>3 DEF IInv, TypeOK
<1>5. /\ walk'.got \in Seq(Entry) /\ Len(walk'.got) = g + m /\ DOMAIN walk'.got = 1..(g + m)
      /\ \A j \in 1..g : walk'.got[j] = got[j]
      /\ \A j \in 1..m : walk'.got[g + j] = page[j]
  BY <1>1, <1>3, <1>4
<1>6. \A j \in 1..(g + m) : j \in 1..g \/ (j - g \in 1..m /\ j = g + (j - g))
  BY <1>4
<1>7. \A j \in 1..m : j \in 1..Len(s) /\ page[j] = s[j] /\ page[j] \in Beyond(walk.cursor)
  BY <1>1, <1>3, <1>4
<1>8. \A j \in 1..g, i \in 1..m : Precedes(got[j], page[i])
  BY <1>2, <1>3, <1>4, <1>7, BeyondFollows
<1>9. TypeOK'
  BY <1>1, <1>5 DEF IInv, TypeOK
<1>10. walk'.begun # None /\ walk'.begun \in 0..n
  <2>1. CASE walk.begun = None
    BY <1>1, <1>3, <1>4, <2>1, MoneyAssumption
  <2>2. CASE walk.begun # None
    BY <1>1, <1>3, <2>2 DEF IInv, WalkStands
  <2> QED BY <2>1, <2>2
<1>11. ASSUME StampsInOrder(Len(ledger))
       PROVE  g + m <= n /\ walk'.got = SubSeq(ledger, 1, g + m)
  <2>1. g \in 0..n /\ Beyond(walk.cursor) = {ledger[i] : i \in (g + 1)..n}
    BY <1>2, <1>3, <1>11, BeyondIsRest
  <2>2. s = [i \in 1..(n - g) |-> ledger[g + i]]
    <3>1. IdsDiffer /\ n \in 0..Len(ledger) /\ StampsInOrder(n)
      BY <1>3, <1>4, <1>11 DEF IInv, LedgerSound
    <3> QED BY <1>1, <1>4, <2>1, <3>1, SliceOrdered
  <2>3. Len(s) = n - g /\ \A i \in 1..(n - g) : s[i] = ledger[g + i]
    BY <1>4, <2>1, <2>2
  <2>4. g + m <= n
    <3>1. m <= n - g
      BY <1>1, <1>3, <2>3
    <3> QED BY <1>4, <3>1
  <2>5. \A j \in 1..g : walk'.got[j] = ledger[j]
    <3>1. walk.got = SubSeq(ledger, 1, g)
      BY <1>3, <1>11 DEF IInv, WalkIsFaithful
    <3>2. \A j \in 1..g : SubSeq(ledger, 1, g)[j] = ledger[j]
      BY <1>4, <2>1
    <3> QED BY <1>3, <1>5, <3>1, <3>2
  <2>6. \A j \in 1..m : walk'.got[g + j] = ledger[g + j]
    BY <1>4, <1>5, <1>7, <2>3, <2>4
  <2>7. \A j \in 1..(g + m) : walk'.got[j] = ledger[j]
    BY <1>6, <2>5, <2>6
  <2>8. SubSeq(ledger, 1, g + m) = [j \in 1..(g + m) |-> ledger[j]]
    BY <1>4, <2>4
  <2>9. walk'.got = [j \in 1..(g + m) |-> walk'.got[j]]
    <3>1. \A h \in Seq(Entry) : h = [j \in 1..Len(h) |-> h[j]]
      OBVIOUS
    <3> QED BY <1>5, <3>1
  <2> QED BY <2>4, <2>7, <2>8, <2>9
<1>12. UNCHANGED StampsInOrder(Len(ledger))
  BY <1>1 DEF StampsInOrder
<1>13. WalkStands'
  <2>1. walk'.done \in BOOLEAN
    BY <1>1, Zenon
  <2>2. walk'.done \/ /\ walk'.got # <<>>
                      /\ walk'.cursor = [at |-> Last(walk'.got).at, id |-> Last(walk'.got).id]
    <3>1. CASE more
      <4>1. m >= 1 /\ walk'.cursor = [at |-> Last(page).at, id |-> Last(page).id]
        BY <1>1, <1>3, <3>1
      <4>2. walk'.got # <<>> /\ Last(walk'.got) = Last(page)
        BY <1>3, <1>4, <1>5, <4>1 DEF Last
      <4> QED BY <4>1, <4>2
    <3>2. CASE ~more
      BY <1>1, <3>2
    <3> QED BY <3>1, <3>2
  <2>3. ASSUME NEW j \in DOMAIN walk'.got PROVE \E i \in DOMAIN ledger : walk'.got[j] = ledger[i]
    <3>1. CASE j \in 1..g
      BY <1>3, <1>4, <1>5, <3>1 DEF IInv, WalkStands
    <3>2. CASE j - g \in 1..m /\ j = g + (j - g)
      <4>1. walk'.got[j] \in Beyond(walk.cursor)
        BY <1>5, <1>7, <3>2
      <4> QED BY <4>1 DEF Beyond
    <3> QED BY <1>5, <1>6, <2>3, <3>1, <3>2
  <2>4. ledger' = ledger /\ n = Len(ledger')
    BY <1>1, <1>3
  <2>5. StampsInOrder(Len(ledger))' => Len(walk'.got) <= Len(ledger')
    BY <1>5, <1>11, <1>12, <2>4
  <2> QED BY <1>10, <2>1, <2>2, <2>3, <2>4, <2>5, Zenon DEF WalkStands
<1>14. WalkIsFaithful'
  <2>1. ASSUME NEW i \in DOMAIN walk'.got, NEW j \in DOMAIN walk'.got, i < j
        PROVE  Precedes(walk'.got[i], walk'.got[j])
    <3>1. CASE i \in 1..g /\ j \in 1..g
      BY <1>3, <1>4, <1>5, <2>1, <3>1 DEF IInv, WalkIsFaithful
    <3>2. CASE i \in 1..g /\ j - g \in 1..m /\ j = g + (j - g)
      BY <1>5, <1>8, <3>2
    <3>3. CASE i \notin 1..g
      <4>1. i - g \in 1..m /\ j - g \in 1..m /\ i = g + (i - g) /\ j = g + (j - g)
            /\ i - g < j - g
        BY <1>4, <1>5, <2>1, <3>3
      <4>2. Precedes(page[i - g], page[j - g])
        BY <1>1, <1>4, <1>7, <4>1 DEF Sorts
      <4> QED BY <1>5, <4>1, <4>2
    <3> QED BY <1>5, <1>6, <2>1, <3>1, <3>2, <3>3
  <2>2. ASSUME NEW i \in DOMAIN ledger
        PROVE  \/ \E j \in DOMAIN walk'.got : walk'.got[j] = ledger[i]
               \/ i > walk'.begun
               \/ ~walk'.done /\ \A j \in DOMAIN walk'.got : Precedes(walk'.got[j], ledger[i])
    <3>1. CASE \E j \in DOMAIN walk.got : walk.got[j] = ledger[i]
      <4>1. PICK j \in 1..g : got[j] = ledger[i]
        BY <1>3, <1>4, <3>1
      <4>2. j \in DOMAIN walk'.got
        BY <1>4, <1>5
      <4> QED BY <1>5, <4>1, <4>2
    <3>2. CASE walk.begun # None /\ i > walk.begun
      BY <1>1, <3>2
    <3>3. CASE \A j \in DOMAIN walk.got : Precedes(walk.got[j], ledger[i])
      <4>1. ledger[i] \in Beyond(walk.cursor)
        BY <1>2, <3>3, BeyondFollows
      <4>2. PICK k \in 1..Len(s) : s[k] = ledger[i]
        BY <1>1, <1>4, <4>1 DEF Sorts
      <4>3. CASE k \in 1..m
        <5>1. g + k \in DOMAIN walk'.got /\ walk'.got[g + k] = ledger[i]
          BY <1>4, <1>5, <1>7, <4>2, <4>3
        <5> QED BY <5>1
      <4>4. CASE k \notin 1..m
        <5>1. \A j \in 1..m : j < k
          BY <1>4, <4>2, <4>4
        <5>2. \A j \in 1..m : Precedes(page[j], ledger[i])
          BY <1>1, <1>4, <1>7, <4>2, <5>1 DEF Sorts
        <5>3. \A j \in 1..g : Precedes(got[j], ledger[i])
          BY <1>3, <1>4, <3>3
        <5>4. \A j \in DOMAIN walk'.got : Precedes(walk'.got[j], ledger[i])
          BY <1>5, <1>6, <5>2, <5>3
        <5>5. m # Len(s)
          BY <4>2, <4>4
        <5>6. ~walk'.done
          BY <1>1, <1>3, <5>5, Zenon
        <5> QED BY <5>4, <5>6
      <4> QED BY <4>3, <4>4
    <3>4. CASE walk.begun = None
      <4>1. DOMAIN walk.got = {}
        BY <3>4 DEF IInv, WalkStands
      <4> QED BY <3>3, <4>1
    <3> QED BY <3>1, <3>2, <3>3, <3>4 DEF IInv, WalkIsFaithful
  <2> QED BY <1>1, <1>5, <1>11, <1>12, <2>1, <2>2 DEF WalkIsFaithful
<1> QED BY <1>1, <1>9, <1>13, <1>14, ReaderKept DEF IInv

-----------------------------------------------------------------------------
(* Theorems.                                                                 *)

\* No step breaks the invariant.
LEMMA NextIInv == IInv /\ [Next]_vars => IInv'
<1> SUFFICES ASSUME IInv, [Next]_vars PROVE IInv'
  OBVIOUS
<1>1. CASE UNCHANGED vars
  <2>1. UNCHANGED <<ledger, balance, snapshot, report, walk>>
    BY <1>1 DEF vars
  <2>2. TypeOK'
    BY <2>1 DEF IInv, TypeOK
  <2> QED BY <2>1, <2>2, ReaderKept DEF IInv
<1> QED BY <1>1, MoveStep, TamperStep, LoadStep, ReportStep, FailStep, PageStep, ForgetStep
        DEF Next

\* Every reachable state satisfies IInv.
THEOREM Invariance == Spec => []IInv
<1> QED BY InitIInv, NextIInv, PTL DEF Spec

\* Balances, entries and reports stay within int64 and keep the shape of the Go
\* structs.
THEOREM TypeCorrect == Spec => []TypeOK
<1>1. IInv => TypeOK
  BY DEF IInv
<1> QED BY <1>1, Invariance, PTL

\* ParseMoney and Money.String lose nothing: the ledger prints the amount that was
\* sent, and the text of a report denotes its difference.
THEOREM TextsAreExact == Spec => []AmountsAreExact
<1>1. IInv => AmountsAreExact
  <2>1. Texts \subseteq Text
    BY ReadAssumption
  <2> QED BY <2>1, ParseBound DEF IInv, AmountsAreExact, LedgerSound, ReportFits
<1> QED BY <1>1, Invariance, PTL

\* Reconcile speaks of its snapshot, and rightly if the stamps of the ledger are
\* in commit order: the sums of all entries, not only the last one, are what the
\* stored balance is compared with.
THEOREM ReportsAreTrue == Spec => []ReportIsTrue
<1>1. IInv => ReportIsTrue
  <2>1. SUFFICES ASSUME IInv, report # None PROVE ReportIsTrue
    BY DEF ReportIsTrue
  <2>2. PICK n : n = report.of.entries
    OBVIOUS
  <2>3. PICK stored : stored = report.of.balance
    OBVIOUS
  <2>4. /\ n \in Nat /\ n <= Len(ledger) /\ stored \in Int /\ ReportFits(n)
        /\ Len(ledger) \in Nat /\ ledger \in Seq(Entry) /\ EntriesAdd
    BY <2>1, <2>2, <2>3, MoneyAssumption DEF IInv, TypeOK, Snapshot, ReportFits, LedgerSound
  <2>5. Continuous(n) => Total(n) = Closing(n)
    <3>1. CASE n = 0
      BY <3>1 DEF Total, Closing
    <3>2. CASE n # 0
      <4>1. n \in 1..Len(ledger)
        BY <2>4, <3>2
      <4> QED BY <2>4, <3>2, <4>1, SumIsLast DEF Closing
    <3> QED BY <3>1, <3>2
  <2>6. Closing(n) \in Int
    <3>1. CASE n = 0
      BY <3>1 DEF Closing
    <3>2. CASE n # 0
      <4>1. ledger[n] \in Entry
        BY <2>4, <3>2
      <4>2. ledger[n].after \in Int
        BY <4>1, MoneyAssumption DEF Entry
      <4> QED BY <3>2, <4>2 DEF Closing
    <3> QED BY <3>1, <3>2
  <2>7. ASSUME StampsInOrder(n)
        PROVE  /\ report.consistent <=> Continuous(n) /\ stored - Total(n) = 0
               /\ Continuous(n) => report.difference = stored - Total(n)
    <3>1. /\ report.difference = stored - Closing(n)
          /\ report.consistent <=> Continuous(n) /\ stored = Closing(n)
      BY <2>3, <2>4, <2>7 DEF ReportFits
    <3>2. Continuous(n) => (stored - Total(n) = 0 <=> stored = Closing(n))
      BY <2>4, <2>5, <2>6
    <3> QED BY <2>5, <3>1, <3>2, Zenon
  <2> QED BY <2>2, <2>3, <2>4, <2>7 DEF ReportIsTrue, ReportFits
<1> QED BY <1>1, Invariance, PTL

\* Keyset pages neither overlap nor skip what was there when the walk began,
\* whatever the limits, the skew and the writes in between.
THEOREM WalksAreFaithful == Spec => []WalkIsFaithful
<1>1. IInv => WalkIsFaithful
  BY DEF IInv
<1> QED BY <1>1, Invariance, PTL
=============================================================================
