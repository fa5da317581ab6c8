------------------------- MODULE ContentStoreProofs -------------------------
(* The Content Store and its LRU queues stay in step, and within their       *)
(* limits, for any Data, any commands and any order of inserts and lookups.  *)
EXTENDS ContentStore, FiniteSetTheorems, WellFoundedInduction, TLAPS

-----------------------------------------------------------------------------
(* Queues.  An element is in a queue at most once.                           *)

Once(q) == \A j, k \in 1 .. Len(q) : q[j] = q[k] => j = k

LEMMA LenIsSize ==
    ASSUME NEW D, NEW q \in Seq(D), Once(q)
    PROVE  IsFiniteSet(Elements(q)) /\ Cardinality(Elements(q)) = Len(q)
<1>1. Len(q) \in Nat /\ DOMAIN q = 1 .. Len(q)  OBVIOUS
<1>2. q \in [1 .. Len(q) -> Elements(q)]  BY <1>1 DEF Elements
<1>3. q \in Bijection(1 .. Len(q), Elements(q))
  BY <1>1, <1>2 DEF Once, Elements, Bijection, Injection, Surjection, IsInjective
<1>4. ExistsBijection(1 .. Len(q), Elements(q))  BY <1>3 DEF ExistsBijection
<1>5. IsFiniteSet(1 .. Len(q)) /\ Cardinality(1 .. Len(q)) = Len(q)  BY <1>1, FS_Interval
<1> QED BY <1>4, <1>5, FS_Bijection

\* The places that stay are counted through without a gap.
LEMMA Places ==
    ASSUME NEW n \in Nat, NEW I \in SUBSET (1 .. n)
    PROVE  /\ Cardinality(I) \in Nat
           /\ \A k \in I : Cardinality({l \in I : l <= k}) \in 1 .. Cardinality(I)
           /\ \A j, k \in I : Cardinality({l \in I : l <= j}) = Cardinality({l \in I : l <= k}) => j = k
           /\ \A j \in 1 .. Cardinality(I) : \E k \in I : Cardinality({l \in I : l <= k}) = j
<1> DEFINE Up(k) == {l \in I : l <= k}
           m == Cardinality(I)
           r == [k \in I |-> Cardinality(Up(k))]
<1>1. IsFiniteSet(I) /\ m \in Nat
  <2>1. IsFiniteSet(1 .. n)  BY FS_Interval
  <2>2. IsFiniteSet(I)  BY <2>1, FS_Subset, Zenon
  <2> QED BY <2>2, FS_CardinalityType
<1>2. \A k \in I : k \in Nat  OBVIOUS
<1>3. ASSUME NEW k \in I
      PROVE  IsFiniteSet(Up(k)) /\ Cardinality(Up(k)) \in 1 .. m
  <2>1. Up(k) \in SUBSET I  OBVIOUS
  <2>2. IsFiniteSet(Up(k)) /\ Cardinality(Up(k)) <= m  BY <1>1, <2>1, FS_Subset
  <2>3. k \in Up(k)  BY <1>2
  <2>4. Cardinality(Up(k)) \in Nat /\ Cardinality(Up(k)) # 0
    BY <2>2, <2>3, FS_CardinalityType, FS_EmptySet
  <2> HIDE DEF Up, m
  <2> QED BY <1>1, <2>2, <2>4
<1>4. ASSUME NEW j \in I, NEW k \in I, j < k PROVE Cardinality(Up(j)) # Cardinality(Up(k))
  <2>1. ASSUME NEW l \in Up(j) PROVE l \in Up(k)
    <3>1. l \in I /\ l <= j  OBVIOUS
    <3>2. l <= k  BY <1>2, <1>4, <3>1
    <3> QED BY <3>1, <3>2
  <2>2. k \in Up(k) /\ k \notin Up(j)  BY <1>2, <1>4
  <2>3. IsFiniteSet(Up(k))  BY <1>3
  <2> HIDE DEF Up
  <2>4. Up(j) \in SUBSET Up(k)  BY <2>1
  <2> QED BY <2>2, <2>3, <2>4, FS_Subset
<1>5. ASSUME NEW j \in I, NEW k \in I, Cardinality(Up(j)) = Cardinality(Up(k)) PROVE j = k
  <2>1. j \in Nat /\ k \in Nat  BY <1>2
  <2>2. ~ (j < k)  BY <1>4, <1>5
  <2>3. ~ (k < j)  BY <1>4, <1>5
  <2> QED BY <2>1, <2>2, <2>3
<1> HIDE DEF Up, m
<1>6. r \in Injection(I, 1 .. m)
  <2>1. r \in [I -> 1 .. m]  BY <1>3
  <2> QED BY <1>5, <2>1 DEF Injection, IsInjective
<1>7. IsFiniteSet(1 .. m) /\ Cardinality(1 .. m) = m  BY <1>1, FS_Interval
<1>8. r \in Surjection(I, 1 .. m)
  <2> HIDE DEF r
  <2> QED BY <1>6, <1>7, FS_Injection DEF m
<1>9. \A j \in 1 .. m : \E k \in I : Cardinality(Up(k)) = j  BY <1>8, Zenon DEF Surjection
<1> QED BY <1>1, <1>3, <1>5, <1>9 DEF Up, m

\* Without takes out just the elements of S.
LEMMA WithoutQueue ==
    ASSUME NEW D, NEW q \in Seq(D), Once(q), NEW S
    PROVE  /\ Without(q, S) \in Seq(D) /\ Once(Without(q, S))
           /\ Elements(Without(q, S)) = Elements(q) \ S
<1> DEFINE stay == {k \in 1 .. Len(q) : q[k] \notin S}
           m == Cardinality(stay)
           rank(k) == Cardinality({l \in stay : l <= k})
           place(j) == CHOOSE k \in stay : rank(k) = j
           w == Without(q, S)
<1>1. Len(q) \in Nat /\ \A k \in 1 .. Len(q) : q[k] \in D  OBVIOUS
<1>2. stay \in SUBSET (1 .. Len(q))  OBVIOUS
<1>3. w = [j \in 1 .. m |-> q[place(j)]]  BY DEF Without
<1>4. /\ m \in Nat /\ \A k \in stay : rank(k) \in 1 .. m
      /\ \A j, k \in stay : rank(j) = rank(k) => j = k
      /\ \A j \in 1 .. m : \E k \in stay : rank(k) = j
  <2> HIDE DEF stay
  <2> QED BY <1>1, <1>2, Places, Zenon
<1>5. \A k \in stay : k \in 1 .. Len(q) /\ q[k] \notin S  OBVIOUS
<1>6. \A k \in 1 .. Len(q) : q[k] \notin S => k \in stay  OBVIOUS
<1> HIDE DEF stay, m, rank, w
<1>7. ASSUME NEW j \in 1 .. m PROVE place(j) \in stay /\ rank(place(j)) = j
  BY <1>4
<1>8. ASSUME NEW k \in stay PROVE rank(k) \in 1 .. m /\ place(rank(k)) = k
  <2>1. rank(k) \in 1 .. m  BY <1>4
  <2>2. place(rank(k)) \in stay /\ rank(place(rank(k))) = rank(k)  BY <1>7, <2>1
  <2> HIDE DEF place
  <2> QED BY <1>4, <2>1, <2>2
<1> HIDE DEF place
<1>9. /\ w \in Seq(D) /\ Len(w) = m /\ \A j \in 1 .. m : w[j] = q[place(j)]
  <2>1. \A j \in 1 .. m : q[place(j)] \in D  BY <1>1, <1>5, <1>7
  <2> QED BY <1>3, <1>4, <2>1
<1>10. Once(w)
  <2> SUFFICES ASSUME NEW i \in 1 .. m, NEW j \in 1 .. m, w[i] = w[j] PROVE i = j
    BY <1>9 DEF Once
  <2>1. place(i) \in 1 .. Len(q) /\ place(j) \in 1 .. Len(q)  BY <1>5, <1>7
  <2>2. q[place(i)] = q[place(j)]  BY <1>9
  <2>3. place(i) = place(j)  BY <2>1, <2>2 DEF Once
  <2> QED BY <1>7, <2>3
<1>11. ASSUME NEW x \in Elements(w) PROVE x \in Elements(q) \ S
  <2>1. PICK j \in 1 .. m : x = w[j]  BY <1>9 DEF Elements
  <2> QED BY <1>5, <1>7, <1>9, <2>1 DEF Elements
<1>12. ASSUME NEW x \in Elements(q) \ S PROVE x \in Elements(w)
  <2>1. PICK k \in 1 .. Len(q) : x = q[k]  BY DEF Elements
  <2>2. k \in stay  BY <1>6, <2>1
  <2>3. rank(k) \in 1 .. m /\ w[rank(k)] = x  BY <1>8, <1>9, <2>1, <2>2
  <2> QED BY <1>9, <2>3 DEF Elements
<1> QED BY <1>9, <1>10, <1>11, <1>12 DEF w

\* Touch moves an element to the back, or puts a new one there.
LEMMA TouchQueue ==
    ASSUME NEW D, NEW q \in Seq(D), Once(q), NEW x \in D
    PROVE  /\ Touch(q, x) \in Seq(D) /\ Once(Touch(q, x))
           /\ Elements(Touch(q, x)) = Elements(q) \cup {x}
<1> DEFINE w == Without(q, {x})
           t == Touch(q, x)
<1>1. /\ w \in Seq(D) /\ Once(w)
      /\ Elements(w) = Elements(q) \ {x}
  BY WithoutQueue
<1>2. t = Append(w, x)  BY DEF Touch
<1> HIDE DEF w, t
<1>3. Len(w) \in Nat  BY <1>1
<1>4. /\ t \in Seq(D) /\ Len(t) = Len(w) + 1
      /\ t[Len(w) + 1] = x /\ \A k \in 1 .. Len(w) : t[k] = w[k]
  BY <1>1, <1>2
<1>5. \A k \in 1 .. Len(w) : w[k] # x  BY <1>1, Zenon DEF Elements
<1>6. \A k \in 1 .. Len(t) : k \in 1 .. Len(w) \/ k = Len(w) + 1  BY <1>3, <1>4
<1>7. Once(t)
  <2> SUFFICES ASSUME NEW j \in 1 .. Len(t), NEW k \in 1 .. Len(t), t[j] = t[k] PROVE j = k
    BY DEF Once
  <2>1. CASE j \in 1 .. Len(w) /\ k \in 1 .. Len(w)  BY <1>1, <1>4, <2>1 DEF Once
  <2>2. CASE ~ (j \in 1 .. Len(w) /\ k \in 1 .. Len(w))  BY <1>4, <1>5, <1>6, <2>2
  <2> QED BY <2>1, <2>2
<1>8. \A k \in 1 .. Len(w) : k \in 1 .. Len(t)  BY <1>3, <1>4
<1>9. Len(w) + 1 \in 1 .. Len(t)  BY <1>3, <1>4
<1>10. Elements(t) = Elements(w) \cup {x}
  <2>1. ASSUME NEW y \in Elements(t) PROVE y \in Elements(w) \cup {x}
    BY <1>4, <1>6 DEF Elements
  <2>2. ASSUME NEW y \in Elements(w) PROVE y \in Elements(t)  BY <1>4, <1>8 DEF Elements
  <2>3. x \in Elements(t)  BY <1>4, <1>9 DEF Elements
  <2> QED BY <2>1, <2>2, <2>3
<1> QED BY <1>1, <1>4, <1>7, <1>10 DEF t

\* What is left of a queue when its first n elements are taken
After(q, n) == SubSeq(q, n + 1, Len(q))

LEMMA AfterQueue ==
    ASSUME NEW D, NEW q \in Seq(D), Once(q), NEW n \in Nat
    PROVE  /\ After(q, n) \in Seq(D) /\ Once(After(q, n))
           /\ Elements(After(q, n)) \subseteq Elements(q)
           /\ Len(After(q, n)) = Excess(Len(q), n)
<1> DEFINE m == Excess(Len(q), n)
           kept == After(q, n)
<1>1. Len(q) \in Nat /\ \A k \in 1 .. Len(q) : q[k] \in D  OBVIOUS
<1>2. m \in Nat /\ \A k \in 1 .. m : k + n \in 1 .. Len(q)  BY <1>1 DEF Excess
<1>3. kept \in Seq(D)  BY <1>1 DEF After
<1>4. Len(kept) = m  BY <1>1 DEF After, Excess
<1>5. \A k \in 1 .. m : kept[k] = q[k + n]  BY <1>1 DEF After, Excess
<1> HIDE DEF m, kept
<1>6. Once(kept)
  <2> SUFFICES ASSUME NEW j \in 1 .. m, NEW k \in 1 .. m, kept[j] = kept[k] PROVE j = k
    BY <1>4 DEF Once
  <2>1. j + n = k + n  BY <1>2, <1>5, Zenon DEF Once
  <2> QED BY <1>2, <2>1
<1>7. ASSUME NEW x \in Elements(kept) PROVE x \in Elements(q)
  BY <1>2, <1>4, <1>5, Zenon DEF Elements
<1> QED BY <1>3, <1>4, <1>6, <1>7 DEF m, kept

\* Eviction takes the first n elements of a queue, all of them when there are
\* no more, and their entries from the table.
LEMMA Kept ==
    ASSUME NEW D, NEW q \in Seq(D), Once(q), NEW t, Elements(q) = DOMAIN t, NEW n \in Nat
    PROVE  LET rest == Restricted(t, Elements(After(q, n)))
           IN  /\ Elements(After(q, n)) = DOMAIN rest /\ DOMAIN rest \subseteq DOMAIN t
               /\ TableSize(rest) = Excess(TableSize(t), n)
<1> DEFINE kept == After(q, n)
           rest == Restricted(t, Elements(kept))
<1>1. /\ kept \in Seq(D) /\ Once(kept) /\ Elements(kept) \subseteq DOMAIN t
      /\ Len(kept) = Excess(Len(q), n)
  BY AfterQueue, Zenon
<1> HIDE DEF kept
<1>2. DOMAIN rest = Elements(kept)  BY <1>1 DEF Restricted
<1>3. TableSize(rest) = Len(kept)  BY <1>1, <1>2, LenIsSize DEF TableSize
<1>4. TableSize(t) = Len(q)  BY LenIsSize DEF TableSize
<1> QED BY <1>1, <1>2, <1>3, <1>4 DEF kept

-----------------------------------------------------------------------------
(* The inductive invariant: each table with its queue, and the sizes.  The   *)
(* exact table is searched by name and touched by the name of the Data it    *)
(* holds: the two are the same.                                              *)

PrefixTable(t, q, at) ==
    /\ DOMAIN t \subseteq Data /\ \A d \in DOMAIN t : t[d] \in 0 .. at + Freshness[d]
    /\ q \in Seq(Data) /\ Once(q) /\ Elements(q) = DOMAIN t

ExactTable(te, q, at) ==
    /\ DOMAIN te \subseteq Names
    /\ \A n \in DOMAIN te :
          /\ te[n] \in [data : Data, freshUntil : Nat] /\ te[n].data.name = n
          /\ te[n].freshUntil <= at + Freshness[te[n].data]
    /\ q \in Seq(Names) /\ Once(q) /\ Elements(q) = DOMAIN te

StoreInv ==
    /\ PrefixTable(table, queue, now) /\ ExactTable(tableExact, queueExact, now)
    /\ WithinLimits
    /\ pmLimit \in Nat /\ emLimit \in Nat /\ limit \in Nat
    /\ shouldAdmit \in BOOLEAN /\ shouldServe \in BOOLEAN
    /\ now \in 0 .. MaxTime /\ fault \in BOOLEAN

LEMMA PrefixSize ==
    ASSUME NEW t, NEW q, NEW at, PrefixTable(t, q, at)
    PROVE  TableSize(t) = Len(q) /\ TableSize(t) \in Nat
<1>1. q \in Seq(Data) /\ Once(q) /\ Elements(q) = DOMAIN t  BY DEF PrefixTable
<1>2. Len(q) \in Nat  BY <1>1
<1> QED BY <1>1, <1>2, LenIsSize DEF TableSize

LEMMA ExactSize ==
    ASSUME NEW t, NEW q, NEW at, ExactTable(t, q, at)
    PROVE  TableSize(t) = Len(q) /\ TableSize(t) \in Nat
<1>1. q \in Seq(Names) /\ Once(q) /\ Elements(q) = DOMAIN t  BY DEF ExactTable
<1>2. Len(q) \in Nat  BY <1>1
<1> QED BY <1>1, <1>2, LenIsSize DEF TableSize

\* LruPolicy::evictEntries leaves the prefix table within its limit.  It never
\* runs out of entries to take while the exact table fits under that limit.
LEMMA EvictsPrefix ==
    ASSUME NEW t, NEW q, NEW at, PrefixTable(t, q, at), NEW te, TableSize(te) \in Nat, NEW pm \in Nat
    PROVE  LET e == evictEntries(t, q, te, pm)
           IN  /\ PrefixTable(e.table, e.queue, at) /\ TableSize(e.table) <= pm
               /\ e.fault \in BOOLEAN /\ (TableSize(te) <= pm => e.fault = FALSE)
<1> DEFINE n == ToEvict(t, te, pm)
           kept == After(q, n)
           rest == Restricted(t, Elements(kept))
           e == evictEntries(t, q, te, pm)
<1>1. TableSize(t) = Len(q) /\ TableSize(t) \in Nat  BY PrefixSize
<1>2. e.table = rest /\ e.queue = kept /\ e.fault = (n > Len(q))  BY Zenon DEF evictEntries, After
<1>3. /\ n \in Nat /\ Excess(TableSize(t), n) <= pm
      /\ TableSize(te) <= pm => n <= Len(q)
  BY <1>1 DEF ToEvict, Excess
<1>4. q \in Seq(Data) /\ Once(q) /\ Elements(q) = DOMAIN t  BY DEF PrefixTable
<1> HIDE DEF n, e
<1>5. /\ kept \in Seq(Data) /\ Once(kept)
      /\ Elements(kept) = DOMAIN rest /\ DOMAIN rest \subseteq DOMAIN t
      /\ \A x \in DOMAIN rest : rest[x] = t[x]
      /\ TableSize(rest) = Excess(TableSize(t), n)
  <2>1. n \in Nat  BY <1>3
  <2>2. kept \in Seq(Data) /\ Once(kept)  BY <1>4, <2>1, AfterQueue, Zenon
  <2>3. Elements(kept) = DOMAIN rest  BY <1>4, <2>1, Kept, Zenon
  <2>4. DOMAIN rest \subseteq DOMAIN t  BY <1>4, <2>1, Kept, Zenon
  <2>5. \A x \in DOMAIN rest : rest[x] = t[x]  BY DEF Restricted
  <2>6. TableSize(rest) = Excess(TableSize(t), n)  BY <1>4, <2>1, Kept
  <2> QED BY <2>2, <2>3, <2>4, <2>5, <2>6
<1> HIDE DEF kept, rest
<1>6. PrefixTable(rest, kept, at)  BY <1>5 DEF PrefixTable
<1>7. (n > Len(q)) \in BOOLEAN /\ (TableSize(te) <= pm => (n > Len(q)) = FALSE)
  BY <1>1, <1>3
<1> QED BY <1>2, <1>3, <1>5, <1>6, <1>7, Zenon DEF e

\* LruPolicy::evictEntriesExact leaves the exact table within its limit.
LEMMA EvictsExact ==
    ASSUME NEW te, NEW q, NEW at, ExactTable(te, q, at), NEW em \in Nat
    PROVE  LET e == evictEntriesExact(te, q, em)
           IN  ExactTable(e.table, e.queue, at) /\ TableSize(e.table) <= em
<1> DEFINE n == Excess(TableSize(te), em)
           kept == After(q, n)
           rest == Restricted(te, Elements(kept))
           e == evictEntriesExact(te, q, em)
<1>1. TableSize(te) = Len(q) /\ TableSize(te) \in Nat  BY ExactSize
<1>2. e.table = rest /\ e.queue = kept  BY Zenon DEF evictEntriesExact, After
<1>3. n \in Nat /\ Excess(TableSize(te), n) <= em  BY <1>1 DEF Excess
<1>4. q \in Seq(Names) /\ Once(q) /\ Elements(q) = DOMAIN te  BY DEF ExactTable
<1> HIDE DEF n, e
<1>5. /\ kept \in Seq(Names) /\ Once(kept)
      /\ Elements(kept) = DOMAIN rest /\ DOMAIN rest \subseteq DOMAIN te
      /\ \A x \in DOMAIN rest : rest[x] = te[x]
      /\ TableSize(rest) = Excess(TableSize(te), n)
  <2>1. n \in Nat  BY <1>3
  <2>2. kept \in Seq(Names) /\ Once(kept)  BY <1>4, <2>1, AfterQueue, Zenon
  <2>3. Elements(kept) = DOMAIN rest  BY <1>4, <2>1, Kept, Zenon
  <2>4. DOMAIN rest \subseteq DOMAIN te  BY <1>4, <2>1, Kept, Zenon
  <2>5. \A x \in DOMAIN rest : rest[x] = te[x]  BY DEF Restricted
  <2>6. TableSize(rest) = Excess(TableSize(te), n)  BY <1>4, <2>1, Kept
  <2> QED BY <2>2, <2>3, <2>4, <2>5, <2>6
<1> HIDE DEF kept, rest
<1>6. ExactTable(rest, kept, at)  BY <1>5 DEF ExactTable
<1> QED BY <1>2, <1>3, <1>5, <1>6 DEF e

-----------------------------------------------------------------------------
(* What each operation does to a table and its queue.                        *)

\* Touching an entry that is in the table changes the order only.
LEMMA TouchesPrefix ==
    ASSUME NEW t, NEW q, NEW at, PrefixTable(t, q, at), NEW d \in DOMAIN t
    PROVE  PrefixTable(t, Touch(q, d), at)
<1>1. d \in Data /\ q \in Seq(Data) /\ Once(q) /\ Elements(q) = DOMAIN t  BY DEF PrefixTable
<1>2. /\ Touch(q, d) \in Seq(Data) /\ Once(Touch(q, d))
      /\ Elements(Touch(q, d)) = Elements(q) \cup {d}
  BY <1>1, TouchQueue
<1> QED BY <1>1, <1>2, Zenon DEF PrefixTable

LEMMA TouchesExact ==
    ASSUME NEW te, NEW q, NEW at, ExactTable(te, q, at), NEW n \in DOMAIN te
    PROVE  ExactTable(te, Touch(q, n), at)
<1>1. n \in Names /\ q \in Seq(Names) /\ Once(q) /\ Elements(q) = DOMAIN te  BY DEF ExactTable
<1>2. /\ Touch(q, n) \in Seq(Names) /\ Once(Touch(q, n))
      /\ Elements(Touch(q, n)) = Elements(q) \cup {n}
  BY <1>1, TouchQueue
<1> QED BY <1>1, <1>2, Zenon DEF ExactTable

\* Cs::insert before it evicts: the entry is there, and last in the queue.
LEMMA AddsPrefix ==
    ASSUME NEW t, NEW q, NEW at \in Nat, PrefixTable(t, q, at), NEW d \in Data
    PROVE  PrefixTable([x \in DOMAIN t \cup {d} |-> IF x = d THEN at + Freshness[d] ELSE t[x]],
                       Touch(q, d), at)
<1> DEFINE u == [x \in DOMAIN t \cup {d} |-> IF x = d THEN at + Freshness[d] ELSE t[x]]
<1>1. q \in Seq(Data) /\ Once(q) /\ Elements(q) = DOMAIN t  BY DEF PrefixTable
<1>2. /\ Touch(q, d) \in Seq(Data) /\ Once(Touch(q, d))
      /\ Elements(Touch(q, d)) = DOMAIN t \cup {d}
  BY <1>1, TouchQueue
<1>3. DOMAIN u = DOMAIN t \cup {d}  OBVIOUS
<1>4. DOMAIN u \subseteq Data  BY <1>3 DEF PrefixTable
<1>5. ASSUME NEW x \in DOMAIN u PROVE u[x] \in 0 .. at + Freshness[x]
  <2>1. CASE x = d
    <3>1. Freshness[d] \in Nat  BY StoreAssumption
    <3> QED BY <1>3, <2>1, <3>1
  <2>2. CASE x # d  BY <1>3, <2>2 DEF PrefixTable
  <2> QED BY <2>1, <2>2
<1> QED BY <1>2, <1>3, <1>4, <1>5, Zenon DEF PrefixTable

LEMMA AddsExact ==
    ASSUME NEW te, NEW q, NEW at \in Nat, ExactTable(te, q, at), NEW d \in Data
    PROVE  ExactTable([n \in DOMAIN te \cup {d.name} |->
                          IF n = d.name THEN [data |-> d, freshUntil |-> at + Freshness[d]] ELSE te[n]],
                      Touch(q, d.name), at)
<1> DEFINE new == [data |-> d, freshUntil |-> at + Freshness[d]]
           u == [n \in DOMAIN te \cup {d.name} |-> IF n = d.name THEN new ELSE te[n]]
<1>1. d.name \in Names /\ q \in Seq(Names) /\ Once(q) /\ Elements(q) = DOMAIN te
  BY DEF ExactTable, Names
<1>2. /\ Touch(q, d.name) \in Seq(Names) /\ Once(Touch(q, d.name))
      /\ Elements(Touch(q, d.name)) = DOMAIN te \cup {d.name}
  BY <1>1, TouchQueue
<1>3. DOMAIN u = DOMAIN te \cup {d.name}  OBVIOUS
<1>4. DOMAIN u \subseteq Names  BY <1>1, <1>3 DEF ExactTable
<1>5. /\ new \in [data : Data, freshUntil : Nat] /\ new.data = d
      /\ new.freshUntil <= at + Freshness[d]
  <2>1. Freshness[d] \in Nat  BY StoreAssumption
  <2> QED BY <2>1
<1>6. u[d.name] = new /\ \A n \in DOMAIN te : n # d.name => u[n] = te[n]  OBVIOUS
<1> HIDE DEF new, u
<1>7. ASSUME NEW n \in DOMAIN u
      PROVE  /\ u[n] \in [data : Data, freshUntil : Nat] /\ u[n].data.name = n
             /\ u[n].freshUntil <= at + Freshness[u[n].data]
  <2>1. CASE n = d.name  BY <1>5, <1>6, <2>1
  <2>2. CASE n # d.name
    <3>1. n \in DOMAIN te /\ u[n] = te[n]  BY <1>3, <1>6, <2>2
    <3> QED BY <3>1 DEF ExactTable
  <2> QED BY <2>1, <2>2
<1>8. ExactTable(u, Touch(q, d.name), at)  BY <1>2, <1>3, <1>4, <1>7 DEF ExactTable
<1> QED BY <1>8 DEF u, new

\* Taking entries out of a table, and their iterators out of its queue
LEMMA LosesPrefix ==
    ASSUME NEW t, NEW q, NEW at, PrefixTable(t, q, at), NEW S
    PROVE  /\ PrefixTable(Restricted(t, DOMAIN t \ S), Without(q, S), at)
           /\ TableSize(Restricted(t, DOMAIN t \ S)) <= TableSize(t)
<1> DEFINE u == Restricted(t, DOMAIN t \ S)
<1>1. q \in Seq(Data) /\ Once(q) /\ Elements(q) = DOMAIN t  BY DEF PrefixTable
<1>2. /\ Without(q, S) \in Seq(Data) /\ Once(Without(q, S))
      /\ Elements(Without(q, S)) = DOMAIN t \ S
  BY <1>1, WithoutQueue
<1>3. DOMAIN u = DOMAIN t \ S /\ \A x \in DOMAIN u : u[x] = t[x]  BY DEF Restricted
<1> HIDE DEF u
<1>4. PrefixTable(u, Without(q, S), at)  BY <1>2, <1>3 DEF PrefixTable
<1>5. IsFiniteSet(DOMAIN t)  BY <1>1, LenIsSize
<1>6. TableSize(u) <= TableSize(t)  BY <1>3, <1>5, FS_Subset DEF TableSize
<1> QED BY <1>4, <1>6 DEF u

LEMMA LosesExact ==
    ASSUME NEW te, NEW q, NEW at, ExactTable(te, q, at), NEW n
    PROVE  /\ ExactTable(Restricted(te, DOMAIN te \ ({n} \cap DOMAIN te)), Without(q, {n}), at)
           /\ TableSize(Restricted(te, DOMAIN te \ ({n} \cap DOMAIN te))) <= TableSize(te)
<1> DEFINE u == Restricted(te, DOMAIN te \ ({n} \cap DOMAIN te))
<1>1. q \in Seq(Names) /\ Once(q) /\ Elements(q) = DOMAIN te  BY DEF ExactTable
<1>2. /\ Without(q, {n}) \in Seq(Names) /\ Once(Without(q, {n}))
      /\ Elements(Without(q, {n})) = DOMAIN te \ {n}
  BY <1>1, WithoutQueue
<1>3. DOMAIN u = DOMAIN te \ {n} /\ \A x \in DOMAIN u : u[x] = te[x]  BY DEF Restricted
<1> HIDE DEF u
<1>4. ExactTable(u, Without(q, {n}), at)  BY <1>2, <1>3, Zenon DEF ExactTable
<1>5. IsFiniteSet(DOMAIN te)  BY <1>1, LenIsSize
<1>6. TableSize(u) <= TableSize(te)  BY <1>3, <1>5, FS_Subset DEF TableSize
<1> QED BY <1>4, <1>6 DEF u

\* A set of natural numbers that is not empty has a least element.
LEMMA LeastNumber ==
    ASSUME NEW S, S \subseteq Nat, S # {}
    PROVE  \E x \in S : \A y \in S : x <= y
<1> DEFINE R == {p \in Nat \X Nat : p[1] < p[2]}
<1>1. IsWellFoundedOn(R, Nat)  BY NatLessThanWellFounded DEF OpToRel
<1> HIDE DEF R
<1>2. PICK x \in S : \A y \in S : ~ (<<y, x>> \in R)  BY <1>1, WFMin, Zenon
<1>3. ASSUME NEW y \in S PROVE x <= y
  <2>1. x \in Nat /\ y \in Nat /\ <<y, x>> \notin R  BY <1>2
  <2>2. ~ (y < x)  BY <2>1 DEF R
  <2> QED BY <2>1, <2>2
<1> QED BY <1>3

\* The first entry in canonical order is one of them.
LEMMA FirstIn ==
    ASSUME NEW S, S \subseteq Data, S # {}
    PROVE  First(S) \in S
<1> DEFINE R == {Rank[d] : d \in S}
<1>1. R \subseteq Nat /\ R # {}  BY StoreAssumption
<1>2. PICK r \in R : \A s \in R : r <= s
  <2> HIDE DEF R
  <2> QED BY <1>1, LeastNumber, Zenon
<1>3. PICK d \in S : r = Rank[d]  OBVIOUS
<1>4. \A e \in S : Rank[d] <= Rank[e]  BY <1>2, <1>3
<1> QED BY <1>3, <1>4 DEF First

\* What a lookup finds is in the table it searches.
LEMMA FoundInTable ==
    ASSUME StoreInv, NEW i, NEW d \in Matches(i)
    PROVE  /\ i.canBePrefix => /\ d \in DOMAIN table /\ canSatisfy(i, d)
           /\ ~ i.canBePrefix => /\ d.name \in DOMAIN tableExact /\ d.name = i.name
                                 /\ i.mustBeFresh => tableExact[d.name].freshUntil >= now
<1>1. CASE i.canBePrefix
  <2> DEFINE S == {e \in DOMAIN table : canSatisfy(i, e)}
  <2>1. S # {} /\ d = First(S)  BY <1>1 DEF Matches
  <2>2. S \subseteq Data  BY DEF StoreInv, PrefixTable
  <2>3. d \in S  BY <2>1, <2>2, FirstIn
  <2> QED BY <1>1, <2>3
<1>2. CASE ~ i.canBePrefix
  <2>1. PICK n \in DOMAIN tableExact : /\ n = i.name /\ d = tableExact[n].data
                                       /\ i.mustBeFresh => tableExact[n].freshUntil >= now
    BY <1>2 DEF Matches
  <2>2. d.name = n  BY <2>1 DEF StoreInv, ExactTable
  <2> QED BY <1>2, <2>1, <2>2
<1> QED BY <1>1, <1>2

-----------------------------------------------------------------------------
(* Each action keeps the invariant.                                          *)

LEMMA InsertPrefixStep ==
    ASSUME StoreInv, NEW d \in Data, insertPrefix(d), UNCHANGED <<limits, switches, now>>
    PROVE  StoreInv'
<1> DEFINE t == [x \in DOMAIN table \cup {d} |-> IF x = d THEN freshUntil(d) ELSE table[x]]
           q == Touch(queue, d)
           e == evictEntries(t, q, tableExact, pmLimit)
<1>1. now \in Nat /\ PrefixTable(table, queue, now)  BY StoreAssumption DEF StoreInv
<1>2. PrefixTable(t, q, now)  BY <1>1, AddsPrefix DEF freshUntil
<1>3. DOMAIN t = DOMAIN table \cup {d}  OBVIOUS
<1>4. \/ d \in DOMAIN table /\ table' = t /\ queue' = q /\ fault' = fault
      \/ table' = e.table /\ queue' = e.queue /\ fault' = (fault \/ e.fault)
  BY DEF insertPrefix
<1>5. tableExact' = tableExact /\ queueExact' = queueExact  BY DEF insertPrefix
<1> HIDE DEF t, q
<1>6. TableSize(tableExact) \in Nat /\ pmLimit \in Nat  BY ExactSize DEF StoreInv
<1>7. /\ PrefixTable(e.table, e.queue, now) /\ TableSize(e.table) <= pmLimit
      /\ e.fault \in BOOLEAN
  BY <1>2, <1>6, EvictsPrefix, Zenon
<1> HIDE DEF e
<1>8. PrefixTable(table', queue', now) /\ TableSize(table') <= pmLimit
  <2>1. CASE d \in DOMAIN table /\ table' = t /\ queue' = q
    <3>1. DOMAIN table' = DOMAIN table  BY <1>3, <2>1
    <3> QED BY <1>2, <2>1, <3>1 DEF TableSize, StoreInv, WithinLimits
  <2>2. CASE table' = e.table /\ queue' = e.queue  BY <1>7, <2>2
  <2> QED BY <1>4, <2>1, <2>2
<1>9. fault' \in BOOLEAN  BY <1>4, <1>7, Zenon DEF StoreInv
<1> QED BY <1>5, <1>8, <1>9 DEF StoreInv, WithinLimits, limits, switches

LEMMA InsertExactStep ==
    ASSUME StoreInv, NEW d \in Data, insertExact(d), UNCHANGED <<limits, switches, now>>
    PROVE  StoreInv'
<1> DEFINE te == [n \in DOMAIN tableExact \cup {d.name} |->
                     IF n = d.name THEN [data |-> d, freshUntil |-> freshUntil(d)] ELSE tableExact[n]]
           q == Touch(queueExact, d.name)
           e == evictEntriesExact(te, q, emLimit)
<1>1. now \in Nat /\ emLimit \in Nat /\ ExactTable(tableExact, queueExact, now)
  BY StoreAssumption DEF StoreInv
<1>2. ExactTable(te, q, now)  BY <1>1, AddsExact DEF freshUntil
<1>3. tableExact' = e.table /\ queueExact' = e.queue  BY DEF insertExact
<1>4. table' = table /\ queue' = queue /\ fault' = fault  BY DEF insertExact
<1> HIDE DEF te, q
<1>5. ExactTable(e.table, e.queue, now) /\ TableSize(e.table) <= emLimit
  BY <1>1, <1>2, EvictsExact
<1> HIDE DEF e
<1> QED BY <1>3, <1>4, <1>5 DEF StoreInv, WithinLimits, limits, switches

LEMMA FindStep ==
    ASSUME StoreInv, NEW i, find(i)
    PROVE  StoreInv'
<1>1. PICK d \in Matches(i) :
         IF i.canBePrefix THEN queue' = Touch(queue, d) /\ queueExact' = queueExact
         ELSE queueExact' = Touch(queueExact, d.name) /\ queue' = queue
  BY DEF find
<1>2. UNCHANGED <<table, tableExact, limits, switches, now, fault>>  BY DEF find
<1>3. PrefixTable(table, queue, now) /\ ExactTable(tableExact, queueExact, now)  BY DEF StoreInv
<1>4. PrefixTable(table, queue', now) /\ ExactTable(tableExact, queueExact', now)
  <2>1. CASE i.canBePrefix
    <3>1. d \in DOMAIN table  BY <2>1, FoundInTable
    <3>2. PrefixTable(table, Touch(queue, d), now)  BY <1>3, <3>1, TouchesPrefix
    <3> QED BY <1>1, <1>3, <2>1, <3>2
  <2>2. CASE ~ i.canBePrefix
    <3>1. d.name \in DOMAIN tableExact  BY <2>2, FoundInTable
    <3>2. ExactTable(tableExact, Touch(queueExact, d.name), now)  BY <1>3, <3>1, TouchesExact
    <3> QED BY <1>1, <1>3, <2>2, <3>2
  <2> QED BY <2>1, <2>2
<1> QED BY <1>2, <1>4 DEF StoreInv, WithinLimits, limits, switches

LEMMA EraseStep ==
    ASSUME StoreInv, NEW p, NEW c, erase(p, c)
    PROVE  StoreInv'
<1> DEFINE n == IF c < EraseLimit THEN c ELSE EraseLimit
           gone == Erased(p, n)
           rest == Without(queue, gone)
           t == Restricted(table, DOMAIN table \ gone)
           te == Restricted(tableExact, DOMAIN tableExact \ ({p} \cap DOMAIN tableExact))
           more == {d \in DOMAIN table \ gone : IsPrefixOf(p, d.name)}
<1>1. /\ table' = t /\ tableExact' = te /\ queueExact' = Without(queueExact, {p})
      /\ UNCHANGED <<limits, switches, now, fault>>
  BY DEF erase
<1>2. queue' = rest \/ (more # {} /\ queue' = Touch(rest, First(more)))  BY DEF erase
<1>3. PrefixTable(table, queue, now) /\ ExactTable(tableExact, queueExact, now)  BY DEF StoreInv
<1> HIDE DEF gone
<1>4. PrefixTable(t, rest, now) /\ TableSize(t) <= TableSize(table)  BY <1>3, LosesPrefix
<1>5. DOMAIN t = DOMAIN table \ gone  BY DEF Restricted
<1>6. /\ ExactTable(te, Without(queueExact, {p}), now)
      /\ TableSize(te) <= TableSize(tableExact)
  BY <1>3, LosesExact, Zenon
<1>7. more \subseteq DOMAIN t  BY <1>5
<1> HIDE DEF t, te, rest, more
<1>8. PrefixTable(t, queue', now)
  <2>1. CASE more # {} /\ queue' = Touch(rest, First(more))
    <3>1. DOMAIN t \subseteq Data  BY <1>4 DEF PrefixTable
    <3>2. First(more) \in DOMAIN t  BY <1>7, <2>1, <3>1, FirstIn
    <3> QED BY <1>4, <2>1, <3>2, TouchesPrefix
  <2> QED BY <1>2, <1>4, <2>1
<1>9. /\ TableSize(table) \in Nat /\ TableSize(tableExact) \in Nat
      /\ TableSize(t) \in Nat /\ TableSize(te) \in Nat
  BY <1>3, <1>4, <1>6, PrefixSize, ExactSize
<1>10. TableSize(t) <= pmLimit /\ TableSize(te) <= emLimit
  BY <1>4, <1>6, <1>9 DEF StoreInv, WithinLimits
<1> QED BY <1>1, <1>6, <1>8, <1>10 DEF StoreInv, WithinLimits, limits, switches

\* Both evictions, as setLimit and reloadConfig run them
LEMMA EvictBothStep ==
    ASSUME StoreInv, NEW pm \in Nat, NEW em \in Nat,
           pmLimit' = pm, emLimit' = em, limit' \in Nat, UNCHANGED <<switches, now>>,
           table' = evictEntries(table, queue, tableExact, pm).table,
           queue' = evictEntries(table, queue, tableExact, pm).queue,
           fault' = evictEntries(table, queue, tableExact, pm).fault,
           tableExact' = evictEntriesExact(tableExact, queueExact, em).table,
           queueExact' = evictEntriesExact(tableExact, queueExact, em).queue
    PROVE  StoreInv' /\ (TableSize(tableExact) <= pm => fault' = FALSE)
<1> DEFINE e == evictEntries(table, queue, tableExact, pm)
           x == evictEntriesExact(tableExact, queueExact, em)
<1>1. PrefixTable(table, queue, now) /\ ExactTable(tableExact, queueExact, now)  BY DEF StoreInv
<1>2. TableSize(tableExact) \in Nat  BY <1>1, ExactSize
<1>3. /\ PrefixTable(e.table, e.queue, now) /\ TableSize(e.table) <= pm
      /\ e.fault \in BOOLEAN /\ (TableSize(tableExact) <= pm => e.fault = FALSE)
  BY <1>1, <1>2, EvictsPrefix, Zenon
<1>4. ExactTable(x.table, x.queue, now) /\ TableSize(x.table) <= em
  BY <1>1, EvictsExact
<1>5. table' = e.table /\ queue' = e.queue /\ fault' = e.fault  OBVIOUS
<1>6. tableExact' = x.table /\ queueExact' = x.queue  OBVIOUS
<1> HIDE DEF e, x
<1>7. fault' \in BOOLEAN /\ (TableSize(tableExact) <= pm => fault' = FALSE)  BY <1>3, <1>5
<1>8. PrefixTable(table', queue', now) /\ TableSize(table') <= pm  BY <1>3, <1>5
<1>9. ExactTable(tableExact', queueExact', now) /\ TableSize(tableExact') <= em  BY <1>4, <1>6
<1> QED BY <1>7, <1>8, <1>9 DEF StoreInv, WithinLimits, switches

LEMMA TickStep ==
    ASSUME StoreInv, Tick
    PROVE  StoreInv'
<1>1. now \in 0 .. MaxTime /\ now' \in 0 .. MaxTime /\ now' = now + 1 /\ now \in Nat
  BY StoreAssumption DEF StoreInv, Tick
<1>2. UNCHANGED <<table, tableExact, queue, queueExact, pmLimit, emLimit, limit,
                  shouldAdmit, shouldServe, fault>>
  BY DEF Tick, limits, switches
<1>3. \A d \in Data : \A k \in 0 .. now + Freshness[d] : k \in 0 .. now' + Freshness[d]
  <2> SUFFICES ASSUME NEW d \in Data, NEW k \in 0 .. now + Freshness[d]
               PROVE  k \in 0 .. now' + Freshness[d]
    OBVIOUS
  <2>1. Freshness[d] \in Nat  BY StoreAssumption
  <2> QED BY <1>1, <2>1
<1>4. PrefixTable(table', queue', now')  BY <1>2, <1>3 DEF StoreInv, PrefixTable
<1>5. ASSUME NEW n \in DOMAIN tableExact
      PROVE  tableExact[n].freshUntil <= now' + Freshness[tableExact[n].data]
  <2>1. /\ tableExact[n] \in [data : Data, freshUntil : Nat]
        /\ tableExact[n].freshUntil <= now + Freshness[tableExact[n].data]
    BY DEF StoreInv, ExactTable
  <2>2. Freshness[tableExact[n].data] \in Nat /\ tableExact[n].freshUntil \in Nat
    BY <2>1, StoreAssumption
  <2> QED BY <1>1, <2>1, <2>2
<1>6. ExactTable(tableExact', queueExact', now')  BY <1>2, <1>5 DEF StoreInv, ExactTable
<1> QED BY <1>1, <1>2, <1>4, <1>6 DEF StoreInv, WithinLimits

LEMMA StoreInit == Init => StoreInv
<1> SUFFICES ASSUME Init PROVE StoreInv
  OBVIOUS
<1>1. PICK c \in ConfigLimits : pmLimit = c[1] /\ emLimit = c[2]  BY DEF Init
<1>2. c[1] \in Nat /\ c[2] \in Nat /\ limit \in Nat /\ MaxTime \in Nat
  BY StoreAssumption DEF Init
<1>3. DOMAIN table = {} /\ DOMAIN tableExact = {}  BY DEF Init
<1>4. /\ queue \in Seq(Data) /\ Once(queue) /\ Elements(queue) = {}
      /\ queueExact \in Seq(Names) /\ Once(queueExact) /\ Elements(queueExact) = {}
  BY DEF Init, Once, Elements
<1>5. PrefixTable(table, queue, now) /\ ExactTable(tableExact, queueExact, now)
  BY <1>3, <1>4 DEF PrefixTable, ExactTable
<1>6. TableSize(table) = 0 /\ TableSize(tableExact) = 0  BY <1>3, FS_EmptySet DEF TableSize
<1>7. now \in 0 .. MaxTime  BY <1>2 DEF Init
<1>8. pmLimit \in Nat /\ emLimit \in Nat /\ limit \in Nat  BY <1>1, <1>2
<1>9. WithinLimits  BY <1>6, <1>8 DEF WithinLimits
<1>10. shouldAdmit \in BOOLEAN /\ shouldServe \in BOOLEAN /\ fault \in BOOLEAN  BY Zenon DEF Init
<1> QED BY <1>5, <1>7, <1>8, <1>9, <1>10 DEF StoreInv

LEMMA StoreStep == StoreInv /\ [Next]_vars => StoreInv'
<1> SUFFICES ASSUME StoreInv, [Next]_vars PROVE StoreInv'
  OBVIOUS
<1>1. ASSUME NEW d \in Data, NEW p \in BOOLEAN, NEW u \in BOOLEAN, insert(d, p, u)
      PROVE  StoreInv'
  BY <1>1, InsertPrefixStep, InsertExactStep DEF insert
<1>2. ASSUME NEW i \in Interest, find(i) PROVE StoreInv'  BY <1>2, FindStep
<1>3. ASSUME NEW p \in Prefixes, NEW n \in Counts, erase(p, n) PROVE StoreInv'
  BY <1>3, EraseStep
<1>4. ASSUME NEW n \in Limits, setLimit(n) PROVE StoreInv'
  <2>1. pmLimit \in Nat /\ emLimit \in Nat /\ n \in Nat  BY StoreAssumption DEF StoreInv
  <2> QED BY <1>4, <2>1, EvictBothStep, Zenon DEF setLimit
<1>5. ASSUME NEW c \in ConfigLimits, reloadConfig(c[1], c[2]) PROVE StoreInv'
  <2>1. c[1] \in Nat /\ c[2] \in Nat /\ limit \in Nat  BY StoreAssumption DEF StoreInv
  <2> QED BY <1>5, <2>1, EvictBothStep, Zenon DEF reloadConfig
<1>6. ASSUME NEW b \in BOOLEAN, enableAdmit(b) PROVE StoreInv'
  BY <1>6 DEF enableAdmit, StoreInv, WithinLimits, limits
<1>7. ASSUME NEW b \in BOOLEAN, enableServe(b) PROVE StoreInv'
  BY <1>7 DEF enableServe, StoreInv, WithinLimits, limits
<1>8. CASE Tick  BY <1>8, TickStep
<1>9. CASE UNCHANGED vars  BY <1>9 DEF vars, StoreInv, WithinLimits, limits, switches
<1> QED BY <1>1, <1>2, <1>3, <1>4, <1>5, <1>6, <1>7, <1>8, <1>9 DEF Next

LEMMA StoreInvariant == Spec => []StoreInv
BY StoreInit, StoreStep, PTL DEF Spec

-----------------------------------------------------------------------------
\* The tables hold Data, the queues iterators of the right kind, and an entry
\* is never fresh for longer than a FreshnessPeriod from now.
THEOREM TypeCorrect == Spec => []TypeOK
<1>1. StoreInv => TypeOK  BY DEF StoreInv, PrefixTable, ExactTable, TypeOK
<1> QED BY <1>1, StoreInvariant, PTL

\* No sequence of inserts, lookups, erasures and changed limits leaves an
\* entry without its place in the queue of its table, or a place in a queue
\* whose entry Cs erased.
THEOREM QueuesInStepAlways == Spec => []QueuesInStep
<1>1. ASSUME StoreInv PROVE QueuesInStep
  <2>1. PrefixTable(table, queue, now) /\ ExactTable(tableExact, queueExact, now)  BY <1>1 DEF StoreInv
  <2>2. TableSize(table) = Len(queue) /\ TableSize(tableExact) = Len(queueExact)
    BY <2>1, PrefixSize, ExactSize
  <2> QED BY <2>1, <2>2 DEF QueuesInStep, PrefixTable, ExactTable
<1> QED BY <1>1, StoreInvariant, PTL

\* Neither table outgrows its limit, for all limits: where the prefix table
\* has no room even for the exact table's share, evictEntries empties it.
THEOREM WithinLimitsAlways == Spec => []WithinLimits
<1>1. StoreInv => WithinLimits  BY DEF StoreInv
<1> QED BY <1>1, StoreInvariant, PTL

\* A hit of Cs::find is Data the Interest asks for, and fresh if it must be.
THEOREM HitSatisfiesAlways == Spec => []HitSatisfies
<1>1. ASSUME StoreInv PROVE HitSatisfies
  <2> SUFFICES ASSUME NEW i \in Interest, i.digest = NoDigest, NEW d \in Matches(i)
               PROVE  /\ NameMatches(i, d)
                      /\ i.mustBeFresh => \/ i.canBePrefix /\ table[d] >= now
                                          \/ ~i.canBePrefix /\ tableExact[d.name].freshUntil >= now
    BY DEF HitSatisfies
  <2>1. CASE i.canBePrefix
    <3>1. canSatisfy(i, d)  BY <1>1, <2>1, FoundInTable
    <3> QED BY <2>1, <3>1 DEF canSatisfy, MatchesData
  <2>2. CASE ~ i.canBePrefix
    <3>1. /\ d.name = i.name
          /\ i.mustBeFresh => tableExact[d.name].freshUntil >= now
      BY <1>1, <2>2, FoundInTable
    <3> QED BY <2>2, <3>1 DEF NameMatches
  <2> QED BY <2>1, <2>2
<1> QED BY <1>1, StoreInvariant, PTL

\* The limits in force come from configuration files, and nothing faulted.
FitInv ==
    /\ \E c \in ConfigLimits : pmLimit = c[1]
    /\ \E c \in ConfigLimits : emLimit = c[2]
    /\ fault = FALSE

\* The assertion of LruPolicy::evictEntries holds, if every configuration
\* leaves the prefix table room for the exact table of every other one.
THEOREM NeverEvictsFromEmptyAlways ==
    ASSUME ExactFits
    PROVE  Spec => []NeverEvictsFromEmpty
<1>1. Init => FitInv  BY DEF Init, FitInv
<1>2. ASSUME StoreInv, FitInv, [Next]_vars PROVE FitInv'
  <2>1. /\ TableSize(tableExact) \in Nat /\ emLimit \in Nat /\ pmLimit \in Nat
        /\ TableSize(tableExact) <= emLimit
    BY <1>2, ExactSize DEF StoreInv, WithinLimits
  <2>2. ASSUME NEW c \in ConfigLimits
        PROVE  c[1] \in Nat /\ c[2] \in Nat /\ TableSize(tableExact) <= c[1]
    <3>1. c[1] \in Nat /\ c[2] \in Nat  BY StoreAssumption
    <3>2. emLimit <= c[1]  BY <1>2 DEF FitInv, ExactFits
    <3> QED BY <2>1, <3>1, <3>2
  <2>3. TableSize(tableExact) <= pmLimit  BY <1>2, <2>2 DEF FitInv
  <2>4. ASSUME NEW d \in Data, NEW p \in BOOLEAN, NEW u \in BOOLEAN, insert(d, p, u)
        PROVE  FitInv'
    <3>1. pmLimit' = pmLimit /\ emLimit' = emLimit  BY <2>4 DEF insert, limits
    <3>2. CASE insertPrefix(d)
      <4> DEFINE t == [x \in DOMAIN table \cup {d} |-> IF x = d THEN freshUntil(d) ELSE table[x]]
                 e == evictEntries(t, Touch(queue, d), tableExact, pmLimit)
      <4>1. now \in Nat /\ PrefixTable(table, queue, now)  BY <1>2, StoreAssumption DEF StoreInv
      <4>2. PrefixTable(t, Touch(queue, d), now)  BY <4>1, AddsPrefix DEF freshUntil
      <4>3. fault' = fault \/ fault' = (fault \/ e.fault)  BY <3>2 DEF insertPrefix
      <4> HIDE DEF t
      <4>4. e.fault = FALSE  BY <2>1, <2>3, <4>2, EvictsPrefix, Zenon
      <4> HIDE DEF e
      <4>5. fault' = FALSE  BY <1>2, <4>3, <4>4, Zenon DEF FitInv
      <4> QED BY <1>2, <3>1, <4>5 DEF FitInv
    <3>3. CASE insertExact(d)  BY <1>2, <3>1, <3>3, Zenon DEF insertExact, FitInv
    <3> QED BY <2>4, <3>2, <3>3 DEF insert
  <2>5. ASSUME NEW n \in Limits, setLimit(n) PROVE FitInv'
    <3>1. n \in Nat  BY StoreAssumption
    <3>2. fault' = FALSE  BY <1>2, <2>1, <2>3, <2>5, <3>1, EvictBothStep, Zenon DEF setLimit
    <3> QED BY <1>2, <2>5, <3>2 DEF FitInv, setLimit
  <2>6. ASSUME NEW c \in ConfigLimits, reloadConfig(c[1], c[2]) PROVE FitInv'
    <3>1. limit \in Nat  BY <1>2 DEF StoreInv
    <3>2. fault' = FALSE  BY <1>2, <2>2, <2>6, <3>1, EvictBothStep, Zenon DEF reloadConfig
    <3> QED BY <2>6, <3>2 DEF FitInv, reloadConfig
  <2>7. CASE \/ \E i \in Interest : find(i)
             \/ \E p \in Prefixes, n \in Counts : erase(p, n)
             \/ \E b \in BOOLEAN : enableAdmit(b) \/ enableServe(b)
             \/ Tick
             \/ UNCHANGED vars
    <3>1. pmLimit' = pmLimit /\ emLimit' = emLimit /\ fault' = fault
      BY <2>7, Zenon DEF find, erase, enableAdmit, enableServe, Tick, vars, limits
    <3> QED BY <1>2, <3>1 DEF FitInv
  <2> QED BY <1>2, <2>4, <2>5, <2>6, <2>7 DEF Next
<1>3. FitInv => NeverEvictsFromEmpty  BY DEF FitInv, NeverEvictsFromEmpty
<1> QED BY <1>1, <1>2, <1>3, StoreInvariant, PTL DEF Spec
=============================================================================
