--------------------------- MODULE NameTreeProofs ---------------------------
(* For any names, hashes, load factors and sequence of operations, the name   *)
(* tree finds its nodes where it looks for them, loses none that a table      *)
(* needs and frees those that none needs, and a PIT token leads to the node   *)
(* of its entry.                                                              *)
EXTENDS NameTree, FiniteSetTheorems, WellFoundedInduction, TLAPS

-----------------------------------------------------------------------------
(* Numbers and sequences.                                                     *)

LEMMA LeastNumber ==
    ASSUME NEW S, S \subseteq Nat, S # {}
    PROVE  \E x \in S : \A y \in S : x <= y
<1> DEFINE R == {p \in Nat \X Nat : p[1] < p[2]}
<1>1. IsWellFoundedOn(R, Nat)  BY NatLessThanWellFounded DEF OpToRel
<1> HIDE DEF R
<1>2. PICK x \in S : \A y \in S : ~ (<<y, x>> \in R)  BY <1>1, WFMin, Zenon
<1>3. ASSUME NEW y \in S PROVE x <= y
  <2>1. x \in Nat /\ y \in Nat /\ <<y, x>> \notin R  BY <1>2
  <2>2. ~ (y < x)  BY <2>1 DEF R
  <2> QED BY <2>1, <2>2
<1> QED BY <1>3

LEMMA MinIn ==
    ASSUME NEW S, S \subseteq Nat, S # {}
    PROVE  Min(S) \in S
<1>1. \E x \in S : \A y \in S : x <= y  BY LeastNumber, Zenon
<1> QED BY <1>1, Zenon DEF Min

\* A set without a first number that is outside, up to n, has them all.
LEMMA Reaches ==
    ASSUME NEW n \in Nat, NEW S, 0 \in S,
           \A i \in 0 .. n : i < n /\ i \in S => i + 1 \in S
    PROVE  n \in S
<1> SUFFICES ASSUME n \notin S PROVE FALSE
  OBVIOUS
<1> DEFINE Bad == {i \in 0 .. n : i \notin S}
<1>1. Bad \subseteq Nat /\ Bad # {}  OBVIOUS
<1>2. PICK m \in Bad : \A i \in Bad : m <= i
  <2> HIDE DEF Bad
  <2> QED BY <1>1, LeastNumber, Zenon
<1>3. m \in 0 .. n /\ m \notin S /\ m # 0  OBVIOUS
<1>4. m - 1 \in 0 .. n /\ m - 1 < m /\ m - 1 < n /\ m - 1 + 1 = m  BY <1>3
<1>5. m - 1 \in S  BY <1>2, <1>4
<1> QED BY <1>3, <1>4, <1>5

LEMMA Prepended ==
    ASSUME NEW D, NEW s \in Seq(D), Distinct(s), NEW x \in D, x \notin ToSet(s)
    PROVE  <<x>> \o s \in Seq(D) /\ Distinct(<<x>> \o s) /\ ToSet(<<x>> \o s) = ToSet(s) \cup {x}
<1> DEFINE u == <<x>> \o s
<1>1. /\ u \in Seq(D) /\ Len(u) = Len(s) + 1 /\ Len(s) \in Nat
      /\ u[1] = x /\ \A i \in 2 .. Len(s) + 1 : u[i] = s[i - 1]
  OBVIOUS
<1> HIDE DEF u
<1>2. DOMAIN u = 1 .. Len(s) + 1 /\ DOMAIN s = 1 .. Len(s)  BY <1>1
<1>3. \A i \in 2 .. Len(s) + 1 : i - 1 \in DOMAIN s  BY <1>1, <1>2
<1>4. \A i \in DOMAIN s : i + 1 \in DOMAIN u /\ u[i + 1] = s[i]  BY <1>1, <1>2
<1>5. Distinct(u)
  <2> SUFFICES ASSUME NEW i \in DOMAIN u, NEW j \in DOMAIN u, u[i] = u[j] PROVE i = j
    BY DEF Distinct
  <2>1. CASE i = 1 /\ j = 1  BY <2>1
  <2>2. CASE i = 1 /\ j # 1
    <3>1. j \in 2 .. Len(s) + 1  BY <1>1, <1>2, <2>2
    <3> QED BY <1>1, <1>3, <2>2, <3>1 DEF ToSet
  <2>3. CASE i # 1 /\ j = 1
    <3>1. i \in 2 .. Len(s) + 1  BY <1>1, <1>2, <2>3
    <3> QED BY <1>1, <1>3, <2>3, <3>1 DEF ToSet
  <2>4. CASE i # 1 /\ j # 1
    <3>1. i \in 2 .. Len(s) + 1 /\ j \in 2 .. Len(s) + 1  BY <1>1, <1>2, <2>4
    <3>2. i - 1 = j - 1  BY <1>1, <1>3, <3>1 DEF Distinct
    <3> QED BY <3>1, <3>2
  <2> QED BY <2>1, <2>2, <2>3, <2>4
<1>6. ToSet(u) = ToSet(s) \cup {x}
  <2>1. ASSUME NEW y \in ToSet(u) PROVE y \in ToSet(s) \cup {x}
    <3>1. PICK i \in DOMAIN u : y = u[i]  BY DEF ToSet
    <3>2. CASE i = 1  BY <1>1, <3>1, <3>2
    <3>3. CASE i # 1
      <4>1. i \in 2 .. Len(s) + 1  BY <1>1, <1>2, <3>3
      <4> QED BY <1>1, <1>3, <3>1, <4>1 DEF ToSet
    <3> QED BY <3>2, <3>3
  <2>2. x \in ToSet(u)  BY <1>1, <1>2 DEF ToSet
  <2>3. ToSet(s) \subseteq ToSet(u)
    <3> SUFFICES ASSUME NEW y \in ToSet(s) PROVE y \in ToSet(u)
      OBVIOUS
    <3>1. PICK i \in DOMAIN s : y = s[i]  BY DEF ToSet
    <3> QED BY <1>4, <3>1 DEF ToSet
  <2> QED BY <2>1, <2>2, <2>3
<1> QED BY <1>1, <1>5, <1>6 DEF u

LEMMA Appended ==
    ASSUME NEW D, NEW s \in Seq(D), Distinct(s), NEW x \in D, x \notin ToSet(s)
    PROVE  Append(s, x) \in Seq(D) /\ Distinct(Append(s, x)) /\ ToSet(Append(s, x)) = ToSet(s) \cup {x}
<1> DEFINE u == Append(s, x)
<1>1. /\ u \in Seq(D) /\ Len(u) = Len(s) + 1 /\ Len(s) \in Nat
      /\ u[Len(s) + 1] = x /\ \A i \in 1 .. Len(s) : u[i] = s[i]
  OBVIOUS
<1> HIDE DEF u
<1>2. DOMAIN u = 1 .. Len(s) + 1 /\ DOMAIN s = 1 .. Len(s)  BY <1>1
<1>3. \A i \in DOMAIN u : i = Len(s) + 1 \/ i \in DOMAIN s  BY <1>1, <1>2
<1>4. Len(s) + 1 \in DOMAIN u /\ DOMAIN s \subseteq DOMAIN u  BY <1>1, <1>2
<1>5. \A i \in DOMAIN s : u[i] = s[i] /\ u[i] # x  BY <1>1, <1>2 DEF ToSet
<1>6. Distinct(u)  BY <1>1, <1>3, <1>5 DEF Distinct
<1>7. ToSet(u) = ToSet(s) \cup {x}  BY <1>1, <1>3, <1>4, <1>5, Zenon DEF ToSet
<1> QED BY <1>1, <1>6, <1>7 DEF u

LEMMA Joined ==
    ASSUME NEW D, NEW s \in Seq(D), Distinct(s), NEW u \in Seq(D), Distinct(u),
           ToSet(s) \cap ToSet(u) = {}
    PROVE  s \o u \in Seq(D) /\ Distinct(s \o u) /\ ToSet(s \o u) = ToSet(s) \cup ToSet(u)
<1> DEFINE v == s \o u
           m == Len(s)
<1>1. /\ v \in Seq(D) /\ Len(v) = m + Len(u) /\ m \in Nat /\ Len(u) \in Nat
      /\ \A i \in 1 .. m : v[i] = s[i]
      /\ \A i \in m + 1 .. m + Len(u) : v[i] = u[i - m]
  OBVIOUS
<1>2. DOMAIN v = 1 .. m + Len(u) /\ DOMAIN s = 1 .. m /\ DOMAIN u = 1 .. Len(u)  BY <1>1
<1> HIDE DEF v, m
<1>3. \A i \in DOMAIN v : i \in DOMAIN s \/ (i \in m + 1 .. m + Len(u) /\ i - m \in DOMAIN u)
  BY <1>1, <1>2
<1>4. \A i \in DOMAIN u : i + m \in DOMAIN v /\ v[i + m] = u[i]
  <2> SUFFICES ASSUME NEW i \in DOMAIN u PROVE i + m \in DOMAIN v /\ v[i + m] = u[i]
    OBVIOUS
  <2>1. i + m \in m + 1 .. m + Len(u) /\ (i + m) - m = i /\ i + m \in 1 .. m + Len(u)  BY <1>1, <1>2
  <2> QED BY <1>1, <1>2, <2>1
<1>5. \A i \in DOMAIN s : i \in DOMAIN v /\ v[i] = s[i]  BY <1>1, <1>2
<1>6. \A i \in DOMAIN s, j \in DOMAIN u : s[i] # u[j]  BY DEF ToSet
<1>7. Distinct(v)
  <2> SUFFICES ASSUME NEW i \in DOMAIN v, NEW j \in DOMAIN v, v[i] = v[j] PROVE i = j
    BY DEF Distinct
  <2>1. CASE i \in DOMAIN s /\ j \in DOMAIN s  BY <1>5, <2>1 DEF Distinct
  <2>2. CASE i \in DOMAIN s /\ j \notin DOMAIN s  BY <1>1, <1>3, <1>5, <1>6, <2>2
  <2>3. CASE i \notin DOMAIN s /\ j \in DOMAIN s  BY <1>1, <1>3, <1>5, <1>6, <2>3
  <2>4. CASE i \notin DOMAIN s /\ j \notin DOMAIN s
    <3>1. i \in m + 1 .. m + Len(u) /\ i - m \in DOMAIN u /\ j \in m + 1 .. m + Len(u) /\ j - m \in DOMAIN u
      BY <1>3, <2>4
    <3>2. i - m = j - m  BY <1>1, <3>1 DEF Distinct
    <3> QED BY <1>1, <3>1, <3>2
  <2> QED BY <2>1, <2>2, <2>3, <2>4
<1>8. ToSet(v) = ToSet(s) \cup ToSet(u)
  <2>1. ASSUME NEW y \in ToSet(v) PROVE y \in ToSet(s) \cup ToSet(u)
    <3>1. PICK i \in DOMAIN v : y = v[i]  BY DEF ToSet
    <3> QED BY <1>1, <1>3, <1>5, <3>1 DEF ToSet
  <2>2. ASSUME NEW y \in ToSet(s) PROVE y \in ToSet(v)  BY <1>5 DEF ToSet
  <2>3. ASSUME NEW y \in ToSet(u) PROVE y \in ToSet(v)
    <3>1. PICK i \in DOMAIN u : y = u[i]  BY DEF ToSet
    <3> QED BY <1>4, <3>1 DEF ToSet
  <2> QED BY <2>1, <2>2, <2>3
<1> QED BY <1>1, <1>7, <1>8 DEF v

LEMMA Removed ==
    ASSUME NEW D, NEW s \in Seq(D), Distinct(s), NEW x \in ToSet(s)
    PROVE  Remove(s, x) \in Seq(D) /\ Distinct(Remove(s, x)) /\ ToSet(Remove(s, x)) = ToSet(s) \ {x}
<1> DEFINE u == Remove(s, x)
           p == Position(s, x)
<1>1. p \in DOMAIN s /\ s[p] = x
  <2>1. \E i \in DOMAIN s : s[i] = x  BY DEF ToSet
  <2> QED BY <2>1 DEF Position
<1>2. DOMAIN s = 1 .. Len(s) /\ Len(s) \in Nat /\ \A i \in DOMAIN s : s[i] \in D  OBVIOUS
<1>3. u = [i \in 1 .. Len(s) - 1 |-> IF i < p THEN s[i] ELSE s[i + 1]]  BY DEF Remove
<1> HIDE DEF u, p
<1>4. Len(s) - 1 \in Nat /\ p \in 1 .. Len(s)  BY <1>1, <1>2
<1>5. \A i \in 1 .. Len(s) - 1 : i \in DOMAIN s /\ i + 1 \in DOMAIN s  BY <1>2, <1>4
<1>6. u \in [1 .. Len(s) - 1 -> D] /\ DOMAIN u = 1 .. Len(s) - 1  BY <1>2, <1>3, <1>5
<1>7. u \in Seq(D)  BY <1>4, <1>6
<1>8. Distinct(u)
  <2> SUFFICES ASSUME NEW i \in DOMAIN u, NEW j \in DOMAIN u, u[i] = u[j] PROVE i = j
    BY DEF Distinct
  <2>1. i \in Int /\ j \in Int  BY <1>4, <1>6
  <2>2. CASE i < p /\ j < p  BY <1>3, <1>5, <1>6, <2>2 DEF Distinct
  <2>3. CASE ~ (i < p) /\ ~ (j < p)
    <3>1. i + 1 = j + 1  BY <1>3, <1>5, <1>6, <2>3 DEF Distinct
    <3> QED BY <2>1, <3>1
  <2>4. CASE i < p /\ ~ (j < p)
    <3>1. i = j + 1  BY <1>3, <1>5, <1>6, <2>4 DEF Distinct
    <3> QED BY <1>4, <2>1, <2>4, <3>1
  <2>5. CASE ~ (i < p) /\ j < p
    <3>1. i + 1 = j  BY <1>3, <1>5, <1>6, <2>5 DEF Distinct
    <3> QED BY <1>4, <2>1, <2>5, <3>1
  <2> QED BY <2>2, <2>3, <2>4, <2>5
<1>9. ToSet(u) = ToSet(s) \ {x}
  <2>1. ASSUME NEW y \in ToSet(u) PROVE y \in ToSet(s) \ {x}
    <3>1. PICK i \in DOMAIN u : y = u[i]  BY DEF ToSet
    <3>2. CASE i < p
      <4>1. y = s[i] /\ i \in DOMAIN s /\ i # p  BY <1>3, <1>4, <1>5, <1>6, <3>1, <3>2
      <4> QED BY <1>1, <4>1 DEF ToSet, Distinct
    <3>3. CASE ~ (i < p)
      <4>1. y = s[i + 1] /\ i + 1 \in DOMAIN s /\ i + 1 # p  BY <1>3, <1>4, <1>5, <1>6, <3>1, <3>3
      <4> QED BY <1>1, <4>1 DEF ToSet, Distinct
    <3> QED BY <3>2, <3>3
  <2>2. ASSUME NEW y \in ToSet(s), y # x PROVE y \in ToSet(u)
    <3>1. PICK i \in DOMAIN s : y = s[i]  BY DEF ToSet
    <3>2. CASE i < p
      <4>1. i \in DOMAIN u /\ u[i] = y  BY <1>2, <1>3, <1>4, <1>6, <3>1, <3>2
      <4> QED BY <4>1 DEF ToSet
    <3>3. CASE ~ (i < p)
      <4>1. i > p  BY <1>1, <1>2, <1>4, <2>2, <3>1, <3>3
      <4>2. i - 1 \in 1 .. Len(s) - 1 /\ ~ (i - 1 < p) /\ i - 1 + 1 = i  BY <1>2, <1>4, <4>1
      <4>3. i - 1 \in DOMAIN u /\ u[i - 1] = y  BY <1>3, <1>6, <3>1, <4>2
      <4> QED BY <4>3 DEF ToSet
    <3> QED BY <3>2, <3>3
  <2> QED BY <2>1, <2>2
<1> QED BY <1>7, <1>8, <1>9 DEF u

LEMMA ListFinite ==
    ASSUME NEW D, NEW s \in Seq(D)
    PROVE  IsFiniteSet(ToSet(s))
<1>1. DOMAIN s = 1 .. Len(s) /\ Len(s) \in Nat /\ 1 \in Int  OBVIOUS
<1>2. IsFiniteSet(DOMAIN s)  BY <1>1, FS_Interval
<1>3. s \in Surjection(DOMAIN s, ToSet(s))  BY DEF ToSet, Surjection
<1> QED BY <1>2, <1>3, FS_Surjection

-----------------------------------------------------------------------------
(* Names.                                                                     *)

LEMMA PrefixOfPrefix ==
    ASSUME NEW n \in Seq(Component), NEW i \in 0 .. Len(n), NEW j \in 0 .. i
    PROVE  SubSeq(SubSeq(n, 1, i), 1, j) = SubSeq(n, 1, j)
<1>1. Len(n) \in Nat /\ i \in Nat /\ j \in Nat /\ i <= Len(n) /\ j <= i  OBVIOUS
<1> DEFINE p == SubSeq(n, 1, i)
<1>2. p \in Seq(Component) /\ Len(p) = i /\ \A k \in 1 .. i : p[k] = n[k]  BY <1>1
<1> HIDE DEF p
<1> DEFINE a == SubSeq(p, 1, j)
           b == SubSeq(n, 1, j)
<1>3. a \in Seq(Component) /\ Len(a) = j /\ \A k \in 1 .. j : a[k] = p[k]  BY <1>1, <1>2
<1>4. b \in Seq(Component) /\ Len(b) = j /\ \A k \in 1 .. j : b[k] = n[k]  BY <1>1
<1> HIDE DEF a, b
<1>5. \A k \in 1 .. j : a[k] = b[k]  BY <1>1, <1>2, <1>3, <1>4
<1>6. a = b  BY <1>1, <1>3, <1>4, <1>5
<1> QED BY <1>6 DEF a, b, p

\* The prefixes of a name, one above the other
LEMMA PrefixIs ==
    ASSUME NEW n \in Seq(Component), NEW i \in 0 .. Len(n)
    PROVE  /\ SubSeq(n, 1, i) \in Seq(Component) /\ Len(SubSeq(n, 1, i)) = i
           /\ i = 0 => SubSeq(n, 1, i) = <<>>
           /\ i # 0 => SubSeq(n, 1, i) # <<>> /\ Front(SubSeq(n, 1, i)) = SubSeq(n, 1, i - 1)
<1>1. Len(n) \in Nat /\ i \in Nat /\ i <= Len(n)  OBVIOUS
<1> DEFINE p == SubSeq(n, 1, i)
<1>2. p \in Seq(Component) /\ Len(p) = i  BY <1>1
<1>3. i # 0 => i - 1 \in 0 .. i  BY <1>1
<1>4. i # 0 => SubSeq(p, 1, i - 1) = SubSeq(n, 1, i - 1)  BY <1>3, PrefixOfPrefix
<1> HIDE DEF p
<1>5. Front(p) = SubSeq(p, 1, i - 1)  BY <1>2 DEF Front
<1>6. i = 0 <=> p = <<>>  BY <1>2
<1> QED BY <1>2, <1>4, <1>5, <1>6 DEF p

LEMMA WholeName ==
    ASSUME NEW n \in Seq(Component)
    PROVE  SubSeq(n, 1, Len(n)) = n /\ (n # <<>> => Front(n) = SubSeq(n, 1, Len(n) - 1) /\ Len(n) # 0)
<1>1. Len(n) \in Nat /\ n \in Seq(Component)  OBVIOUS
<1> QED BY <1>1 DEF Front

LEMMA NameIs ==
    ASSUME NEW n \in Names
    PROVE  n \in Seq(Component) /\ Prefixes(n) \subseteq Names
<1> DEFINE All == FibNames \cup PitNames \cup MeasNames \cup ChoiceNames
<1>1. PICK m \in All : n \in Prefixes(m)  BY DEF Names
<1>2. m \in Seq(Component)  BY NameTreeAssumption
<1>3. PICK i \in 0 .. Len(m) : n = SubSeq(m, 1, i)  BY <1>1 DEF Prefixes
<1>4. n \in Seq(Component) /\ Len(n) = i  BY <1>2, <1>3, PrefixIs
<1>5. ASSUME NEW p \in Prefixes(n) PROVE p \in Prefixes(m)
  <2>1. PICK j \in 0 .. i : p = SubSeq(n, 1, j)  BY <1>4 DEF Prefixes
  <2>2. p = SubSeq(m, 1, j)  BY <1>2, <1>3, <2>1, PrefixOfPrefix
  <2>3. j \in 0 .. Len(m)  BY <1>2
  <2> QED BY <2>2, <2>3 DEF Prefixes
<1>6. Prefixes(n) \subseteq Names  BY <1>5 DEF Names
<1> QED BY <1>4, <1>6

LEMMA NameInNames ==
    /\ FibNames \cup PitNames \cup MeasNames \cup ChoiceNames \subseteq Names
    /\ <<>> \in Names
<1> DEFINE All == FibNames \cup PitNames \cup MeasNames \cup ChoiceNames
<1>1. ASSUME NEW n \in All PROVE n \in Prefixes(n)
  <2>1. n \in Seq(Component)  BY NameTreeAssumption
  <2>2. Len(n) \in 0 .. Len(n) /\ SubSeq(n, 1, Len(n)) = n  BY <2>1, WholeName
  <2> QED BY <2>2, Zenon DEF Prefixes
<1>2. All \subseteq Names  BY <1>1 DEF Names
<1> QED BY <1>2, NameTreeAssumption

LEMMA FrontIn ==
    ASSUME NEW n \in Names, n # <<>>
    PROVE  /\ Front(n) \in Names /\ Front(n) # n
           /\ Len(n) \in Nat /\ Len(Front(n)) = Len(n) - 1
<1>1. n \in Seq(Component)  BY NameIs
<1>2. Front(n) = SubSeq(n, 1, Len(n) - 1) /\ Len(n) # 0 /\ Len(n) \in Nat  BY <1>1, WholeName
<1>3. Len(n) - 1 \in 0 .. Len(n)  BY <1>2
<1>4. Len(Front(n)) = Len(n) - 1  BY <1>1, <1>2, <1>3, PrefixIs, Zenon
<1>5. Front(n) \in Prefixes(n)  BY <1>2, <1>3 DEF Prefixes
<1> QED BY <1>2, <1>4, <1>5, NameIs

-----------------------------------------------------------------------------
(* The hash table: N buckets that hold the nodes S.                           *)

Table(bk, N, S) ==
    /\ N \in Nat \ {0} /\ bk \in [0 .. N - 1 -> Seq(Names)]
    /\ \A b \in 0 .. N - 1 : Distinct(bk[b]) /\ ToSet(bk[b]) = {n \in S : Hash[n] % N = b}

LEMMA CountBuckets ==
    ASSUME NEW N \in Nat, NEW bk, DOMAIN bk = 0 .. N - 1
    PROVE  Cardinality(DOMAIN bk) = N
<1>1. 0 \in Int /\ N - 1 \in Int /\ (0 > N - 1 <=> N = 0)  OBVIOUS
<1>2. Cardinality(0 .. N - 1) = IF 0 > N - 1 THEN 0 ELSE (N - 1) - 0 + 1  BY <1>1, FS_Interval
<1>3. Cardinality(0 .. N - 1) = N  BY <1>1, <1>2
<1> QED BY <1>3

LEMMA BucketIs ==
    ASSUME NEW N, NEW S, NEW bk, Table(bk, N, S), NEW n \in Names
    PROVE  BucketOf(bk, n) = Hash[n] % N /\ Hash[n] % N \in 0 .. N - 1
<1>1. N \in Nat /\ N > 0 /\ DOMAIN bk = 0 .. N - 1  BY DEF Table
<1>2. Cardinality(DOMAIN bk) = N  BY <1>1, CountBuckets
<1>3. Hash[n] \in Nat  BY NameTreeAssumption
<1>4. Hash[n] % N \in 0 .. N - 1
  <2> DEFINE h == Hash[n]
  <2>1. h \in Nat  BY <1>3
  <2> HIDE DEF h
  <2>2. h % N \in 0 .. N - 1  BY <1>1, <2>1
  <2> QED BY <2>2 DEF h
<1> QED BY <1>2, <1>4 DEF BucketOf

\* Hashtable::find
LEMMA FoundIs ==
    ASSUME NEW t, NEW N, Table(t.buckets, N, Nodes(t)), NEW n \in Names
    PROVE  Found(t, n) <=> n \in Nodes(t)
<1>1. BucketOf(t.buckets, n) = Hash[n] % N /\ Hash[n] % N \in 0 .. N - 1  BY BucketIs
<1>2. ToSet(t.buckets[Hash[n] % N]) = {m \in Nodes(t) : Hash[m] % N = Hash[n] % N}  BY <1>1 DEF Table
<1> QED BY <1>1, <1>2 DEF Found

\* Hashtable::attach
LEMMA AttachTable ==
    ASSUME NEW N, NEW S, NEW bk, Table(bk, N, S), NEW n \in Names, n \notin S
    PROVE  Table(attach(bk, n), N, S \cup {n})
<1> DEFINE c == Hash[n] % N
           list == <<n>> \o bk[c]
<1>1. c \in 0 .. N - 1 /\ BucketOf(bk, n) = c  BY BucketIs
<1>2. N \in Nat \ {0} /\ bk \in [0 .. N - 1 -> Seq(Names)]  BY DEF Table
<1>3. attach(bk, n) = [bk EXCEPT ![c] = list]  BY <1>1 DEF attach
<1>4. bk[c] \in Seq(Names) /\ Distinct(bk[c]) /\ ToSet(bk[c]) = {m \in S : Hash[m] % N = c}
  BY <1>1, <1>2 DEF Table
<1>5. n \notin ToSet(bk[c])  BY <1>4
<1>6. list \in Seq(Names) /\ Distinct(list) /\ ToSet(list) = ToSet(bk[c]) \cup {n}
  <2> DEFINE s == bk[c]
  <2>1. s \in Seq(Names) /\ Distinct(s) /\ n \notin ToSet(s)  BY <1>4, <1>5
  <2> HIDE DEF s
  <2>2. <<n>> \o s \in Seq(Names) /\ Distinct(<<n>> \o s) /\ ToSet(<<n>> \o s) = ToSet(s) \cup {n}
    BY <2>1, Prepended
  <2> QED BY <2>2 DEF s
<1> HIDE DEF list
<1>7. attach(bk, n) \in [0 .. N - 1 -> Seq(Names)]  BY <1>1, <1>2, <1>3, <1>6
<1>8. ASSUME NEW b \in 0 .. N - 1
      PROVE  /\ Distinct(attach(bk, n)[b])
             /\ ToSet(attach(bk, n)[b]) = {m \in S \cup {n} : Hash[m] % N = b}
  <2>1. CASE b = c
    <3>1. attach(bk, n)[b] = list  BY <1>1, <1>2, <1>3, <2>1
    <3>2. ToSet(list) = {m \in S \cup {n} : Hash[m] % N = c}
      BY <1>4, <1>6
    <3> QED BY <1>6, <2>1, <3>1, <3>2
  <2>2. CASE b # c
    <3>1. attach(bk, n)[b] = bk[b]  BY <1>1, <1>2, <1>3, <2>2
    <3>2. Distinct(bk[b]) /\ ToSet(bk[b]) = {m \in S : Hash[m] % N = b}  BY DEF Table
    <3> QED BY <2>2, <3>1, <3>2
  <2> QED BY <2>1, <2>2
<1> QED BY <1>2, <1>7, <1>8 DEF Table

\* Hashtable::detach, called detached in eraseNode
LEMMA DetachTable ==
    ASSUME NEW N, NEW S, NEW bk, Table(bk, N, S), NEW n \in S, n \in Names
    PROVE  Table([bk EXCEPT ![BucketOf(bk, n)] = Remove(@, n)], N, S \ {n})
<1> DEFINE c == Hash[n] % N
           list == Remove(bk[c], n)
           d == [bk EXCEPT ![c] = list]
<1>1. c \in 0 .. N - 1 /\ BucketOf(bk, n) = c  BY BucketIs
<1>2. N \in Nat \ {0} /\ bk \in [0 .. N - 1 -> Seq(Names)]  BY DEF Table
<1>3. [bk EXCEPT ![BucketOf(bk, n)] = Remove(@, n)] = d  BY <1>1
<1>4. bk[c] \in Seq(Names) /\ Distinct(bk[c]) /\ ToSet(bk[c]) = {m \in S : Hash[m] % N = c}
  BY <1>1, <1>2 DEF Table
<1>5. n \in ToSet(bk[c])  BY <1>4
<1>6. list \in Seq(Names) /\ Distinct(list) /\ ToSet(list) = ToSet(bk[c]) \ {n}  BY <1>4, <1>5, Removed
<1> HIDE DEF list
<1>7. d \in [0 .. N - 1 -> Seq(Names)]  BY <1>1, <1>2, <1>6
<1>8. ASSUME NEW b \in 0 .. N - 1
      PROVE  Distinct(d[b]) /\ ToSet(d[b]) = {m \in S \ {n} : Hash[m] % N = b}
  <2>1. CASE b = c
    <3>1. d[b] = list  BY <1>1, <1>2, <2>1
    <3>2. ToSet(list) = {m \in S \ {n} : Hash[m] % N = c}  BY <1>4, <1>6
    <3> QED BY <1>6, <2>1, <3>1, <3>2
  <2>2. CASE b # c
    <3>1. d[b] = bk[b]  BY <1>1, <1>2, <2>2
    <3>2. Distinct(bk[b]) /\ ToSet(bk[b]) = {m \in S : Hash[m] % N = b}  BY DEF Table
    <3> QED BY <2>2, <3>1, <3>2
  <2> QED BY <2>1, <2>2
<1> HIDE DEF d
<1>9. Table(d, N, S \ {n})  BY <1>2, <1>7, <1>8 DEF Table
<1> QED BY <1>3, <1>9, Zenon

\* FullEnumerationImpl goes from bucket to bucket.
Joining(f, bk, n) ==
    f = [i \in 0 .. n |-> IF i = 0 THEN <<>> ELSE f[i - 1] \o bk[i - 1]]

LEMMA JoiningExists ==
    ASSUME NEW bk, NEW N \in Nat
    PROVE  \E f : Joining(f, bk, N)
<1> DEFINE Has(n) == \E f : Joining(f, bk, n)
           S == {n \in Nat : Has(n)}
           Op(a, i) == a \o bk[i - 1]
<1>1. Has(0)
  <2> DEFINE g == [i \in 0 .. 0 |-> <<>>]
  <2>1. g = [i \in 0 .. 0 |-> IF i = 0 THEN <<>> ELSE Op(g[i - 1], i)]  OBVIOUS
  <2> QED BY <2>1, Zenon DEF Joining
<1>2. ASSUME NEW n \in Nat, Has(n) PROVE Has(n + 1)
  <2>0. PICK f : Joining(f, bk, n)  BY <1>2
  <2>1. f = [i \in 0 .. n |-> IF i = 0 THEN <<>> ELSE Op(f[i - 1], i)]  BY <2>0 DEF Joining
  <2> HIDE DEF Op
  <2> DEFINE g == [i \in 0 .. n + 1 |-> IF i <= n THEN f[i] ELSE Op(f[n], n + 1)]
  <2>2. ASSUME NEW i \in 0 .. n + 1 PROVE g[i] = IF i = 0 THEN <<>> ELSE Op(g[i - 1], i)
    <3>1. CASE i = 0  BY <2>1, <3>1
    <3>2. CASE i # 0 /\ i <= n
      <4>1. i - 1 \in 0 .. n /\ i \in 0 .. n /\ i - 1 <= n /\ i - 1 \in 0 .. n + 1  BY <3>2
      <4>2. g[i] = f[i] /\ g[i - 1] = f[i - 1]  BY <3>2, <4>1
      <4>3. f[i] = Op(f[i - 1], i)  BY <2>1, <3>2, <4>1
      <4> QED BY <3>2, <4>2, <4>3
    <3>3. CASE i = n + 1
      <4>1. n \in 0 .. n + 1 /\ n <= n /\ i - 1 = n /\ ~ (i <= n) /\ i # 0  BY <3>3
      <4> QED BY <3>3, <4>1
    <3> QED BY <3>1, <3>2, <3>3
  <2>3. g = [i \in 0 .. n + 1 |-> IF i = 0 THEN <<>> ELSE Op(g[i - 1], i)]  BY <2>2
  <2> HIDE DEF g
  <2>4. Joining(g, bk, n + 1)  BY <2>3, Zenon DEF Joining, Op
  <2> QED BY <2>4
<1> HIDE DEF Has
<1>3. 0 \in S /\ \A i \in 0 .. N : i < N /\ i \in S => i + 1 \in S  BY <1>1, <1>2
<1>4. N \in S
  <2> HIDE DEF S
  <2> QED BY <1>3, Reaches
<1> QED BY <1>4 DEF Has

LEMMA EnumerationIs ==
    ASSUME NEW N, NEW S, S \subseteq Names, NEW bk, Table(bk, N, S)
    PROVE  /\ Enumeration(bk) \in Seq(Names) /\ Distinct(Enumeration(bk))
           /\ ToSet(Enumeration(bk)) = S
<1> DEFINE F == CHOOSE f : Joining(f, bk, N)
           Below(i) == {n \in S : Hash[n] % N < i}
           P(i) == F[i] \in Seq(Names) /\ Distinct(F[i]) /\ ToSet(F[i]) = Below(i)
           I == {i \in 0 .. N : P(i)}
<1>0. N \in Nat /\ N # 0 /\ bk \in [0 .. N - 1 -> Seq(Names)]  BY DEF Table
<1>1. Cardinality(DOMAIN bk) = N  BY <1>0, CountBuckets
<1>2. Enumeration(bk) = F[N]  BY <1>1, Zenon DEF Enumeration, Joining
<1>3. \E f : Joining(f, bk, N)  BY <1>0, JoiningExists, Zenon
<1>4. Joining(F, bk, N)  BY <1>3
<1> HIDE DEF F
<1>5. \A n \in S : Hash[n] % N \in 0 .. N - 1  BY BucketIs
<1>6. 0 \in I
  <2>1. F[0] = <<>>  BY <1>0, <1>4 DEF Joining
  <2>2. <<>> \in Seq(Names) /\ Distinct(<<>>) /\ ToSet(<<>>) = {}  BY DEF Distinct, ToSet
  <2>3. Below(0) = {}  BY <1>0, <1>5
  <2> HIDE DEF Below
  <2>4. P(0)  BY <2>1, <2>2, <2>3
  <2>5. 0 \in 0 .. N  BY <1>0
  <2> HIDE DEF P
  <2> QED BY <2>4, <2>5
<1>7. ASSUME NEW i \in 0 .. N, i < N, i \in I PROVE i + 1 \in I
  <2>00. i < N  BY <1>7
  <2>0. i + 1 \in 0 .. N /\ i + 1 # 0 /\ i + 1 - 1 = i /\ i \in 0 .. N - 1
    <3> HIDE DEF I
    <3> QED BY <1>0, <2>00
  <2>1. F[i + 1] = F[i] \o bk[i]
    <3> HIDE DEF I, P, Below
    <3> DEFINE Longer(a, j) == a \o bk[j - 1]
    <3>1. F = [j \in 0 .. N |-> IF j = 0 THEN <<>> ELSE Longer(F[j - 1], j)]  BY <1>4, Zenon DEF Joining
    <3> HIDE DEF Longer
    <3>2. F[i + 1] = Longer(F[i], i + 1)  BY <2>0, <3>1
    <3>3. (i + 1) - 1 = i  BY <2>0
    <3>4. F[i + 1] = F[i] \o bk[(i + 1) - 1]  BY <3>2, Zenon DEF Longer
    <3> QED BY <3>3, <3>4, Zenon
  <2>2. P(i)  BY <1>7
  <2>3. bk[i] \in Seq(Names) /\ Distinct(bk[i]) /\ ToSet(bk[i]) = {n \in S : Hash[n] % N = i}
    BY <1>0, <2>0 DEF Table
  <2>4. Below(i) \cap {n \in S : Hash[n] % N = i} = {}  BY <1>0, <1>5
  <2>5. Below(i) \cup {n \in S : Hash[n] % N = i} = Below(i + 1)
    <3>1. \A n \in S : Hash[n] % N < i + 1 <=> (Hash[n] % N < i \/ Hash[n] % N = i)
      <4> SUFFICES ASSUME NEW n \in S PROVE Hash[n] % N < i + 1 <=> (Hash[n] % N < i \/ Hash[n] % N = i)
        OBVIOUS
      <4> DEFINE h == Hash[n] % N
      <4>1. h \in Int  BY <1>0, <1>5
      <4> HIDE DEF h
      <4>2. h < i + 1 <=> (h < i \/ h = i)  BY <2>0, <4>1
      <4> QED BY <4>2 DEF h
    <3> QED BY <3>1
  <2> HIDE DEF Below
  <2>6. ToSet(F[i]) \cap ToSet(bk[i]) = {}  BY <2>2, <2>3, <2>4
  <2>7. /\ F[i] \o bk[i] \in Seq(Names) /\ Distinct(F[i] \o bk[i])
        /\ ToSet(F[i] \o bk[i]) = ToSet(F[i]) \cup ToSet(bk[i])
    BY <2>2, <2>3, <2>6, Joined
  <2> QED BY <2>0, <2>1, <2>2, <2>3, <2>5, <2>7, Zenon
<1>8. N \in I
  <2> HIDE DEF I
  <2> QED BY <1>0, <1>6, <1>7, Reaches
<1>9. Below(N) = S  BY <1>0, <1>5
<1> QED BY <1>2, <1>8, <1>9, Zenon

\* Hashtable::resize moves node by node.
Moving(f, all, m, n) ==
    f = [i \in 0 .. n |-> IF i = 0 THEN [b \in 0 .. m - 1 |-> <<>>] ELSE attach(f[i - 1], all[i])]

LEMMA MovingExists ==
    ASSUME NEW all, NEW m, NEW N \in Nat
    PROVE  \E f : Moving(f, all, m, N)
<1> DEFINE Has(n) == \E f : Moving(f, all, m, n)
           S == {n \in Nat : Has(n)}
           Op(a, i) == attach(a, all[i])
<1>1. Has(0)
  <2> DEFINE g == [i \in 0 .. 0 |-> [b \in 0 .. m - 1 |-> <<>>]]
  <2>1. g = [i \in 0 .. 0 |-> IF i = 0 THEN [b \in 0 .. m - 1 |-> <<>>] ELSE Op(g[i - 1], i)]  OBVIOUS
  <2> QED BY <2>1, Zenon DEF Moving
<1>2. ASSUME NEW n \in Nat, Has(n) PROVE Has(n + 1)
  <2>0. PICK f : Moving(f, all, m, n)  BY <1>2
  <2>1. f = [i \in 0 .. n |-> IF i = 0 THEN [b \in 0 .. m - 1 |-> <<>>] ELSE Op(f[i - 1], i)]  BY <2>0, Zenon DEF Moving
  <2> HIDE DEF Op
  <2> DEFINE g == [i \in 0 .. n + 1 |-> IF i <= n THEN f[i] ELSE Op(f[n], n + 1)]
  <2>2. ASSUME NEW i \in 0 .. n + 1 PROVE g[i] = IF i = 0 THEN [b \in 0 .. m - 1 |-> <<>>] ELSE Op(g[i - 1], i)
    <3>1. CASE i = 0  BY <2>1, <3>1
    <3>2. CASE i # 0 /\ i <= n
      <4>1. i - 1 \in 0 .. n /\ i \in 0 .. n /\ i - 1 <= n /\ i - 1 \in 0 .. n + 1  BY <3>2
      <4>2. g[i] = f[i] /\ g[i - 1] = f[i - 1]  BY <3>2, <4>1
      <4>3. f[i] = Op(f[i - 1], i)  BY <2>1, <3>2, <4>1, Zenon
      <4> QED BY <3>2, <4>2, <4>3
    <3>3. CASE i = n + 1
      <4>1. n \in 0 .. n + 1 /\ n <= n /\ i - 1 = n /\ ~ (i <= n) /\ i # 0  BY <3>3
      <4> QED BY <3>3, <4>1
    <3> QED BY <3>1, <3>2, <3>3
  <2>3. g = [i \in 0 .. n + 1 |-> IF i = 0 THEN [b \in 0 .. m - 1 |-> <<>>] ELSE Op(g[i - 1], i)]  BY <2>2, Zenon
  <2> HIDE DEF g
  <2>4. Moving(g, all, m, n + 1)  BY <2>3, Zenon DEF Moving, Op
  <2> QED BY <2>4
<1> HIDE DEF Has
<1>3. 0 \in S /\ \A i \in 0 .. N : i < N /\ i \in S => i + 1 \in S  BY <1>1, <1>2
<1>4. N \in S
  <2> HIDE DEF S
  <2> QED BY <1>3, Reaches
<1> QED BY <1>4 DEF Has

LEMMA ResizeTable ==
    ASSUME NEW N, NEW S, S \subseteq Names, NEW bk, Table(bk, N, S), NEW m \in Nat \ {0}
    PROVE  Table(resize(bk, m), m, S)
<1> DEFINE all == Enumeration(bk)
           L == Len(all)
           F == CHOOSE f : Moving(f, all, m, L)
           Before(i) == {all[j] : j \in 1 .. i}
           I == {i \in 0 .. L : Table(F[i], m, Before(i))}
<1>0. N \in Nat /\ DOMAIN bk = 0 .. N - 1  BY DEF Table
<1>1. Cardinality(DOMAIN bk) = N  BY <1>0, CountBuckets
<1>2. CASE m = N
  <2>1. resize(bk, m) = bk  BY <1>1, <1>2 DEF resize
  <2> QED BY <1>2, <2>1
<1>3. CASE m # N
  <2>0. all \in Seq(Names) /\ Distinct(all) /\ ToSet(all) = S  BY EnumerationIs
  <2>1. resize(bk, m) = F[L]  BY <1>1, <1>3 DEF resize, Moving
  <2> HIDE DEF all
  <2>2. L \in Nat /\ DOMAIN all = 1 .. L /\ \A i \in 1 .. L : all[i] \in Names  BY <2>0
  <2> HIDE DEF L
  <2>3. \E f : Moving(f, all, m, L)  BY <2>2, MovingExists
  <2>4. Moving(F, all, m, L)  BY <2>3
  <2> HIDE DEF F
  <2>5. 0 \in I
    <3>1. F[0] = [b \in 0 .. m - 1 |-> <<>>]  BY <2>2, <2>4 DEF Moving
    <3>2. <<>> \in Seq(Names) /\ Distinct(<<>>) /\ ToSet(<<>>) = {}  BY DEF Distinct, ToSet
    <3>3. Before(0) = {}  OBVIOUS
    <3> HIDE DEF Before
    <3>4. Table(F[0], m, Before(0))  BY <3>1, <3>2, <3>3 DEF Table
    <3> QED BY <2>2, <3>4
  <2>6. ASSUME NEW i \in 0 .. L, i < L, i \in I PROVE i + 1 \in I
    <3>0. i + 1 \in 0 .. L /\ i + 1 # 0 /\ i + 1 - 1 = i /\ i + 1 \in 1 .. L  BY <2>2, <2>6
    <3>1. F[i + 1] = attach(F[i], all[i + 1])  BY <2>4, <3>0 DEF Moving
    <3>2. all[i + 1] \in Names /\ \A j \in 1 .. i : j \in DOMAIN all /\ j # i + 1  BY <2>2, <3>0
    <3>3. all[i + 1] \notin Before(i)  BY <2>0, <2>2, <3>0, <3>2 DEF Distinct
    <3>4. Before(i + 1) = Before(i) \cup {all[i + 1]}
      <4>1. \A j \in 1 .. i + 1 : j \in 1 .. i \/ j = i + 1  BY <3>0
      <4>2. \A j \in 1 .. i : j \in 1 .. i + 1  BY <3>0
      <4>3. i + 1 \in 1 .. i + 1  BY <3>0
      <4> QED BY <4>1, <4>2, <4>3, Zenon
    <3>5. Table(F[i], m, Before(i))  BY <2>6
    <3> HIDE DEF Before
    <3>6. Table(attach(F[i], all[i + 1]), m, Before(i) \cup {all[i + 1]})  BY <3>2, <3>3, <3>5, AttachTable
    <3> QED BY <3>0, <3>1, <3>4, <3>6, Zenon
  <2>7. L \in I
    <3> HIDE DEF I
    <3> QED BY <2>2, <2>5, <2>6, Reaches
  <2>8. Before(L) = S  BY <2>0, <2>2 DEF ToSet
  <2> HIDE DEF Before
  <2> QED BY <2>1, <2>7, <2>8
<1> QED BY <1>2, <1>3

-----------------------------------------------------------------------------
(* The tree: each node is in the list of the node above it, which is there.   *)

ChildrenIn(S, n) == {m \in S : m # <<>> /\ Front(m) = n}

Family(ch) ==
    /\ DOMAIN ch \subseteq Names /\ ch \in [DOMAIN ch -> Seq(Names)]
    /\ \A n \in DOMAIN ch :
          /\ Distinct(ch[n]) /\ ToSet(ch[n]) = ChildrenIn(DOMAIN ch, n)
          /\ n # <<>> => Front(n) \in DOMAIN ch

Good(t) == /\ \E N : Table(t.buckets, N, Nodes(t))
           /\ Family(t.children)

LEMMA GoodNodes ==
    ASSUME NEW t, Good(t)
    PROVE  Nodes(t) \subseteq Names /\ DOMAIN t.children = Nodes(t)
BY DEF Good, Family, Nodes

LEMMA NoRepeats == <<>> \in Seq(Names) /\ Distinct(<<>>) /\ ToSet(<<>>) = {}
BY DEF Distinct, ToSet

LEMMA NothingIn ==
    ASSUME NEW s \in Seq(Names)
    PROVE  s = <<>> <=> ToSet(s) = {}
<1>1. DOMAIN s = 1 .. Len(s) /\ Len(s) \in Nat  OBVIOUS
<1>2. CASE s = <<>>  BY <1>2, NoRepeats
<1>3. CASE s # <<>>
  <2>1. Len(s) # 0  BY <1>3
  <2>2. 1 \in DOMAIN s  BY <1>1, <2>1
  <2> QED BY <1>3, <2>2 DEF ToSet
<1> QED BY <1>2, <1>3

\* The list of a new node's parent, and its own
LEMMA InsertFamily ==
    ASSUME NEW ch, Family(ch), NEW n \in Names, n \notin DOMAIN ch,
           n # <<>> => Front(n) \in DOMAIN ch
    PROVE  LET family == IF n = <<>> THEN ch ELSE [ch EXCEPT ![Front(n)] = Append(@, n)]
           IN  Family(Put(family, n, <<>>)) /\ DOMAIN Put(family, n, <<>>) = DOMAIN ch \cup {n}
<1> DEFINE S == DOMAIN ch
           family == IF n = <<>> THEN ch ELSE [ch EXCEPT ![Front(n)] = Append(@, n)]
           r == Put(family, n, <<>>)
<1>1. S \subseteq Names /\ ch \in [S -> Seq(Names)]  BY DEF Family
<1>2. DOMAIN family = S  OBVIOUS
<1>3. /\ DOMAIN r = S \cup {n} /\ r[n] = <<>>
      /\ \A x \in S : r[x] = IF n # <<>> /\ x = Front(n) THEN Append(ch[x], n) ELSE ch[x]
  BY <1>1, <1>2 DEF Put
<1> HIDE DEF family, r
<1>4. ChildrenIn(S \cup {n}, n) = {}
  <2> SUFFICES ASSUME NEW m \in ChildrenIn(S \cup {n}, n) PROVE FALSE
    BY Zenon
  <2>1. m \in S \cup {n} /\ m # <<>> /\ Front(m) = n  BY DEF ChildrenIn
  <2>2. m # n  BY <2>1, FrontIn
  <2>3. Front(m) \in S  BY <2>1, <2>2 DEF Family
  <2> QED BY <2>1, <2>3
<1>5. ASSUME NEW x \in S
      PROVE  /\ r[x] \in Seq(Names) /\ Distinct(r[x]) /\ ToSet(r[x]) = ChildrenIn(S \cup {n}, x)
             /\ x # <<>> => Front(x) \in S \cup {n}
  <2>1. /\ ch[x] \in Seq(Names) /\ Distinct(ch[x]) /\ ToSet(ch[x]) = ChildrenIn(S, x)
        /\ x # <<>> => Front(x) \in S
    BY <1>1 DEF Family
  <2>2. CASE n # <<>> /\ x = Front(n)
    <3>1. n \notin ToSet(ch[x])  BY <2>1 DEF ChildrenIn
    <3> DEFINE s == ch[x]
    <3>2. s \in Seq(Names) /\ Distinct(s) /\ n \notin ToSet(s)  BY <2>1, <3>1
    <3>3. r[x] = Append(s, n)  BY <1>3, <2>2
    <3>4. ToSet(s) = ChildrenIn(S, x)  BY <2>1
    <3> HIDE DEF s
    <3>5. /\ Append(s, n) \in Seq(Names) /\ Distinct(Append(s, n))
          /\ ToSet(Append(s, n)) = ToSet(s) \cup {n}
      BY <3>2, Appended
    <3>6. ChildrenIn(S \cup {n}, x) = ChildrenIn(S, x) \cup {n}  BY <2>2 DEF ChildrenIn
    <3> QED BY <2>1, <3>3, <3>4, <3>5, <3>6, Zenon
  <2>3. CASE ~ (n # <<>> /\ x = Front(n))
    <3>1. r[x] = ch[x]  BY <1>3, <2>3
    <3>2. ChildrenIn(S \cup {n}, x) = ChildrenIn(S, x)  BY <2>3 DEF ChildrenIn
    <3> QED BY <2>1, <3>1, <3>2
  <2> QED BY <2>2, <2>3
<1>6. ASSUME NEW x \in S \cup {n}
      PROVE  /\ r[x] \in Seq(Names) /\ Distinct(r[x]) /\ ToSet(r[x]) = ChildrenIn(S \cup {n}, x)
             /\ x # <<>> => Front(x) \in S \cup {n}
  <2>1. CASE x = n  BY <1>3, <1>4, <2>1, NoRepeats, Zenon
  <2>2. CASE x # n  BY <1>5, <2>2, Zenon
  <2> QED BY <2>1, <2>2
<1>7. r \in [S \cup {n} -> Seq(Names)]
  <2>1. r = [x \in S \cup {n} |-> r[x]]  BY <1>3, Zenon DEF r, Put
  <2> QED BY <1>6, <2>1, Zenon
<1>8. Family(r)  BY <1>1, <1>3, <1>6, <1>7 DEF Family
<1> QED BY <1>3, <1>8 DEF r, family

\* Entry::unsetParent
LEMMA EraseFamily ==
    ASSUME NEW ch, Family(ch), NEW n \in DOMAIN ch, ch[n] = <<>>
    PROVE  Family([m \in DOMAIN ch \ {n} |-> IF m = Front(n) THEN Remove(ch[m], n) ELSE ch[m]])
<1> DEFINE S == DOMAIN ch
           r == [m \in S \ {n} |-> IF m = Front(n) THEN Remove(ch[m], n) ELSE ch[m]]
<1>1. S \subseteq Names /\ ch \in [S -> Seq(Names)] /\ n \in Names  BY DEF Family
<1>2. ChildrenIn(S, n) = {}  BY NoRepeats DEF Family
<1>3. ASSUME NEW x \in S \ {n}
      PROVE  /\ r[x] \in Seq(Names) /\ Distinct(r[x]) /\ ToSet(r[x]) = ChildrenIn(S \ {n}, x)
             /\ x # <<>> => Front(x) \in S \ {n}
  <2>1. /\ ch[x] \in Seq(Names) /\ Distinct(ch[x]) /\ ToSet(ch[x]) = ChildrenIn(S, x)
        /\ x # <<>> => Front(x) \in S
    BY <1>1 DEF Family
  <2>2. x # <<>> => Front(x) # n  BY <1>2 DEF ChildrenIn
  <2>3. CASE x = Front(n)
    <3>1. n # <<>>
      <4>1. Front(<<>>) = <<>>  BY DEF Front
      <4> QED BY <2>3, <4>1
    <3>2. n \in ToSet(ch[x])  BY <2>1, <2>3, <3>1 DEF ChildrenIn
    <3>3. r[x] = Remove(ch[x], n)  BY <2>3
    <3>4. /\ Remove(ch[x], n) \in Seq(Names) /\ Distinct(Remove(ch[x], n))
          /\ ToSet(Remove(ch[x], n)) = ToSet(ch[x]) \ {n}
      BY <2>1, <3>2, Removed
    <3>5. ChildrenIn(S \ {n}, x) = ChildrenIn(S, x) \ {n}  BY DEF ChildrenIn
    <3> HIDE DEF r
    <3> QED BY <2>1, <2>2, <3>3, <3>4, <3>5, Zenon
  <2>4. CASE x # Front(n)
    <3>1. r[x] = ch[x]  BY <2>4
    <3>2. ChildrenIn(S \ {n}, x) = ChildrenIn(S, x)  BY <2>4 DEF ChildrenIn
    <3> HIDE DEF r
    <3> QED BY <2>1, <2>2, <3>1, <3>2
  <2> QED BY <2>3, <2>4
<1>4. DOMAIN r = S \ {n}  OBVIOUS
<1>5. r \in [S \ {n} -> Seq(Names)]
  <2>1. r = [x \in S \ {n} |-> r[x]]  OBVIOUS
  <2> HIDE DEF r
  <2> QED BY <1>3, <2>1
<1> HIDE DEF r
<1>6. Family(r)  BY <1>1, <1>3, <1>4, <1>5, Zenon DEF Family
<1> QED BY <1>6 DEF r

\* Hashtable::findOrInsert, and setParent
LEMMA InsertGood ==
    ASSUME NEW t, Good(t), NEW n \in Names, n # <<>> => Front(n) \in Nodes(t)
    PROVE  Good(findOrInsert(t, n)) /\ Nodes(findOrInsert(t, n)) = Nodes(t) \cup {n}
<1>1. PICK N : Table(t.buckets, N, Nodes(t))  BY DEF Good
<1>2. CASE n \in Nodes(t)
  <2>1. Found(t, n)  BY <1>1, <1>2, FoundIs, Zenon
  <2>2. findOrInsert(t, n) = t  BY <2>1 DEF findOrInsert
  <2> QED BY <1>2, <2>2
<1>3. CASE n \notin Nodes(t)
  <2> DEFINE r == findOrInsert(t, n)
             attached == attach(t.buckets, n)
             ch == t.children
             family == IF n = <<>> THEN ch ELSE [ch EXCEPT ![Front(n)] = Append(@, n)]
             grows == Cardinality(Nodes(t)) + 1 > (expandLoadFactor * N) \div 100
  <2>1. ~ Found(t, n)  BY <1>1, <1>3, FoundIs, Zenon
  <2>2. N \in Nat \ {0} /\ DOMAIN t.buckets = 0 .. N - 1  BY <1>1 DEF Table
  <2>3. Cardinality(DOMAIN t.buckets) = N  BY <2>2, CountBuckets, Zenon
  <2>4. r = [buckets |-> IF grows THEN resize(attached, expandFactor * N) ELSE attached,
             children |-> Put(family, n, <<>>)]
    BY <2>1, <2>3 DEF findOrInsert
  <2>5. Family(Put(family, n, <<>>)) /\ DOMAIN Put(family, n, <<>>) = DOMAIN ch \cup {n}
    <3>1. Family(ch) /\ n \notin DOMAIN ch /\ (n # <<>> => Front(n) \in DOMAIN ch)
      BY <1>3 DEF Good, Nodes
    <3> HIDE DEF ch
    <3> QED BY <3>1, InsertFamily, Zenon
  <2>6. Table(attached, N, Nodes(t) \cup {n})  BY <1>1, <1>3, AttachTable
  <2>7. expandFactor * N \in Nat \ {0}  BY <2>2, NameTreeAssumption
  <2>8. Nodes(t) \cup {n} \subseteq Names  BY GoodNodes
  <2>9. Table(resize(attached, expandFactor * N), expandFactor * N, Nodes(t) \cup {n})
    <3> HIDE DEF attached
    <3> QED BY <2>6, <2>7, <2>8, ResizeTable
  <2> HIDE DEF r, attached, family, grows
  <2>10. \E M : Table(r.buckets, M, Nodes(t) \cup {n})
    <3>1. CASE grows
      <4>1. r.buckets = resize(attached, expandFactor * N)  BY <2>4, <3>1
      <4> QED BY <2>9, <4>1
    <3>2. CASE ~ grows
      <4>1. r.buckets = attached  BY <2>4, <3>2
      <4> QED BY <2>6, <4>1
    <3> QED BY <3>1, <3>2, Zenon
  <2>11. r.children = Put(family, n, <<>>)  BY <2>4
  <2>12. Nodes(r) = Nodes(t) \cup {n}  BY <2>5, <2>11 DEF Nodes
  <2>13. Good(r)  BY <2>5, <2>10, <2>11, <2>12 DEF Good
  <2> QED BY <2>12, <2>13 DEF r
<1> QED BY <1>2, <1>3

\* Entry::unsetParent and Hashtable::erase
LEMMA EraseGood ==
    ASSUME NEW t, Good(t), NEW n \in Nodes(t), t.children[n] = <<>>
    PROVE  Good(eraseNode(t, n)) /\ Nodes(eraseNode(t, n)) = Nodes(t) \ {n}
<1>1. PICK N : Table(t.buckets, N, Nodes(t))  BY DEF Good
<1> DEFINE r == eraseNode(t, n)
           detached == [t.buckets EXCEPT ![BucketOf(t.buckets, n)] = Remove(@, n)]
           shrinks == Cardinality(Nodes(t)) - 1 < (shrinkLoadFactor * N) \div 100
           smaller == N \div shrinkDivisor
           size == IF smaller < MinBuckets THEN MinBuckets ELSE smaller
           ch == [m \in Nodes(t) \ {n} |-> IF m = Front(n) THEN Remove(t.children[m], n) ELSE t.children[m]]
<1>2. N \in Nat \ {0} /\ DOMAIN t.buckets = 0 .. N - 1  BY <1>1 DEF Table
<1>3. Cardinality(DOMAIN t.buckets) = N  BY <1>2, CountBuckets
<1>4. r = [buckets |-> IF shrinks THEN resize(detached, size) ELSE detached, children |-> ch]
  BY <1>3 DEF eraseNode
<1>5. Nodes(t) \subseteq Names /\ n \in Names /\ Nodes(t) \ {n} \subseteq Names  BY GoodNodes
<1>6. Table(detached, N, Nodes(t) \ {n})  BY <1>1, <1>5, DetachTable
<1>7. size \in Nat \ {0}
  <2>1. smaller \in Nat
    <3>1. shrinkDivisor \in Nat /\ shrinkDivisor > 0 /\ N \in Nat  BY <1>2, NameTreeAssumption
    <3> QED BY <3>1
  <2>2. MinBuckets \in Nat /\ MinBuckets > 0  BY NameTreeAssumption
  <2> HIDE DEF smaller
  <2> QED BY <2>1, <2>2
<1>8. Table(resize(detached, size), size, Nodes(t) \ {n})
  <2> HIDE DEF detached, size
  <2> QED BY <1>5, <1>6, <1>7, ResizeTable
<1>9. Family(ch)
  <2> DEFINE c == t.children
  <2>1. Family(c) /\ n \in DOMAIN c /\ c[n] = <<>>  BY DEF Good, Nodes
  <2>2. ch = [m \in DOMAIN c \ {n} |-> IF m = Front(n) THEN Remove(c[m], n) ELSE c[m]]  BY DEF Nodes
  <2> HIDE DEF c, ch
  <2> QED BY <2>1, <2>2, EraseFamily
<1>10. DOMAIN ch = Nodes(t) \ {n}  OBVIOUS
<1> HIDE DEF r, detached, shrinks, size, ch
<1>11. \E M : Table(r.buckets, M, Nodes(t) \ {n})
  <2>1. CASE shrinks
    <3>1. r.buckets = resize(detached, size)  BY <1>4, <2>1
    <3> QED BY <1>8, <3>1
  <2>2. CASE ~ shrinks
    <3>1. r.buckets = detached  BY <1>4, <2>2
    <3> QED BY <1>6, <3>1
  <2> QED BY <2>1, <2>2, Zenon
<1>12. r.children = ch  BY <1>4
<1>13. Nodes(r) = Nodes(t) \ {n}  BY <1>10, <1>12 DEF Nodes
<1>14. Good(r)  BY <1>9, <1>11, <1>12, <1>13 DEF Good
<1> QED BY <1>13, <1>14 DEF r

-----------------------------------------------------------------------------
(* NameTree::lookup and the erasure of nodes in some order.                   *)

\* NameTree::lookup goes down from the root.
Descending(f, t, name, n) ==
    f = [i \in 0 .. n |-> IF i = 0 THEN t ELSE findOrInsert(f[i - 1], SubSeq(name, 1, i - 1))]

LEMMA DescendingExists ==
    ASSUME NEW t, NEW name, NEW N \in Nat
    PROVE  \E f : Descending(f, t, name, N)
<1> DEFINE Has(n) == \E f : Descending(f, t, name, n)
           S == {n \in Nat : Has(n)}
           Op(a, i) == findOrInsert(a, SubSeq(name, 1, i - 1))
<1>1. Has(0)
  <2> DEFINE g == [i \in 0 .. 0 |-> t]
  <2>1. g = [i \in 0 .. 0 |-> IF i = 0 THEN t ELSE Op(g[i - 1], i)]  OBVIOUS
  <2> QED BY <2>1, Zenon DEF Descending
<1>2. ASSUME NEW n \in Nat, Has(n) PROVE Has(n + 1)
  <2>0. PICK f : Descending(f, t, name, n)  BY <1>2
  <2>1. f = [i \in 0 .. n |-> IF i = 0 THEN t ELSE Op(f[i - 1], i)]  BY <2>0 DEF Descending
  <2> HIDE DEF Op
  <2> DEFINE g == [i \in 0 .. n + 1 |-> IF i <= n THEN f[i] ELSE Op(f[n], n + 1)]
  <2>2. ASSUME NEW i \in 0 .. n + 1 PROVE g[i] = IF i = 0 THEN t ELSE Op(g[i - 1], i)
    <3>1. CASE i = 0  BY <2>1, <3>1
    <3>2. CASE i # 0 /\ i <= n
      <4>1. i - 1 \in 0 .. n /\ i \in 0 .. n /\ i - 1 <= n /\ i - 1 \in 0 .. n + 1  BY <3>2
      <4>2. g[i] = f[i] /\ g[i - 1] = f[i - 1]  BY <3>2, <4>1
      <4>3. f[i] = Op(f[i - 1], i)  BY <2>1, <3>2, <4>1
      <4> QED BY <3>2, <4>2, <4>3
    <3>3. CASE i = n + 1
      <4>1. n \in 0 .. n + 1 /\ n <= n /\ i - 1 = n /\ ~ (i <= n) /\ i # 0  BY <3>3
      <4> QED BY <3>3, <4>1
    <3> QED BY <3>1, <3>2, <3>3
  <2>3. g = [i \in 0 .. n + 1 |-> IF i = 0 THEN t ELSE Op(g[i - 1], i)]  BY <2>2
  <2> HIDE DEF g
  <2>4. Descending(g, t, name, n + 1)  BY <2>3 DEF Descending, Op
  <2> QED BY <2>4
<1> HIDE DEF Has
<1>3. 0 \in S /\ \A i \in 0 .. N : i < N /\ i \in S => i + 1 \in S  BY <1>1, <1>2
<1>4. N \in S
  <2> HIDE DEF S
  <2> QED BY <1>3, Reaches
<1> QED BY <1>4 DEF Has

LEMMA LookupGood ==
    ASSUME NEW t, Good(t), NEW name \in Names
    PROVE  Good(lookup(t, name)) /\ Nodes(lookup(t, name)) = Nodes(t) \cup Prefixes(name)
<1> DEFINE L == Len(name) + 1
           F == CHOOSE f : Descending(f, t, name, L)
           Above(i) == {SubSeq(name, 1, j) : j \in 0 .. i - 1}
           I == {i \in 0 .. L : Good(F[i]) /\ Nodes(F[i]) = Nodes(t) \cup Above(i)}
<1>0. name \in Seq(Component) /\ Len(name) \in Nat /\ Prefixes(name) \subseteq Names  BY NameIs
<1>1. lookup(t, name) = F[L]  BY DEF lookup, Descending
<1>2. L \in Nat /\ L = Len(name) + 1  BY <1>0
<1> HIDE DEF L
<1>3. \E f : Descending(f, t, name, L)  BY <1>2, DescendingExists
<1>4. Descending(F, t, name, L)  BY <1>3
<1> HIDE DEF F
<1>5. 0 \in I
  <2>1. F[0] = t  BY <1>2, <1>4 DEF Descending
  <2>2. Above(0) = {}  OBVIOUS
  <2> QED BY <1>2, <2>1, <2>2
<1>6. ASSUME NEW i \in 0 .. L, i < L, i \in I PROVE i + 1 \in I
  <2> DEFINE p == SubSeq(name, 1, i)
  <2>0. i \in 0 .. Len(name) /\ i + 1 \in 0 .. L /\ i + 1 # 0 /\ i + 1 - 1 = i  BY <1>0, <1>2, <1>6
  <2>1. F[i + 1] = findOrInsert(F[i], p)  BY <1>4, <2>0 DEF Descending
  <2>2. Good(F[i]) /\ Nodes(F[i]) = Nodes(t) \cup Above(i)  BY <1>6
  <2>3. p \in Prefixes(name)  BY <2>0 DEF Prefixes
  <2>4. p \in Names  BY <1>0, <2>3
  <2>5. p # <<>> => Front(p) \in Above(i)
    <3>1. /\ i = 0 => p = <<>>
          /\ i # 0 => Front(p) = SubSeq(name, 1, i - 1)
      BY <1>0, <2>0, PrefixIs
    <3>2. i # 0 => i - 1 \in 0 .. i - 1  BY <2>0
    <3> QED BY <3>1, <3>2
  <2>6. Above(i + 1) = Above(i) \cup {p}
    <3>1. \A j \in 0 .. i + 1 - 1 : j \in 0 .. i - 1 \/ j = i  BY <2>0
    <3>2. \A j \in 0 .. i - 1 : j \in 0 .. i + 1 - 1  BY <2>0
    <3>3. i \in 0 .. i + 1 - 1  BY <2>0
    <3>4. ASSUME NEW x \in Above(i + 1) PROVE x \in Above(i) \cup {p}
      <4>1. PICK j \in 0 .. i + 1 - 1 : x = SubSeq(name, 1, j)  OBVIOUS
      <4> QED BY <3>1, <4>1, Zenon
    <3>5. Above(i) \subseteq Above(i + 1)
      <4> SUFFICES ASSUME NEW x \in Above(i) PROVE x \in Above(i + 1)
        OBVIOUS
      <4>1. PICK j \in 0 .. i - 1 : x = SubSeq(name, 1, j)  OBVIOUS
      <4> QED BY <3>2, <4>1
    <3>6. p \in Above(i + 1)  BY <3>3
    <3> HIDE DEF Above, p
    <3> QED BY <3>4, <3>5, <3>6
  <2> HIDE DEF p, Above
  <2>7. p # <<>> => Front(p) \in Nodes(F[i])  BY <2>2, <2>5
  <2>8. Good(findOrInsert(F[i], p)) /\ Nodes(findOrInsert(F[i], p)) = Nodes(F[i]) \cup {p}
    BY <2>2, <2>4, <2>7, InsertGood
  <2> QED BY <2>0, <2>1, <2>2, <2>6, <2>8
<1>7. L \in I
  <2> HIDE DEF I
  <2> QED BY <1>2, <1>5, <1>6, Reaches, Zenon
<1>8. Above(L) = Prefixes(name)
  <2>1. 0 .. L - 1 = 0 .. Len(name)  BY <1>0, <1>2
  <2> QED BY <2>1, Zenon DEF Prefixes
<1> HIDE DEF Above
<1> QED BY <1>1, <1>7, <1>8

\* A node of S without entries and without children
Bare(S, used) == {n \in S : n \notin used /\ ChildrenIn(S, n) = {}}

LEMMA EmptyIs ==
    ASSUME NEW t, Good(t), NEW used, NEW n \in Nodes(t)
    PROVE  isEmpty(t, used, n) <=> n \in Bare(Nodes(t), used)
<1>1. t.children[n] \in Seq(Names) /\ ToSet(t.children[n]) = ChildrenIn(Nodes(t), n)
  BY DEF Good, Family, Nodes
<1>2. t.children[n] = <<>> <=> ToSet(t.children[n]) = {}  BY <1>1, NothingIn
<1> QED BY <1>1, <1>2 DEF isEmpty, Bare

LEMMA EraseOne ==
    ASSUME NEW t, Good(t), NEW used, NEW n \in Nodes(t)
    PROVE  /\ Good(eraseOneIfEmpty(t, used, n))
           /\ Nodes(eraseOneIfEmpty(t, used, n)) = Nodes(t) \ (Bare(Nodes(t), used) \cap {n})
<1>1. CASE isEmpty(t, used, n)
  <2>1. n \in Bare(Nodes(t), used)  BY <1>1, EmptyIs
  <2>2. t.children[n] = <<>>  BY <1>1 DEF isEmpty
  <2>3. eraseOneIfEmpty(t, used, n) = eraseNode(t, n)  BY <1>1 DEF eraseOneIfEmpty
  <2> QED BY <2>1, <2>2, <2>3, EraseGood
<1>2. CASE ~ isEmpty(t, used, n)
  <2>1. n \notin Bare(Nodes(t), used)  BY <1>2, EmptyIs
  <2>2. eraseOneIfEmpty(t, used, n) = t  BY <1>2 DEF eraseOneIfEmpty
  <2> QED BY <2>1, <2>2
<1> QED BY <1>1, <1>2

\* Only the parent of the node that goes can become bare.
LEMMA BareStep ==
    ASSUME NEW S, NEW used, NEW n,
           NEW x \in Bare(S \ (Bare(S, used) \cap {n}), used)
    PROVE  (x \in Bare(S, used) /\ x # n) \/ (n # <<>> /\ x = Front(n))
<1> DEFINE R == S \ (Bare(S, used) \cap {n})
<1>1. x \in R /\ x \in S /\ x \notin used /\ ChildrenIn(R, x) = {}  BY DEF Bare
<1>2. CASE ChildrenIn(S, x) = {}
  <2>1. x \in Bare(S, used)  BY <1>1, <1>2 DEF Bare
  <2> QED BY <1>1, <2>1
<1>3. CASE ChildrenIn(S, x) # {}
  <2>1. PICK m \in S : m # <<>> /\ Front(m) = x  BY <1>3 DEF ChildrenIn
  <2>2. m \notin R  BY <1>1, <2>1 DEF ChildrenIn
  <2> QED BY <2>1, <2>2
<1> QED BY <1>2, <1>3

\* Nodes are erased one after the other.
Erasing(f, t, used, order, n) ==
    f = [i \in 0 .. n |-> IF i = 0 THEN t ELSE eraseOneIfEmpty(f[i - 1], used, order[i])]

LEMMA ErasingExists ==
    ASSUME NEW t, NEW used, NEW order, NEW N \in Nat
    PROVE  \E f : Erasing(f, t, used, order, N)
<1> DEFINE Has(n) == \E f : Erasing(f, t, used, order, n)
           S == {n \in Nat : Has(n)}
           Op(a, i) == eraseOneIfEmpty(a, used, order[i])
<1>1. Has(0)
  <2> DEFINE g == [i \in 0 .. 0 |-> t]
  <2>1. g = [i \in 0 .. 0 |-> IF i = 0 THEN t ELSE Op(g[i - 1], i)]  OBVIOUS
  <2> QED BY <2>1, Zenon DEF Erasing
<1>2. ASSUME NEW n \in Nat, Has(n) PROVE Has(n + 1)
  <2>0. PICK f : Erasing(f, t, used, order, n)  BY <1>2
  <2>1. f = [i \in 0 .. n |-> IF i = 0 THEN t ELSE Op(f[i - 1], i)]  BY <2>0 DEF Erasing
  <2> HIDE DEF Op
  <2> DEFINE g == [i \in 0 .. n + 1 |-> IF i <= n THEN f[i] ELSE Op(f[n], n + 1)]
  <2>2. ASSUME NEW i \in 0 .. n + 1 PROVE g[i] = IF i = 0 THEN t ELSE Op(g[i - 1], i)
    <3>1. CASE i = 0  BY <2>1, <3>1
    <3>2. CASE i # 0 /\ i <= n
      <4>1. i - 1 \in 0 .. n /\ i \in 0 .. n /\ i - 1 <= n /\ i - 1 \in 0 .. n + 1  BY <3>2
      <4>2. g[i] = f[i] /\ g[i - 1] = f[i - 1]  BY <3>2, <4>1
      <4>3. f[i] = Op(f[i - 1], i)  BY <2>1, <3>2, <4>1
      <4> QED BY <3>2, <4>2, <4>3
    <3>3. CASE i = n + 1
      <4>1. n \in 0 .. n + 1 /\ n <= n /\ i - 1 = n /\ ~ (i <= n) /\ i # 0  BY <3>3
      <4> QED BY <3>3, <4>1
    <3> QED BY <3>1, <3>2, <3>3
  <2>3. g = [i \in 0 .. n + 1 |-> IF i = 0 THEN t ELSE Op(g[i - 1], i)]  BY <2>2
  <2> HIDE DEF g
  <2>4. Erasing(g, t, used, order, n + 1)  BY <2>3 DEF Erasing, Op
  <2> QED BY <2>4
<1> HIDE DEF Has
<1>3. 0 \in S /\ \A i \in 0 .. N : i < N /\ i \in S => i + 1 \in S  BY <1>1, <1>2
<1>4. N \in S
  <2> HIDE DEF S
  <2> QED BY <1>3, Reaches
<1> QED BY <1>4 DEF Has

\* A parent that no table uses comes later.
Upwards(order, used) ==
    \A i \in DOMAIN order : order[i] # <<>> /\ Front(order[i]) \notin used =>
        \E j \in DOMAIN order : j > i /\ order[j] = Front(order[i])

LEMMA EraseEachGood ==
    ASSUME NEW t, Good(t), NEW used, NEW order \in Seq(Names), Distinct(order),
           ToSet(order) \subseteq Nodes(t), Upwards(order, used)
    PROVE  LET r == eraseEach(t, used, order)
           IN  /\ Good(r) /\ Nodes(r) \subseteq Nodes(t)
               /\ \A x \in Nodes(t) : x \in used => x \in Nodes(r)
               /\ Bare(Nodes(r), used) \subseteq Bare(Nodes(t), used) \ ToSet(order)
<1> DEFINE L == Len(order)
           F == CHOOSE f : Erasing(f, t, used, order, L)
           Before(i) == {order[j] : j \in 1 .. i}
           After(i) == {order[j] : j \in i + 1 .. L}
           P(i) == /\ Good(F[i]) /\ Nodes(F[i]) \subseteq Nodes(t)
                   /\ \A x \in Nodes(t) : x \in used => x \in Nodes(F[i])
                   /\ After(i) \subseteq Nodes(F[i])
                   /\ Bare(Nodes(F[i]), used) \subseteq (Bare(Nodes(t), used) \ Before(i)) \cup After(i)
           I == {i \in 0 .. L : P(i)}
<1>1. eraseEach(t, used, order) = F[L]  BY DEF eraseEach, Erasing
<1>2. L \in Nat /\ DOMAIN order = 1 .. L  OBVIOUS
<1> HIDE DEF L
<1>3. \E f : Erasing(f, t, used, order, L)  BY <1>2, ErasingExists, Zenon
<1>4. Erasing(F, t, used, order, L)  BY <1>3
<1> HIDE DEF F
<1>5. 0 \in I
  <2>1. F[0] = t  BY <1>2, <1>4 DEF Erasing
  <2>2. Before(0) = {} /\ After(0) = ToSet(order)
    <3>1. 0 + 1 .. L = DOMAIN order  BY <1>2
    <3>2. Before(0) = {}  OBVIOUS
    <3>3. After(0) = {order[j] : j \in DOMAIN order}  BY <3>1, Zenon
    <3> QED BY <3>2, <3>3, Zenon DEF ToSet
  <2> HIDE DEF Before, After
  <2> QED BY <1>2, <2>1, <2>2
<1>6. ASSUME NEW i \in 0 .. L, i < L, i \in I PROVE i + 1 \in I
  <2> DEFINE n == order[i + 1]
             S == Nodes(F[i])
             R == Nodes(F[i + 1])
  <2>0. /\ i + 1 \in 0 .. L /\ i + 1 # 0 /\ i + 1 - 1 = i /\ i + 1 \in i + 1 .. L
        /\ i + 1 \in DOMAIN order
    BY <1>2, <1>6
  <2>1. F[i + 1] = eraseOneIfEmpty(F[i], used, n)  BY <1>4, <2>0 DEF Erasing
  <2>2. P(i)  BY <1>6
  <2>3. n \in S  BY <2>0, <2>2
  <2>4. Good(F[i + 1]) /\ R = S \ (Bare(S, used) \cap {n})
    <3> HIDE DEF n
    <3> QED BY <2>1, <2>2, <2>3, EraseOne
  <2>5. \A x \in Nodes(t) : x \in used => x \in R  BY <2>2, <2>4 DEF Bare
  <2>6. After(i + 1) \subseteq After(i) /\ n \notin After(i + 1)
    <3>1. \A j \in i + 1 + 1 .. L : j \in i + 1 .. L /\ j \in DOMAIN order /\ j # i + 1  BY <1>2, <2>0
    <3>2. \A j \in i + 1 + 1 .. L : order[j] # n  BY <2>0, <3>1 DEF Distinct
    <3> QED BY <3>1, <3>2
  <2>7. After(i) \subseteq After(i + 1) \cup {n}
    <3>1. \A j \in i + 1 .. L : j = i + 1 \/ j \in i + 1 + 1 .. L  BY <1>2, <2>0
    <3> QED BY <3>1
  <2>8. Before(i + 1) \subseteq Before(i) \cup {n}
    <3>1. \A j \in 1 .. i + 1 : j = i + 1 \/ j \in 1 .. i  BY <1>2, <2>0
    <3> QED BY <3>1
  <2>9. n # <<>> /\ Front(n) \notin used => Front(n) \in After(i + 1)
    <3> SUFFICES ASSUME n # <<>>, Front(n) \notin used PROVE Front(n) \in After(i + 1)
      OBVIOUS
    <3>1. PICK j \in DOMAIN order : j > i + 1 /\ order[j] = Front(n)  BY <2>0 DEF Upwards
    <3>2. j \in i + 1 + 1 .. L  BY <1>2, <2>0, <3>1
    <3> QED BY <3>1, <3>2
  <2>10. After(i + 1) \subseteq R  BY <2>2, <2>4, <2>6
  <2> HIDE DEF n, Before, After
  <2>11. ASSUME NEW x \in Bare(R, used)
         PROVE  x \in (Bare(Nodes(t), used) \ Before(i + 1)) \cup After(i + 1)
    <3>1. x \notin used  BY DEF Bare
    <3>2. (x \in Bare(S, used) /\ x # n) \/ (n # <<>> /\ x = Front(n))
      <4> HIDE DEF R, S
      <4> QED BY <2>4, BareStep, Zenon
    <3>3. CASE x \in Bare(S, used) /\ x # n  BY <2>2, <2>7, <2>8, <3>3
    <3>4. CASE n # <<>> /\ x = Front(n)  BY <2>9, <3>1, <3>4
    <3> QED BY <3>2, <3>3, <3>4
  <2>12. R \subseteq Nodes(t)  BY <2>2, <2>4
  <2> QED BY <2>0, <2>4, <2>5, <2>10, <2>11, <2>12, Zenon
<1>7. L \in I
  <2> HIDE DEF I
  <2> QED BY <1>2, <1>5, <1>6, Reaches
<1>8. Before(L) = ToSet(order) /\ After(L) = {}  BY <1>2 DEF ToSet
<1> HIDE DEF Before, After
<1> QED BY <1>1, <1>7, <1>8

-----------------------------------------------------------------------------
(* What the tables do to the tree.  U is the set of nodes that have entries   *)
(* before, V after.                                                           *)

LEMMA AllAbove ==
    ASSUME NEW t, Good(t), NEW n \in Nodes(t)
    PROVE  Prefixes(n) \subseteq Nodes(t)
<1> DEFINE L == Len(n)
           I == {i \in 0 .. L : SubSeq(n, 1, L - i) \in Nodes(t)}
<1>0. n \in Names /\ Nodes(t) \subseteq Names  BY GoodNodes
<1>1. n \in Seq(Component) /\ L \in Nat  BY <1>0, NameIs
<1>2. 0 \in I
  <2>1. L - 0 = L /\ SubSeq(n, 1, L) = n  BY <1>1, WholeName
  <2>2. SubSeq(n, 1, L - 0) \in Nodes(t)  BY <2>1, Zenon
  <2>3. 0 \in 0 .. L  BY <1>1
  <2> QED BY <2>2, <2>3, Zenon
<1>3. ASSUME NEW i \in 0 .. L, i < L, i \in I PROVE i + 1 \in I
  <2> DEFINE k == L - i
             p == SubSeq(n, 1, k)
  <2>1. k \in 0 .. Len(n) /\ k # 0 /\ k - 1 = L - (i + 1) /\ i + 1 \in 0 .. L  BY <1>1, <1>3
  <2>2. p \in Nodes(t)  BY <1>3
  <2>3. p # <<>> /\ Front(p) = SubSeq(n, 1, k - 1)
    <3> HIDE DEF k
    <3> QED BY <1>1, <2>1, PrefixIs, Zenon
  <2> HIDE DEF p
  <2>4. Front(p) \in Nodes(t)  BY <2>2, <2>3, Zenon DEF Good, Family, Nodes
  <2> QED BY <2>1, <2>3, <2>4, Zenon
<1>4. ASSUME NEW i \in 0 .. L PROVE i \in I
  <2>1. \A j \in 0 .. i : j < i /\ j \in I => j + 1 \in I  BY <1>1, <1>3
  <2>2. i \in Nat  BY <1>1
  <2> HIDE DEF I
  <2> QED BY <1>2, <2>1, <2>2, Reaches
<1>5. ASSUME NEW k \in 0 .. L PROVE SubSeq(n, 1, k) \in Nodes(t)
  <2>1. L - k \in 0 .. L /\ L - (L - k) = k  BY <1>1
  <2>2. L - k \in I  BY <1>4, <2>1
  <2> QED BY <2>1, <2>2
<1> QED BY <1>5, Zenon DEF Prefixes

\* A table hangs an entry on the node of n.
LEMMA Hung ==
    ASSUME NEW t, Good(t), NEW U, U \subseteq Nodes(t), NEW n \in Names,
           NEW V, U \subseteq V, V \subseteq U \cup {n}, n \in V
    PROVE  LET r == lookup(t, n)
           IN  Good(r) /\ V \subseteq Nodes(r) /\ Bare(Nodes(r), V) \subseteq Bare(Nodes(t), U)
<1> DEFINE r == lookup(t, n)
<1>1. Good(r) /\ Nodes(r) = Nodes(t) \cup Prefixes(n)  BY LookupGood
<1>2. n \in Seq(Component) /\ Len(n) \in Nat  BY NameIs
<1>3. n \in Prefixes(n)
  <2>1. Len(n) \in 0 .. Len(n) /\ SubSeq(n, 1, Len(n)) = n  BY <1>2, WholeName
  <2> QED BY <2>1, Zenon DEF Prefixes
<1> HIDE DEF r
<1>4. ASSUME NEW x \in Bare(Nodes(r), V) PROVE x \in Bare(Nodes(t), U)
  <2>1. x \in Nodes(t) \cup Prefixes(n) /\ x \notin V /\ ChildrenIn(Nodes(r), x) = {}  BY <1>1 DEF Bare
  <2>2. CASE x \in Nodes(t)
    <3>1. ChildrenIn(Nodes(t), x) = {}  BY <1>1, <2>1 DEF ChildrenIn
    <3> QED BY <2>1, <2>2, <3>1 DEF Bare
  <2>3. CASE x \in Prefixes(n)
    <3>1. PICK i \in 0 .. Len(n) : x = SubSeq(n, 1, i)  BY <2>3 DEF Prefixes
    <3>2. i # Len(n)  BY <1>2, <2>1, <3>1, WholeName, Zenon
    <3>3. i + 1 \in 0 .. Len(n) /\ i + 1 # 0 /\ i + 1 - 1 = i  BY <1>2, <3>2
    <3>4. SubSeq(n, 1, i + 1) # <<>> /\ Front(SubSeq(n, 1, i + 1)) = SubSeq(n, 1, i + 1 - 1)
      <4> DEFINE k == i + 1
      <4>1. k \in 0 .. Len(n) /\ k # 0  BY <3>3
      <4> HIDE DEF k
      <4>2. SubSeq(n, 1, k) # <<>> /\ Front(SubSeq(n, 1, k)) = SubSeq(n, 1, k - 1)
        BY <1>2, <4>1, PrefixIs, Zenon
      <4> QED BY <4>2 DEF k
    <3>5. SubSeq(n, 1, i + 1) \in Prefixes(n)  BY <3>3 DEF Prefixes
    <3>6. SubSeq(n, 1, i + 1) \in ChildrenIn(Nodes(r), x)  BY <1>1, <3>1, <3>3, <3>4, <3>5 DEF ChildrenIn
    <3> QED BY <2>1, <3>6
  <2> QED BY <2>1, <2>2, <2>3
<1> QED BY <1>1, <1>3, <1>4 DEF r

\* A table takes its entry off the node of n.
LEMMA TakenOff ==
    ASSUME NEW t, Good(t), NEW U, U \subseteq Nodes(t), NEW n \in U,
           NEW V, V \subseteq U, U \subseteq V \cup {n}
    PROVE  LET r == eraseIfEmpty(t, V, n)
           IN  Good(r) /\ V \subseteq Nodes(r) /\ Bare(Nodes(r), V) \subseteq Bare(Nodes(t), U)
<1> DEFINE L == Len(n)
           order == [i \in 1 .. L + 1 |-> SubSeq(n, 1, L + 1 - i)]
           r == eraseEach(t, V, order)
<1>0. n \in Names  BY GoodNodes
<1>1. n \in Seq(Component) /\ L \in Nat /\ Prefixes(n) \subseteq Names  BY <1>0, NameIs
<1>2. Prefixes(n) \subseteq Nodes(t)  BY AllAbove
<1>3. eraseIfEmpty(t, V, n) = r  BY DEF eraseIfEmpty
<1>4. DOMAIN order = 1 .. L + 1 /\ \A i \in 1 .. L + 1 : order[i] = SubSeq(n, 1, L + 1 - i)  OBVIOUS
<1>5. \A i \in 1 .. L + 1 : L + 1 - i \in 0 .. L  BY <1>1
<1> HIDE DEF order
<1>6. \A i \in 1 .. L + 1 : order[i] \in Prefixes(n) /\ order[i] \in Names  BY <1>1, <1>4, <1>5, Zenon DEF Prefixes
<1>7. order \in Seq(Names)
  <2>1. order \in [1 .. L + 1 -> Names]
    <3>1. order = [i \in 1 .. L + 1 |-> order[i]]  BY <1>4, Zenon DEF order
    <3> QED BY <1>6, <3>1
  <2> QED BY <1>1, <2>1
<1>8. \A i \in 1 .. L + 1 : Len(order[i]) = L + 1 - i  BY <1>1, <1>4, <1>5, PrefixIs, Zenon
<1>9. Distinct(order)  BY <1>1, <1>4, <1>8 DEF Distinct
<1>10. ToSet(order) = Prefixes(n)
  <2>1. ToSet(order) \subseteq Prefixes(n)  BY <1>4, <1>6 DEF ToSet
  <2>2. ASSUME NEW p \in Prefixes(n) PROVE p \in ToSet(order)
    <3>1. PICK k \in 0 .. L : p = SubSeq(n, 1, k)  BY DEF Prefixes
    <3>2. L + 1 - k \in 1 .. L + 1 /\ L + 1 - (L + 1 - k) = k  BY <1>1
    <3>3. order[L + 1 - k] = p  BY <1>4, <3>1, <3>2
    <3> QED BY <1>4, <3>2, <3>3, Zenon DEF ToSet
  <2> QED BY <2>1, <2>2
<1>11. Upwards(order, V)
  <2> SUFFICES ASSUME NEW i \in DOMAIN order, order[i] # <<>>
               PROVE  \E j \in DOMAIN order : j > i /\ order[j] = Front(order[i])
    BY DEF Upwards
  <2> DEFINE k == L + 1 - i
  <2>1. k \in 0 .. L /\ order[i] = SubSeq(n, 1, k)  BY <1>4, <1>5, Zenon
  <2>2. k # 0 /\ Front(order[i]) = SubSeq(n, 1, k - 1)
    <3> HIDE DEF k
    <3> QED BY <1>1, <2>1, PrefixIs
  <2>3. i + 1 \in 1 .. L + 1 /\ L + 1 - (i + 1) = k - 1 /\ i + 1 > i  BY <1>1, <1>4, <2>1, <2>2
  <2>4. order[i + 1] = Front(order[i])  BY <1>4, <2>2, <2>3, Zenon
  <2> QED BY <1>4, <2>3, <2>4
<1>12. /\ Good(r) /\ Nodes(r) \subseteq Nodes(t)
       /\ \A x \in Nodes(t) : x \in V => x \in Nodes(r)
       /\ Bare(Nodes(r), V) \subseteq Bare(Nodes(t), V) \ ToSet(order)
  BY <1>2, <1>7, <1>9, <1>10, <1>11, EraseEachGood
<1>13. n \in Prefixes(n)
  <2>1. L \in 0 .. L /\ SubSeq(n, 1, L) = n  BY <1>1, WholeName
  <2> QED BY <2>1, Zenon DEF Prefixes
<1> HIDE DEF r
<1>14. \A x \in Bare(Nodes(t), V) \ Prefixes(n) : x \in Bare(Nodes(t), U)  BY <1>13 DEF Bare
<1> QED BY <1>3, <1>10, <1>12, <1>14

\* cleanupOnFaceRemoval tries every node without entries.
LEMMA CleanedUp ==
    ASSUME NEW t, Good(t), NEW V, V \subseteq Nodes(t),
           NEW order \in SetToSeqs(ToSet(Enumeration(t.buckets)) \ V), LongerFirst(order)
    PROVE  LET r == eraseEach(t, V, order)
           IN  Good(r) /\ V \subseteq Nodes(r) /\ Bare(Nodes(r), V) = {}
<1> DEFINE r == eraseEach(t, V, order)
           S == Nodes(t) \ V
<1>1. PICK N : Table(t.buckets, N, Nodes(t))  BY DEF Good
<1>2. Nodes(t) \subseteq Names  BY GoodNodes
<1>3. Enumeration(t.buckets) \in Seq(Names) /\ ToSet(Enumeration(t.buckets)) = Nodes(t)
  BY <1>1, <1>2, EnumerationIs
<1>4. IsFiniteSet(Nodes(t))  BY <1>3, ListFinite
<1>5. IsFiniteSet(S)  BY <1>4, FS_Subset
<1>6. Cardinality(S) \in Nat  BY <1>5, FS_CardinalityType
<1>7. order \in SetToSeqs(S)  BY <1>3
<1>8. order \in [1 .. Cardinality(S) -> S] /\ Distinct(order) /\ ToSet(order) = S  BY <1>7, Zenon DEF SetToSeqs
<1>9. order \in Seq(Names)
  <2> DEFINE c == Cardinality(S)
  <2>1. c \in Nat /\ order \in [1 .. c -> S] /\ S \subseteq Names  BY <1>2, <1>6, <1>8, Zenon
  <2> HIDE DEF c, S
  <2>2. order \in [1 .. c -> Names]  BY <2>1
  <2> QED BY <2>1, <2>2
<1>10. Upwards(order, V)
  <2> SUFFICES ASSUME NEW i \in DOMAIN order, order[i] # <<>>, Front(order[i]) \notin V
               PROVE  \E j \in DOMAIN order : j > i /\ order[j] = Front(order[i])
    BY DEF Upwards
  <2> DEFINE n == order[i]
  <2>1. n \in Nodes(t) /\ n \in Names  BY <1>2, <1>8, Zenon
  <2>2. Front(n) \in Nodes(t)  BY <2>1 DEF Good, Family, Nodes
  <2>3. Front(n) \in ToSet(order)  BY <1>8, <2>2
  <2>4. PICK j \in DOMAIN order : order[j] = Front(n)  BY <2>3 DEF ToSet
  <2>5. Len(n) \in Nat /\ Len(Front(n)) = Len(n) - 1 /\ Front(n) # n  BY <2>1, FrontIn
  <2>6. i \in Int /\ j \in Int /\ i # j  BY <1>6, <1>8, <2>4, <2>5
  <2>7. j < i => Len(order[j]) >= Len(order[i])  BY DEF LongerFirst
  <2>8. ~ (j < i)  BY <2>4, <2>5, <2>7
  <2> QED BY <2>4, <2>6, <2>8
<1>11. /\ Good(r) /\ Nodes(r) \subseteq Nodes(t)
       /\ \A x \in Nodes(t) : x \in V => x \in Nodes(r)
       /\ Bare(Nodes(r), V) \subseteq Bare(Nodes(t), V) \ ToSet(order)
  BY <1>8, <1>9, <1>10, EraseEachGood
<1>12. Bare(Nodes(t), V) \subseteq S  BY DEF Bare
<1> HIDE DEF r
<1>13. Bare(Nodes(r), V) = {}  BY <1>8, <1>11, <1>12
<1> QED BY <1>11, <1>13 DEF r

-----------------------------------------------------------------------------
(* The inductive invariant.                                                   *)

Tables ==
    /\ DOMAIN fib \subseteq FibNames /\ DOMAIN pit \subseteq PitNames
    /\ DOMAIN meas \subseteq MeasNames /\ DOMAIN choice \subseteq ChoiceNames
    /\ \A p \in DOMAIN fib : fib[p] # {}

InUse == Used(fib, pit, meas, choice)

TreeInv == Tables /\ Good(tree) /\ InUse \subseteq Nodes(tree)

\* What every step does: no node is left empty that was not, unless a FIB entry
\* has gone.
Kept == TreeInv' /\ (DOMAIN fib \subseteq DOMAIN fib' => EmptyNodes' \subseteq EmptyNodes)

LEMMA UsedIs ==
    ASSUME NEW F, NEW P, NEW M, NEW C
    PROVE  \A x : x \in Used(F, P, M, C) <=>
               x \in DOMAIN F \/ x \in DOMAIN M \/ x \in DOMAIN C \/ \E n \in DOMAIN P : x = WithoutDigest(n)
BY Zenon DEF Used

LEMMA NodeOfPit ==
    ASSUME NEW n \in PitNames
    PROVE  WithoutDigest(n) \in Names
<1>1. n \in Names  BY NameInNames
<1> QED BY <1>1, FrontIn DEF WithoutDigest

LEMMA EmptyAre ==
    ASSUME NEW t, Good(t), NEW used
    PROVE  {n \in Nodes(t) : isEmpty(t, used, n)} = Bare(Nodes(t), used)
<1>1. \A n \in Nodes(t) : isEmpty(t, used, n) <=> n \in Bare(Nodes(t), used)  BY EmptyIs
<1>2. Bare(Nodes(t), used) \subseteq Nodes(t)  BY DEF Bare
<1> QED BY <1>1, <1>2

LEMMA EmptyNodesAre ==
    /\ Good(tree) => EmptyNodes = Bare(Nodes(tree), InUse)
    /\ Good(tree') => EmptyNodes' = Bare(Nodes(tree'), InUse')
BY EmptyAre DEF EmptyNodes, InUse

LEMMA KeptBy ==
    ASSUME TreeInv, Tables', Good(tree'), InUse' \subseteq Nodes(tree'),
           Bare(Nodes(tree'), InUse') \subseteq Bare(Nodes(tree), InUse)
    PROVE  Kept
<1>1. TreeInv'  BY DEF TreeInv
<1>2. EmptyNodes' \subseteq EmptyNodes  BY EmptyNodesAre DEF TreeInv
<1> QED BY <1>1, <1>2 DEF Kept

\* An operation that looks up the node of n and hangs an entry there
LEMMA KeptByHanging ==
    ASSUME TreeInv, Tables', NEW n \in Names, tree' = lookup(tree, n),
           InUse \subseteq InUse', InUse' \subseteq InUse \cup {n}, n \in InUse'
    PROVE  Kept
<1> DEFINE r == lookup(tree, n)
           V == InUse'
<1>1. Good(tree) /\ InUse \subseteq Nodes(tree)  BY DEF TreeInv
<1>2. InUse \subseteq V /\ V \subseteq InUse \cup {n} /\ n \in V  OBVIOUS
<1> HIDE DEF V
<1>3. Good(r) /\ V \subseteq Nodes(r) /\ Bare(Nodes(r), V) \subseteq Bare(Nodes(tree), InUse)
  BY <1>1, <1>2, Hung, Zenon
<1> HIDE DEF r
<1>4. tree' = r  BY DEF r
<1>5. /\ Good(tree') /\ InUse' \subseteq Nodes(tree')
      /\ Bare(Nodes(tree'), InUse') \subseteq Bare(Nodes(tree), InUse)
  BY <1>3, <1>4 DEF V
<1> QED BY <1>5, KeptBy

\* An operation that takes an entry off the node of n
LEMMA KeptByTakingOff ==
    ASSUME TreeInv, Tables', NEW n \in InUse, tree' = eraseIfEmpty(tree, InUse', n),
           InUse' \subseteq InUse, InUse \subseteq InUse' \cup {n}
    PROVE  Kept
<1> DEFINE V == InUse'
           r == eraseIfEmpty(tree, V, n)
<1>1. Good(tree) /\ InUse \subseteq Nodes(tree)  BY DEF TreeInv
<1>2. V \subseteq InUse /\ InUse \subseteq V \cup {n} /\ tree' = r  OBVIOUS
<1> HIDE DEF V
<1>3. Good(r) /\ V \subseteq Nodes(r) /\ Bare(Nodes(r), V) \subseteq Bare(Nodes(tree), InUse)
  BY <1>1, <1>2, TakenOff, Zenon
<1> HIDE DEF r
<1>5. /\ Good(tree') /\ InUse' \subseteq Nodes(tree')
      /\ Bare(Nodes(tree'), InUse') \subseteq Bare(Nodes(tree), InUse)
  BY <1>2, <1>3 DEF V
<1> QED BY <1>5, KeptBy

LEMMA InUseIs ==
    /\ \A x : x \in InUse <=> x \in DOMAIN fib \/ x \in DOMAIN meas \/ x \in DOMAIN choice
                           \/ \E n \in DOMAIN pit : x = WithoutDigest(n)
    /\ \A x : x \in InUse' <=> x \in DOMAIN fib' \/ x \in DOMAIN meas' \/ x \in DOMAIN choice'
                            \/ \E n \in DOMAIN pit' : x = WithoutDigest(n)
<1>1. \A x : x \in InUse <=> x \in DOMAIN fib \/ x \in DOMAIN meas \/ x \in DOMAIN choice
                          \/ \E n \in DOMAIN pit : x = WithoutDigest(n)
  BY Zenon DEF InUse, Used
<1>2. \A x : x \in InUse' <=> x \in DOMAIN fib' \/ x \in DOMAIN meas' \/ x \in DOMAIN choice'
                           \/ \E n \in DOMAIN pit' : x = WithoutDigest(n)
  BY Zenon DEF InUse, Used
<1> QED BY <1>1, <1>2, Zenon

LEMMA ChangeKeepsNames ==
    ASSUME NEW t, NEW C, NEW p, NEW old, NEW new, changeStrategy(t, C, p, old, new)
    PROVE  DOMAIN pit' = DOMAIN pit /\ DOMAIN meas' = DOMAIN meas
BY DEF changeStrategy

LEMMA AddNextHopStep ==
    ASSUME TreeInv, NEW p \in FibNames, NEW f \in Faces, addNextHop(p, f)
    PROVE  Kept
<1>0. /\ fib' = Put(fib, p, {f} \cup (IF p \in DOMAIN fib THEN fib[p] ELSE {}))
      /\ UNCHANGED <<pit, meas, choice>> /\ tree' = lookup(tree, p)
  BY DEF addNextHop
<1>1. DOMAIN fib' = DOMAIN fib \cup {p}  BY <1>0 DEF Put
<1>2. \A q \in DOMAIN fib' : fib'[q] # {}
  <2> DEFINE v == {f} \cup (IF p \in DOMAIN fib THEN fib[p] ELSE {})
  <2>1. v # {} /\ fib' = Put(fib, p, v)  BY DEF addNextHop
  <2> HIDE DEF v
  <2>2. \A q \in DOMAIN fib' : fib'[q] = v \/ (q \in DOMAIN fib /\ fib'[q] = fib[q])  BY <2>1 DEF Put
  <2> QED BY <2>1, <2>2 DEF TreeInv, Tables
<1>3. Tables'  BY <1>0, <1>1, <1>2 DEF TreeInv, Tables
<1>4. \A x : x \in InUse' <=> x \in InUse \/ x = p  BY <1>0, <1>1, InUseIs
<1>5. p \in Names  BY NameInNames
<1> QED BY <1>0, <1>3, <1>4, <1>5, KeptByHanging

LEMMA RemoveNextHopStep ==
    ASSUME TreeInv, NEW p \in FibNames, NEW f \in Faces, removeNextHop(p, f)
    PROVE  Kept
<1>1. p \in DOMAIN fib /\ UNCHANGED <<tree, pit, meas, choice>>  BY DEF removeNextHop
<1>2. CASE fib[p] = {f}
  <2>1. fib' = Drop(fib, {p})  BY <1>2 DEF removeNextHop
  <2>2. DOMAIN fib' = DOMAIN fib \ {p} /\ \A q \in DOMAIN fib' : fib'[q] = fib[q]  BY <2>1 DEF Drop
  <2>3. Tables'  BY <1>1, <2>2 DEF TreeInv, Tables
  <2>4. InUse' \subseteq InUse  BY <1>1, <2>2, InUseIs
  <2>5. TreeInv'  BY <1>1, <2>3, <2>4 DEF TreeInv
  <2> QED BY <1>1, <2>2, <2>5 DEF Kept
<1>3. CASE fib[p] # {f}
  <2>1. fib' = [fib EXCEPT ![p] = fib[p] \ {f}]  BY <1>3 DEF removeNextHop
  <2>2. DOMAIN fib' = DOMAIN fib  BY <2>1
  <2>3. \A q \in DOMAIN fib' : fib'[q] # {}
    <3>1. fib[p] # {} /\ f \in fib[p]  BY <1>1 DEF TreeInv, Tables, removeNextHop
    <3>2. fib[p] \ {f} # {}  BY <1>3, <3>1
    <3> QED BY <1>1, <2>1, <2>2, <3>2 DEF TreeInv, Tables
  <2>4. Tables'  BY <1>1, <2>2, <2>3 DEF TreeInv, Tables
  <2>5. InUse' = InUse  BY <1>1, <2>2, InUseIs
  <2> QED BY <1>1, <2>4, <2>5, KeptBy DEF TreeInv
<1> QED BY <1>2, <1>3

LEMMA CleanupStep ==
    ASSUME TreeInv, NEW f \in Faces, cleanupOnFaceRemoval(f)
    PROVE  Kept /\ EmptyNodes' = {}
<1> DEFINE gone == {p \in DOMAIN fib : fib[p] = {f}}
           left == WithoutNextHop(fib, f)
           V == Used(left, pit, meas, choice)
<1>1. fib' = left /\ UNCHANGED <<pit, meas, choice>>  BY DEF cleanupOnFaceRemoval
<1>2. PICK order \in SetToSeqs(ToSet(Enumeration(tree.buckets)) \ V) :
          LongerFirst(order) /\ tree' = eraseEach(tree, V, order)
  BY DEF cleanupOnFaceRemoval
<1>3. DOMAIN left = DOMAIN fib \ gone /\ \A p \in DOMAIN left : left[p] = fib[p] \ {f}
  <2>1. left = [p \in DOMAIN fib \ gone |-> fib[p] \ {f}]  BY DEF WithoutNextHop, Drop
  <2> HIDE DEF left, gone
  <2> QED BY <2>1
<1>4. \A p \in DOMAIN left : left[p] # {}
  <2> SUFFICES ASSUME NEW p \in DOMAIN left PROVE left[p] # {}
    OBVIOUS
  <2>1. p \in DOMAIN fib /\ fib[p] # {f} /\ left[p] = fib[p] \ {f}  BY <1>3
  <2>2. fib[p] # {}  BY <2>1 DEF TreeInv, Tables
  <2> QED BY <2>1, <2>2
<1>5. V \subseteq InUse
  <2>1. DOMAIN left \subseteq DOMAIN fib  BY <1>3
  <2> HIDE DEF left
  <2> QED BY <2>1, UsedIs DEF InUse
<1>6. InUse' = V  BY <1>1 DEF InUse
<1>7. Tables'
  <2>1. DOMAIN left \subseteq DOMAIN fib  BY <1>3
  <2> HIDE DEF left
  <2> QED BY <1>1, <1>4, <2>1 DEF TreeInv, Tables
<1> HIDE DEF V, left
<1>8. Good(tree) /\ V \subseteq Nodes(tree)  BY <1>5 DEF TreeInv
<1>9. Good(tree') /\ V \subseteq Nodes(tree') /\ Bare(Nodes(tree'), V) = {}  BY <1>2, <1>8, CleanedUp
<1>10. TreeInv'  BY <1>6, <1>7, <1>9 DEF TreeInv
<1>11. EmptyNodes' = {}  BY <1>6, <1>9, EmptyNodesAre
<1> QED BY <1>10, <1>11 DEF Kept

LEMMA InsertPitStep ==
    ASSUME TreeInv, NEW n \in PitNames, insertPit(n)
    PROVE  Kept
<1>0. pit' = Put(pit, n, {}) /\ UNCHANGED <<fib, meas, choice>> /\ tree' = lookup(tree, WithoutDigest(n))
  BY DEF insertPit
<1>1. DOMAIN pit' = DOMAIN pit \cup {n}  BY <1>0 DEF Put
<1>2. Tables'  BY <1>0, <1>1 DEF TreeInv, Tables
<1>3. \A x : x \in InUse' <=> x \in InUse \/ x = WithoutDigest(n)  BY <1>0, <1>1, InUseIs
<1> QED BY <1>0, <1>2, <1>3, NodeOfPit, KeptByHanging

LEMMA ErasePitStep ==
    ASSUME TreeInv, NEW n \in PitNames, erasePit(n)
    PROVE  Kept
<1>0. pit' = Drop(pit, {n})  BY DEF erasePit
<1>1. /\ n \in DOMAIN pit /\ DOMAIN pit' = DOMAIN pit \ {n} /\ UNCHANGED <<fib, meas, choice>>
      /\ tree' = eraseIfEmpty(tree, Used(fib, pit', meas, choice), WithoutDigest(n))
  BY <1>0 DEF erasePit, Drop
<1>2. Tables'  BY <1>1 DEF TreeInv, Tables
<1>3. tree' = eraseIfEmpty(tree, InUse', WithoutDigest(n))  BY <1>1 DEF InUse
<1>4. /\ WithoutDigest(n) \in InUse /\ InUse' \subseteq InUse
      /\ InUse \subseteq InUse' \cup {WithoutDigest(n)}
  BY <1>1, InUseIs
<1> QED BY <1>2, <1>3, <1>4, KeptByTakingOff

LEMMA LeaveStrategyInfoStep ==
    ASSUME TreeInv, NEW n \in PitNames, NEW m \in MeasNames, leaveStrategyInfo(n, m)
    PROVE  Kept
<1>0. UNCHANGED <<fib, choice>> /\ tree' = lookup(tree, m)  BY DEF leaveStrategyInfo
<1>1. DOMAIN pit' = DOMAIN pit /\ DOMAIN meas' = DOMAIN meas \cup {m}
  <2>1. DOMAIN pit' = DOMAIN pit  BY DEF leaveStrategyInfo
  <2>2. PICK S : meas' = Put(meas, m, S)  BY DEF leaveStrategyInfo
  <2>3. DOMAIN meas' = DOMAIN meas \cup {m}  BY <2>2 DEF Put
  <2> QED BY <2>1, <2>3
<1>2. Tables'  BY <1>0, <1>1 DEF TreeInv, Tables
<1>3. \A x : x \in InUse' <=> x \in InUse \/ x = m  BY <1>0, <1>1, InUseIs
<1>4. m \in Names  BY NameInNames
<1> QED BY <1>0, <1>2, <1>3, <1>4, KeptByHanging

LEMMA CleanupMeasurementsStep ==
    ASSUME TreeInv, NEW m \in MeasNames, cleanupMeasurements(m)
    PROVE  Kept
<1>0. meas' = Drop(meas, {m})  BY DEF cleanupMeasurements
<1>1. /\ m \in DOMAIN meas /\ DOMAIN meas' = DOMAIN meas \ {m} /\ UNCHANGED <<fib, pit, choice>>
      /\ tree' = eraseIfEmpty(tree, Used(fib, pit, meas', choice), m)
  BY <1>0 DEF cleanupMeasurements, Drop
<1>2. Tables'  BY <1>1 DEF TreeInv, Tables
<1>3. tree' = eraseIfEmpty(tree, InUse', m)  BY <1>1 DEF InUse
<1>4. m \in InUse /\ InUse' \subseteq InUse /\ InUse \subseteq InUse' \cup {m}  BY <1>1, InUseIs
<1> QED BY <1>2, <1>3, <1>4, KeptByTakingOff

LEMMA InsertChoiceStep ==
    ASSUME TreeInv, NEW p \in ChoiceNames, NEW s \in Strategies, insertChoice(p, s)
    PROVE  Kept
<1>0. choice' = Put(choice, p, s) /\ UNCHANGED fib /\ tree' = lookup(tree, p)  BY DEF insertChoice
<1>1. DOMAIN pit' = DOMAIN pit /\ DOMAIN meas' = DOMAIN meas /\ DOMAIN choice' = DOMAIN choice \cup {p}
  <2>1. DOMAIN pit' = DOMAIN pit /\ DOMAIN meas' = DOMAIN meas  BY ChangeKeepsNames DEF insertChoice
  <2>2. DOMAIN choice' = DOMAIN choice \cup {p}  BY <1>0 DEF Put
  <2> QED BY <2>1, <2>2
<1>2. Tables'  BY <1>0, <1>1 DEF TreeInv, Tables
<1>3. \A x : x \in InUse' <=> x \in InUse \/ x = p  BY <1>0, <1>1, InUseIs
<1>4. p \in Names  BY NameInNames
<1> QED BY <1>0, <1>2, <1>3, <1>4, KeptByHanging

LEMMA EraseChoiceStep ==
    ASSUME TreeInv, NEW p \in ChoiceNames, eraseChoice(p)
    PROVE  Kept
<1>0. /\ choice' = Drop(choice, {p}) /\ UNCHANGED fib /\ p \in DOMAIN choice
      /\ tree' = eraseIfEmpty(tree, Used(fib, pit, meas, choice'), p)
  BY DEF eraseChoice
<1>1. /\ DOMAIN pit' = DOMAIN pit /\ DOMAIN meas' = DOMAIN meas /\ UNCHANGED fib
      /\ p \in DOMAIN choice /\ DOMAIN choice' = DOMAIN choice \ {p}
      /\ tree' = eraseIfEmpty(tree, Used(fib, pit, meas, choice'), p)
  <2>1. DOMAIN pit' = DOMAIN pit /\ DOMAIN meas' = DOMAIN meas  BY ChangeKeepsNames DEF eraseChoice
  <2>2. DOMAIN choice' = DOMAIN choice \ {p}  BY <1>0 DEF Drop
  <2> QED BY <1>0, <2>1, <2>2
<1>2. Tables'  BY <1>1 DEF TreeInv, Tables
<1>3. Used(fib, pit, meas, choice') = InUse'  BY <1>1 DEF InUse, Used
<1>4. p \in InUse /\ InUse' \subseteq InUse /\ InUse \subseteq InUse' \cup {p}  BY <1>1, InUseIs
<1> QED BY <1>1, <1>2, <1>3, <1>4, KeptByTakingOff, Zenon

LEMMA InitHolds == Init => TreeInv
<1> SUFFICES ASSUME Init PROVE TreeInv
  OBVIOUS
<1> DEFINE bk == [b \in 0 .. MinBuckets - 1 |-> <<>>]
           e == [buckets |-> bk, children |-> << >>]
<1>1. /\ tree = findOrInsert(e, <<>>) /\ DOMAIN fib = {} /\ DOMAIN pit = {} /\ DOMAIN meas = {}
      /\ DOMAIN choice = {<<>>}
  BY DEF Init
<1>2. Table(bk, MinBuckets, {})  BY NoRepeats, NameTreeAssumption DEF Table
<1>3. Family(<<>>) /\ DOMAIN <<>> = {}
  <2>1. DOMAIN <<>> = {}  OBVIOUS
  <2>2. <<>> \in [DOMAIN <<>> -> Seq(Names)]  BY <2>1
  <2> QED BY <2>1, <2>2 DEF Family
<1>4. e.buckets = bk /\ e.children = <<>>  OBVIOUS
<1> HIDE DEF bk, e
<1>5. Good(e) /\ Nodes(e) = {}  BY <1>2, <1>3, <1>4 DEF Good, Nodes
<1>6. Good(tree) /\ Nodes(tree) = {<<>>}  BY <1>1, <1>5, NameInNames, InsertGood
<1>7. InUse \subseteq {<<>>}  BY <1>1, InUseIs
<1>8. Tables  BY <1>1, NameTreeAssumption DEF Tables
<1> QED BY <1>6, <1>7, <1>8 DEF TreeInv

LEMMA StepHolds ==
    TreeInv /\ [Next]_vars =>
        Kept /\ ((\E f \in Faces : cleanupOnFaceRemoval(f)) => EmptyNodes' = {})
<1> SUFFICES ASSUME TreeInv, [Next]_vars
             PROVE  Kept /\ ((\E f \in Faces : cleanupOnFaceRemoval(f)) => EmptyNodes' = {})
  OBVIOUS
<1>1. (\E f \in Faces : cleanupOnFaceRemoval(f)) => EmptyNodes' = {}  BY CleanupStep
<1>2. ASSUME NEW p \in FibNames, NEW f \in Faces, addNextHop(p, f) PROVE Kept
  BY <1>2, AddNextHopStep
<1>3. ASSUME NEW p \in FibNames, NEW f \in Faces, removeNextHop(p, f) PROVE Kept
  BY <1>3, RemoveNextHopStep
<1>4. ASSUME NEW f \in Faces, cleanupOnFaceRemoval(f) PROVE Kept
  BY <1>4, CleanupStep
<1>5. ASSUME NEW n \in PitNames, insertPit(n) PROVE Kept
  BY <1>5, InsertPitStep
<1>6. ASSUME NEW n \in PitNames, erasePit(n) PROVE Kept
  BY <1>6, ErasePitStep
<1>7. ASSUME NEW n \in PitNames, NEW m \in Prefixes(n) \cap MeasNames, leaveStrategyInfo(n, m) PROVE Kept
  BY <1>7, LeaveStrategyInfoStep
<1>8. ASSUME NEW m \in MeasNames, cleanupMeasurements(m) PROVE Kept
  BY <1>8, CleanupMeasurementsStep
<1>9. ASSUME NEW p \in ChoiceNames, NEW s \in Strategies, insertChoice(p, s) PROVE Kept
  BY <1>9, InsertChoiceStep
<1>10. ASSUME NEW p \in ChoiceNames, eraseChoice(p) PROVE Kept
  BY <1>10, EraseChoiceStep
<1>11. CASE UNCHANGED vars
  <2>0. tree' = tree /\ fib' = fib /\ pit' = pit /\ meas' = meas /\ choice' = choice  BY <1>11 DEF vars
  <2>1. TreeInv'
    <3>1. Tables'  BY <2>0 DEF TreeInv, Tables
    <3>2. Good(tree')  BY <2>0 DEF TreeInv
    <3>3. InUse' = InUse  BY <2>0 DEF InUse
    <3> QED BY <2>0, <3>1, <3>2, <3>3 DEF TreeInv
  <2>2. EmptyNodes' = EmptyNodes  BY <2>0 DEF EmptyNodes
  <2>3. EmptyNodes' \subseteq EmptyNodes  BY <2>2
  <2> QED BY <1>1, <2>1, <2>3, Zenon DEF Kept
<1>12. CASE Next
  <2>1. CASE \E p \in FibNames, f \in Faces : addNextHop(p, f) \/ removeNextHop(p, f)  BY <1>1, <1>2, <1>3, <2>1, Zenon
  <2>2. CASE \E f \in Faces : cleanupOnFaceRemoval(f)  BY <1>1, <1>4, <2>2, Zenon
  <2>3. CASE \E n \in PitNames : insertPit(n) \/ erasePit(n)
                                \/ \E m \in Prefixes(n) \cap MeasNames : leaveStrategyInfo(n, m)
    BY <1>1, <1>5, <1>6, <1>7, <2>3, Zenon
  <2>4. CASE \E m \in MeasNames : cleanupMeasurements(m)  BY <1>1, <1>8, <2>4, Zenon
  <2>5. CASE \E p \in ChoiceNames : eraseChoice(p) \/ \E s \in Strategies : insertChoice(p, s)
    BY <1>1, <1>9, <1>10, <2>5, Zenon
  <2> QED BY <1>12, <2>1, <2>2, <2>3, <2>4, <2>5, Zenon DEF Next
<1> QED BY <1>1, <1>11, <1>12

LEMMA TreeInvariant == Spec => []TreeInv
<1>1. Init => TreeInv  BY InitHolds
<1>2. TreeInv /\ [Next]_vars => TreeInv'  BY StepHolds DEF Kept
<1> QED BY <1>1, <1>2, PTL DEF Spec

\* Nodes are in the bucket where Hashtable::find looks for them and in the child
\* list of the node above, once, and every table entry has its node: for any
\* names and hashes, load factors and order of operations.
THEOREM TreeInStepAlways == Spec => []TreeInStep
<1>1. TreeInv => TreeInStep
  <2> SUFFICES ASSUME TreeInv PROVE TreeInStep
    OBVIOUS
  <2>1. Good(tree) /\ InUse \subseteq Nodes(tree) /\ Tables  BY DEF TreeInv
  <2>2. PICK N : Table(tree.buckets, N, Nodes(tree))  BY <2>1 DEF Good
  <2>3. \A n \in Names : Found(tree, n) <=> n \in Nodes(tree)  BY <2>2, FoundIs
  <2>4. ASSUME NEW b \in DOMAIN tree.buckets
        PROVE  /\ Distinct(tree.buckets[b])
               /\ \A n \in ToSet(tree.buckets[b]) : n \in Nodes(tree) /\ BucketOf(tree.buckets, n) = b
    <3>1. b \in 0 .. N - 1  BY <2>2 DEF Table
    <3>2. Distinct(tree.buckets[b]) /\ ToSet(tree.buckets[b]) = {n \in Nodes(tree) : Hash[n] % N = b}
      BY <2>2, <3>1 DEF Table
    <3>3. \A n \in Nodes(tree) : BucketOf(tree.buckets, n) = Hash[n] % N  BY <2>1, <2>2, GoodNodes, BucketIs
    <3> QED BY <3>2, <3>3, Zenon
  <2>5. ASSUME NEW n \in Nodes(tree)
        PROVE  /\ Distinct(tree.children[n])
               /\ ToSet(tree.children[n]) = {m \in Nodes(tree) : m # <<>> /\ Front(m) = n}
               /\ n # <<>> => Front(n) \in Nodes(tree)
    BY <2>1 DEF Good, Family, Nodes, ChildrenIn
  <2> QED BY <2>1, <2>3, <2>4, <2>5, Zenon DEF TreeInStep, Tables, InUse
<1> QED BY <1>1, TreeInvariant, PTL

\* Nodes do not leak: what Pit::erase, Measurements::cleanup and
\* StrategyChoice::erase leave behind was there before them, only a FIB entry
\* leaves a node behind, and cleanupOnFaceRemoval leaves no empty node at all.
THEOREM NodesFreedAlways == Spec => NodesFreed
<1>1. TreeInv /\ [Next]_vars =>
          [/\ DOMAIN fib \subseteq DOMAIN fib' => EmptyNodes' \subseteq EmptyNodes
           /\ (\E f \in Faces : cleanupOnFaceRemoval(f)) => EmptyNodes' = {}]_vars
  BY StepHolds DEF Kept
<1> QED BY <1>1, TreeInvariant, PTL DEF Spec, NodesFreed

\* The hash in a PIT token leads Data to the node of the PIT entry, whatever was
\* inserted, erased and resized since, if no other prefix of the Data's name has
\* the same hash.
THEOREM TokenFindsEntryAlways == Spec => []TokenFindsEntry
<1>1. TreeInv => TokenFindsEntry
  <2> SUFFICES ASSUME TreeInv, NEW n \in DOMAIN pit, NEW d \in Names,
                      IsPrefix(WithoutDigest(n), d),
                      \A m \in Prefixes(d) : Hash[m] = Hash[WithoutDigest(n)] => m = WithoutDigest(n)
               PROVE  findByHash(tree, d, Hash[WithoutDigest(n)]) = <<WithoutDigest(n)>>
    BY Zenon DEF TokenFindsEntry
  <2> DEFINE node == WithoutDigest(n)
             h == Hash[node]
             bucket == tree.buckets[h % Cardinality(DOMAIN tree.buckets)]
             match == {i \in DOMAIN bucket : Hash[bucket[i]] = h /\ IsPrefix(bucket[i], d)}
  <2>1. Good(tree) /\ node \in InUse /\ InUse \subseteq Nodes(tree)  BY UsedIs, Zenon DEF TreeInv, InUse
  <2>2. node \in Nodes(tree) /\ node \in Names  BY <2>1, GoodNodes
  <2>3. PICK N : Table(tree.buckets, N, Nodes(tree))  BY <2>1 DEF Good
  <2>4. BucketOf(tree.buckets, node) = h % N /\ h % N \in 0 .. N - 1  BY <2>2, <2>3, BucketIs
  <2>5. bucket = tree.buckets[h % N]  BY <2>4 DEF BucketOf
  <2>6. bucket \in Seq(Names) /\ ToSet(bucket) = {m \in Nodes(tree) : Hash[m] % N = h % N}
    BY <2>3, <2>4, <2>5, Zenon DEF Table
  <2>7. findByHash(tree, d, h) = IF match = {} THEN <<>> ELSE <<bucket[Min(match)]>>  BY Zenon DEF findByHash
  <2> HIDE DEF bucket
  <2>8. node \in ToSet(bucket)  BY <2>2, <2>6
  <2>9. PICK i \in DOMAIN bucket : bucket[i] = node  BY <2>8, Zenon DEF ToSet
  <2>10. i \in match  BY <2>9
  <2>11. match \subseteq Nat  BY <2>6
  <2>12. Min(match) \in match
    <3> HIDE DEF match
    <3> QED BY <2>10, <2>11, MinIn
  <2>13. bucket[Min(match)] = node  BY <2>12 DEF IsPrefix
  <2> QED BY <2>7, <2>10, <2>13, Zenon
<1> QED BY <1>1, TreeInvariant, PTL
=============================================================================
