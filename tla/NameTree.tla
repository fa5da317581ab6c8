------------------------------ MODULE NameTree ------------------------------
(* The name tree of a forwarder (daemon/table/name-tree*.cpp), and the four   *)
(* tables that hang their entries on its nodes: FIB, PIT, measurements and    *)
(* strategy choice.  A node is in a bucket of a hash table that grows and     *)
(* shrinks, and in its parent's list of children; it is identified with its   *)
(* name.                                                                      *)
(*                                                                            *)
(* Of a table entry only what concerns the tree or a change of strategy is    *)
(* kept: the next hops of a FIB entry, the types of the StrategyInfo items on *)
(* a PIT entry (its records included) and on a measurements entry, the        *)
(* strategy of a choice.  A measurements entry may expire at any time, as     *)
(* strategies extend lifetimes as they like.                                  *)
EXTENDS Naturals, FiniteSets, Sequences

CONSTANTS
    FibNames, PitNames, MeasNames, ChoiceNames,  \* the names each table may have
    Component,                        \* name components
    Digest,                           \* one of them, an implicit digest
    Hash,                             \* computeHash of each name (module NameHash)
    Faces,
    Strategies,                       \* strategy instances: [type, params]
    MinBuckets,                       \* HashtableOptions; load factors in percent
    expandLoadFactor, expandFactor, shrinkLoadFactor, shrinkDivisor

\* Sequences and minima, written out here as the provers need few definitions.
Front(s) == SubSeq(s, 1, Len(s) - 1)
Prefixes(s) == {SubSeq(s, 1, i) : i \in 0 .. Len(s)}
IsPrefix(s, t) == s \in Prefixes(t)
ToSet(s) == {s[i] : i \in DOMAIN s}
Distinct(s) == \A i, j \in DOMAIN s : s[i] = s[j] => i = j
Position(s, x) == CHOOSE i \in DOMAIN s : s[i] = x
Remove(s, x) == [i \in 1 .. Len(s) - 1 |-> IF i < Position(s, x) THEN s[i] ELSE s[i + 1]]
SetToSeqs(S) == {s \in [1 .. Cardinality(S) -> S] : Distinct(s) /\ ToSet(s) = S}
Min(I) == CHOOSE i \in I : \A j \in I : i <= j

Names == UNION {Prefixes(n) : n \in FibNames \cup PitNames \cup MeasNames \cup ChoiceNames}

ASSUME NameTreeAssumption ==
    /\ FibNames \cup PitNames \cup MeasNames \cup ChoiceNames \subseteq Seq(Component)
    /\ <<>> \in ChoiceNames
    /\ Hash \in [Names -> Nat]
    /\ MinBuckets \in Nat \ {0}
    /\ expandFactor \in Nat \ {0, 1} /\ shrinkDivisor \in Nat \ {0, 1}

VARIABLES
    tree,     \* [buckets, children]: the hash table, and each node's children
    fib,      \* name -> next hops
    pit,      \* name -> types of StrategyInfo
    meas,     \* name -> types of StrategyInfo
    choice    \* name -> strategy

vars == <<tree, fib, pit, meas, choice>>

Put(f, x, v) == [y \in DOMAIN f \cup {x} |-> IF y = x THEN v ELSE f[y]]
Drop(f, S) == [y \in DOMAIN f \ S |-> f[y]]

-----------------------------------------------------------------------------
(* Hash table and tree *)

Nodes(t) == DOMAIN t.children
BucketOf(buckets, n) == Hash[n] % Cardinality(DOMAIN buckets)

\* Hashtable::find, which does not look outside the bucket
Found(t, n) == n \in ToSet(t.buckets[BucketOf(t.buckets, n)])

attach(buckets, n) == [buckets EXCEPT ![BucketOf(buckets, n)] = <<n>> \o @]

\* fullEnumerate: all nodes, by bucket
Enumeration(buckets) ==
    LET upTo[i \in 0 .. Cardinality(DOMAIN buckets)] ==
            IF i = 0 THEN <<>> ELSE upTo[i - 1] \o buckets[i - 1]
    IN  upTo[Cardinality(DOMAIN buckets)]

\* Mutant: the nodes stay in the buckets they were in.
resizeInPlace(buckets, n) ==
    [b \in 0 .. n - 1 |-> IF b \in DOMAIN buckets THEN buckets[b] ELSE <<>>]

\* Hashtable::resize
resize(buckets, n) ==
    IF n = Cardinality(DOMAIN buckets) THEN buckets
    ELSE LET all == Enumeration(buckets)
             moved[i \in 0 .. Len(all)] ==
                 IF i = 0 THEN [b \in 0 .. n - 1 |-> <<>>] ELSE attach(moved[i - 1], all[i])
         IN  moved[Len(all)]

\* Hashtable::findOrInsert, and setParent of a new node
findOrInsert(t, n) ==
    LET nBuckets == Cardinality(DOMAIN t.buckets)
        grows == Cardinality(Nodes(t)) + 1 > (expandLoadFactor * nBuckets) \div 100
        attached == attach(t.buckets, n)
        family == IF n = <<>> THEN t.children
                  ELSE [t.children EXCEPT ![Front(n)] = Append(@, n)]
    IN  IF Found(t, n) THEN t
        ELSE [buckets |-> IF grows THEN resize(attached, expandFactor * nBuckets) ELSE attached,
              children |-> Put(family, n, <<>>)]

\* NameTree::lookup: the node, and all above it
lookup(t, n) ==
    LET down[i \in 0 .. Len(n) + 1] ==
            IF i = 0 THEN t ELSE findOrInsert(down[i - 1], SubSeq(n, 1, i - 1))
    IN  down[Len(n) + 1]

\* Entry::unsetParent and Hashtable::erase
eraseNode(t, n) ==
    LET nBuckets == Cardinality(DOMAIN t.buckets)
        shrinks == Cardinality(Nodes(t)) - 1 < (shrinkLoadFactor * nBuckets) \div 100
        smaller == nBuckets \div shrinkDivisor
        detached == [t.buckets EXCEPT ![BucketOf(t.buckets, n)] = Remove(@, n)]
    IN  [buckets |-> IF shrinks
                     THEN resize(detached, IF smaller < MinBuckets THEN MinBuckets ELSE smaller)
                     ELSE detached,
         children |-> [m \in Nodes(t) \ {n} |->
                          IF m = Front(n) THEN Remove(t.children[m], n) ELSE t.children[m]]]

\* NameTree::eraseIfEmpty without and with its ancestors; used is the set of
\* nodes with table entries.  An ancestor of a node that stays is not empty.
isEmpty(t, used, n) == t.children[n] = <<>> /\ n \notin used
eraseOneIfEmpty(t, used, n) == IF isEmpty(t, used, n) THEN eraseNode(t, n) ELSE t
eraseEach(t, used, order) ==
    LET left[i \in 0 .. Len(order)] ==
            IF i = 0 THEN t ELSE eraseOneIfEmpty(left[i - 1], used, order[i])
    IN  left[Len(order)]
eraseIfEmpty(t, used, n) ==
    eraseEach(t, used, [i \in 1 .. Len(n) + 1 |-> SubSeq(n, 1, Len(n) + 1 - i)])

\* PartialEnumerationImpl::advance: the node after e below ref in pre-order,
\* as <<node>>, or << >> at the end.  The predicate wants the nodes selves, and
\* the children of the nodes parents.
advance(t, ref, start, wantBelowStart, selves, parents) ==
    LET next[e \in Nodes(t), wantChildren \in BOOLEAN] ==
            LET kids == t.children[e]
                siblings == t.children[Front(e)]
                later == {i \in DOMAIN siblings : i > Position(siblings, e) /\ siblings[i] \in selves \cup parents}
                visit(s) == IF s \in selves THEN <<s>> ELSE next[s, (s \in parents)]
            IN  IF wantChildren /\ kids # <<>> THEN visit(Head(kids))
                ELSE IF e = ref THEN <<>>
                ELSE IF later # {} THEN visit(siblings[Min(later)])
                ELSE next[Front(e), FALSE]
    IN  next[start, wantBelowStart]

visitedAfter(t, ref, start, selves, parents) ==
    LET after[e \in Nodes(t)] ==
            LET next == advance(t, ref, e, e \in parents, selves, parents)
            IN  IF next = <<>> THEN <<>> ELSE next \o after[Head(next)]
    IN  after[start]

\* Mutant: nothing is visited below a starting node that is rejected.
enumerateSelected(t, ref, selves, parents) ==
    IF ~Found(t, ref) \/ ref \notin selves THEN <<>>
    ELSE <<ref>> \o visitedAfter(t, ref, ref, selves, parents)

\* NameTree::partialEnumerate
partialEnumerate(t, ref, selves, parents) ==
    IF ~Found(t, ref) THEN <<>>
    ELSE (IF ref \in selves THEN <<ref>> ELSE <<>>) \o visitedAfter(t, ref, ref, selves, parents)

\* Mutant: the node's own hash is not compared.
findInBucket(t, data, hash) ==
    LET bucket == t.buckets[hash % Cardinality(DOMAIN t.buckets)]
        match == {i \in DOMAIN bucket : IsPrefix(bucket[i], data)}
    IN  IF match = {} THEN <<>> ELSE <<bucket[Min(match)]>>

\* Hashtable::find with the hash of a PIT token, for Data: as <<node>> or << >>
findByHash(t, data, hash) ==
    LET bucket == t.buckets[hash % Cardinality(DOMAIN t.buckets)]
        match == {i \in DOMAIN bucket : Hash[bucket[i]] = hash /\ IsPrefix(bucket[i], data)}
    IN  IF match = {} THEN <<>> ELSE <<bucket[Min(match)]>>

-----------------------------------------------------------------------------
(* Tables *)

\* Where Pit::findOrInsert hangs the entry of a name: above its digest.
WithoutDigest(n) == IF n # <<>> /\ n[Len(n)] = Digest THEN Front(n) ELSE n

\* Entry::hasTableEntries
Used(F, P, M, C) == DOMAIN F \cup {WithoutDigest(n) : n \in DOMAIN P} \cup DOMAIN M \cup DOMAIN C

\* findLongestPrefixMatch: the node of the longest prefix that is in a table
LongestIn(n, S) == CHOOSE m \in Prefixes(n) \cap S : \A p \in Prefixes(n) \cap S : IsPrefix(p, m)

\* StrategyChoice::findEffectiveStrategy: the choice that n falls under
Governor(C, n) == LongestIn(n, DOMAIN C)

Init ==
    /\ tree = findOrInsert([buckets |-> [b \in 0 .. MinBuckets - 1 |-> <<>>],
                            children |-> << >>], <<>>)
    /\ fib = << >> /\ pit = << >> /\ meas = << >>
    /\ \E s \in Strategies : choice = [n \in {<<>>} |-> s]      \* setDefaultStrategy

\* Fib::insert and Fib::addOrUpdateNextHop
addNextHop(p, f) ==
    /\ tree' = lookup(tree, p)
    /\ fib' = Put(fib, p, {f} \cup (IF p \in DOMAIN fib THEN fib[p] ELSE {}))
    /\ UNCHANGED <<pit, meas, choice>>

\* Fib::removeNextHop, for all entries
WithoutNextHop(F, f) ==
    LET left == [p \in DOMAIN F |-> F[p] \ {f}]
    IN  Drop(left, {p \in DOMAIN F : F[p] = {f}})

\* Fib::removeNextHop: the FIB entry may go, the node stays.
removeNextHop(p, f) ==
    /\ p \in DOMAIN fib /\ f \in fib[p]
    /\ fib' = IF fib[p] = {f} THEN Drop(fib, {p}) ELSE [fib EXCEPT ![p] = @ \ {f}]
    /\ UNCHANGED <<tree, pit, meas, choice>>

\* cleanupOnFaceRemoval: of the nodes without table entries, the ones of
\* longer names go first, and ancestors only in their turn.  The order among
\* names of one length is left open.
ShorterFirst(order) ==  \* mutant
    \A i, j \in DOMAIN order : i < j => Len(order[i]) <= Len(order[j])
LongerFirst(order) ==
    \A i, j \in DOMAIN order : i < j => Len(order[i]) >= Len(order[j])

cleanupOnFaceRemoval(f) ==
    LET left == WithoutNextHop(fib, f)
        used == Used(left, pit, meas, choice)
        maybeEmpty == ToSet(Enumeration(tree.buckets)) \ used
    IN  /\ fib' = left
        /\ \E order \in SetToSeqs(maybeEmpty) :
              LongerFirst(order) /\ tree' = eraseEach(tree, used, order)
        /\ UNCHANGED <<pit, meas, choice>>

\* Pit::insert
insertPit(n) ==
    /\ n \notin DOMAIN pit
    /\ tree' = lookup(tree, WithoutDigest(n))
    /\ pit' = Put(pit, n, {})
    /\ UNCHANGED <<fib, meas, choice>>

\* Pit::erase
erasePit(n) ==
    /\ n \in DOMAIN pit
    /\ pit' = Drop(pit, {n})
    /\ tree' = eraseIfEmpty(tree, Used(fib, pit', meas, choice), WithoutDigest(n))
    /\ UNCHANGED <<fib, meas, choice>>

\* The strategy of PIT entry n leaves StrategyInfo on it, and asks for a
\* measurements entry at or above its name.  Measurements::get makes one;
\* MeasurementsAccessor::filter hands it out if it is the strategy's own.
leaveStrategyInfo(n, m) ==
    LET type == choice[Governor(choice, n)].type
        old == IF m \in DOMAIN meas THEN meas[m] ELSE {}
    IN  /\ n \in DOMAIN pit
        /\ pit' = [pit EXCEPT ![n] = @ \cup {type}]
        /\ tree' = lookup(tree, m)
        /\ meas' = Put(meas, m, IF Governor(choice, m) = Governor(choice, n)
                                THEN old \cup {type} ELSE old)
        /\ UNCHANGED <<fib, choice>>

\* Measurements::cleanup
cleanupMeasurements(m) ==
    /\ m \in DOMAIN meas
    /\ meas' = Drop(meas, {m})
    /\ tree' = eraseIfEmpty(tree, Used(fib, pit, meas', choice), m)
    /\ UNCHANGED <<fib, pit, choice>>

\* What a new strategy at p governs: changeStrategy's predicate.
Governed(C, p) == {p} \cup (Names \ DOMAIN C)

\* Mutant: the node of the choice only.
changeStrategyHere(t, C, p, old, new) ==
    /\ pit' = [n \in DOMAIN pit |-> IF WithoutDigest(n) = p THEN {} ELSE pit[n]]
    /\ meas' = [n \in DOMAIN meas |-> IF n = p THEN {} ELSE meas[n]]

\* StrategyChoice::changeStrategy and clearStrategyInfo
changeStrategy(t, C, p, old, new) ==
    LET cleared == IF old.type = new.type THEN {}
                   ELSE ToSet(partialEnumerate(t, p, Governed(C, p), Governed(C, p)))
    IN  /\ pit' = [n \in DOMAIN pit |-> IF WithoutDigest(n) \in cleared THEN {} ELSE pit[n]]
        /\ meas' = [n \in DOMAIN meas |-> IF n \in cleared THEN {} ELSE meas[n]]

\* StrategyChoice::insert
insertChoice(p, s) ==
    LET C == Put(choice, p, s)
    IN  /\ p \in DOMAIN choice => choice[p] # s
        /\ tree' = lookup(tree, p)
        /\ choice' = C
        /\ changeStrategy(tree', C, p, choice[Governor(choice, p)], s)
        /\ UNCHANGED fib

\* StrategyChoice::erase
eraseChoice(p) ==
    /\ p \in DOMAIN choice /\ p # <<>>
    /\ changeStrategy(tree, choice, p, choice[p], choice[Governor(choice, Front(p))])
    /\ choice' = Drop(choice, {p})
    /\ tree' = eraseIfEmpty(tree, Used(fib, pit, meas, choice'), p)
    /\ UNCHANGED fib

Next ==
    \/ \E p \in FibNames, f \in Faces : addNextHop(p, f) \/ removeNextHop(p, f)
    \/ \E f \in Faces : cleanupOnFaceRemoval(f)
    \/ \E n \in PitNames : insertPit(n) \/ erasePit(n) \/ \E m \in Prefixes(n) \cap MeasNames : leaveStrategyInfo(n, m)
    \/ \E m \in MeasNames : cleanupMeasurements(m)
    \/ \E p \in ChoiceNames : eraseChoice(p) \/ \E s \in Strategies : insertChoice(p, s)

Spec == Init /\ [][Next]_vars

-----------------------------------------------------------------------------
\* Whatever the order of insertions, erasures and resizes of the hash table, a
\* node is in the bucket where Hashtable::find looks for it, once; it is in the
\* child list of the node above it, once; every table entry has its node, and
\* no FIB entry is without next hops.
TreeInStep ==
    /\ Used(fib, pit, meas, choice) \subseteq Nodes(tree)
    /\ \A p \in DOMAIN fib : fib[p] # {}
    /\ \A n \in Names : Found(tree, n) <=> n \in Nodes(tree)
    /\ \A b \in DOMAIN tree.buckets :
          /\ Distinct(tree.buckets[b])
          /\ \A n \in ToSet(tree.buckets[b]) : n \in Nodes(tree) /\ BucketOf(tree.buckets, n) = b
    /\ \A n \in Nodes(tree) :
          /\ Distinct(tree.children[n])
          /\ ToSet(tree.children[n]) = {m \in Nodes(tree) : m # <<>> /\ Front(m) = n}
          /\ n # <<>> => Front(n) \in Nodes(tree)

EmptyNodes == {n \in Nodes(tree) : isEmpty(tree, Used(fib, pit, meas, choice), n)}

\* Nodes do not leak: an entry of a table takes the nodes along that only it
\* kept.  A FIB entry that loses its last next hop is the exception: its node
\* stays until it is used again or cleanupOnFaceRemoval, which leaves no empty
\* node (its last assertion), has passed.
NodesFreed ==
    [][/\ DOMAIN fib \subseteq DOMAIN fib' => EmptyNodes' \subseteq EmptyNodes
       /\ (\E f \in Faces : cleanupOnFaceRemoval(f)) => EmptyNodes' = {}]_vars

\* StrategyInfo on a PIT entry, its records or a measurements entry is that of
\* the strategy it falls under, whatever strategies it fell under before.
\* (PIT entries with an implicit digest hang above their name, out of reach of
\* a choice for the full name.)
StrategyInfoFits ==
    /\ \A n \in DOMAIN pit : WithoutDigest(n) = n => pit[n] \subseteq {choice[Governor(choice, n)].type}
    /\ \A m \in DOMAIN meas : meas[m] \subseteq {choice[Governor(choice, m)].type}

\* partialEnumerate visits the nodes its predicate selects below the given one,
\* each once and after those above it: here for the predicate of changeStrategy
\* and for one that skips nodes and goes on below them, as onNewNextHop's does.
EnumeratesBelow(ref, selves, parents) ==
    LET s == partialEnumerate(tree, ref, selves, parents)
        selected == {n \in Nodes(tree) \cap selves : IsPrefix(ref, n) /\
                        \A m \in Prefixes(n) \ {n} : IsPrefix(ref, m) => m \in parents}
    IN  /\ Distinct(s) /\ ToSet(s) = selected
        /\ \A i, j \in DOMAIN s : IsPrefix(s[i], s[j]) => i <= j
EnumerationExact ==
    \A ref \in Names :
        /\ EnumeratesBelow(ref, Governed(choice, ref), Governed(choice, ref))
        /\ EnumeratesBelow(ref, DOMAIN pit \ DOMAIN fib, Names \ DOMAIN fib)

\* A PIT token, which carries the hash of the node and comes back long after,
\* leads Data to the node of its PIT entry, if no other prefix of the Data's
\* name has the same hash.
TokenFindsEntry ==
    \A n \in DOMAIN pit : \A d \in Names :
        LET node == WithoutDigest(n)
        IN  /\ IsPrefix(node, d)
            /\ \A m \in Prefixes(d) : Hash[m] = Hash[node] => m = node
            => findByHash(tree, d, Hash[node]) = <<node>>
=============================================================================
