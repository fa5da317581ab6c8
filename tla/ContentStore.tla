---------------------------- MODULE ContentStore ----------------------------
(* The Content Store of one forwarder with the LRU policy, built with        *)
(* ETRI_DUAL_CS: a prefix-match table keyed by full name, an exact-match     *)
(* table keyed by name, one LRU queue for each (daemon/table/cs.cpp, cs.hpp, *)
(* cs-entry.cpp, cs-policy.cpp, cs-policy-lru.cpp).  The "unsolicited" mark  *)
(* of an entry is left out: the LRU policy never reads it.                   *)
EXTENDS Naturals, Sequences, FiniteSets

CONSTANTS
    Component, Digest, NoDigest,
    Data,          \* [name, digest] records
    Rank,          \* Data -> Nat, the canonical order of full names
    Freshness,     \* Data -> Nat, FreshnessPeriod
    Prefixes,      \* prefixes of "cs erase" commands
    Counts,        \* their counts
    Limits,        \* capacities of "cs config" commands
    ConfigLimits,  \* <<pm, em>> pairs of configuration files
    EraseLimit,    \* CsManager::ERASE_LIMIT
    MaxTime        \* bound on the clock

ASSUME StoreAssumption ==
    /\ Data \subseteq [name : Seq(Component), digest : Digest] /\ IsFiniteSet(Data)
    /\ NoDigest \notin Digest
    /\ Rank \in [Data -> Nat] /\ \A d, e \in Data : Rank[d] = Rank[e] => d = e
    /\ Freshness \in [Data -> Nat]
    /\ Prefixes \subseteq Seq(Component)
    /\ Counts \subseteq Nat /\ Limits \subseteq Nat
    /\ ConfigLimits \subseteq Nat \X Nat /\ ConfigLimits # {}
    /\ EraseLimit \in Nat /\ MaxTime \in Nat

VARIABLES
    table,        \* m_table: cached Data -> when it stops being fresh
    tableExact,   \* m_tableExact: name -> [data, freshUntil]
    queue,        \* LruPolicy::m_queue, least recently used first
    queueExact,   \* LruPolicy::m_queueExact
    pmLimit, emLimit, limit,   \* m_pm_limit, m_em_limit, m_limit
    shouldAdmit, shouldServe,
    now,
    fault         \* the policy took the front of an empty queue

limits == <<pmLimit, emLimit, limit>>
switches == <<shouldAdmit, shouldServe>>
vars == <<table, tableExact, queue, queueExact, limits, switches, now, fault>>

Names == {d.name : d \in Data}
Interest == [name : Names \cup Prefixes, digest : Digest \cup {NoDigest},
             canBePrefix : BOOLEAN, mustBeFresh : BOOLEAN]

TypeOK ==
    /\ DOMAIN table \subseteq Data
    /\ \A d \in DOMAIN table : table[d] \in 0 .. now + Freshness[d]
    /\ DOMAIN tableExact \subseteq Names
    /\ \A n \in DOMAIN tableExact :
          /\ tableExact[n] \in [data : Data, freshUntil : Nat]
          /\ tableExact[n].freshUntil <= now + Freshness[tableExact[n].data]
    /\ queue \in Seq(Data) /\ queueExact \in Seq(Names)
    /\ pmLimit \in Nat /\ emLimit \in Nat /\ limit \in Nat
    /\ shouldAdmit \in BOOLEAN /\ shouldServe \in BOOLEAN
    /\ now \in 0 .. MaxTime /\ fault \in BOOLEAN

-----------------------------------------------------------------------------
IsPrefixOf(p, n) == Len(p) <= Len(n) /\ \A i \in 1 .. Len(p) : p[i] = n[i]

\* Interest::matchesData: an implicit digest makes the name a full name.
NameMatches(i, d) ==
    IF i.digest # NoDigest THEN i.name = d.name /\ i.digest = d.digest
    ELSE IF i.canBePrefix THEN IsPrefixOf(i.name, d.name)
    ELSE i.name = d.name
MatchesData(i, d) == NameMatches(i, d) /\ (i.mustBeFresh => Freshness[d] > 0)

\* Entry::canSatisfy, over an entry of m_table
canSatisfy(i, d) == MatchesData(i, d) /\ (i.mustBeFresh => table[d] >= now)

First(S) == CHOOSE d \in S : \A e \in S : Rank[d] <= Rank[e]

\* A queue without some elements: those that stay keep their order.
Without(q, S) ==
    LET stay == {k \in 1 .. Len(q) : q[k] \notin S}
        place(j) == CHOOSE k \in stay : Cardinality({l \in stay : l <= k}) = j
    IN  [j \in 1 .. Cardinality(stay) |-> q[place(j)]]

\* insertToQueue: to the back, whether it is new there or not.
TouchPushBack(q, x) == Append(q, x)
Touch(q, x) == Append(Without(q, {x}), x)

Restricted(f, S) == [x \in DOMAIN f \cap S |-> f[x]]
Elements(q) == {q[k] : k \in 1 .. Len(q)}

\* How many entries are over a limit
Excess(size, max) == IF size > max THEN size - max ELSE 0

TableSize(t) == Cardinality(DOMAIN t)

\* LruPolicy::evictEntries compares the size of both tables with the limit of
\* the prefix table, and takes from the prefix queue only.
ToEvictOwnTable(t, te, pm) == Excess(TableSize(t), pm + 1)
ToEvictAtLimit(t, te, pm) == Excess(TableSize(t) + TableSize(te) + 1, pm)
ToEvict(t, te, pm) == Excess(TableSize(t) + TableSize(te), pm)

evictEntries(t, q, te, pm) ==
    LET n == ToEvict(t, te, pm)
        kept == SubSeq(q, n + 1, Len(q))
    IN  [table |-> Restricted(t, Elements(kept)), queue |-> kept, fault |-> n > Len(q)]

\* LruPolicy::evictEntriesExact
evictEntriesExact(te, q, em) ==
    LET n == Excess(TableSize(te), em)
        kept == SubSeq(q, n + 1, Len(q))
    IN  [table |-> Restricted(te, Elements(kept)), queue |-> kept]

-----------------------------------------------------------------------------
Init ==
    /\ table = << >> /\ tableExact = << >>
    /\ queue = << >> /\ queueExact = << >>
    /\ \E c \in ConfigLimits : pmLimit = c[1] /\ emLimit = c[2]
    /\ limit \in Limits
    /\ shouldAdmit = TRUE /\ shouldServe = TRUE
    /\ now = 0 /\ fault = FALSE

\* Entry::updateFreshUntil
freshUntilAdded(d) == (IF d \in DOMAIN table THEN table[d] ELSE now) + Freshness[d]
freshUntil(d) == now + Freshness[d]

\* Cs::insert of Data whose PIT token says CanBePrefix, or that has no token.
insertPrefix(d) ==
    LET t == [x \in DOMAIN table \cup {d} |->
                  IF x = d THEN freshUntil(d) ELSE table[x]]
        e == evictEntries(t, Touch(queue, d), tableExact, pmLimit)
    IN  /\ IF d \in DOMAIN table
           THEN /\ table' = t /\ queue' = Touch(queue, d)
                /\ UNCHANGED fault
           ELSE /\ table' = e.table /\ queue' = e.queue
                /\ fault' = (fault \/ e.fault)
        /\ UNCHANGED <<tableExact, queueExact>>

\* Cs::insert of Data whose PIT token says CanBePrefix = 0: an entry with the
\* same name is replaced.
insertExact(d) ==
    LET te == [n \in DOMAIN tableExact \cup {d.name} |->
                  IF n = d.name THEN [data |-> d, freshUntil |-> freshUntil(d)]
                  ELSE tableExact[n]]
        e == evictEntriesExact(te, Touch(queueExact, d.name), emLimit)
    IN  /\ tableExact' = e.table /\ queueExact' = e.queue
        /\ UNCHANGED <<table, queue, fault>>

\* Forwarder::onIncomingData asks for a limit above zero first;
\* onDataUnsolicited does not.
insert(d, isCanBePrefix, isUnsolicited) ==
    /\ ~fault
    /\ shouldAdmit
    /\ isUnsolicited \/ (IF isCanBePrefix THEN pmLimit ELSE emLimit) > 0
    /\ IF isCanBePrefix THEN insertPrefix(d) ELSE insertExact(d)
    /\ UNCHANGED <<limits, switches, now>>

\* A lookup that forgets MustBeFresh in the exact table.
MatchesStale(i) ==
    IF ~shouldServe \/ (IF i.canBePrefix THEN pmLimit ELSE emLimit) = 0 THEN {}
    ELSE IF i.canBePrefix
    THEN LET S == {d \in DOMAIN table : canSatisfy(i, d)}
         IN  IF S = {} THEN {} ELSE {First(S)}
    ELSE {tableExact[n].data : n \in DOMAIN tableExact \cap {i.name}}

\* Cs::findImpl and findImplExact: the entries an Interest may be answered
\* with.  The exact table is searched by the name without the digest.
Matches(i) ==
    IF ~shouldServe \/ (IF i.canBePrefix THEN pmLimit ELSE emLimit) = 0 THEN {}
    ELSE IF i.canBePrefix
    THEN LET S == {d \in DOMAIN table : canSatisfy(i, d)}
         IN  IF S = {} THEN {} ELSE {First(S)}
    ELSE {tableExact[n].data : n \in {n \in DOMAIN tableExact :
             n = i.name /\ (i.mustBeFresh => tableExact[n].freshUntil >= now)}}

\* Cs::find: a hit makes the entry the most recently used one.
find(i) ==
    /\ ~fault
    /\ \E d \in Matches(i) :
          IF i.canBePrefix
          THEN queue' = Touch(queue, d) /\ UNCHANGED queueExact
          ELSE queueExact' = Touch(queueExact, d.name) /\ UNCHANGED queue
    /\ UNCHANGED <<table, tableExact, limits, switches, now, fault>>

\* Cs::eraseImpl takes entries under the prefix in canonical order.
Erased(prefix, n) ==
    LET under == {d \in DOMAIN table : IsPrefixOf(prefix, d.name)}
    IN  {d \in under : Cardinality({e \in under : Rank[e] < Rank[d]}) < n}

\* CsManager::erase and the worker's CS ERASE.  When the limit of one command
\* was reached, a lookup under the prefix tells whether there is more to do.
erase(prefix, count) ==
    LET n == IF count < EraseLimit THEN count ELSE EraseLimit
        gone == Erased(prefix, n)
        goneExact == {prefix} \cap DOMAIN tableExact
        nErased == Cardinality(gone) + Cardinality(goneExact)
        rest == Without(queue, gone)
        more == {d \in DOMAIN table \ gone : IsPrefixOf(prefix, d.name)}
    IN  /\ ~fault
        /\ table' = Restricted(table, DOMAIN table \ gone)
        /\ tableExact' = Restricted(tableExact, DOMAIN tableExact \ goneExact)
        /\ queueExact' = Without(queueExact, {prefix})
        /\ queue' = IF /\ nErased = EraseLimit /\ count > EraseLimit
                       /\ shouldServe /\ pmLimit > 0 /\ more # {}
                    THEN Touch(rest, First(more)) ELSE rest
        /\ UNCHANGED <<limits, switches, now, fault>>

\* "nfdc cs config": Policy::setLimit, then both evictions.
setLimit(n) ==
    LET e == evictEntries(table, queue, tableExact, pmLimit)
        x == evictEntriesExact(tableExact, queueExact, emLimit)
    IN  /\ ~fault
        /\ limit' = n
        /\ table' = e.table /\ queue' = e.queue /\ fault' = e.fault
        /\ tableExact' = x.table /\ queueExact' = x.queue
        /\ UNCHANGED <<pmLimit, emLimit, switches, now>>

\* TablesConfigSection::processConfig on a reload: Policy::setPmLimit, then
\* setEmLimit.
reloadConfig(pm, em) ==
    LET e == evictEntries(table, queue, tableExact, pm)
        x == evictEntriesExact(tableExact, queueExact, em)
    IN  /\ ~fault
        /\ pmLimit' = pm /\ emLimit' = em
        /\ table' = e.table /\ queue' = e.queue /\ fault' = e.fault
        /\ tableExact' = x.table /\ queueExact' = x.queue
        /\ UNCHANGED <<limit, switches, now>>

enableAdmit(b) ==
    /\ ~fault
    /\ shouldAdmit' = b
    /\ UNCHANGED <<table, tableExact, queue, queueExact, limits, shouldServe, now, fault>>

enableServe(b) ==
    /\ ~fault
    /\ shouldServe' = b
    /\ UNCHANGED <<table, tableExact, queue, queueExact, limits, shouldAdmit, now, fault>>

Tick ==
    /\ ~fault
    /\ now < MaxTime /\ now' = now + 1
    /\ UNCHANGED <<table, tableExact, queue, queueExact, limits, switches, fault>>

Next ==
    \/ \E d \in Data, p, u \in BOOLEAN : insert(d, p, u)
    \/ \E i \in Interest : find(i)
    \/ \E p \in Prefixes, n \in Counts : erase(p, n)
    \/ \E n \in Limits : setLimit(n)
    \/ \E c \in ConfigLimits : reloadConfig(c[1], c[2])
    \/ \E b \in BOOLEAN : enableAdmit(b) \/ enableServe(b)
    \/ Tick

Spec == Init /\ [][Next]_vars

-----------------------------------------------------------------------------
\* Each LRU queue holds exactly the entries of its table, each once.  The
\* policy keeps iterators into the tables: a queue that is out of step evicts
\* through a dangling iterator.
QueuesInStep ==
    /\ Elements(queue) = DOMAIN table /\ Len(queue) = TableSize(table)
    /\ Elements(queueExact) = DOMAIN tableExact /\ Len(queueExact) = TableSize(tableExact)

\* Neither table outgrows the limit the configuration gives it, whatever
\* inserts, lookups, erasures and reloads come before.
WithinLimits == TableSize(table) <= pmLimit /\ TableSize(tableExact) <= emLimit

\* The exact table of any configuration fits under the prefix table's limit of
\* any other: what evictEntries takes for granted when the limits are reloaded.
ExactFits == \A c, e \in ConfigLimits : c[2] <= e[1]

\* LruPolicy::evictEntries asserts !m_queue.empty() before it takes the front.
\* It counts the entries of both tables against the prefix table's limit, so
\* the assertion needs the exact table to fit under that limit.
NeverEvictsFromEmpty == ~fault

\* Whatever is cached, a lookup without implicit digest answers with Data the
\* Interest asks for, and with fresh Data when the Interest says so.
HitSatisfies ==
    \A i \in Interest : i.digest = NoDigest => \A d \in Matches(i) :
        /\ NameMatches(i, d)
        /\ i.mustBeFresh => \/ i.canBePrefix /\ table[d] >= now
                            \/ ~i.canBePrefix /\ tableExact[d.name].freshUntil >= now
=============================================================================
