----------------------- MODULE ForwarderServiceProofs -----------------------
(* What downstreams get from the forwarder: only Data that they wait for,    *)
(* with their PIT token, and someone upstream who is waited for as long.     *)
EXTENDS ForwarderProofs, FiniteSetTheorems

-----------------------------------------------------------------------------
(* Data.  The three ways in which a step sends Data:                         *)

FromCache(p) ==
    \E i \in Interests : \E d \in CsMatches(i.key) :
        /\ onContentStoreHit(i, d)
        /\ p.to = i.face /\ p.data = d

ToOne(p) ==
    \E k \in DOMAIN pit, f \in Faces : \E g \in PendingDownstreams(pit[k], f) :
        /\ MatchesData(k, p.data) /\ satisfyOne(k, f, p.data)
        /\ p.to = g /\ p.token = TokenOf(pit[k].in[g])

ToAll(p) ==
    \E K \in SUBSET DOMAIN pit, f \in Faces, t \in DataTokens :
        /\ Cardinality(K) > 1 /\ \A k \in K : MatchesData(k, p.data)
        /\ satisfyAll(K, f, p.data, t)
        /\ \E k \in K : p.to \in PendingDownstreams(pit[k], f)

LEMMA DataSent ==
    ASSUME ForwarderInv, Next, NEW p \in sent', p.type = "data"
    PROVE  (FromCache(p) \/ ToOne(p) \/ ToAll(p)) /\ p.data \in Data
<1>1. CASE sent' = {}  BY <1>1
<1>2. CASE \A q \in sent' : q.type = "nack"  BY <1>2
<1>3. ASSUME NEW i \in Interests, onIncomingInterest(i)
      PROVE  FromCache(p) /\ p.data \in Data
  <2>1. CASE onInterestLoop(i)
    <3>1. \A q \in sent' : q.type = "nack"  BY <2>1 DEF onInterestLoop
    <3> QED BY <3>1
  <2>2. CASE onContentStoreMiss(i)
    <3>1. sent' = Missed(i).sent  BY <2>2 DEF onContentStoreMiss, Missed
    <3>2. i.face \in up /\ now + i.lifetime <= MaxTime  BY <1>3 DEF onIncomingInterest
    <3> QED BY <3>1, <3>2, MissedProper
  <2>3. ASSUME NEW d \in CsMatches(i.key), onContentStoreHit(i, d)
        PROVE  FromCache(p) /\ p.data \in Data
    <3>1. p \in onOutgoingData(d, i.face, "none")  BY <2>3 DEF onContentStoreHit
    <3>2. p.to = i.face /\ p.data = d  BY <3>1, DataInScope
    <3>3. i.key.canBePrefix \in BOOLEAN  BY InterestType, KeyType
    <3>4. d \in Data  BY <3>3 DEF CsMatches, ForwarderInv, PartialFunction
    <3> QED BY <2>3, <3>2, <3>4 DEF FromCache
  <2> QED BY <1>1, <1>3, <2>1, <2>2, <2>3 DEF onIncomingInterest
<1>4. ASSUME NEW f \in Faces, NEW d \in Data, NEW t \in DataTokens, onIncomingData(f, d, t)
      PROVE  (ToOne(p) \/ ToAll(p)) /\ p.data \in Data
  <2> DEFINE K == PitMatches(d, t)
  <2>1. \A k \in K : k \in DOMAIN pit /\ MatchesData(k, d)  BY DEF PitMatches
  <2>2. ASSUME NEW k \in K, satisfyOne(k, f, d) PROVE ToOne(p) /\ p.data \in Data
    <3> DEFINE to == PendingDownstreams(pit[k], f)
    <3>1. sent' = UNION {onOutgoingData(d, g, TokenOf(pit[k].in[g])) : g \in to}
      BY <2>2 DEF satisfyOne
    <3>2. PICK g \in to : p \in onOutgoingData(d, g, TokenOf(pit[k].in[g]))  BY <3>1
    <3>3. p.to = g /\ p.data = d /\ p.token = TokenOf(pit[k].in[g])  BY <3>2, DataInScope
    <3> QED BY <2>1, <2>2, <3>3 DEF ToOne
  <2>3. ASSUME Cardinality(K) > 1, satisfyAll(K, f, d, t) PROVE ToAll(p) /\ p.data \in Data
    <3> DEFINE to == UNION {PendingDownstreams(pit[k], f) : k \in K}
               token == IF t.present THEN "node" ELSE "none"
    <3>1. sent' = UNION {onOutgoingData(d, g, token) : g \in to}  BY <2>3 DEF satisfyAll
    <3> HIDE DEF token
    <3>2. PICK g \in to : p \in onOutgoingData(d, g, token)  BY <3>1
    <3>3. p.to = g /\ p.data = d  BY <3>2, DataInScope
    <3>4. \E k \in K : g \in PendingDownstreams(pit[k], f)  BY <3>2
    <3>5. K \in SUBSET DOMAIN pit  BY <2>1
    <3> HIDE DEF K, to
    <3> QED BY <2>1, <2>3, <3>3, <3>4, <3>5 DEF ToAll
  <2> QED BY <1>1, <1>4, <2>2, <2>3, Zenon DEF onIncomingData
<1>5. CASE \E k \in Keys : onInterestFinalize(k)  BY <1>1, <1>5 DEF onInterestFinalize
<1>6. CASE \E f \in Faces, k \in Keys, n \in Nonces : onIncomingNack(f, k, n)
  BY <1>2, <1>6, NackStep
<1>7. CASE \E f \in Removable : removeFace(f)  BY <1>1, <1>7, Zenon DEF removeFace
<1>8. CASE \E names \in SUBSET Changeable, new \in Strategies : changeStrategy(names, new)
  BY <1>1, <1>8, Zenon DEF changeStrategy
<1>9. CASE forget  BY <1>1, <1>9 DEF forget
<1>10. CASE Tick  BY <1>1, <1>10 DEF Tick
<1> QED BY <1>3, <1>4, <1>5, <1>6, <1>7, <1>8, <1>9, <1>10 DEF Next

\* The entries after each of the three
LEMMA CacheEntries ==
    ASSUME ForwarderInv, NEW i \in Interests, NEW d \in CsMatches(i.key), onContentStoreHit(i, d)
    PROVE  /\ DOMAIN pit' = DOMAIN pit \cup {i.key} /\ DOMAIN Entry(i.key).in = {}
           /\ pit'[i.key].in = Entry(i.key).in
           /\ \A k \in DOMAIN pit : k # i.key => pit'[k] = pit[k]
<1> DEFINE n == [Entry(i.key) EXCEPT !.satisfied = TRUE, !.freshness = d.freshness, !.timer = now]
<1>0. i.key \in Keys  BY InterestType
<1>1. TypedNew(Entry(i.key), up)  BY EntryType
<1>2. n.in = Entry(i.key).in  BY <1>1 DEF TypedNew
<1>3. pit' = Put(pit, i.key, n)  BY DEF onContentStoreHit
<1>4. DOMAIN Entry(i.key).in = {}  BY DEF CsMatches
<1> HIDE DEF n
<1>5. DOMAIN pit' = DOMAIN pit \cup {i.key} /\ pit'[i.key] = n
      /\ \A k \in DOMAIN pit : k # i.key => pit'[k] = pit[k]
  BY <1>3, Zenon DEF Put
<1> QED BY <1>2, <1>4, <1>5

LEMMA OneEntry ==
    ASSUME ForwarderInv, NEW k \in DOMAIN pit, NEW f, NEW d \in Data, satisfyOne(k, f, d)
    PROVE  /\ DOMAIN pit' = DOMAIN pit
           /\ DOMAIN pit'[k].in = DOMAIN pit[k].in \ PendingDownstreams(pit[k], f)
           /\ \A j \in DOMAIN pit : j # k => pit'[j] = pit[j]
<1> DEFINE in == Drop(pit[k].in, PendingDownstreams(pit[k], f))
           n == Satisfied([pit[k] EXCEPT !.in = in], f, d)
<1>1. Typed(pit[k], up) /\ now \in 0 .. MaxTime  BY DEF ForwarderInv
<1>2. PartialFunction(in, up, InRecord) /\ \A g \in DOMAIN in : in[g].expiry <= MaxTime
  <2>1. PartialFunction(in, up, InRecord)  BY <1>1, DropType, Zenon DEF Typed
  <2>2. \A g \in DOMAIN in : in[g].expiry <= MaxTime  BY <1>1 DEF Typed, Drop
  <2> QED BY <2>1, <2>2
<1>3. DOMAIN in = DOMAIN pit[k].in \ PendingDownstreams(pit[k], f)  BY DEF Drop
<1>4. pit' = [pit EXCEPT ![k] = n]  BY DEF satisfyOne
<1> HIDE DEF in
<1>5. n.in = in  BY <1>1, <1>2, SatisfiedType
<1> HIDE DEF n
<1> QED BY <1>3, <1>4, <1>5

LEMMA AllEntries ==
    ASSUME ForwarderInv, NEW K \in SUBSET DOMAIN pit, NEW f, NEW d \in Data, NEW t,
           satisfyAll(K, f, d, t)
    PROVE  DOMAIN pit' = DOMAIN pit /\ \A k \in K : DOMAIN pit'[k].in = {}
<1> DEFINE n(k) == Satisfied([pit[k] EXCEPT !.in = << >>], f, d)
<1>1. pit' = [k \in DOMAIN pit |-> IF k \in K THEN n(k) ELSE pit[k]]  BY DEF satisfyAll
<1>2. PartialFunction(<< >>, up, InRecord) /\ \A g \in DOMAIN << >> : << >>[g].expiry <= MaxTime
  BY DEF PartialFunction
<1>3. \A k \in K : n(k).in = << >>
  <2> SUFFICES ASSUME NEW k \in K PROVE n(k).in = << >>  OBVIOUS
  <2>1. Typed(pit[k], up) /\ now \in 0 .. MaxTime  BY DEF ForwarderInv
  <2> QED BY <1>2, <2>1, SatisfiedType
<1> HIDE DEF n
<1>4. DOMAIN << >> = {}  OBVIOUS
<1> QED BY <1>1, <1>3, <1>4

\* The Content Store answers only what nobody waits for (onIncomingInterest), and
\* Data from upstream goes exactly to in-records that have not expired, which it
\* consumes: no downstream gets Data that it does not wait for, or twice.
THEOREM AnswersPendingAlways == Spec => AnswersPending
<1> DEFINE Waited(p) ==
               \E k \in DOMAIN pit' :
                  /\ NameMatches(k, p.data)
                  /\ p.to \notin DOMAIN pit'[k].in
                  /\ \/ /\ k \in DOMAIN pit /\ p.to \in DOMAIN pit[k].in
                        /\ MatchesData(k, p.data)
                        /\ pit[k].in[p.to].expiry > now
                     \/ /\ p.data \in DOMAIN cs[k.canBePrefix]
                        /\ k.mustBeFresh => cs[k.canBePrefix][p.data] >= now
           Step == \A p \in sent' : p.type = "data" => Waited(p)
<1>1. ForwarderInv /\ [Next]_vars => [Step]_vars
  <2> SUFFICES ASSUME ForwarderInv, Next, NEW p \in sent', p.type = "data" PROVE Waited(p)
    OBVIOUS
  <2>0. p.data \in Data  BY DataSent
  <2>1. CASE FromCache(p)
    <3>1. PICK i \in Interests : \E d \in CsMatches(i.key) :
             onContentStoreHit(i, d) /\ p.to = i.face /\ p.data = d
      BY <2>1 DEF FromCache
    <3>2. PICK d \in CsMatches(i.key) :
             onContentStoreHit(i, d) /\ p.to = i.face /\ p.data = d
      BY <3>1
    <3>3. i.key \in DOMAIN pit' /\ p.to \notin DOMAIN pit'[i.key].in  BY <3>2, CacheEntries, Zenon
    <3>4. /\ d \in DOMAIN cs[i.key.canBePrefix]
          /\ i.key.mustBeFresh => cs[i.key.canBePrefix][d] >= now
          /\ NameMatches(i.key, d)
      BY DEF CsMatches, MatchesData
    <3> QED BY <3>2, <3>3, <3>4
  <2>2. CASE ToOne(p)
    <3>1. PICK k \in DOMAIN pit, f \in Faces : \E g \in PendingDownstreams(pit[k], f) :
             MatchesData(k, p.data) /\ satisfyOne(k, f, p.data) /\ p.to = g
      BY <2>2 DEF ToOne
    <3>2. p.to \in PendingDownstreams(pit[k], f)  BY <3>1
    <3>3. k \in DOMAIN pit' /\ p.to \notin DOMAIN pit'[k].in  BY <2>0, <3>1, <3>2, OneEntry
    <3>4. p.to \in DOMAIN pit[k].in /\ pit[k].in[p.to].expiry > now
      BY <3>2 DEF PendingDownstreams
    <3> QED BY <3>1, <3>3, <3>4 DEF MatchesData
  <2>3. CASE ToAll(p)
    <3>1. PICK K \in SUBSET DOMAIN pit, f \in Faces, t \in DataTokens :
             /\ \A k \in K : MatchesData(k, p.data)
             /\ satisfyAll(K, f, p.data, t)
             /\ \E k \in K : p.to \in PendingDownstreams(pit[k], f)
      BY <2>3 DEF ToAll
    <3>2. PICK k \in K : p.to \in PendingDownstreams(pit[k], f)  BY <3>1
    <3>3. k \in DOMAIN pit' /\ p.to \notin DOMAIN pit'[k].in  BY <2>0, <3>1, AllEntries, Zenon
    <3>4. p.to \in DOMAIN pit[k].in /\ pit[k].in[p.to].expiry > now
      BY <3>2 DEF PendingDownstreams
    <3> QED BY <3>1, <3>2, <3>3, <3>4 DEF MatchesData
  <2> QED BY <2>1, <2>2, <2>3, DataSent
<1> QED BY <1>1, ForwarderInvariant, PTL DEF Spec, AnswersPending

\* Strategy::sendDataToAll takes the PIT token from the in-record: a downstream that
\* put a token on its Interest gets that token back, whatever the strategy did
\* with the Interest in between.
THEOREM TokenReturnedAlways == Spec => TokenReturned
<1> DEFINE Own(p, k) ==
               /\ p.type = "data" /\ p.to \in DOMAIN pit[k].in
               /\ k \in DOMAIN pit' /\ p.to \notin DOMAIN pit'[k].in
               /\ \A j \in DOMAIN pit \ {k} : ~ MatchesData(j, p.data)
               /\ pit[k].in[p.to].token # "none"
           Step == \A p \in sent', k \in DOMAIN pit : Own(p, k) => p.token = pit[k].in[p.to].token
<1>1. ForwarderInv /\ [Next]_vars => [Step]_vars
  <2> SUFFICES ASSUME ForwarderInv, Next, NEW p \in sent', NEW k \in DOMAIN pit, Own(p, k)
               PROVE  p.token = pit[k].in[p.to].token
    OBVIOUS
  <2>0. p.data \in Data /\ p.type = "data"  BY DataSent
  <2>1. CASE FromCache(p)
    <3>1. PICK i \in Interests : \E d \in CsMatches(i.key) : onContentStoreHit(i, d)
      BY <2>1 DEF FromCache
    <3>2. PICK d \in CsMatches(i.key) : onContentStoreHit(i, d)  BY <3>1
    <3>3. /\ DOMAIN Entry(i.key).in = {}
          /\ \A j \in DOMAIN pit : j # i.key => pit'[j] = pit[j]
      BY <3>2, CacheEntries, Zenon
    <3>4. k # i.key  BY <3>3 DEF Entry
    <3> QED BY <3>3, <3>4
  <2>2. CASE ToOne(p)
    <3>1. PICK j \in DOMAIN pit, f \in Faces : \E g \in PendingDownstreams(pit[j], f) :
             satisfyOne(j, f, p.data) /\ p.to = g /\ p.token = TokenOf(pit[j].in[g])
      BY <2>2 DEF ToOne
    <3>2. \A l \in DOMAIN pit : l # j => pit'[l] = pit[l]  BY <2>0, <3>1, OneEntry
    <3>3. k = j  BY <3>2
    <3> QED BY <3>1, <3>3 DEF TokenOf
  <2>3. CASE ToAll(p)
    <3>1. PICK K \in SUBSET DOMAIN pit :
             Cardinality(K) > 1 /\ \A j \in K : MatchesData(j, p.data)
      BY <2>3 DEF ToAll
    <3>2. K = {} \/ K = {k}  BY <3>1
    <3>3. Cardinality(K) = 0 \/ Cardinality(K) = 1  BY <3>2, FS_EmptySet, FS_Singleton
    <3> QED BY <3>1, <3>3
  <2> QED BY <2>0, <2>1, <2>2, <2>3, DataSent
<1> QED BY <1>1, ForwarderInvariant, PTL DEF Spec, TokenReturned

-----------------------------------------------------------------------------
(* Waiting.  Of an entry in time: with one lifetime L, no in-record lasts    *)
(* longer than one that is written now, an out-record lasts L from when it   *)
(* was renewed, and suppression intervals are not below the initial one.     *)

Timed(e, L) ==
    /\ \A f \in DOMAIN e.in : e.in[f].expiry <= now + L
    /\ \A g \in DOMAIN e.out : e.out[g].renewed <= now /\ e.out[g].expiry = e.out[g].renewed + L
    /\ e.interval = 0 \/ e.interval >= SuppressionInitial

\* best-route keeps its interval with the entry, and none with out-records.
Unmarked(e) == \A g \in DOMAIN e.out : e.out[g].interval = 0

\* One upstream is waited for on behalf of all downstreams.
Covers(e, g) ==
    g \in DOMAIN e.out
    /\ \A f \in DOMAIN e.in : e.in[f].expiry < e.out[g].expiry + SuppressedFor(e, g)
Covered(e) == e.timer > now => \E g \in DOMAIN e.out : Covers(e, g)

LEMMA SuppressedForType ==
    ASSUME NEW e, NEW U, Typed(e, U), NEW g \in DOMAIN e.out
    PROVE  SuppressedFor(e, g) \in Nat /\ SuppressedFor(e, g) > 0
<1>1. e.out[g] \in OutRecord  BY DEF Typed, PartialFunction
<1>2. e.out[g].interval \in 0 .. SuppressionMax  BY <1>1 DEF OutRecord
<1>3. Interval(e) \in Nat /\ Interval(e) > 0  BY IntervalType, ForwarderAssumption
<1> QED BY <1>2, <1>3, ForwarderAssumption DEF SuppressedFor

LEMMA RecordTimes ==
    ASSUME NEW e, NEW U, Typed(e, U)
    PROVE  /\ \A f \in DOMAIN e.in : e.in[f].expiry \in Nat
           /\ \A g \in DOMAIN e.out : /\ e.out[g].expiry \in Nat /\ e.out[g].renewed \in Nat
                                       /\ e.out[g].interval \in 0 .. SuppressionMax
  BY DEF Typed, PartialFunction, InRecord, OutRecord

\* An out-record that is renewed now covers the entry.
LEMMA RenewedCovers ==
    ASSUME NEW n, NEW U, Typed(n, U), NEW L \in Nat, now \in Nat, Timed(n, L),
           NEW g \in DOMAIN n.out, n.out[g].expiry = now + L
    PROVE  Covers(n, g)
<1>1. SuppressedFor(n, g) \in Nat /\ SuppressedFor(n, g) > 0  BY SuppressedForType
<1>2. ASSUME NEW f \in DOMAIN n.in PROVE n.in[f].expiry < n.out[g].expiry + SuppressedFor(n, g)
  <2>1. n.in[f].expiry \in Nat /\ n.in[f].expiry <= now + L  BY RecordTimes DEF Timed
  <2> QED BY <1>1, <2>1
<1> QED BY <1>2 DEF Covers

\* Nothing but times that were there before
Less(n, e) ==
    /\ DOMAIN n.in \subseteq DOMAIN e.in
    /\ \A f \in DOMAIN n.in : n.in[f].expiry = e.in[f].expiry
    /\ DOMAIN n.out \subseteq DOMAIN e.out
    /\ \A g \in DOMAIN n.out : /\ n.out[g].expiry = e.out[g].expiry
                                /\ n.out[g].renewed = e.out[g].renewed
                                /\ n.out[g].interval = e.out[g].interval
    /\ n.interval = e.interval

LEMMA LessTimed ==
    ASSUME NEW n, NEW e, Less(n, e), NEW L, Timed(e, L)
    PROVE  Timed(n, L) /\ (Unmarked(e) => Unmarked(n))
  BY DEF Less, Timed, Unmarked

LEMMA LessCovered ==
    ASSUME NEW n, NEW e, Less(n, e), DOMAIN n.out = DOMAIN e.out, n.timer = e.timer, Covered(e)
    PROVE  Covered(n)
<1> SUFFICES ASSUME n.timer > now PROVE \E g \in DOMAIN n.out : Covers(n, g)  BY DEF Covered
<1>1. PICK g \in DOMAIN e.out : Covers(e, g)  BY DEF Covered
<1>2. g \in DOMAIN n.out  BY <1>1
<1>3. SuppressedFor(n, g) = SuppressedFor(e, g)  BY <1>2 DEF Less, SuppressedFor, Interval
<1> QED BY <1>1, <1>2, <1>3 DEF Less, Covers

\* onOutgoingInterest
LEMMA OutgoingCovers ==
    ASSUME NEW e, NEW U, Typed(e, U), NEW i \in Interests, NEW g \in U, now \in Nat,
           i.hop # 1, NEW L \in Nat, i.lifetime = L, Timed(e, L)
    PROVE  LET n == onOutgoingInterest(e, i, g).entry IN
           Timed(n, L) /\ (Unmarked(e) => Unmarked(n)) /\ Covers(n, g) /\ g \in DOMAIN n.out
<1> DEFINE n == onOutgoingInterest(e, i, g).entry
           rec == Renewed(e, i, g)
<1>1. /\ Typed(n, U) /\ n.in = e.in /\ n.interval = e.interval
      /\ n.out = Put(e.out, g, rec)
  BY OutgoingInterest
<1>2. /\ rec \in OutRecord /\ rec.renewed = now /\ rec.expiry = now + L
      /\ g \notin DOMAIN e.out => rec.interval = 0
      /\ g \in DOMAIN e.out => rec.interval = e.out[g].interval
  <2>1. PartialFunction(e.out, U, OutRecord)  BY DEF Typed
  <2> QED BY <2>1, RenewedType, Zenon
<1> HIDE DEF n, rec
<1>3. /\ DOMAIN n.out = DOMAIN e.out \cup {g} /\ n.out[g] = rec
      /\ \A h \in DOMAIN e.out : h # g => n.out[h] = e.out[h]
  BY <1>1, Zenon DEF Put
<1>4. Timed(n, L)
  <2>1. ASSUME NEW h \in DOMAIN n.out
        PROVE  n.out[h].renewed <= now /\ n.out[h].expiry = n.out[h].renewed + L
    <3>1. CASE h = g  BY <1>2, <1>3, <3>1
    <3>2. CASE h # g
      <4>1. h \in DOMAIN e.out /\ n.out[h] = e.out[h]  BY <1>3, <3>2
      <4> QED BY <4>1 DEF Timed
    <3> QED BY <3>1, <3>2
  <2> QED BY <1>1, <2>1 DEF Timed
<1>5. Unmarked(e) => Unmarked(n)  BY <1>2, <1>3 DEF Unmarked
<1>6. Covers(n, g)  BY <1>1, <1>2, <1>3, <1>4, RenewedCovers
<1> QED BY <1>3, <1>4, <1>5, <1>6 DEF n

LEMMA SendCovers ==
    ASSUME NEW e, NEW U, Typed(e, U), NEW i \in Interests, i.face \in DOMAIN e.in,
           NEW g \in U, now \in Nat,
           i.hop # 1, NEW L \in Nat, i.lifetime = L, Timed(e, L)
    PROVE  LET n == sendInterest(e, i, g).entry IN
           Timed(n, L) /\ (Unmarked(e) => Unmarked(n)) /\ Covered(n)
<1>1. sendInterest(e, i, g) = onOutgoingInterest(Tagged(e, i), i, g)
  BY DEF sendInterest, Tagged
<1>2. /\ Typed(Tagged(e, i), U) /\ Tagged(e, i).out = e.out
      /\ Tagged(e, i).interval = e.interval /\ DOMAIN Tagged(e, i).in = DOMAIN e.in
      /\ \A f \in DOMAIN e.in : Tagged(e, i).in[f].expiry = e.in[f].expiry
  BY TaggedEntry
<1>3. Less(Tagged(e, i), e)  BY <1>2 DEF Less
<1>4. Timed(Tagged(e, i), L) /\ (Unmarked(e) => Unmarked(Tagged(e, i)))
  BY <1>3, LessTimed
<1> DEFINE n == onOutgoingInterest(Tagged(e, i), i, g).entry
<1>5. /\ Timed(n, L) /\ Covers(n, g) /\ g \in DOMAIN n.out
      /\ Unmarked(Tagged(e, i)) => Unmarked(n)
  BY <1>2, <1>4, OutgoingCovers
<1> HIDE DEF n
<1>6. Covered(n)  BY <1>5 DEF Covered
<1> QED BY <1>1, <1>4, <1>5, <1>6 DEF n

\* An Interest for which something may be sent
Hopeful(e, i, L) ==
    i.hop # 1 /\ i.lifetime = L /\ Eligible(e, i, FALSE) # {}

\* BestRouteStrategy2: what is suppressed was sent less than an interval ago.
LEMMA SuppressedCovers ==
    ASSUME NEW e, Typed(e, up), now \in Nat, NEW L \in Nat, Timed(e, L), Unmarked(e),
           hasPendingOutRecords(e), ShouldSuppress(e)
    PROVE  LET n == [e EXCEPT !.interval = Interval(e)] IN
           Timed(n, L) /\ Unmarked(n) /\ Covered(n)
<1> DEFINE S == {e.out[f].renewed : f \in DOMAIN e.out}
           n == [e EXCEPT !.interval = Interval(e)]
<1>1. S \subseteq 0 .. now /\ S # {}
  <2>1. ASSUME NEW f \in DOMAIN e.out PROVE e.out[f].renewed \in 0 .. now
    <3>1. e.out[f].renewed \in Nat /\ e.out[f].renewed <= now  BY RecordTimes DEF Timed
    <3> QED BY <3>1
  <2>2. DOMAIN e.out # {}  BY DEF hasPendingOutRecords
  <2> QED BY <2>1, <2>2
<1> HIDE DEF S
<1>2. MaxOf(S) \in S  BY <1>1, GreatestNumber, Zenon
<1>3. getLastOutgoing(e) = MaxOf(S)  BY DEF getLastOutgoing, S
<1>4. PICK g \in DOMAIN e.out : e.out[g].renewed = getLastOutgoing(e)  BY <1>2, <1>3, Zenon DEF S
<1>5. now - e.out[g].renewed < Interval(e)  BY <1>4 DEF ShouldSuppress
<1>6. /\ Typed(n, up) /\ n.in = e.in /\ n.out = e.out /\ n.interval = Interval(e)
      /\ Interval(e) \in Nat /\ Interval(e) > 0
  BY IntervalType, IntervalSet, ForwarderAssumption
<1> HIDE DEF n
<1>7. SuppressedFor(n, g) = Interval(e)  BY <1>6 DEF Unmarked, SuppressedFor, Interval
<1>8. ASSUME NEW f \in DOMAIN n.in PROVE n.in[f].expiry < n.out[g].expiry + SuppressedFor(n, g)
  <2>1. e.in[f].expiry \in Nat /\ e.in[f].expiry <= now + L  BY <1>6, RecordTimes DEF Timed
  <2>2. e.out[g].renewed \in Nat /\ e.out[g].expiry = e.out[g].renewed + L
    BY RecordTimes DEF Timed
  <2> QED BY <1>5, <1>6, <1>7, <2>1, <2>2
<1>9. Covered(n)  BY <1>6, <1>8 DEF Covered, Covers
<1>10. Interval(e) >= SuppressionInitial
  BY ForwarderAssumption DEF Timed, Interval
<1>11. Timed(n, L) /\ Unmarked(n)  BY <1>6, <1>10 DEF Timed, Unmarked
<1> QED BY <1>9, <1>11 DEF n

LEMMA BestRouteCovers ==
    ASSUME NEW e, Typed(e, up), NEW i \in Interests, i.face \in DOMAIN e.in,
           now \in 0 .. MaxTime, NEW L \in Nat, Timed(e, L), Unmarked(e), Hopeful(e, i, L)
    PROVE  LET n == bestRoute(e, i).entry IN Timed(n, L) /\ Unmarked(n) /\ Covered(n)
<1> DEFINE first == Eligible(e, i, FALSE)
           backedOff == [e EXCEPT !.interval = Min2(SuppressionMax, 2 * Interval(e))]
           unused == Eligible(e, i, TRUE)
           n == bestRoute(e, i).entry
<1>0. now \in Nat /\ first # {} /\ i.hop # 1 /\ i.lifetime = L
  <2>1. now \in Nat  BY ForwarderAssumption
  <2>2. first # {} /\ i.hop # 1 /\ i.lifetime = L  BY Zenon DEF Hopeful
  <2> QED BY <2>1, <2>2, Zenon
<1>1. /\ Typed(backedOff, up) /\ backedOff.in = e.in /\ backedOff.out = e.out
      /\ backedOff.interval = Min2(SuppressionMax, 2 * Interval(e))
  BY IntervalType, IntervalSet
<1>2. /\ first \subseteq Nat /\ unused \subseteq Nat
      /\ \A j \in first : HopAt(i, j) \in up
      /\ \A j \in unused : HopAt(i, j) \in up
  BY EligiblePlaces, Zenon
<1>3. Interval(e) >= SuppressionInitial /\ Interval(e) \in Nat
  BY IntervalType, ForwarderAssumption DEF Timed, Interval
<1>4. Min2(SuppressionMax, 2 * Interval(e)) >= SuppressionInitial
  BY <1>3, ForwarderAssumption DEF Min2
<1> HIDE DEF backedOff
<1>5. Timed(backedOff, L) /\ Unmarked(backedOff)  BY <1>1, <1>4 DEF Timed, Unmarked
<1>6. CASE ~ hasPendingOutRecords(e)
  <2>1. PICK j \in first : FirstOf(i, first) = HopAt(i, j)  BY <1>0, <1>2, FirstOfPlaces, Zenon
  <2>2. n = sendInterest(e, i, HopAt(i, j)).entry  BY <1>0, <1>6, <2>1, Zenon DEF bestRoute
  <2>3. HopAt(i, j) \in up  BY <1>2, Zenon
  <2> HIDE DEF n
  <2> QED BY <1>0, <2>2, <2>3, SendCovers DEF n
<1>7. CASE hasPendingOutRecords(e) /\ ShouldSuppress(e)
  <2>1. n = [e EXCEPT !.interval = Interval(e)]  BY <1>7 DEF bestRoute, Result
  <2> QED BY <1>0, <1>7, <2>1, SuppressedCovers
<1>8. CASE hasPendingOutRecords(e) /\ ~ ShouldSuppress(e) /\ unused # {}
  <2>1. PICK j \in unused : FirstOf(i, unused) = HopAt(i, j)  BY <1>2, <1>8, FirstOfPlaces, Zenon
  <2>2. n = sendInterest(backedOff, i, HopAt(i, j)).entry
    BY <1>8, <2>1, Zenon DEF bestRoute, backedOff
  <2> QED BY <1>0, <1>1, <1>2, <1>5, <2>2, SendCovers, Zenon
<1>9. CASE hasPendingOutRecords(e) /\ ~ ShouldSuppress(e) /\ unused = {}
  <2>1. ASSUME NEW j \in first PROVE e.out[HopAt(i, j)].renewed \in Nat
    <3>1. j \notin Eligible(e, i, TRUE) /\ j \in Eligible(e, i, FALSE)  BY <1>9, Zenon
    <3>2. HopAt(i, j) \in DOMAIN e.out  BY <3>1 DEF Eligible, isNextHopEligible
    <3> QED BY <3>2, RecordTimes
  <2>2. PICK j \in first : EarliestOf(e, i, first) = HopAt(i, j)
    BY <1>0, <1>2, <2>1, EarliestOfPlaces, Zenon
  <2>3. n = sendInterest(backedOff, i, HopAt(i, j)).entry
    BY <1>0, <1>9, <2>2, Zenon DEF bestRoute, backedOff
  <2> QED BY <1>0, <1>1, <1>2, <1>5, <2>3, SendCovers, Zenon
<1> QED BY <1>6, <1>7, <1>8, <1>9, Zenon

\* MulticastStrategy: either an Interest goes out now, or each next hop got one less
\* than its interval ago.
LEMMA MultiTimed ==
    ASSUME NEW e, Typed(e, up), NEW i \in Interests, i.face \in DOMAIN e.in,
           now \in Nat, NEW L \in Nat, Timed(e, L), i.hop # 1, i.lifetime = L,
           NEW to, to \subseteq up
    PROVE  LET n == Multi(e, i, to) IN
           Timed(n, L) /\ \A g \in to : g \in DOMAIN n.out /\ n.out[g].expiry = now + L
<1> DEFINE n == Multi(e, i, to)
<1>1. /\ Typed(n, up) /\ n.interval = e.interval
      /\ DOMAIN n.in = DOMAIN e.in
      /\ \A f \in DOMAIN e.in : n.in[f].expiry = e.in[f].expiry
      /\ DOMAIN n.out \subseteq DOMAIN e.out \cup to
      /\ \A f \in DOMAIN e.out : f \notin to => n.out[f] = e.out[f]
      /\ \A f \in to : f \in DOMAIN n.out /\ n.out[f] = sendToNextHop(e, i, f).entry.out[f]
  BY MultiType
<1>2. ASSUME NEW g \in to PROVE n.out[g].renewed = now /\ n.out[g].expiry = now + L
  <2>1. g \in up  OBVIOUS
  <2>2. sendToNextHop(e, i, g).sent = {Onward(i, g)}  BY <2>1, MulticastHop
  <2>3. /\ sendToNextHop(e, i, g).entry.out[g].renewed = now
        /\ sendToNextHop(e, i, g).entry.out[g].expiry = now + L
    BY <2>1, <2>2, MulticastHop
  <2> QED BY <1>1, <2>3
<1> HIDE DEF n
<1>3. ASSUME NEW g \in DOMAIN n.out
      PROVE  n.out[g].renewed <= now /\ n.out[g].expiry = n.out[g].renewed + L
  <2>1. CASE g \in to  BY <1>2, <2>1
  <2>2. CASE g \notin to
    <3>1. g \in DOMAIN e.out /\ n.out[g] = e.out[g]  BY <1>1, <2>2
    <3> QED BY <3>1 DEF Timed
  <2> QED BY <2>1, <2>2
<1>4. Timed(n, L)  BY <1>1, <1>3 DEF Timed
<1> QED BY <1>1, <1>2, <1>4, Zenon DEF n

LEMMA MultiCovers ==
    ASSUME NEW e, Typed(e, up), NEW i \in Interests, i.face \in DOMAIN e.in,
           now \in Nat, NEW L \in Nat, Timed(e, L), Hopeful(e, i, L)
    PROVE  LET n == Multi(e, i, MulticastTo(e, i)) IN Timed(n, L) /\ Covered(n)
<1> DEFINE to == MulticastTo(e, i)
           n == Multi(e, i, to)
<1>0. i.hop # 1 /\ i.lifetime = L  BY DEF Hopeful
<1>1. to \subseteq up  BY EligiblePlaces, Zenon DEF MulticastTo
<1>2. Typed(n, up)  BY <1>1, MultiType
<1>3. Timed(n, L) /\ \A g \in to : g \in DOMAIN n.out /\ n.out[g].expiry = now + L
  BY <1>0, <1>1, MultiTimed
<1>4. CASE to # {}
  <2>1. PICK g \in to : TRUE  BY <1>4
  <2> HIDE DEF n
  <2>2. Covers(n, g) /\ g \in DOMAIN n.out  BY <1>2, <1>3, RenewedCovers
  <2> QED BY <1>3, <2>2 DEF Covered, n
<1>5. CASE to = {}
  <2>1. PICK j \in Eligible(e, i, FALSE) : TRUE  BY Zenon DEF Hopeful
  <2> DEFINE g == HopAt(i, j)
  <2>2. SuppressUpstream(e, g)  BY <1>5, Zenon DEF MulticastTo
  <2>3. g \in DOMAIN e.out /\ now - e.out[g].renewed < RecordInterval(e.out[g])
    BY <2>2 DEF SuppressUpstream
  <2> HIDE DEF g
  <2>4. /\ n.interval = e.interval /\ DOMAIN n.in = DOMAIN e.in
        /\ \A f \in DOMAIN e.in : n.in[f].expiry = e.in[f].expiry
        /\ g \in DOMAIN n.out /\ n.out[g] = e.out[g]
    BY <1>1, <1>5, <2>3, MultiType, Zenon
  <2> HIDE DEF n
  <2>5. /\ e.out[g].interval \in 0 .. SuppressionMax
        /\ e.out[g].renewed \in Nat /\ e.out[g].expiry = e.out[g].renewed + L
    BY <2>3, RecordTimes DEF Timed
  <2>6. /\ Interval(e) \in Nat /\ Interval(e) >= SuppressionInitial
    BY IntervalType, ForwarderAssumption DEF Timed, Interval
  <2>7. /\ RecordInterval(e.out[g]) \in Nat /\ SuppressedFor(n, g) \in Nat
        /\ RecordInterval(e.out[g]) <= SuppressedFor(n, g)
    <3>1. Interval(n) = Interval(e)  BY <2>4 DEF Interval
    <3> QED BY <2>4, <2>5, <2>6, <3>1, ForwarderAssumption DEF RecordInterval, SuppressedFor
  <2>8. ASSUME NEW f \in DOMAIN n.in PROVE n.in[f].expiry < n.out[g].expiry + SuppressedFor(n, g)
    <3>1. e.in[f].expiry \in Nat /\ e.in[f].expiry <= now + L  BY <2>4, RecordTimes DEF Timed
    <3>2. now - e.out[g].renewed < RecordInterval(e.out[g])  BY <2>3
    <3>3. n.in[f].expiry = e.in[f].expiry /\ n.out[g].expiry = e.out[g].renewed + L
      BY <2>4, <2>5
    <3>4. e.out[g].renewed \in Nat  BY <2>5
    <3> QED BY <2>7, <3>1, <3>2, <3>3, <3>4
  <2>9. Covered(n)  BY <2>4, <2>8 DEF Covered, Covers
  <2> QED BY <1>3, <2>9 DEF n
<1> QED BY <1>4, <1>5

LEMMA MulticastCovers ==
    ASSUME NEW e, Typed(e, up), NEW i \in Interests, i.face \in DOMAIN e.in,
           now \in 0 .. MaxTime, NEW L \in Nat, Timed(e, L), Hopeful(e, i, L)
    PROVE  LET n == multicast(e, i).entry IN Timed(n, L) /\ Covered(n)
<1> DEFINE multi == Multi(e, i, MulticastTo(e, i))
           rejected == rejectInterest(multi, i)
<1>0. now \in Nat  BY ForwarderAssumption
<1>1. Timed(multi, L) /\ Covered(multi)  BY <1>0, MultiCovers
<1>2. MulticastTo(e, i) \subseteq up  BY EligiblePlaces, Zenon DEF MulticastTo
<1>3. Typed(multi, up)  BY <1>0, <1>2, MultiType
<1>4. multicast(e, i).entry = multi \/ multicast(e, i).entry = rejected.entry
  BY MulticastParts DEF Result
<1> HIDE DEF multi
<1>5. /\ rejected.entry.timer = now
      /\ rejected.entry.out = multi.out /\ rejected.entry.interval = multi.interval
      /\ DOMAIN rejected.entry.in \subseteq DOMAIN multi.in
      /\ \A f \in DOMAIN rejected.entry.in : rejected.entry.in[f] = multi.in[f]
  BY <1>3, RejectInterest
<1> HIDE DEF rejected
<1>6. Less(rejected.entry, multi)  BY <1>5 DEF Less
<1>7. Timed(rejected.entry, L)  BY <1>1, <1>6, LessTimed
<1>8. Covered(rejected.entry)  BY <1>0, <1>5 DEF Covered
<1> QED BY <1>1, <1>4, <1>7, <1>8

\* The inductive invariant, for one entry and for all
Waiting(k, e, L) ==
    Timed(e, L) /\ Covered(e) /\ (strategy[k.name] # "multicast" => Unmarked(e))
WaitInv(L) == up = Faces /\ \A k \in DOMAIN pit : Waiting(k, pit[k], L)

LEMMA MissedWaits ==
    ASSUME ForwarderInv, NEW L, Steady(L), WaitInv(L), NEW i \in Interests, i.face \in up,
           now + i.lifetime <= MaxTime
    PROVE  Waiting(i.key, Missed(i).entry, L)
<1> DEFINE old == Entry(i.key)
           e == WithInRecord(old, i)
           n == Missed(i).entry
<1>0. /\ now \in 0 .. MaxTime /\ now \in Nat /\ L \in Nat /\ i.lifetime = L /\ i.hop # 1
  <2>1. now \in 0 .. MaxTime /\ now \in Nat  BY ForwarderAssumption DEF ForwarderInv
  <2>2. i.lifetime \in Lifetimes /\ i.hop \in Hops  BY DEF Interests
  <2> QED BY <2>1, <2>2, ForwarderAssumption DEF Steady
<1>1. TypedNew(old, up)  BY EntryType
<1>2. Timed(old, L) /\ (strategy[i.key.name] # "multicast" => Unmarked(old))
  <2>1. CASE i.key \in DOMAIN pit
    <3>1. old = pit[i.key]  BY <2>1, EntryType
    <3> QED BY <2>1, <3>1 DEF WaitInv, Waiting
  <2>2. CASE i.key \notin DOMAIN pit
    <3>1. DOMAIN old.in = {} /\ DOMAIN old.out = {} /\ old.interval = 0  BY <2>2, EntryType
    <3> HIDE DEF old
    <3> QED BY <3>1 DEF Timed, Unmarked
  <2> QED BY <2>1, <2>2
<1> HIDE DEF old
<1>3. /\ Typed(e, up) /\ e.out = old.out /\ e.interval = old.interval
      /\ DOMAIN e.in = DOMAIN old.in \cup {i.face} /\ e.in[i.face].expiry = now + i.lifetime
      /\ \A f \in DOMAIN old.in : f # i.face => e.in[f] = old.in[f]
  BY <1>0, <1>1, InRecordWritten
<1> HIDE DEF e
<1>4. Timed(e, L) /\ (strategy[i.key.name] # "multicast" => Unmarked(e))
  <2>1. ASSUME NEW f \in DOMAIN e.in PROVE e.in[f].expiry <= now + L
    <3>1. CASE f = i.face  BY <1>0, <1>3, <3>1
    <3>2. CASE f # i.face  BY <1>2, <1>3, <3>2 DEF Timed
    <3> QED BY <3>1, <3>2
  <2> QED BY <1>2, <1>3, <2>1 DEF Timed, Unmarked
<1>5. Hopeful(e, i, L)
  <2>1. PICK j \in DOMAIN NextHops[i.key.name] :
             /\ HopAt(i, j) # i.face \/ HopAt(i, j) \in AdHoc
             /\ ~ wouldViolateScope(i.face, i.key.name, HopAt(i, j))
    BY DEF Steady
  <2>2. NextHops[i.key.name] \in Seq(Faces)  BY InterestType, ForwarderAssumption
  <2> DEFINE hops == NextHops[i.key.name]
  <2>3. HopAt(i, j) \in up
    <3>1. HopAt(i, j) = hops[j] /\ j \in DOMAIN hops /\ hops \in Seq(Faces)
      BY <2>1, <2>2, Zenon DEF HopAt
    <3> HIDE DEF hops
    <3>2. hops[j] \in Faces  BY <3>1
    <3>3. up = Faces  BY Zenon DEF WaitInv
    <3> QED BY <3>1, <3>2, <3>3
  <2>4. j \in Eligible(e, i, FALSE)  BY <2>1, <2>3 DEF Eligible, isNextHopEligible
  <2> QED BY <1>0, <2>4, Zenon DEF Hopeful
<1>6. CASE i.nextHop = NoFace /\ strategy[i.key.name] = "multicast"
  <2>1. n = multicast(e, i).entry  BY <1>6 DEF Missed, afterReceiveInterest, e, old
  <2> QED BY <1>0, <1>3, <1>4, <1>5, <1>6, <2>1, MulticastCovers DEF Waiting
<1>7. CASE i.nextHop = NoFace /\ strategy[i.key.name] # "multicast"
  <2>1. n = bestRoute(e, i).entry  BY <1>7 DEF Missed, afterReceiveInterest, e, old
  <2>2. Timed(n, L) /\ Unmarked(n) /\ Covered(n)
    BY <1>0, <1>3, <1>4, <1>5, <1>7, <2>1, BestRouteCovers, Zenon
  <2> QED BY <2>2, Zenon DEF Waiting
<1>8. CASE i.nextHop # NoFace
  <2>1. i.nextHop \in up  BY <1>8, InterestType, ForwarderAssumption DEF WaitInv
  <2>2. n = onOutgoingInterest(e, i, i.nextHop).entry  BY <1>8, <2>1 DEF Missed, e, old
  <2> HIDE DEF n
  <2> DEFINE g == i.nextHop
             m == onOutgoingInterest(e, i, g).entry
  <2>3. Timed(m, L) /\ (Unmarked(e) => Unmarked(m)) /\ Covers(m, g) /\ g \in DOMAIN m.out
    <3>1. g \in up /\ Typed(e, up) /\ Timed(e, L)  BY <1>3, <1>4, <2>1, Zenon
    <3> HIDE DEF g
    <3> QED BY <1>0, <3>1, OutgoingCovers, Zenon
  <2>4. /\ Timed(n, L) /\ (Unmarked(e) => Unmarked(n))
        /\ Covers(n, i.nextHop) /\ i.nextHop \in DOMAIN n.out
    BY <2>2, <2>3, Zenon
  <2>5. Covered(n)  BY <2>4 DEF Covered
  <2>6. Waiting(i.key, n, L)  BY <1>4, <2>4, <2>5 DEF Waiting
  <2> QED BY <2>6 DEF n
<1> QED BY <1>6, <1>7, <1>8

\* An entry whose timer is to fire, with no new records
LEMMA DueWaits ==
    ASSUME NEW k, NEW n, NEW e, NEW L, Less(n, e), n.timer = now, now \in Nat,
           Timed(e, L), strategy[k.name] # "multicast" => Unmarked(e)
    PROVE  Waiting(k, n, L)
<1>1. Timed(n, L) /\ (Unmarked(e) => Unmarked(n))  BY LessTimed
<1>2. Covered(n)  BY DEF Covered
<1> QED BY <1>1, <1>2 DEF Waiting

LEMMA InterestWaits ==
    ASSUME ForwarderInv, NEW L, Steady(L), WaitInv(L), NEW i \in Interests, onIncomingInterest(i)
    PROVE  \A k \in DOMAIN pit' : Waiting(k, pit'[k], L)
<1>0. now \in Nat
  <2>1. now \in 0 .. MaxTime  BY Zenon DEF ForwarderInv
  <2>2. MaxTime \in Nat  BY ForwarderAssumption, Zenon
  <2> QED BY <2>1, <2>2
<1>1. CASE UNCHANGED pit  BY <1>1 DEF WaitInv
<1>2. CASE onInterestLoop(i)  BY <1>1, <1>2 DEF onInterestLoop
<1>3. ASSUME NEW n, pit' = Put(pit, i.key, n), Waiting(i.key, n, L)
      PROVE  \A k \in DOMAIN pit' : Waiting(k, pit'[k], L)
  <2>1. /\ DOMAIN pit' = DOMAIN pit \cup {i.key} /\ pit'[i.key] = n
        /\ \A k \in DOMAIN pit : k # i.key => pit'[k] = pit[k]
    BY <1>3, Zenon DEF Put
  <2> QED BY <1>3, <2>1 DEF WaitInv
<1>4. ASSUME NEW d \in CsMatches(i.key), onContentStoreHit(i, d)
      PROVE  \A k \in DOMAIN pit' : Waiting(k, pit'[k], L)
  <2> DEFINE e == Entry(i.key)
             n == [e EXCEPT !.satisfied = TRUE, !.freshness = d.freshness, !.timer = now]
  <2>1. TypedNew(e, up)  BY EntryType
  <2>2. pit' = Put(pit, i.key, n)  BY <1>4 DEF onContentStoreHit
  <2>3. Timed(e, L) /\ (strategy[i.key.name] # "multicast" => Unmarked(e))
    <3>1. CASE i.key \in DOMAIN pit
      <4>1. e = pit[i.key]  BY <3>1, EntryType
      <4> QED BY <3>1, <4>1 DEF WaitInv, Waiting
    <3>2. CASE i.key \notin DOMAIN pit
      <4>1. DOMAIN e.in = {} /\ DOMAIN e.out = {} /\ e.interval = 0  BY <3>2, EntryType
      <4> HIDE DEF e
      <4> QED BY <4>1 DEF Timed, Unmarked
    <3> QED BY <3>1, <3>2
  <2> HIDE DEF e
  <2>4. n.in = e.in /\ n.out = e.out /\ n.interval = e.interval /\ n.timer = now
    BY <2>1 DEF TypedNew
  <2> HIDE DEF n
  <2>5. Less(n, e)  BY <2>4 DEF Less
  <2>6. Waiting(i.key, n, L)  BY <1>0, <2>3, <2>4, <2>5, DueWaits
  <2> QED BY <1>3, <2>2, <2>6, Zenon
<1>5. CASE onContentStoreMiss(i)
  <2>1. pit' = Put(pit, i.key, Missed(i).entry)  BY <1>5 DEF onContentStoreMiss, Missed
  <2>2. i.face \in up /\ now + i.lifetime <= MaxTime  BY DEF onIncomingInterest
  <2>3. Waiting(i.key, Missed(i).entry, L)  BY <2>2, MissedWaits
  <2> QED BY <1>3, <2>1, <2>3
<1> QED BY <1>1, <1>2, <1>4, <1>5 DEF onIncomingInterest

LEMMA SatisfiedWaits ==
    ASSUME NEW k, NEW e, Typed(e, up), NEW in, DOMAIN in \subseteq DOMAIN e.in,
           \A g \in DOMAIN in : in[g] = e.in[g], NEW f, NEW d, now \in Nat,
           NEW L, Timed(e, L), strategy[k.name] # "multicast" => Unmarked(e)
    PROVE  Waiting(k, Satisfied([e EXCEPT !.in = in], f, d), L)
<1> DEFINE m == [e EXCEPT !.in = in]
           n == Satisfied(m, f, d)
<1>1. n.in = in /\ n.out = Drop(e.out, {f}) /\ n.interval = e.interval /\ n.timer = now
  <2>1. m.out = e.out /\ m.in = in /\ m.interval = e.interval /\ DOMAIN m = DOMAIN e
    BY DEF Typed
  <2> HIDE DEF m
  <2>2. DOMAIN m = {"in", "out", "satisfied", "freshness", "timer", "interval"}
    BY <2>1 DEF Typed
  <2>3. /\ n.in = m.in /\ n.out = Drop(m.out, {f})
        /\ n.interval = m.interval /\ n.timer = now
    BY <2>2 DEF Satisfied
  <2> QED BY <2>1, <2>3
<1> HIDE DEF n
<1>2. Less(n, e)  BY <1>1 DEF Less, Drop
<1>3. Waiting(k, n, L)  BY <1>1, <1>2, DueWaits, Zenon
<1> QED BY <1>3 DEF n, m

LEMMA DataWaits ==
    ASSUME ForwarderInv, NEW L, WaitInv(L), NEW f, NEW d \in Data, NEW t, onIncomingData(f, d, t)
    PROVE  \A k \in DOMAIN pit' : Waiting(k, pit'[k], L)
<1> DEFINE K == PitMatches(d, t)
<1>0. now \in Nat  BY ForwarderAssumption DEF ForwarderInv
<1>1. ASSUME NEW k \in DOMAIN pit, NEW in, DOMAIN in \subseteq DOMAIN pit[k].in,
             \A g \in DOMAIN in : in[g] = pit[k].in[g]
      PROVE  Waiting(k, Satisfied([pit[k] EXCEPT !.in = in], f, d), L)
  <2>1. Typed(pit[k], up)  BY DEF ForwarderInv
  <2>2. Timed(pit[k], L) /\ (strategy[k.name] # "multicast" => Unmarked(pit[k]))
    BY DEF WaitInv, Waiting
  <2> QED BY <1>0, <1>1, <2>1, <2>2, SatisfiedWaits
<1>2. CASE UNCHANGED pit  BY <1>2 DEF WaitInv
<1>3. ASSUME NEW k \in K, satisfyOne(k, f, d)
      PROVE  \A j \in DOMAIN pit' : Waiting(j, pit'[j], L)
  <2> DEFINE in == Drop(pit[k].in, PendingDownstreams(pit[k], f))
             n == Satisfied([pit[k] EXCEPT !.in = in], f, d)
  <2>0. k \in DOMAIN pit  BY DEF PitMatches
  <2>1. pit' = [pit EXCEPT ![k] = n]  BY <1>3 DEF satisfyOne
  <2>2. DOMAIN in \subseteq DOMAIN pit[k].in /\ \A g \in DOMAIN in : in[g] = pit[k].in[g]
    BY DEF Drop
  <2> HIDE DEF in
  <2>3. Waiting(k, n, L)  BY <1>1, <2>0, <2>2
  <2> HIDE DEF n
  <2> QED BY <2>0, <2>1, <2>3 DEF WaitInv
<1>4. CASE satisfyAll(K, f, d, t)
  <2> DEFINE n(k) == Satisfied([pit[k] EXCEPT !.in = << >>], f, d)
  <2>1. pit' = [k \in DOMAIN pit |-> IF k \in K THEN n(k) ELSE pit[k]]
    BY <1>4 DEF satisfyAll
  <2>2. DOMAIN << >> = {}  OBVIOUS
  <2>3. ASSUME NEW k \in DOMAIN pit PROVE Waiting(k, n(k), L)  BY <1>1, <2>2
  <2> HIDE DEF n, K
  <2> QED BY <2>1, <2>3 DEF WaitInv
<1> QED BY <1>2, <1>3, <1>4, Zenon DEF onIncomingData

LEMMA NackWaits ==
    ASSUME ForwarderInv, NEW L, WaitInv(L), NEW f, NEW k, NEW nonce \in Nonces,
           onIncomingNack(f, k, nonce)
    PROVE  \A j \in DOMAIN pit' : Waiting(j, pit'[j], L)
<1> DEFINE e == pit[k]
           m == NackedAndTimed(e, f, nonce)
           n == processNack(m, k).entry
<1>1. k \in DOMAIN pit /\ f \in DOMAIN e.out /\ pit' = [pit EXCEPT ![k] = n]
  BY NackParts
<1>0. Typed(e, up) /\ now \in 0 .. MaxTime /\ now \in Nat
  BY <1>1, ForwarderAssumption DEF ForwarderInv
<1>2. Timed(e, L) /\ Covered(e) /\ (strategy[k.name] # "multicast" => Unmarked(e))
  BY <1>1 DEF WaitInv, Waiting
<1> HIDE DEF e
<1>3. LET x == NackedEntry(e, f, nonce) IN
      /\ DOMAIN x.out = DOMAIN e.out
      /\ \A g \in DOMAIN e.out : /\ x.out[g].expiry = e.out[g].expiry
                                  /\ x.out[g].renewed = e.out[g].renewed
                                  /\ x.out[g].interval = e.out[g].interval
  BY <1>0, <1>1, Nacked
<1>4. /\ Typed(m, up) /\ m.in = e.in /\ m.interval = e.interval
      /\ m.timer = e.timer \/ m.timer = now
      /\ m.out = NackedEntry(e, f, nonce).out
  BY <1>0, <1>1, NackedTimed
<1> HIDE DEF m
<1>5. /\ n.out = m.out /\ n.timer = m.timer /\ n.interval = m.interval
      /\ DOMAIN n.in \subseteq DOMAIN m.in /\ \A g \in DOMAIN n.in : n.in[g] = m.in[g]
  <2>1. Typed(m, up)  BY <1>4
  <2>2. n.out = m.out /\ n.timer = m.timer /\ n.interval = m.interval
    BY <2>1, ProcessNack, Zenon
  <2>3. DOMAIN n.in \subseteq DOMAIN m.in  BY <2>1, ProcessNack, Zenon
  <2>4. \A g \in DOMAIN n.in : n.in[g] = m.in[g]
    <3> DEFINE r == processNack(m, k)
    <3>1. \A g \in DOMAIN r.entry.in : r.entry.in[g] = m.in[g]  BY <2>1, ProcessNack, SMTT(30)
    <3> QED BY <3>1, Zenon
  <2> QED BY <2>2, <2>3, <2>4, Zenon
<1> HIDE DEF n
<1>6. Less(n, e) /\ DOMAIN n.out = DOMAIN e.out  BY <1>3, <1>4, <1>5, Zenon DEF Less
<1>7. Waiting(k, n, L)
  <2>1. CASE n.timer = e.timer
    <3>0. Less(n, e) /\ Timed(e, L)  BY <1>2, <1>6
    <3>1. Timed(n, L) /\ (Unmarked(e) => Unmarked(n))  BY <3>0, LessTimed, Zenon
    <3>2. Covered(n)  BY <1>2, <1>6, <2>1, LessCovered
    <3> QED BY <1>2, <3>1, <3>2, Zenon DEF Waiting
  <2>2. CASE n.timer = now  BY <1>0, <1>2, <1>6, <2>2, DueWaits, Zenon
  <2> QED BY <1>4, <1>5, <2>1, <2>2, Zenon
<1> QED BY <1>1, <1>7 DEF WaitInv

LEMMA WaitStep ==
    ASSUME ForwarderInv, NEW L, Steady(L), WaitInv(L), [Next]_vars
    PROVE  WaitInv(L)'
<1>1. ASSUME \A k \in DOMAIN pit' : Waiting(k, pit'[k], L), UNCHANGED <<now, up, strategy>>
      PROVE  WaitInv(L)'
  BY <1>1, Zenon DEF WaitInv, Waiting, Timed, Covered, Covers, Unmarked
<1>2. ASSUME NEW i \in Interests, onIncomingInterest(i) PROVE WaitInv(L)'
  <2>1. UNCHANGED <<now, up, strategy>>  BY <1>2 DEF onIncomingInterest
  <2> QED BY <1>1, <1>2, <2>1, InterestWaits
<1>3. ASSUME NEW k \in Keys, onInterestFinalize(k) PROVE WaitInv(L)'
  <2>1. UNCHANGED <<now, up, strategy>> /\ pit' = Drop(pit, {k})  BY <1>3 DEF onInterestFinalize
  <2>2. \A j \in DOMAIN pit' : Waiting(j, pit'[j], L)  BY <2>1 DEF Drop, WaitInv
  <2> QED BY <1>1, <2>1, <2>2
<1>4. ASSUME NEW f \in Faces, NEW d \in Data, NEW t \in DataTokens, onIncomingData(f, d, t)
      PROVE  WaitInv(L)'
  <2>1. UNCHANGED <<now, up, strategy>>  BY <1>4, Zenon DEF onIncomingData
  <2> QED BY <1>1, <1>4, <2>1, DataWaits
<1>5. ASSUME NEW f \in Faces, NEW k \in Keys, NEW n \in Nonces, onIncomingNack(f, k, n)
      PROVE  WaitInv(L)'
  <2>1. UNCHANGED <<now, up, strategy>>  BY <1>5 DEF onIncomingNack
  <2> QED BY <1>1, <1>5, <2>1, NackWaits
<1>6. ASSUME NEW f \in Removable, removeFace(f) PROVE WaitInv(L)'  BY DEF Steady
<1>7. ASSUME NEW names \in SUBSET Changeable, NEW new, changeStrategy(names, new)
      PROVE  WaitInv(L)'
  <2>1. names = {}  BY DEF Steady
  <2> QED BY <1>7, <2>1, Zenon DEF changeStrategy
<1>8. CASE forget
  <2>1. UNCHANGED <<now, up, strategy, pit>>  BY <1>8 DEF forget
  <2> QED BY <1>1, <2>1 DEF WaitInv
<1>9. CASE Tick
  <2>0. now \in Nat /\ L \in Nat
    BY ForwarderAssumption DEF ForwarderInv, Steady
  <2>1. now' = now + 1 /\ UNCHANGED <<up, strategy, pit>>  BY <1>9 DEF Tick
  <2>2. ASSUME NEW k \in DOMAIN pit PROVE Waiting(k, pit[k], L)'
    <3>1. Typed(pit[k], up) /\ Waiting(k, pit[k], L)  BY DEF ForwarderInv, WaitInv
    <3>2. Timed(pit[k], L)'
      <4>1. ASSUME NEW f \in DOMAIN pit[k].in PROVE pit[k].in[f].expiry <= now' + L
        <5>1. pit[k].in[f].expiry \in Nat /\ pit[k].in[f].expiry <= now + L
          BY <3>1, RecordTimes, Zenon DEF Waiting, Timed
        <5> QED BY <2>0, <2>1, <5>1
      <4>2. ASSUME NEW g \in DOMAIN pit[k].out PROVE pit[k].out[g].renewed <= now'
        <5>1. pit[k].out[g].renewed \in Nat /\ pit[k].out[g].renewed <= now
          BY <3>1, RecordTimes, Zenon DEF Waiting, Timed
        <5> QED BY <2>0, <2>1, <5>1
      <4> QED BY <2>1, <3>1, <4>1, <4>2, Zenon DEF Waiting, Timed
    <3>3. Covered(pit[k])'
      <4>1. pit[k].timer \in Nat  BY <3>1, ForwarderAssumption DEF Typed
      <4>2. pit[k].timer > now' => pit[k].timer > now  BY <2>0, <2>1, <4>1
      <4> QED BY <2>1, <3>1, <4>2, Zenon DEF Waiting, Covered, Covers
    <3> QED BY <2>1, <3>1, <3>2, <3>3, Zenon DEF Waiting, Unmarked
  <2> QED BY <2>1, <2>2 DEF WaitInv
<1>10. CASE UNCHANGED vars  BY <1>1, <1>10 DEF vars, WaitInv
<1> QED BY <1>2, <1>3, <1>4, <1>5, <1>6, <1>7, <1>8, <1>9, <1>10 DEF Next

\* Suppression of retransmissions and aggregation (RetxSuppressionExponential,
\* BestRouteStrategy2, MulticastStrategy) leave no downstream waiting for nobody:
\* with one Interest lifetime and upstreams that stay, some upstream was asked so
\* late that its answer is still awaited when the downstream's Interest expires,
\* but for the suppression interval.  For any number of faces, any next hops, any
\* suppression intervals, whatever Nacks and Data arrive.
THEOREM WaitsForSomeoneAlways ==
    ASSUME NEW L, Steady(L)
    PROVE  Spec => []WaitsForSomeone
<1>1. Init => WaitInv(L)
  <2> SUFFICES ASSUME Init PROVE WaitInv(L)  OBVIOUS
  <2>1. DOMAIN pit = {}  BY DEF Init
  <2> QED BY <2>1 DEF Init, WaitInv
<1>2. ForwarderInv /\ WaitInv(L) /\ [Next]_vars => WaitInv(L)'  BY WaitStep
<1>3. WaitInv(L) => WaitsForSomeone
  BY DEF WaitInv, Waiting, Covered, Covers, WaitsForSomeone
<1> QED BY <1>1, <1>2, <1>3, ForwarderInvariant, PTL DEF Spec
=============================================================================
