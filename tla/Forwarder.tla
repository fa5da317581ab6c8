----------------------------- MODULE Forwarder -----------------------------
(* The forwarding pipelines of one forwarder (daemon/fw/forwarder.cpp) with  *)
(* the PIT, the best-route and multicast strategies and their suppression of *)
(* retransmissions.                                                          *)
(* Built as by default: ETRI_DUAL_CS and ETRI_PITTOKEN_HASH.                 *)
(*                                                                          *)
(* The Content Store and the Dead Nonce List appear as what lookups see of   *)
(* them; when they let an entry go is left open here.  A PIT token is one of *)
(* "none", "own" (the value the downstream chose) and "node" (the value this *)
(* forwarder writes).  Name hashes in tokens do not collide.                 *)
EXTENDS Naturals, FiniteSets, Sequences

CONSTANTS
    Faces, NonLocal, P2P, AdHoc,   \* faces, and those with a scope or link type
    NoFace,
    Keys,         \* [name, canBePrefix, mustBeFresh]: what tells PIT entries apart
    Data,         \* [name, freshness]
    Localhost, Localhop,           \* components
    NextHops,     \* name -> sequence of next hops by cost, of the FIB entry found
    Nonces, NoNonce,
    Lifetimes, Hops, Tokens, NextHopTags,   \* what incoming Interests carry
    SuppressionInitial, SuppressionMax,
    DnlLifetime,
    PmLimit, EmLimit,              \* capacities of the two Content Store tables
    CacheUnsolicited,              \* faces whose unsolicited Data is admitted
    Removable,    \* faces that may be closed
    Strategies,   \* of {"best-route", "multicast"}
    Changeable,   \* names whose strategy may change
    MaxTime       \* bound on the clock

Names == {k.name : k \in Keys}

ASSUME ForwarderAssumption ==
    /\ NonLocal \subseteq Faces /\ P2P \subseteq Faces /\ AdHoc \subseteq Faces \ P2P
    /\ NoFace \notin Faces /\ NextHopTags \subseteq Faces \cup {NoFace}
    /\ NextHops \in [Names -> Seq(Faces)]
    /\ NoNonce \notin Nonces
    /\ \A k \in Keys : k.canBePrefix \in BOOLEAN
    /\ \A d \in Data : d.freshness \in Nat
    /\ Lifetimes \subseteq Nat /\ Hops \subseteq Nat
    /\ Tokens \subseteq {"none", "own"}
    /\ SuppressionInitial \in Nat \ {0} /\ SuppressionMax \in Nat
    /\ SuppressionInitial <= SuppressionMax
    /\ DnlLifetime \in Nat /\ PmLimit \in Nat /\ EmLimit \in Nat
    /\ CacheUnsolicited \subseteq Faces /\ Removable \subseteq Faces /\ MaxTime \in Nat
    /\ Strategies \subseteq {"best-route", "multicast"} /\ Changeable \subseteq Names

VARIABLES
    now,
    up,      \* faces in the face table
    pit,     \* PIT: key -> entry
    cs,      \* Content Store: cs[canBePrefix] maps cached Data to its freshUntil
    dnl,     \* Dead Nonce List: <<name, nonce>> pairs
    strategy,   \* the strategy each name falls under
    sent     \* the packets sent by the last step

vars == <<now, up, pit, cs, dnl, strategy, sent>>

\* Only local faces may use NextHopFaceId (GenericLinkService, local fields).
Interests ==
    {i \in [face : Faces, key : Keys, nonce : Nonces, hop : Hops,
            lifetime : Lifetimes, token : Tokens, nextHop : NextHopTags] :
        i.nextHop # NoFace => i.face \notin NonLocal}

\* Partial functions
Put(f, x, v) == [y \in DOMAIN f \cup {x} |-> IF y = x THEN v ELSE f[y]]
Drop(f, S) == [y \in DOMAIN f \ S |-> f[y]]
PartialFunction(f, S, T) == DOMAIN f \subseteq S /\ \A x \in DOMAIN f : f[x] \in T

InRecord == [nonce : Nonces, expiry : Nat, token : Tokens, tagged : BOOLEAN]
OutRecord == [nonce : Nonces, renewed : Nat, expiry : Nat, nack : Nonces \cup {NoNonce},
              interval : 0 .. SuppressionMax]

EntryOK(e) ==
    /\ DOMAIN e = {"in", "out", "satisfied", "freshness", "timer", "interval"}
    /\ PartialFunction(e.in, up, InRecord)
    /\ PartialFunction(e.out, up, OutRecord)
    /\ e.satisfied \in BOOLEAN /\ e.freshness \in Nat
    /\ e.timer \in 0 .. MaxTime /\ e.interval \in 0 .. SuppressionMax

TypeOK ==
    /\ now \in 0 .. MaxTime
    /\ up \subseteq Faces
    /\ DOMAIN pit \subseteq Keys /\ \A k \in DOMAIN pit : EntryOK(pit[k])
    /\ DOMAIN cs = BOOLEAN /\ \A b \in BOOLEAN : PartialFunction(cs[b], Data, Nat)
    /\ dnl \subseteq Names \X Nonces
    /\ strategy \in [Names -> Strategies]

Init ==
    /\ now = 0
    /\ up = Faces
    /\ pit = << >>
    /\ cs = [b \in BOOLEAN |-> << >>]
    /\ dnl = {}
    /\ \E default \in Strategies : strategy = [n \in Names |-> default]
    /\ sent = {}

-----------------------------------------------------------------------------
(* Names, records, nonces *)

Under(c, n) == Len(n) > 0 /\ n[1] = c
IsPrefixOf(p, n) == Len(p) <= Len(n) /\ \A j \in 1 .. Len(p) : p[j] = n[j]

\* Interest::matchesData
NameMatches(k, d) ==
    IF k.canBePrefix THEN IsPrefixOf(k.name, d.name) ELSE k.name = d.name
MatchesData(k, d) == NameMatches(k, d) /\ (k.mustBeFresh => d.freshness > 0)

ViolatesLocalhost(f, n) == f \in NonLocal /\ Under(Localhost, n)

\* Mutant: /localhop is not scoped.
wouldViolateScopeLocalhost(inFace, n, outFace) == outFace \in NonLocal /\ Under(Localhost, n)

\* fw::wouldViolateScope
wouldViolateScope(inFace, n, outFace) ==
    /\ outFace \in NonLocal
    /\ Under(Localhost, n) \/ (Under(Localhop, n) /\ inFace \in NonLocal)

\* A PIT entry whose expiry timer was never set would stay for ever.
NotScheduled == MaxTime + 1
NewEntry == [in |-> << >>, out |-> << >>, satisfied |-> FALSE, freshness |-> 0,
             timer |-> NotScheduled, interval |-> 0]

\* Pit::insert: the entry of the key, new if there is none.
Entry(k) == IF k \in DOMAIN pit THEN pit[k] ELSE NewEntry

MaxOf(S) == CHOOSE x \in S : \A y \in S : y <= x

\* fw::findDuplicateNonce, and what onIncomingInterest makes of it: on a
\* point-to-point face the downstream may repeat its own nonce.
HasDuplicateNonce(e, nonce, face) ==
    LET inSame == face \in DOMAIN e.in /\ e.in[face].nonce = nonce
        any == \/ \E f \in DOMAIN e.in : e.in[f].nonce = nonce
               \/ \E f \in DOMAIN e.out : e.out[f].nonce = nonce
    IN  any /\ ~(face \in P2P /\ inSame)

\* fw::hasPendingOutRecords
hasPendingOutRecords(e) ==
    \E f \in DOMAIN e.out : e.out[f].expiry >= now /\ e.out[f].nack = NoNonce

getLastOutgoing(e) == MaxOf({e.out[f].renewed : f \in DOMAIN e.out})

-----------------------------------------------------------------------------
(* Outgoing packets.  Each operator gives the entry after and what is sent.  *)

Result(e, packets) == [entry |-> e, sent |-> packets]

\* Forwarder::onOutgoingInterest.  The hop limit of i is the one it arrived
\* with; onIncomingInterest has decremented it.
onOutgoingInterest(e, i, egress) ==
    IF i.hop = 1 /\ egress \in NonLocal THEN Result(e, {})
    ELSE LET old == IF egress \in DOMAIN e.out THEN e.out[egress]
                    ELSE [nack |-> NoNonce, interval |-> 0]
             record == [nonce |-> i.nonce, renewed |-> now, expiry |-> now + i.lifetime,
                        nack |-> old.nack, interval |-> old.interval]
         IN  Result([e EXCEPT !.out = Put(@, egress, record)],
                    {[type |-> "interest", to |-> egress, key |-> i.key, nonce |-> i.nonce,
                      from |-> i.face, chosen |-> i.nextHop # NoFace]})

\* Strategy::sendInterest puts this forwarder's PIT token on the outgoing
\* Interest.  An Interest that came without one is tagged in place, and it is
\* the Interest the in-record refers to.
sendInterest(e, i, egress) ==
    onOutgoingInterest([e EXCEPT !.in[i.face].tagged = TRUE], i, egress)

\* The PIT token of the Interest an in-record refers to
TokenOf(r) == IF r.token = "none" /\ r.tagged THEN "node" ELSE r.token

\* Forwarder::onOutgoingNack, for a set of faces.
sendNacks(e, k, faces) ==
    LET to == faces \cap DOMAIN e.in \cap P2P
    IN  Result([e EXCEPT !.in = Drop(@, to)],
               {[type |-> "nack", to |-> f, key |-> k, nonce |-> e.in[f].nonce] : f \in to})

\* Forwarder::onOutgoingData
onOutgoingData(d, egress, token) ==
    IF ViolatesLocalhost(egress, d.name) THEN {}
    ELSE {[type |-> "data", to |-> egress, data |-> d, token |-> token]}

-----------------------------------------------------------------------------
(* Strategies *)

\* fw::isNextHopEligible
isNextHopEligible(e, i, f, wantUnused) ==
    /\ f # i.face \/ f \in AdHoc
    /\ ~wouldViolateScope(i.face, i.key.name, f)
    /\ ~(wantUnused /\ f \in DOMAIN e.out /\ e.out[f].expiry > now)

\* The places in the list of next hops that lookupFib finds
HopAt(i, j) == NextHops[i.key.name][j]
Eligible(e, i, wantUnused) ==
    {j \in DOMAIN NextHops[i.key.name] :
        HopAt(i, j) \in up /\ isNextHopEligible(e, i, HopAt(i, j), wantUnused)}

\* std::find_if: the first of these places
FirstOf(i, places) == HopAt(i, CHOOSE j \in places : \A l \in places : j <= l)

\* fw::findEligibleNextHopWithEarliestOutRecord: the first one if several are.
EarliestOf(e, i, places) ==
    LET renewed(j) == e.out[HopAt(i, j)].renewed
    IN  HopAt(i, CHOOSE j \in places : \A l \in places :
                    renewed(j) < renewed(l) \/ (renewed(j) = renewed(l) /\ j <= l))

Min2(a, b) == IF a < b THEN a ELSE b

\* RetxSuppressionExponential::decidePerPitEntry; interval 0 is "no info yet".
Interval(e) == IF e.interval = 0 THEN SuppressionInitial ELSE e.interval
ShouldSuppressPending(e) == TRUE    \* Mutant: while something is pending
ShouldSuppress(e) == now - getLastOutgoing(e) < Interval(e)

\* sendNack to the downstream, and rejectPendingInterest
rejectInterest(e, i) ==
    LET r == sendNacks(e, i.key, {i.face}) IN Result([r.entry EXCEPT !.timer = now], r.sent)

\* BestRouteStrategy2::afterReceiveInterest
bestRoute(e, i) ==
    LET first == Eligible(e, i, FALSE)
        backedOff == [e EXCEPT !.interval = Min2(SuppressionMax, 2 * Interval(e))]
        unused == Eligible(e, i, TRUE)
    IN  IF ~hasPendingOutRecords(e)
        THEN IF first = {} THEN rejectInterest(e, i) ELSE sendInterest(e, i, FirstOf(i, first))
        ELSE IF ShouldSuppress(e)
        THEN Result([e EXCEPT !.interval = Interval(e)], {})
        ELSE IF unused # {} THEN sendInterest(backedOff, i, FirstOf(i, unused))
        ELSE IF first # {} THEN sendInterest(backedOff, i, EarliestOf(e, i, first))
        ELSE Result(backedOff, {})

\* decidePerUpstream; interval 0 is "no info yet" here, too.
RecordInterval(o) == IF o.interval = 0 THEN SuppressionInitial ELSE o.interval
SuppressUpstream(e, f) ==
    f \in DOMAIN e.out /\ now - e.out[f].renewed < RecordInterval(e.out[f])

\* MulticastStrategy::afterReceiveInterest for one next hop
sendToNextHop(e, i, f) ==
    LET s == sendInterest(e, i, f)
        interval == Min2(SuppressionMax, 2 * RecordInterval(s.entry.out[f]))
    IN  IF s.sent # {} /\ f \in DOMAIN e.out
        THEN Result([s.entry EXCEPT !.out[f].interval = interval], s.sent) ELSE s

\* MulticastStrategy::afterReceiveInterest.  What is sent to one next hop changes
\* the out-record of that one alone, so the order of the next hops does not matter.
multicast(e, i) ==
    LET hops == {HopAt(i, j) : j \in Eligible(e, i, FALSE)}
        to == {f \in hops : ~ SuppressUpstream(e, f)}
        gone == {f \in to : sendToNextHop(e, i, f).sent # {}}
        out == [f \in DOMAIN e.out \cup gone |->
                   IF f \in gone THEN sendToNextHop(e, i, f).entry.out[f] ELSE e.out[f]]
        in == IF to = {} THEN e.in ELSE [e.in EXCEPT ![i.face].tagged = TRUE]
        packets == UNION {sendToNextHop(e, i, f).sent : f \in to}
        multi == [e EXCEPT !.in = in, !.out = out]
        rejected == rejectInterest(multi, i)
    IN  IF hasPendingOutRecords(multi) THEN Result(multi, packets)
        ELSE Result(rejected.entry, packets \cup rejected.sent)

\* Forwarder::dispatchToStrategy
afterReceiveInterest(e, i) ==
    IF strategy[i.key.name] = "multicast" THEN multicast(e, i) ELSE bestRoute(e, i)

\* ProcessNackTraitsBase::processNack
processNack(e, k) ==
    LET waiting == {f \in DOMAIN e.out : e.out[f].nack = NoNonce}
    IN  IF Cardinality(waiting) = 1 /\ waiting \subseteq DOMAIN e.in
        THEN sendNacks(e, k, waiting)
        ELSE IF waiting # {} THEN Result(e, {})
        ELSE sendNacks(e, k, DOMAIN e.in)

-----------------------------------------------------------------------------
(* Interest pipelines *)

\* The Data an Interest may be answered with at once: the Content Store is
\* asked only when nobody is waiting, and only the table of its CanBePrefix.
CsMatches(k) ==
    LET store == cs[k.canBePrefix]
    IN  {d \in DOMAIN store :
           /\ DOMAIN Entry(k).in = {}
           /\ (IF k.canBePrefix THEN PmLimit ELSE EmLimit) > 0
           /\ IF k.canBePrefix THEN MatchesData(k, d) ELSE NameMatches(k, d)
           /\ k.mustBeFresh => store[d] >= now}

\* Forwarder::onInterestLoop
onInterestLoop(i) ==
    /\ sent' = IF i.face \in P2P
               THEN {[type |-> "nack", to |-> i.face, key |-> i.key, nonce |-> i.nonce]}
               ELSE {}
    /\ UNCHANGED pit

\* Forwarder::onContentStoreHit.  Strategy::sendData finds no in-record to
\* take a PIT token from, and removes the one the pipeline has put on the Data.
onContentStoreHit(i, d) ==
    /\ pit' = Put(pit, i.key, [Entry(i.key) EXCEPT
                 !.satisfied = TRUE, !.freshness = d.freshness, !.timer = now])
    /\ sent' = onOutgoingData(d, i.face, "none")

\* Mutant: the expiry timer is not set.
WithInRecordNoTimer(e, i) ==
    [e EXCEPT !.in = Put(@, i.face, [nonce |-> i.nonce, expiry |-> now + i.lifetime,
                                     token |-> i.token, tagged |-> FALSE])]

\* Forwarder::onContentStoreMiss
WithInRecord(e, i) ==
    LET in == Put(e.in, i.face, [nonce |-> i.nonce, expiry |-> now + i.lifetime,
                                 token |-> i.token, tagged |-> FALSE])
    IN  [e EXCEPT !.in = in, !.timer = MaxOf({in[f].expiry : f \in DOMAIN in})]

onContentStoreMiss(i) ==
    LET e == WithInRecord(Entry(i.key), i)
        r == IF i.nextHop = NoFace THEN afterReceiveInterest(e, i)
             ELSE IF i.nextHop \in up THEN onOutgoingInterest(e, i, i.nextHop)
             ELSE Result(e, {})
    IN  pit' = Put(pit, i.key, r.entry) /\ sent' = r.sent

\* Forwarder::onIncomingInterest
onIncomingInterest(i) ==
    LET dropped == i.hop = 0 \/ ViolatesLocalhost(i.face, i.key.name)
        loop == \/ <<i.key.name, i.nonce>> \in dnl
                \/ HasDuplicateNonce(Entry(i.key), i.nonce, i.face)
    IN  /\ i.face \in up
        /\ now + i.lifetime <= MaxTime
        /\ \/ dropped /\ sent' = {} /\ UNCHANGED pit
           \/ ~dropped /\ loop /\ onInterestLoop(i)
           \/ ~dropped /\ ~loop /\ \E d \in CsMatches(i.key) : onContentStoreHit(i, d)
           \/ ~dropped /\ ~loop /\ CsMatches(i.key) = {} /\ onContentStoreMiss(i)
        /\ UNCHANGED <<now, up, cs, dnl, strategy>>

\* Forwarder::insertDeadNonceList, for the out-records of some faces
DeadNonces(k, e, faces) ==
    IF e.satisfied /\ ~(k.mustBeFresh /\ e.freshness < DnlLifetime) THEN {}
    ELSE {<<k.name, e.out[f].nonce>> : f \in faces \cap DOMAIN e.out}

\* Mutant: the timer must be past.
onInterestFinalizeLate(k) ==
    /\ k \in DOMAIN pit /\ pit[k].timer < now
    /\ dnl' = dnl \cup DeadNonces(k, pit[k], Faces)
    /\ pit' = Drop(pit, {k})
    /\ sent' = {}
    /\ UNCHANGED <<now, up, cs, strategy>>

\* The expiry timer fires, when the thread gets to it: onInterestFinalize.
onInterestFinalize(k) ==
    /\ k \in DOMAIN pit
    /\ pit[k].timer <= now
    /\ dnl' = dnl \cup DeadNonces(k, pit[k], Faces)
    /\ pit' = Drop(pit, {k})
    /\ sent' = {}
    /\ UNCHANGED <<now, up, cs, strategy>>

-----------------------------------------------------------------------------
(* Data and Nack pipelines *)

\* Pit::findDataExactMatch with the hash of a PIT token looks at the entries of
\* one name; Pit::findAllDataMatches, for Data without token, at all.
PitMatches(d, token) ==
    {k \in DOMAIN pit : MatchesData(k, d) /\ (token.present => k.name = token.name)}

\* Mutant: expired in-records are answered, too.
PendingDownstreamsExpired(e, inFace) == {f \in DOMAIN e.in : f # inFace \/ f \in AdHoc}

\* In-records that Data from a face is sent to.
PendingDownstreams(e, inFace) ==
    {f \in DOMAIN e.in : e.in[f].expiry > now /\ (f # inFace \/ f \in AdHoc)}

\* What the pipeline does to every matching entry.
Satisfied(e, inFace, d) ==
    [e EXCEPT !.timer = now, !.satisfied = TRUE, !.freshness = d.freshness,
              !.out = Drop(@, {inFace})]

\* Where Cs::insert puts Data: by the CanBePrefix of its token.  The exact table
\* has one entry for a name.
WithCached(d, token) ==
    LET b == ~token.present \/ token.canBePrefix
    IN  IF (IF b THEN PmLimit ELSE EmLimit) = 0 THEN cs
        ELSE [cs EXCEPT ![b] = Put(Drop(@, {x \in Data : ~b /\ x.name = d.name}),
                                   d, now + d.freshness)]

\* Mutant: the Data goes on with the token it came with.
satisfyOneAsItCame(k, inFace, d) ==
    LET e == pit[k]
        to == PendingDownstreams(e, inFace)
    IN  /\ pit' = [pit EXCEPT ![k] = Satisfied([e EXCEPT !.in = Drop(@, to)], inFace, d)]
        /\ sent' = UNION {onOutgoingData(d, f, "node") : f \in to}

\* Strategy::sendDataToAll gives each downstream the token of its in-record.
satisfyOne(k, inFace, d) ==
    LET e == pit[k]
        to == PendingDownstreams(e, inFace)
    IN  /\ pit' = [pit EXCEPT ![k] = Satisfied([e EXCEPT !.in = Drop(@, to)], inFace, d)]
        /\ sent' = UNION {onOutgoingData(d, f, TokenOf(e.in[f])) : f \in to}

\* With several entries the pipeline itself sends the Data, as it came.
satisfyAll(K, inFace, d, token) ==
    LET to == UNION {PendingDownstreams(pit[k], inFace) : k \in K}
    IN  /\ pit' = [k \in DOMAIN pit |->
                     IF k \in K THEN Satisfied([pit[k] EXCEPT !.in = << >>], inFace, d)
                     ELSE pit[k]]
        /\ sent' = UNION {onOutgoingData(d, f, IF token.present THEN "node" ELSE "none") : f \in to}

\* Forwarder::onIncomingData
onIncomingData(f, d, token) ==
    LET K == PitMatches(d, token)
        dead(k) == DeadNonces(k, [pit[k] EXCEPT !.satisfied = TRUE, !.freshness = d.freshness], {f})
    IN  /\ f \in up
        /\ ~ViolatesLocalhost(f, d.name)
        /\ \/ /\ K = {}                              \* onDataUnsolicited
              /\ f \in CacheUnsolicited
              /\ sent' = {} /\ UNCHANGED pit
           \/ \E k \in K : K = {k} /\ satisfyOne(k, f, d)
           \/ Cardinality(K) > 1 /\ satisfyAll(K, f, d, token)
        /\ cs' = WithCached(d, token)
        /\ dnl' = dnl \cup UNION {dead(k) : k \in K}
        /\ UNCHANGED <<now, up, strategy>>

\* Forwarder::onIncomingNack; nonce is that of the Interest sent back.
onIncomingNack(f, k, nonce) ==
    /\ f \in up \cap P2P
    /\ k \in DOMAIN pit /\ f \in DOMAIN pit[k].out
    /\ pit[k].out[f].nonce = nonce
    /\ LET e == [pit[k] EXCEPT !.out[f].nack = nonce]
           r == processNack(IF hasPendingOutRecords(e) THEN e ELSE [e EXCEPT !.timer = now], k)
       IN  pit' = [pit EXCEPT ![k] = r.entry] /\ sent' = r.sent
    /\ UNCHANGED <<now, up, cs, dnl, strategy>>

-----------------------------------------------------------------------------
(* The rest of the world *)

\* cleanupOnFaceRemoval, when the face table drops a face
removeFace(f) ==
    /\ f \in up /\ up' = up \ {f}
    /\ pit' = [k \in DOMAIN pit |->
                 [pit[k] EXCEPT !.in = Drop(@, {f}), !.out = Drop(@, {f})]]
    /\ sent' = {}
    /\ UNCHANGED <<now, cs, dnl, strategy>>

\* StrategyChoice::changeStrategy for the names that a choice governs: what
\* strategies left on their entries goes.
changeStrategy(names, new) ==
    LET changed == {n \in names : strategy[n] # new}
        cleared(e) == [e EXCEPT !.interval = 0,
                          !.out = [f \in DOMAIN @ |-> [@[f] EXCEPT !.interval = 0]]]
    IN  /\ changed # {}
        /\ strategy' = [n \in Names |-> IF n \in names THEN new ELSE strategy[n]]
        /\ pit' = [k \in DOMAIN pit |-> IF k.name \in changed THEN cleared(pit[k]) ELSE pit[k]]
        /\ sent' = {}
        /\ UNCHANGED <<now, up, cs, dnl>>

\* The Content Store policy evicts, the Dead Nonce List shrinks.
forget ==
    /\ \/ \E b \in BOOLEAN : \E d \in DOMAIN cs[b] :
             cs' = [cs EXCEPT ![b] = Drop(@, {d})] /\ UNCHANGED dnl
       \/ \E x \in dnl : dnl' = dnl \ {x} /\ UNCHANGED cs
    /\ sent' = {}
    /\ UNCHANGED <<now, up, pit, strategy>>

Tick ==
    /\ now < MaxTime /\ now' = now + 1
    /\ sent' = {}
    /\ UNCHANGED <<up, pit, cs, dnl, strategy>>

\* The tokens on incoming Data: none, or one this forwarder has put on an
\* Interest, from a peer that returns it.
DataTokens ==
    {[present |-> FALSE]} \cup
    {[present |-> TRUE, name |-> k.name, canBePrefix |-> k.canBePrefix] : k \in Keys}

Next ==
    \/ \E i \in Interests : onIncomingInterest(i)
    \/ \E k \in Keys : onInterestFinalize(k)
    \/ \E f \in Faces, d \in Data, t \in DataTokens : onIncomingData(f, d, t)
    \/ \E f \in Faces, k \in Keys, n \in Nonces : onIncomingNack(f, k, n)
    \/ \E f \in Removable : removeFace(f)
    \/ \E names \in SUBSET Changeable, new \in Strategies : changeStrategy(names, new)
    \/ forget
    \/ Tick

\* Time passes and the worker's loop polls its timers.
Fairness == WF_vars(Tick) /\ \A k \in Keys : WF_vars(onInterestFinalize(k))

Spec == Init /\ [][Next]_vars /\ Fairness

-----------------------------------------------------------------------------
\* Data goes only to a face that waits for it, and a face that got it waits no
\* more: an unexpired in-record of a matching entry is consumed, or the Data
\* is a cache hit (fresh, if asked for) for an Interest nobody else waits on.
AnswersPending ==
    [][\A p \in sent' : p.type = "data" => \E k \in DOMAIN pit' :
          /\ NameMatches(k, p.data)
          /\ p.to \notin DOMAIN pit'[k].in
          /\ \/ /\ k \in DOMAIN pit /\ p.to \in DOMAIN pit[k].in
                /\ MatchesData(k, p.data)
                /\ pit[k].in[p.to].expiry > now
             \/ /\ p.data \in DOMAIN cs[k.canBePrefix]
                /\ k.mustBeFresh => cs[k.canBePrefix][p.data] >= now]_vars

\* Data that satisfies one entry goes to each downstream with the PIT token that
\* its Interest came with, if it came with one, and not with the one that this
\* forwarder put on the Interest upstream.  (With several entries, and from the
\* Content Store, the token is lost.)
TokenReturned ==
    [][\A p \in sent', k \in DOMAIN pit :
          /\ p.type = "data" /\ p.to \in DOMAIN pit[k].in
          /\ k \in DOMAIN pit' /\ p.to \notin DOMAIN pit'[k].in
          /\ \A j \in DOMAIN pit \ {k} : ~ MatchesData(j, p.data)
          /\ pit[k].in[p.to].token # "none"
          => p.token = pit[k].in[p.to].token]_vars

\* The suppression interval of best-route, or of multicast for one upstream
SuppressedFor(e, g) == IF e.out[g].interval = 0 THEN Interval(e) ELSE e.out[g].interval

\* A downstream whose Interest is to be waited for (all have one lifetime)
\* waits for someone: the last Interest sent upstream lasts as long as its own,
\* but for the suppression interval.  Aggregation, retransmission, Nacks, and
\* Data that comes from a downstream never leave it waiting for nobody.
WaitsForSomeone ==
    \A k \in DOMAIN pit : pit[k].timer > now =>
        \A f \in DOMAIN pit[k].in : pit[k].in[f].expiry > now =>
            \E g \in DOMAIN pit[k].out :
                pit[k].in[f].expiry < pit[k].out[g].expiry + SuppressedFor(pit[k], g)

\* What that takes: one lifetime L, Interests that may go on (the hop limit and
\* the scope leave each a next hop), upstreams that stay, and one strategy.
Steady(L) ==
    /\ Lifetimes = {L} /\ 1 \notin Hops
    /\ Removable = {} /\ Changeable = {}
    /\ \A i \in Interests : \E j \in DOMAIN NextHops[i.key.name] :
          /\ HopAt(i, j) # i.face \/ HopAt(i, j) \in AdHoc
          /\ ~ wouldViolateScope(i.face, i.key.name, HopAt(i, j))

\* /localhost packets do not leave the host, /localhop Interests of other
\* hosts go no further, and no Interest goes back where it came from, unless
\* an application chose the next hop.
ScopeKept ==
    \A p \in sent :
        /\ p.type = "data" /\ p.to \in NonLocal => ~Under(Localhost, p.data.name)
        /\ p.type = "interest" /\ ~p.chosen =>
              /\ p.to \in NonLocal => ~Under(Localhost, p.key.name)
              /\ {p.to, p.from} \subseteq NonLocal => ~Under(Localhop, p.key.name)
              /\ p.to = p.from => p.to \in AdHoc

\* Every PIT entry goes in the end.
Drains == \A k \in Keys : k \in DOMAIN pit ~> k \notin DOMAIN pit
=============================================================================
