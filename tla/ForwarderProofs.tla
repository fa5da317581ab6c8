-------------------------- MODULE ForwarderProofs --------------------------
(* The forwarding pipelines keep to their promises for any faces, names,     *)
(* next hops, strategies and timing.                                         *)
EXTENDS Forwarder, WellFoundedInduction, TLAPS

-----------------------------------------------------------------------------
(* Minima of sets of numbers, and what the pipelines choose with them.       *)

\* A set of natural numbers that is not empty has a least element.
LEMMA LeastNumber ==
    ASSUME NEW S, S \subseteq Nat, S # {}
    PROVE  \E x \in S : \A y \in S : x <= y
<1> DEFINE R == {p \in Nat \X Nat : p[1] < p[2]}
<1>1. IsWellFoundedOn(R, Nat)  BY NatLessThanWellFounded DEF OpToRel
<1> HIDE DEF R
<1>2. PICK x \in S : \A y \in S : ~ (<<y, x>> \in R)  BY <1>1, WFMin, Zenon
<1>3. ASSUME NEW y \in S PROVE x <= y
  <2>1. x \in Nat /\ y \in Nat /\ <<y, x>> \notin R  BY <1>2
  <2>2. ~ (y < x)  BY <2>1 DEF R
  <2> QED BY <2>1, <2>2
<1> QED BY <1>3

\* And a greatest one, if it is bounded.
LEMMA GreatestNumber ==
    ASSUME NEW S, NEW b \in Nat, S \subseteq 0 .. b, S # {}
    PROVE  /\ MaxOf(S) \in S
           /\ \A y \in S : y <= MaxOf(S)
<1> DEFINE C == {b - x : x \in S}
<1>0. \A x \in S : b - x \in Nat
  <2> SUFFICES ASSUME NEW x \in S PROVE b - x \in Nat  OBVIOUS
  <2>1. x \in 0 .. b  OBVIOUS
  <2> QED BY <2>1
<1>1. C \subseteq Nat /\ C # {}  BY <1>0, Zenon
<1> HIDE DEF C
<1>2. PICK c \in C : \A d \in C : c <= d  BY <1>1, LeastNumber, Zenon
<1>3. PICK x \in S : c = b - x  BY DEF C
<1>4. ASSUME NEW y \in S PROVE y <= x
  <2>1. b - y \in C  BY DEF C
  <2>2. c <= b - y  BY <1>2, <2>1
  <2>3. x \in 0 .. b /\ y \in 0 .. b  OBVIOUS
  <2> QED BY <1>3, <2>2, <2>3
<1> QED BY <1>4, Zenon DEF MaxOf

\* The next hop that std::find_if finds is one of those it looks for.
LEMMA FirstOfPlaces ==
    ASSUME NEW i, NEW places, places \subseteq Nat, places # {}
    PROVE  \E j \in places : FirstOf(i, places) = HopAt(i, j)
<1>1. \E j \in places : \A l \in places : j <= l  BY LeastNumber, Zenon
<1>2. (CHOOSE j \in places : \A l \in places : j <= l) \in places  BY <1>1, Zenon
<1> QED BY <1>2, Zenon DEF FirstOf

\* So is the one that was used earliest.
LEMMA EarliestOfPlaces ==
    ASSUME NEW e, NEW i, NEW places, places \subseteq Nat, places # {},
           \A j \in places : e.out[HopAt(i, j)].renewed \in Nat
    PROVE  \E j \in places : EarliestOf(e, i, places) = HopAt(i, j)
<1> DEFINE renewed(j) == e.out[HopAt(i, j)].renewed
           T == {renewed(j) : j \in places}
<1>1. T \subseteq Nat /\ T # {}  BY Zenon
<1>0. \A j \in places : renewed(j) \in Nat  OBVIOUS
<1> HIDE DEF T
<1>2. PICK t \in T : \A u \in T : t <= u  BY <1>1, LeastNumber, Zenon
<1> DEFINE P == {j \in places : renewed(j) = t}
<1>3. P \subseteq Nat /\ P # {}  BY Zenon DEF T
<1> HIDE DEF P
<1>4. PICK j \in P : \A l \in P : j <= l  BY <1>3, LeastNumber, Zenon
<1>5. j \in places /\ renewed(j) = t /\ t \in Nat  BY <1>1, <1>4 DEF P
<1>6. ASSUME NEW l \in places
      PROVE  renewed(j) < renewed(l) \/ (renewed(j) = renewed(l) /\ j <= l)
  <2>1. renewed(l) \in T  BY DEF T
  <2>2. t <= renewed(l) /\ renewed(l) \in Nat  BY <1>0, <1>2, <2>1
  <2>3. CASE renewed(l) = t  BY <1>4, <1>5, <2>3 DEF P
  <2> QED BY <1>5, <2>2, <2>3
<1> HIDE DEF renewed
<1> DEFINE First(x) == \A l \in places : renewed(x) < renewed(l) \/ (renewed(x) = renewed(l) /\ x <= l)
<1>7. First(j)  BY <1>6
<1> HIDE DEF First
<1>8. (CHOOSE x \in places : First(x)) \in places  BY <1>5, <1>7
<1>9. EarliestOf(e, i, places) = HopAt(i, CHOOSE x \in places : First(x))
  BY DEF EarliestOf, First, renewed
<1> QED BY <1>8, <1>9, Zenon

-----------------------------------------------------------------------------
(* PIT entries.  Typed is EntryOK for given faces; in-records also end by    *)
(* MaxTime, so that the expiry timer, which follows the longest of them,     *)
(* does.                                                                     *)

Typed(e, U) ==
    /\ DOMAIN e = {"in", "out", "satisfied", "freshness", "timer", "interval"}
    /\ PartialFunction(e.in, U, InRecord)
    /\ \A f \in DOMAIN e.in : e.in[f].expiry <= MaxTime
    /\ PartialFunction(e.out, U, OutRecord)
    /\ e.satisfied \in BOOLEAN /\ e.freshness \in Nat
    /\ e.timer \in 0 .. MaxTime /\ e.interval \in 0 .. SuppressionMax

\* Everything but the timer, which a new entry does not have yet
TypedNew(e, U) ==
    /\ DOMAIN e = {"in", "out", "satisfied", "freshness", "timer", "interval"}
    /\ PartialFunction(e.in, U, InRecord)
    /\ \A f \in DOMAIN e.in : e.in[f].expiry <= MaxTime
    /\ PartialFunction(e.out, U, OutRecord)
    /\ e.satisfied \in BOOLEAN /\ e.freshness \in Nat
    /\ e.interval \in 0 .. SuppressionMax

LEMMA PutProperties ==
    ASSUME NEW f, NEW x, NEW v
    PROVE  /\ DOMAIN Put(f, x, v) = DOMAIN f \cup {x}
           /\ Put(f, x, v)[x] = v
           /\ \A y \in DOMAIN f : y # x => Put(f, x, v)[y] = f[y]
  BY DEF Put

LEMMA PutType ==
    ASSUME NEW f, NEW S, NEW T, PartialFunction(f, S, T), NEW x \in S, NEW v \in T
    PROVE  PartialFunction(Put(f, x, v), S, T)
  BY DEF Put, PartialFunction

LEMMA DropProperties ==
    ASSUME NEW f, NEW D
    PROVE  /\ DOMAIN Drop(f, D) = DOMAIN f \ D
           /\ \A y \in DOMAIN f \ D : Drop(f, D)[y] = f[y]
  BY DEF Drop

LEMMA DropType ==
    ASSUME NEW f, NEW S, NEW T, PartialFunction(f, S, T), NEW D
    PROVE  PartialFunction(Drop(f, D), S, T) /\ PartialFunction(Drop(f, D), S \ D, T)
  BY DEF Drop, PartialFunction

\* Fields of an entry
LEMMA WithFields ==
    ASSUME NEW e, DOMAIN e = {"in", "out", "satisfied", "freshness", "timer", "interval"}
    PROVE  /\ \A t : LET n == [e EXCEPT !.timer = t] IN
                /\ DOMAIN n = DOMAIN e /\ n.timer = t /\ n.in = e.in /\ n.out = e.out
                /\ n.satisfied = e.satisfied /\ n.freshness = e.freshness /\ n.interval = e.interval
           /\ \A t : LET n == [e EXCEPT !.in = t] IN
                /\ DOMAIN n = DOMAIN e /\ n.timer = e.timer /\ n.in = t /\ n.out = e.out
                /\ n.satisfied = e.satisfied /\ n.freshness = e.freshness /\ n.interval = e.interval
           /\ \A t : LET n == [e EXCEPT !.out = t] IN
                /\ DOMAIN n = DOMAIN e /\ n.timer = e.timer /\ n.in = e.in /\ n.out = t
                /\ n.satisfied = e.satisfied /\ n.freshness = e.freshness /\ n.interval = e.interval
           /\ \A t : LET n == [e EXCEPT !.interval = t] IN
                /\ DOMAIN n = DOMAIN e /\ n.timer = e.timer /\ n.in = e.in /\ n.out = e.out
                /\ n.satisfied = e.satisfied /\ n.freshness = e.freshness /\ n.interval = t
  OBVIOUS

LEMMA InterestType ==
    ASSUME NEW i \in Interests
    PROVE  /\ i.face \in Faces /\ i.key \in Keys /\ i.key.name \in Names /\ i.nonce \in Nonces
           /\ i.lifetime \in Nat /\ i.token \in Tokens /\ i.nextHop \in NextHopTags
  BY ForwarderAssumption, Zenon DEF Interests, Names

\* The Interest that is sent on
Onward(i, g) == [type |-> "interest", to |-> g, key |-> i.key, nonce |-> i.nonce,
                 from |-> i.face, chosen |-> i.nextHop # NoFace]

\* The out-record of an Interest that is sent to g
Renewed(e, i, g) ==
    LET old == IF g \in DOMAIN e.out THEN e.out[g] ELSE [nack |-> NoNonce, interval |-> 0]
    IN  [nonce |-> i.nonce, renewed |-> now, expiry |-> now + i.lifetime,
         nack |-> old.nack, interval |-> old.interval]

LEMMA RenewedType ==
    ASSUME NEW e, NEW U, PartialFunction(e.out, U, OutRecord), NEW i \in Interests, NEW g,
           now \in Nat
    PROVE  /\ Renewed(e, i, g) \in OutRecord
           /\ Renewed(e, i, g).renewed = now /\ Renewed(e, i, g).expiry = now + i.lifetime
           /\ g \notin DOMAIN e.out => Renewed(e, i, g).interval = 0 /\ Renewed(e, i, g).nack = NoNonce
           /\ g \in DOMAIN e.out => /\ Renewed(e, i, g).interval = e.out[g].interval
                                    /\ Renewed(e, i, g).nack = e.out[g].nack
<1> DEFINE old == IF g \in DOMAIN e.out THEN e.out[g] ELSE [nack |-> NoNonce, interval |-> 0]
<1>1. old.nack \in Nonces \cup {NoNonce} /\ old.interval \in 0 .. SuppressionMax
  <2>1. CASE g \in DOMAIN e.out
    <3>1. e.out[g] \in OutRecord  BY <2>1 DEF PartialFunction
    <3>2. old = e.out[g]  BY <2>1
    <3> QED BY <3>1, <3>2 DEF OutRecord
  <2>2. CASE g \notin DOMAIN e.out  BY <2>2, ForwarderAssumption
  <2> QED BY <2>1, <2>2
<1>2. i.nonce \in Nonces /\ now + i.lifetime \in Nat  BY InterestType
<1>3. Renewed(e, i, g) = [nonce |-> i.nonce, renewed |-> now, expiry |-> now + i.lifetime,
                          nack |-> old.nack, interval |-> old.interval]
  BY DEF Renewed
<1> HIDE DEF old
<1>4. Renewed(e, i, g) \in OutRecord  BY <1>1, <1>2, <1>3 DEF OutRecord
<1>5. /\ Renewed(e, i, g).renewed = now /\ Renewed(e, i, g).expiry = now + i.lifetime
      /\ Renewed(e, i, g).interval = old.interval /\ Renewed(e, i, g).nack = old.nack
  BY <1>3
<1> QED BY <1>4, <1>5 DEF old

\* onOutgoingInterest: the Interest is sent and the out-record written, unless the
\* hop limit stops it.
LEMMA OutgoingInterest ==
    ASSUME NEW e, NEW U, Typed(e, U), NEW i \in Interests, NEW g \in U, now \in Nat
    PROVE  LET r == onOutgoingInterest(e, i, g) IN
           /\ Typed(r.entry, U)
           /\ r.entry.in = e.in /\ r.entry.timer = e.timer /\ r.entry.interval = e.interval
           /\ i.hop = 1 /\ g \in NonLocal => r.entry = e /\ r.sent = {}
           /\ ~ (i.hop = 1 /\ g \in NonLocal) =>
                 r.sent = {Onward(i, g)} /\ r.entry.out = Put(e.out, g, Renewed(e, i, g))
<1> DEFINE r == onOutgoingInterest(e, i, g)
<1>1. CASE i.hop = 1 /\ g \in NonLocal
  <2>1. r.entry = e /\ r.sent = {}  BY <1>1 DEF onOutgoingInterest, Result
  <2> QED BY <1>1, <2>1
<1>2. CASE ~ (i.hop = 1 /\ g \in NonLocal)
  <2> DEFINE n == [e EXCEPT !.out = Put(e.out, g, Renewed(e, i, g))]
  <2>1. r.entry = n /\ r.sent = {Onward(i, g)}
    BY <1>2 DEF onOutgoingInterest, Result, Onward, Renewed
  <2>2. Renewed(e, i, g) \in OutRecord  BY RenewedType DEF Typed
  <2>3. PartialFunction(Put(e.out, g, Renewed(e, i, g)), U, OutRecord)
    BY <2>2, PutType DEF Typed
  <2>4. DOMAIN n = DOMAIN e /\ n.in = e.in /\ n.timer = e.timer /\ n.interval = e.interval
        /\ n.out = Put(e.out, g, Renewed(e, i, g))
        /\ n.satisfied = e.satisfied /\ n.freshness = e.freshness
    BY DEF Typed
  <2> HIDE DEF n
  <2>5. Typed(n, U)  BY <2>3, <2>4 DEF Typed
  <2> QED BY <1>2, <2>1, <2>4, <2>5
<1> QED BY <1>1, <1>2

\* The Interest of the in-record is tagged in place.
Tagged(e, i) == [e EXCEPT !.in[i.face].tagged = TRUE]

LEMMA TaggedEntry ==
    ASSUME NEW e, NEW U, Typed(e, U), NEW i, i.face \in DOMAIN e.in
    PROVE  /\ Typed(Tagged(e, i), U)
           /\ Tagged(e, i).out = e.out /\ Tagged(e, i).timer = e.timer
           /\ Tagged(e, i).interval = e.interval
           /\ DOMAIN Tagged(e, i).in = DOMAIN e.in
           /\ \A f \in DOMAIN e.in : /\ Tagged(e, i).in[f].expiry = e.in[f].expiry
                                     /\ Tagged(e, i).in[f].token = e.in[f].token
<1> DEFINE in == [e.in EXCEPT ![i.face].tagged = TRUE]
<1>1. \A f \in DOMAIN e.in : e.in[f] \in InRecord  BY DEF Typed, PartialFunction
<1>2. DOMAIN in = DOMAIN e.in
  OBVIOUS
<1>3. ASSUME NEW f \in DOMAIN e.in
      PROVE  in[f] \in InRecord /\ in[f].expiry = e.in[f].expiry /\ in[f].token = e.in[f].token
  <2>1. CASE f # i.face  BY <1>1, <2>1
  <2>2. CASE f = i.face
    <3>1. in[f] = [e.in[f] EXCEPT !.tagged = TRUE]  BY <2>2
    <3>2. e.in[f] \in InRecord  BY <1>1
    <3> HIDE DEF in
    <3> QED BY <3>1, <3>2, Zenon DEF InRecord
  <2> QED BY <2>1, <2>2
<1>4. PartialFunction(in, U, InRecord) /\ \A f \in DOMAIN in : in[f].expiry <= MaxTime
  BY <1>2, <1>3, Zenon DEF Typed, PartialFunction
<1>5. Tagged(e, i) = [e EXCEPT !.in = in]  BY DEF Tagged
<1> HIDE DEF in
<1>6. /\ DOMAIN Tagged(e, i) = DOMAIN e /\ Tagged(e, i).in = in /\ Tagged(e, i).out = e.out
      /\ Tagged(e, i).timer = e.timer /\ Tagged(e, i).interval = e.interval
      /\ Tagged(e, i).satisfied = e.satisfied /\ Tagged(e, i).freshness = e.freshness
  BY <1>5 DEF Typed
<1>7. Typed(Tagged(e, i), U)  BY <1>4, <1>6 DEF Typed
<1> QED BY <1>2, <1>3, <1>6, <1>7

\* The faces that isNextHopEligible admits
Allowed(i, g) ==
    (g # i.face \/ g \in AdHoc) /\ ~ wouldViolateScope(i.face, i.key.name, g)

\* What a strategy may do with an Interest: the entry keeps its type, and only Nacks
\* and the Interest itself are sent, the latter to next hops that are eligible.
Proper(r, i, U) ==
    /\ Typed(r.entry, U)
    /\ \A p \in r.sent : \/ p.type = "nack"
                         \/ \E g \in U : Allowed(i, g) /\ p = Onward(i, g)

LEMMA SendInterest ==
    ASSUME NEW e, NEW U, Typed(e, U), NEW i \in Interests, i.face \in DOMAIN e.in,
           NEW g \in U, now \in Nat
    PROVE  LET r == sendInterest(e, i, g) IN
           /\ Typed(r.entry, U)
           /\ r.entry.in = Tagged(e, i).in /\ r.entry.timer = e.timer
           /\ r.entry.interval = e.interval
           /\ i.hop = 1 /\ g \in NonLocal => r.entry = Tagged(e, i) /\ r.sent = {}
           /\ ~ (i.hop = 1 /\ g \in NonLocal) =>
                 r.sent = {Onward(i, g)} /\ r.entry.out = Put(e.out, g, Renewed(e, i, g))
<1>1. sendInterest(e, i, g) = onOutgoingInterest(Tagged(e, i), i, g)
  BY DEF sendInterest, Tagged
<1>2. /\ Typed(Tagged(e, i), U) /\ Tagged(e, i).out = e.out
      /\ Tagged(e, i).timer = e.timer /\ Tagged(e, i).interval = e.interval
  BY TaggedEntry
<1>3. Renewed(Tagged(e, i), i, g) = Renewed(e, i, g)  BY <1>2 DEF Renewed
<1> QED BY <1>1, <1>2, <1>3, OutgoingInterest

LEMMA SendInterestProper ==
    ASSUME NEW e, NEW U, Typed(e, U), NEW i \in Interests, i.face \in DOMAIN e.in,
           NEW g \in U, now \in Nat, Allowed(i, g)
    PROVE  Proper(sendInterest(e, i, g), i, U)
  BY SendInterest DEF Proper

\* Nacks take their in-records with them.
LEMMA SendNacks ==
    ASSUME NEW e, NEW U, Typed(e, U), NEW k, NEW F
    PROVE  LET r == sendNacks(e, k, F) IN
           /\ Typed(r.entry, U) /\ \A p \in r.sent : p.type = "nack"
           /\ r.entry.out = e.out /\ r.entry.timer = e.timer /\ r.entry.interval = e.interval
           /\ DOMAIN r.entry.in \subseteq DOMAIN e.in
           /\ \A f \in DOMAIN r.entry.in : r.entry.in[f] = e.in[f]
<1> DEFINE to == F \cap DOMAIN e.in \cap P2P
           n == [e EXCEPT !.in = Drop(e.in, to)]
           r == sendNacks(e, k, F)
<1>1. r.entry = n  BY DEF sendNacks, Result
<1>2. \A p \in r.sent : p.type = "nack"  BY DEF sendNacks, Result
<1>3. PartialFunction(Drop(e.in, to), U, InRecord)  BY DropType, Zenon DEF Typed
<1> HIDE DEF to
<1>4. /\ DOMAIN Drop(e.in, to) \subseteq DOMAIN e.in
      /\ \A f \in DOMAIN Drop(e.in, to) : Drop(e.in, to)[f] = e.in[f]
  BY DEF Drop
<1>5. /\ DOMAIN n = DOMAIN e /\ n.in = Drop(e.in, to) /\ n.out = e.out
      /\ n.timer = e.timer /\ n.interval = e.interval
      /\ n.satisfied = e.satisfied /\ n.freshness = e.freshness
  BY DEF Typed
<1> HIDE DEF n
<1>6. Typed(n, U)  BY <1>3, <1>4, <1>5 DEF Typed
<1> QED BY <1>1, <1>2, <1>4, <1>5, <1>6

LEMMA TimerSet ==
    ASSUME NEW e, NEW U, Typed(e, U), NEW t \in 0 .. MaxTime
    PROVE  LET n == [e EXCEPT !.timer = t] IN
           /\ Typed(n, U) /\ n.timer = t /\ n.in = e.in /\ n.out = e.out /\ n.interval = e.interval
  BY DEF Typed

LEMMA IntervalSet ==
    ASSUME NEW e, NEW U, Typed(e, U), NEW t \in 0 .. SuppressionMax
    PROVE  LET n == [e EXCEPT !.interval = t] IN
           /\ Typed(n, U) /\ n.timer = e.timer /\ n.in = e.in /\ n.out = e.out /\ n.interval = t
  BY DEF Typed

LEMMA RejectInterest ==
    ASSUME NEW e, NEW U, Typed(e, U), NEW i, now \in 0 .. MaxTime
    PROVE  LET r == rejectInterest(e, i) IN
           /\ Typed(r.entry, U) /\ r.entry.timer = now /\ \A p \in r.sent : p.type = "nack"
           /\ r.entry.out = e.out /\ r.entry.interval = e.interval
           /\ DOMAIN r.entry.in \subseteq DOMAIN e.in
           /\ \A f \in DOMAIN r.entry.in : r.entry.in[f] = e.in[f]
<1> DEFINE s == sendNacks(e, i.key, {i.face})
<1>1. /\ Typed(s.entry, U) /\ \A p \in s.sent : p.type = "nack"
      /\ s.entry.out = e.out /\ s.entry.interval = e.interval
      /\ DOMAIN s.entry.in \subseteq DOMAIN e.in
      /\ \A f \in DOMAIN s.entry.in : s.entry.in[f] = e.in[f]
  BY SendNacks
<1>2. rejectInterest(e, i).entry = [s.entry EXCEPT !.timer = now] /\ rejectInterest(e, i).sent = s.sent
  BY DEF rejectInterest, Result
<1> HIDE DEF s
<1> QED BY <1>1, <1>2, TimerSet

-----------------------------------------------------------------------------
(* The strategies                                                            *)

LEMMA EligiblePlaces ==
    ASSUME NEW e, NEW i \in Interests, NEW unused \in BOOLEAN
    PROVE  /\ Eligible(e, i, unused) \subseteq Nat
           /\ \A j \in Eligible(e, i, unused) : /\ HopAt(i, j) \in up /\ Allowed(i, HopAt(i, j))
                                                /\ isNextHopEligible(e, i, HopAt(i, j), unused)
<1>1. NextHops[i.key.name] \in Seq(Faces)  BY InterestType, ForwarderAssumption
<1>2. DOMAIN NextHops[i.key.name] \subseteq Nat  BY <1>1
<1> QED BY <1>2 DEF Eligible, Allowed, isNextHopEligible

LEMMA IntervalType ==
    ASSUME NEW e, NEW U, Typed(e, U)
    PROVE  /\ Interval(e) \in 0 .. SuppressionMax
           /\ Min2(SuppressionMax, 2 * Interval(e)) \in 0 .. SuppressionMax
           /\ Interval(e) > 0
           /\ Interval(e) <= Min2(SuppressionMax, 2 * Interval(e))
  BY ForwarderAssumption DEF Typed, Interval, Min2

\* BestRouteStrategy2
LEMMA BestRouteProper ==
    ASSUME NEW e, Typed(e, up), NEW i \in Interests, i.face \in DOMAIN e.in,
           now \in 0 .. MaxTime
    PROVE  Proper(bestRoute(e, i), i, up)
<1> DEFINE first == Eligible(e, i, FALSE)
           backedOff == [e EXCEPT !.interval = Min2(SuppressionMax, 2 * Interval(e))]
           unused == Eligible(e, i, TRUE)
<1>0. now \in Nat  BY ForwarderAssumption
<1>1. Typed(backedOff, up) /\ backedOff.in = e.in  BY IntervalType, IntervalSet
<1>2. /\ first \subseteq Nat /\ unused \subseteq Nat
      /\ \A j \in first : HopAt(i, j) \in up /\ Allowed(i, HopAt(i, j))
      /\ \A j \in unused : HopAt(i, j) \in up /\ Allowed(i, HopAt(i, j))
  BY EligiblePlaces, Zenon
<1> HIDE DEF backedOff
<1>3. CASE bestRoute(e, i) = rejectInterest(e, i)  BY <1>3, RejectInterest DEF Proper
<1>4. CASE first # {} /\ bestRoute(e, i) = sendInterest(e, i, FirstOf(i, first))
  <2>1. PICK j \in first : FirstOf(i, first) = HopAt(i, j)  BY <1>2, <1>4, FirstOfPlaces, Zenon
  <2> QED BY <1>0, <1>2, <1>4, <2>1, SendInterestProper, Zenon
<1>5. CASE bestRoute(e, i) = Result([e EXCEPT !.interval = Interval(e)], {})
  <2>1. Typed([e EXCEPT !.interval = Interval(e)], up)  BY IntervalType, IntervalSet
  <2> QED BY <1>5, <2>1 DEF Proper, Result
<1>6. CASE unused # {} /\ bestRoute(e, i) = sendInterest(backedOff, i, FirstOf(i, unused))
  <2>1. PICK j \in unused : FirstOf(i, unused) = HopAt(i, j)  BY <1>2, <1>6, FirstOfPlaces, Zenon
  <2> QED BY <1>0, <1>1, <1>2, <1>6, <2>1, SendInterestProper, Zenon
<1>7. CASE /\ unused = {} /\ first # {}
           /\ bestRoute(e, i) = sendInterest(backedOff, i, EarliestOf(e, i, first))
  <2>1. ASSUME NEW j \in first PROVE e.out[HopAt(i, j)].renewed \in Nat
    <3>1. j \notin Eligible(e, i, TRUE) /\ j \in Eligible(e, i, FALSE)  BY <1>7, Zenon
    <3>2. HopAt(i, j) \in DOMAIN e.out  BY <3>1 DEF Eligible, isNextHopEligible
    <3>3. e.out[HopAt(i, j)] \in OutRecord  BY <3>2 DEF Typed, PartialFunction
    <3> QED BY <3>3 DEF OutRecord
  <2>2. PICK j \in first : EarliestOf(e, i, first) = HopAt(i, j)
    BY <1>2, <1>7, <2>1, EarliestOfPlaces, Zenon
  <2> QED BY <1>0, <1>1, <1>2, <1>7, <2>2, SendInterestProper, Zenon
<1>8. CASE bestRoute(e, i) = Result(backedOff, {})  BY <1>1, <1>8 DEF Proper, Result
<1> QED BY <1>3, <1>4, <1>5, <1>6, <1>7, <1>8, Zenon DEF bestRoute, backedOff

\* One next hop of MulticastStrategy
LEMMA MulticastHop ==
    ASSUME NEW e, NEW U, Typed(e, U), NEW i \in Interests, i.face \in DOMAIN e.in,
           NEW g \in U, now \in Nat
    PROVE  LET s == sendToNextHop(e, i, g) IN
           /\ i.hop = 1 /\ g \in NonLocal => s.sent = {}
           /\ ~ (i.hop = 1 /\ g \in NonLocal) => s.sent = {Onward(i, g)}
           /\ s.sent # {} => /\ s.entry.out[g] \in OutRecord
                             /\ s.entry.out[g].renewed = now
                             /\ s.entry.out[g].expiry = now + i.lifetime
<1> DEFINE r == sendInterest(e, i, g)
           s == sendToNextHop(e, i, g)
           interval == Min2(SuppressionMax, 2 * RecordInterval(r.entry.out[g]))
<1>1. r.sent = IF i.hop = 1 /\ g \in NonLocal THEN {} ELSE {Onward(i, g)}
  <2>1. i.hop = 1 /\ g \in NonLocal => r.sent = {}  BY SendInterest
  <2>2. ~ (i.hop = 1 /\ g \in NonLocal) => r.sent = {Onward(i, g)}  BY SendInterest
  <2> HIDE DEF r
  <2> QED BY <2>1, <2>2
<1>2. s.sent = r.sent  BY DEF sendToNextHop, Result
<1>3. ASSUME s.sent # {}
      PROVE  /\ s.entry.out[g] \in OutRecord
             /\ s.entry.out[g].renewed = now
             /\ s.entry.out[g].expiry = now + i.lifetime
  <2>1. ~ (i.hop = 1 /\ g \in NonLocal)  BY <1>1, <1>2, <1>3
  <2>2. r.entry.out = Put(e.out, g, Renewed(e, i, g)) /\ Typed(r.entry, U)  BY <2>1, SendInterest
  <2>3. r.entry.out[g] = Renewed(e, i, g) /\ g \in DOMAIN r.entry.out  BY <2>2, Zenon DEF Put
  <2>4. Renewed(e, i, g) \in OutRecord /\ Renewed(e, i, g).renewed = now
        /\ Renewed(e, i, g).expiry = now + i.lifetime
    BY RenewedType DEF Typed
  <2>5. CASE g \notin DOMAIN e.out
    <3>1. s = r  BY <2>5 DEF sendToNextHop
    <3> QED BY <2>3, <2>4, <3>1
  <2>6. CASE g \in DOMAIN e.out
    <3>1. s.entry = [r.entry EXCEPT !.out[g].interval = interval]
      BY <1>2, <1>3, <2>6 DEF sendToNextHop, Result
    <3>2. interval \in 0 .. SuppressionMax
      <4>1. Renewed(e, i, g).interval \in 0 .. SuppressionMax  BY <2>4 DEF OutRecord
      <4> QED BY <2>3, <4>1, ForwarderAssumption DEF RecordInterval, Min2
    <3> HIDE DEF r, interval
    <3>3. s.entry.out[g] = [Renewed(e, i, g) EXCEPT !.interval = interval]
      BY <2>2, <2>3, <3>1 DEF Typed
    <3> QED BY <2>4, <3>2, <3>3 DEF OutRecord
  <2> QED BY <2>5, <2>6
<1> QED BY <1>1, <1>2, <1>3

\* The entry after all next hops, and the packets
Multi(e, i, to) ==
    LET gone == {f \in to : sendToNextHop(e, i, f).sent # {}}
        out == [f \in DOMAIN e.out \cup gone |->
                   IF f \in gone THEN sendToNextHop(e, i, f).entry.out[f] ELSE e.out[f]]
        in == IF to = {} THEN e.in ELSE [e.in EXCEPT ![i.face].tagged = TRUE]
    IN  [e EXCEPT !.in = in, !.out = out]

LEMMA MultiType ==
    ASSUME NEW e, NEW U, Typed(e, U), NEW i \in Interests, i.face \in DOMAIN e.in,
           NEW to, to \subseteq U, now \in Nat
    PROVE  /\ Typed(Multi(e, i, to), U) /\ Multi(e, i, to).timer = e.timer
           /\ Multi(e, i, to).interval = e.interval
           /\ DOMAIN Multi(e, i, to).in = DOMAIN e.in
           /\ \A f \in DOMAIN e.in : Multi(e, i, to).in[f].expiry = e.in[f].expiry
           /\ DOMAIN e.out \subseteq DOMAIN Multi(e, i, to).out
           /\ DOMAIN Multi(e, i, to).out \subseteq DOMAIN e.out \cup to
           /\ \A f \in DOMAIN e.out : f \notin to => Multi(e, i, to).out[f] = e.out[f]
           /\ \A f \in to : ~ (i.hop = 1 /\ f \in NonLocal) =>
                 /\ f \in DOMAIN Multi(e, i, to).out
                 /\ Multi(e, i, to).out[f] = sendToNextHop(e, i, f).entry.out[f]
<1> DEFINE gone == {f \in to : sendToNextHop(e, i, f).sent # {}}
           out == [f \in DOMAIN e.out \cup gone |->
                      IF f \in gone THEN sendToNextHop(e, i, f).entry.out[f] ELSE e.out[f]]
           in == IF to = {} THEN e.in ELSE [e.in EXCEPT ![i.face].tagged = TRUE]
<1>1. Multi(e, i, to) = [e EXCEPT !.in = in, !.out = out]  BY DEF Multi
<1>2. PartialFunction(out, U, OutRecord)
  <2>1. DOMAIN out = DOMAIN e.out \cup gone  OBVIOUS
  <2>2. DOMAIN e.out \subseteq U /\ gone \subseteq U  BY DEF Typed, PartialFunction
  <2>3. ASSUME NEW f \in DOMAIN out PROVE out[f] \in OutRecord
    <3>1. CASE f \in gone
      <4>1. out[f] = sendToNextHop(e, i, f).entry.out[f]  BY <3>1
      <4> QED BY <2>2, <3>1, <4>1, MulticastHop
    <3>2. CASE f \notin gone
      <4>1. f \in DOMAIN e.out /\ out[f] = e.out[f]  BY <3>2
      <4> QED BY <4>1 DEF Typed, PartialFunction
    <3> QED BY <3>1, <3>2
  <2> HIDE DEF out, gone
  <2> QED BY <2>1, <2>2, <2>3 DEF PartialFunction
<1>3. /\ DOMAIN e.out \subseteq DOMAIN out /\ DOMAIN out \subseteq DOMAIN e.out \cup to
      /\ \A f \in DOMAIN e.out : f \notin to => out[f] = e.out[f]
      /\ \A f \in gone : f \in DOMAIN out /\ out[f] = sendToNextHop(e, i, f).entry.out[f]
  OBVIOUS
<1>4. \A f \in to : ~ (i.hop = 1 /\ f \in NonLocal) => f \in gone
  <2> SUFFICES ASSUME NEW f \in to, ~ (i.hop = 1 /\ f \in NonLocal) PROVE f \in gone  OBVIOUS
  <2>1. f \in U  OBVIOUS
  <2>2. sendToNextHop(e, i, f).sent = {Onward(i, f)}  BY <2>1, MulticastHop
  <2> QED BY <2>2
<1>5. /\ PartialFunction(in, U, InRecord) /\ \A f \in DOMAIN in : in[f].expiry <= MaxTime
      /\ DOMAIN in = DOMAIN e.in /\ \A f \in DOMAIN e.in : in[f].expiry = e.in[f].expiry
  <2>1. CASE to = {}  BY <2>1 DEF Typed
  <2>2. CASE to # {}
    <3>1. in = [e.in EXCEPT ![i.face].tagged = TRUE]  BY <2>2
    <3>2. Tagged(e, i).in = [e.in EXCEPT ![i.face].tagged = TRUE]  BY DEF Tagged, Typed
    <3>3. Typed(Tagged(e, i), U)  BY TaggedEntry
    <3>4. in = Tagged(e, i).in  BY <3>1, <3>2
    <3> HIDE DEF in
    <3>5. /\ DOMAIN Tagged(e, i).in = DOMAIN e.in
          /\ \A f \in DOMAIN e.in : Tagged(e, i).in[f].expiry = e.in[f].expiry
      BY TaggedEntry
    <3>6. /\ PartialFunction(Tagged(e, i).in, U, InRecord)
          /\ \A f \in DOMAIN Tagged(e, i).in : Tagged(e, i).in[f].expiry <= MaxTime
      BY <3>3 DEF Typed
    <3> QED BY <3>4, <3>5, <3>6
  <2> QED BY <2>1, <2>2
<1> HIDE DEF in, out, gone
<1>6. /\ DOMAIN Multi(e, i, to) = DOMAIN e /\ Multi(e, i, to).in = in /\ Multi(e, i, to).out = out
      /\ Multi(e, i, to).timer = e.timer /\ Multi(e, i, to).interval = e.interval
      /\ Multi(e, i, to).satisfied = e.satisfied /\ Multi(e, i, to).freshness = e.freshness
  BY <1>1 DEF Typed
<1>7. Typed(Multi(e, i, to), U)  BY <1>2, <1>5, <1>6 DEF Typed
<1> QED BY <1>3, <1>4, <1>5, <1>6, <1>7

\* MulticastStrategy
MulticastTo(e, i) ==
    {f \in {HopAt(i, j) : j \in Eligible(e, i, FALSE)} : ~ SuppressUpstream(e, f)}

LEMMA MulticastParts ==
    ASSUME NEW e, NEW i
    PROVE  LET multi == Multi(e, i, MulticastTo(e, i))
               packets == UNION {sendToNextHop(e, i, f).sent : f \in MulticastTo(e, i)}
               rejected == rejectInterest(multi, i)
           IN  multicast(e, i) = IF hasPendingOutRecords(multi) THEN Result(multi, packets)
                                 ELSE Result(rejected.entry, packets \cup rejected.sent)
  BY DEF multicast, Multi, MulticastTo

LEMMA MulticastProper ==
    ASSUME NEW e, Typed(e, up), NEW i \in Interests, i.face \in DOMAIN e.in,
           now \in 0 .. MaxTime
    PROVE  Proper(multicast(e, i), i, up)
<1> DEFINE to == MulticastTo(e, i)
           multi == Multi(e, i, to)
           packets == UNION {sendToNextHop(e, i, f).sent : f \in to}
           rejected == rejectInterest(multi, i)
<1>0. now \in Nat  BY ForwarderAssumption
<1>1. \A f \in to : f \in up /\ Allowed(i, f)  BY EligiblePlaces, Zenon DEF MulticastTo
<1>2. ASSUME NEW p \in packets
      PROVE  \E g \in up : Allowed(i, g) /\ p = Onward(i, g)
  <2>1. PICK f \in to : p \in sendToNextHop(e, i, f).sent  OBVIOUS
  <2>2. f \in up /\ Allowed(i, f)  BY <1>1
  <2>3. p = Onward(i, f)
    <3>1. \/ sendToNextHop(e, i, f).sent = {}
          \/ sendToNextHop(e, i, f).sent = {Onward(i, f)}
      BY <1>0, <2>2, MulticastHop
    <3> QED BY <2>1, <3>1
  <2> QED BY <2>2, <2>3
<1>3. Typed(multi, up)  BY <1>0, <1>1, MultiType
<1>4. Typed(rejected.entry, up) /\ \A p \in rejected.sent : p.type = "nack"
  BY <1>3, RejectInterest
<1>5. multicast(e, i) = IF hasPendingOutRecords(multi) THEN Result(multi, packets)
                        ELSE Result(rejected.entry, packets \cup rejected.sent)
  BY MulticastParts, Zenon
<1> HIDE DEF packets, multi, rejected, to
<1>6. CASE multicast(e, i) = Result(multi, packets)
  <2>1. multicast(e, i).entry = multi /\ multicast(e, i).sent = packets  BY <1>6 DEF Result
  <2> QED BY <1>2, <1>3, <2>1 DEF Proper
<1>7. CASE multicast(e, i) = Result(rejected.entry, packets \cup rejected.sent)
  <2>1. /\ multicast(e, i).entry = rejected.entry
        /\ multicast(e, i).sent = packets \cup rejected.sent
    BY <1>7 DEF Result
  <2> QED BY <1>2, <1>4, <2>1 DEF Proper
<1> QED BY <1>5, <1>6, <1>7

LEMMA StrategyProper ==
    ASSUME NEW e, Typed(e, up), NEW i \in Interests, i.face \in DOMAIN e.in,
           now \in 0 .. MaxTime
    PROVE  Proper(afterReceiveInterest(e, i), i, up)
  BY MulticastProper, BestRouteProper DEF afterReceiveInterest

-----------------------------------------------------------------------------
(* Type correctness.                                                         *)

ForwarderInv ==
    /\ now \in 0 .. MaxTime
    /\ up \subseteq Faces
    /\ DOMAIN pit \subseteq Keys /\ \A k \in DOMAIN pit : Typed(pit[k], up)
    /\ DOMAIN cs = BOOLEAN /\ \A b \in BOOLEAN : PartialFunction(cs[b], Data, Nat)
    /\ dnl \subseteq Names \X Nonces
    /\ strategy \in [Names -> Strategies]

LEMMA InvImpliesType == ForwarderInv => TypeOK
<1> SUFFICES ASSUME ForwarderInv PROVE TypeOK  OBVIOUS
<1>1. \A k \in DOMAIN pit : EntryOK(pit[k])  BY DEF ForwarderInv, Typed, EntryOK
<1> QED BY <1>1 DEF ForwarderInv, TypeOK

\* Pit::insert gives an entry that has everything but, if it is new, a timer.
LEMMA EntryType ==
    ASSUME ForwarderInv, NEW k
    PROVE  /\ TypedNew(Entry(k), up)
           /\ k \in DOMAIN pit => Entry(k) = pit[k]
           /\ k \notin DOMAIN pit => DOMAIN Entry(k).in = {} /\ DOMAIN Entry(k).out = {}
                                     /\ Entry(k).interval = 0
<1>1. CASE k \in DOMAIN pit  BY <1>1 DEF Entry, ForwarderInv, Typed, TypedNew
<1>2. CASE k \notin DOMAIN pit
  <2>1. DOMAIN << >> = {}  OBVIOUS
  <2>2. PartialFunction(<< >>, up, InRecord) /\ PartialFunction(<< >>, up, OutRecord)
    BY <2>1 DEF PartialFunction
  <2>3. Entry(k) = NewEntry  BY <1>2 DEF Entry
  <2>4. /\ DOMAIN NewEntry = {"in", "out", "satisfied", "freshness", "timer", "interval"}
        /\ NewEntry.in = << >> /\ NewEntry.out = << >> /\ NewEntry.satisfied = FALSE
        /\ NewEntry.freshness = 0 /\ NewEntry.interval = 0
    BY DEF NewEntry
  <2>5. 0 \in 0 .. SuppressionMax /\ 0 \in Nat  BY ForwarderAssumption
  <2>6. TypedNew(NewEntry, up)  BY <2>1, <2>2, <2>4, <2>5, Zenon DEF TypedNew
  <2> QED BY <1>2, <2>1, <2>3, <2>4, <2>6
<1> QED BY <1>1, <1>2

\* onContentStoreMiss writes the in-record and sets the timer to the last expiry.
LEMMA InRecordWritten ==
    ASSUME NEW e, TypedNew(e, up), NEW i \in Interests, i.face \in up,
           now \in 0 .. MaxTime, now + i.lifetime <= MaxTime
    PROVE  LET n == WithInRecord(e, i) IN
           /\ Typed(n, up) /\ n.out = e.out /\ n.interval = e.interval
           /\ DOMAIN n.in = DOMAIN e.in \cup {i.face}
           /\ n.in[i.face].expiry = now + i.lifetime
           /\ \A f \in DOMAIN e.in : f # i.face => n.in[f] = e.in[f]
           /\ now + i.lifetime <= n.timer
<1> DEFINE rec == [nonce |-> i.nonce, expiry |-> now + i.lifetime,
                   token |-> i.token, tagged |-> FALSE]
           in == Put(e.in, i.face, rec)
           S == {in[f].expiry : f \in DOMAIN in}
<1>1. rec \in InRecord /\ rec.expiry = now + i.lifetime
  BY InterestType, ForwarderAssumption DEF InRecord
<1> HIDE DEF rec
<1>2. PartialFunction(in, up, InRecord)  BY <1>1, PutType DEF TypedNew
<1>3. /\ DOMAIN in = DOMAIN e.in \cup {i.face} /\ in[i.face] = rec
      /\ \A f \in DOMAIN e.in : f # i.face => in[f] = e.in[f]
  BY Zenon DEF Put
<1>4. WithInRecord(e, i) = [e EXCEPT !.in = in, !.timer = MaxOf(S)]
  BY DEF WithInRecord, rec
<1> HIDE DEF in
<1>5. ASSUME NEW f \in DOMAIN in PROVE in[f].expiry \in 0 .. MaxTime
  <2>1. in[f].expiry \in Nat  BY <1>2 DEF PartialFunction, InRecord
  <2>2. in[f].expiry <= MaxTime  BY <1>1, <1>3 DEF TypedNew
  <2> QED BY <2>1, <2>2, ForwarderAssumption
<1>6. S \subseteq 0 .. MaxTime /\ S # {} /\ now + i.lifetime \in S  BY <1>1, <1>3, <1>5
<1> HIDE DEF S
<1>7. MaxOf(S) \in 0 .. MaxTime /\ now + i.lifetime <= MaxOf(S)
  BY <1>6, GreatestNumber, ForwarderAssumption, Zenon
<1> DEFINE n == WithInRecord(e, i)
<1>8. /\ DOMAIN n = DOMAIN e /\ n.in = in /\ n.timer = MaxOf(S) /\ n.out = e.out
      /\ n.interval = e.interval /\ n.satisfied = e.satisfied /\ n.freshness = e.freshness
  BY <1>4 DEF TypedNew
<1> HIDE DEF n
<1>9. Typed(n, up)  BY <1>2, <1>5, <1>7, <1>8, ForwarderAssumption DEF Typed, TypedNew
<1> QED BY <1>1, <1>3, <1>7, <1>8, <1>9 DEF n

\* A change of one entry, or of all
LEMMA EntryPut ==
    ASSUME ForwarderInv, NEW k \in Keys, NEW e, Typed(e, up)
    PROVE  LET new == Put(pit, k, e) IN
           DOMAIN new \subseteq Keys /\ \A j \in DOMAIN new : Typed(new[j], up)
  BY DEF ForwarderInv, Put

LEMMA EntryReplaced ==
    ASSUME ForwarderInv, NEW k \in DOMAIN pit, NEW e, Typed(e, up)
    PROVE  LET new == [pit EXCEPT ![k] = e] IN
           DOMAIN new \subseteq Keys /\ \A j \in DOMAIN new : Typed(new[j], up)
  BY DEF ForwarderInv

\* Scope, of one packet
InScope(p) ==
    /\ p.type = "data" /\ p.to \in NonLocal => ~Under(Localhost, p.data.name)
    /\ p.type = "interest" /\ ~p.chosen =>
          /\ p.to \in NonLocal => ~Under(Localhost, p.key.name)
          /\ {p.to, p.from} \subseteq NonLocal => ~Under(Localhop, p.key.name)
          /\ p.to = p.from => p.to \in AdHoc

LEMMA NackInScope ==
    ASSUME NEW p, p.type = "nack" PROVE InScope(p)
  BY DEF InScope

LEMMA DataInScope ==
    ASSUME NEW d, NEW g, NEW token, NEW p \in onOutgoingData(d, g, token)
    PROVE  InScope(p) /\ p.type = "data" /\ p.to = g /\ p.data = d /\ p.token = token
<1>1. /\ ~ ViolatesLocalhost(g, d.name)
      /\ p = [type |-> "data", to |-> g, data |-> d, token |-> token]
  BY DEF onOutgoingData
<1> QED BY <1>1 DEF InScope, ViolatesLocalhost

LEMMA InterestInScope ==
    ASSUME NEW i \in Interests, NEW g, i.nextHop = NoFace => Allowed(i, g)
    PROVE  InScope(Onward(i, g)) /\ Onward(i, g).type = "interest"
<1> DEFINE p == Onward(i, g)
<1>1. /\ p.type = "interest" /\ p.to = g /\ p.key = i.key /\ p.from = i.face
      /\ p.chosen = (i.nextHop # NoFace)
  BY DEF Onward
<1> HIDE DEF p
<1> SUFFICES ASSUME ~ p.chosen
             PROVE  /\ p.to \in NonLocal => ~Under(Localhost, p.key.name)
                    /\ {p.to, p.from} \subseteq NonLocal => ~Under(Localhop, p.key.name)
                    /\ p.to = p.from => p.to \in AdHoc
  BY <1>1 DEF InScope, p
<1>2. Allowed(i, g)  BY <1>1, Zenon
<1> QED BY <1>1, <1>2 DEF Allowed, wouldViolateScope

-----------------------------------------------------------------------------
(* Steps.  Each keeps the invariant, and what it sends is in scope.          *)

\* The entry and the packets of onContentStoreMiss
Missed(i) ==
    LET e == WithInRecord(Entry(i.key), i)
    IN  IF i.nextHop = NoFace THEN afterReceiveInterest(e, i)
        ELSE IF i.nextHop \in up THEN onOutgoingInterest(e, i, i.nextHop)
        ELSE Result(e, {})

LEMMA MissedProper ==
    ASSUME ForwarderInv, NEW i \in Interests, i.face \in up, now + i.lifetime <= MaxTime
    PROVE  /\ Typed(Missed(i).entry, up)
           /\ \A p \in Missed(i).sent : InScope(p) /\ p.type # "data"
<1> DEFINE e == WithInRecord(Entry(i.key), i)
<1>0. now \in 0 .. MaxTime /\ now \in Nat  BY ForwarderAssumption DEF ForwarderInv
<1>1. TypedNew(Entry(i.key), up)  BY EntryType
<1>2. Typed(e, up) /\ i.face \in DOMAIN e.in  BY <1>0, <1>1, InRecordWritten
<1> HIDE DEF e
<1>3. CASE i.nextHop = NoFace
  <2>1. Proper(afterReceiveInterest(e, i), i, up)  BY <1>0, <1>2, StrategyProper
  <2>2. Missed(i) = afterReceiveInterest(e, i)  BY <1>3 DEF Missed, e
  <2>3. ASSUME NEW p \in Missed(i).sent PROVE InScope(p) /\ p.type # "data"
    <3>1. CASE p.type = "nack"  BY <3>1, NackInScope
    <3>2. CASE \E g \in up : Allowed(i, g) /\ p = Onward(i, g)  BY <3>2, InterestInScope
    <3> QED BY <2>1, <2>2, <3>1, <3>2 DEF Proper
  <2> QED BY <2>1, <2>2, <2>3 DEF Proper
<1>4. CASE i.nextHop # NoFace /\ i.nextHop \in up
  <2>1. Missed(i) = onOutgoingInterest(e, i, i.nextHop)  BY <1>4 DEF Missed, e
  <2>2. Typed(Missed(i).entry, up)  BY <1>0, <1>2, <1>4, <2>1, OutgoingInterest
  <2>3. Missed(i).sent \subseteq {Onward(i, i.nextHop)}
    BY <1>0, <1>2, <1>4, <2>1, OutgoingInterest
  <2> QED BY <1>4, <2>2, <2>3, InterestInScope
<1>5. CASE i.nextHop # NoFace /\ i.nextHop \notin up
  <2>1. Missed(i) = Result(e, {})  BY <1>5 DEF Missed, e
  <2> QED BY <1>2, <2>1 DEF Result
<1> QED BY <1>3, <1>4, <1>5

\* onContentStoreHit
LEMMA HitType ==
    ASSUME ForwarderInv, NEW k \in Keys, NEW d \in Data
    PROVE  LET n == [Entry(k) EXCEPT !.satisfied = TRUE, !.freshness = d.freshness, !.timer = now]
           IN  Typed(n, up) /\ n.in = Entry(k).in /\ n.out = Entry(k).out
                            /\ n.interval = Entry(k).interval /\ n.timer = now
<1> DEFINE e == Entry(k)
           n == [e EXCEPT !.satisfied = TRUE, !.freshness = d.freshness, !.timer = now]
<1>1. TypedNew(e, up)  BY EntryType
<1>2. d.freshness \in Nat /\ now \in 0 .. MaxTime  BY ForwarderAssumption DEF ForwarderInv
<1> HIDE DEF e
<1>3. /\ DOMAIN n = DOMAIN e /\ n.in = e.in /\ n.out = e.out /\ n.interval = e.interval
      /\ n.satisfied = TRUE /\ n.freshness = d.freshness /\ n.timer = now
  BY <1>1 DEF TypedNew
<1> HIDE DEF n
<1>4. Typed(n, up)  BY <1>1, <1>2, <1>3, Zenon DEF Typed, TypedNew
<1> QED BY <1>3, <1>4 DEF n, e

LEMMA KeyType ==
    ASSUME NEW k \in Keys PROVE k.name \in Names /\ k.canBePrefix \in BOOLEAN
  BY ForwarderAssumption DEF Names

LEMMA InterestStep ==
    ASSUME ForwarderInv, NEW i \in Interests, onIncomingInterest(i)
    PROVE  ForwarderInv' /\ \A p \in sent' : InScope(p)
<1>1. /\ i.face \in up /\ now + i.lifetime <= MaxTime
      /\ UNCHANGED <<now, up, cs, dnl, strategy>>
  BY DEF onIncomingInterest
<1>2. i.key \in Keys  BY InterestType
<1> DEFINE PitOK == DOMAIN pit' \subseteq Keys /\ \A k \in DOMAIN pit' : Typed(pit'[k], up)
<1>3. SUFFICES PitOK /\ \A p \in sent' : InScope(p)  BY <1>1 DEF ForwarderInv
<1>4. CASE sent' = {} /\ UNCHANGED pit  BY <1>4 DEF ForwarderInv
<1>5. CASE onInterestLoop(i)
  <2>1. UNCHANGED pit /\ \A p \in sent' : p.type = "nack"  BY <1>5 DEF onInterestLoop
  <2> QED BY <2>1, NackInScope DEF ForwarderInv
<1>6. ASSUME NEW d \in CsMatches(i.key), onContentStoreHit(i, d)
      PROVE  PitOK /\ \A p \in sent' : InScope(p)
  <2> DEFINE n == [Entry(i.key) EXCEPT !.satisfied = TRUE, !.freshness = d.freshness, !.timer = now]
  <2>1. d \in Data
    <3>1. d \in DOMAIN cs[i.key.canBePrefix]  BY DEF CsMatches
    <3> QED BY <1>2, <3>1, KeyType DEF ForwarderInv, PartialFunction
  <2>2. Typed(n, up)  BY <1>2, <2>1, HitType, Zenon
  <2>3. pit' = Put(pit, i.key, n) /\ sent' = onOutgoingData(d, i.face, "none")
    BY <1>6 DEF onContentStoreHit
  <2> HIDE DEF n
  <2>4. PitOK  BY <1>2, <2>2, <2>3, EntryPut
  <2> QED BY <2>3, <2>4, DataInScope
<1>7. CASE onContentStoreMiss(i)
  <2>1. pit' = Put(pit, i.key, Missed(i).entry) /\ sent' = Missed(i).sent
    BY <1>7 DEF onContentStoreMiss, Missed
  <2>2. Typed(Missed(i).entry, up) /\ \A p \in Missed(i).sent : InScope(p)
    BY <1>1, MissedProper
  <2>3. PitOK  BY <1>2, <2>1, <2>2, EntryPut
  <2> QED BY <2>1, <2>2, <2>3
<1> QED BY <1>4, <1>5, <1>6, <1>7 DEF onIncomingInterest

\* onInterestFinalize
LEMMA DeadNoncesType ==
    ASSUME NEW k \in Keys, NEW e, NEW U, PartialFunction(e.out, U, OutRecord), NEW F
    PROVE  DeadNonces(k, e, F) \subseteq Names \X Nonces
<1>1. \A f \in DOMAIN e.out : e.out[f].nonce \in Nonces  BY DEF PartialFunction, OutRecord
<1>2. k.name \in Names  BY KeyType
<1> QED BY <1>1, <1>2 DEF DeadNonces

LEMMA FinalizeStep ==
    ASSUME ForwarderInv, NEW k \in Keys, onInterestFinalize(k)
    PROVE  ForwarderInv' /\ sent' = {}
<1>1. /\ k \in DOMAIN pit /\ dnl' = dnl \cup DeadNonces(k, pit[k], Faces)
      /\ pit' = Drop(pit, {k}) /\ sent' = {} /\ UNCHANGED <<now, up, cs, strategy>>
  BY DEF onInterestFinalize
<1>2. PartialFunction(pit[k].out, up, OutRecord)  BY <1>1 DEF ForwarderInv, Typed
<1>3. dnl' \subseteq Names \X Nonces  BY <1>1, <1>2, DeadNoncesType, Zenon DEF ForwarderInv
<1>4. DOMAIN pit' \subseteq Keys /\ \A j \in DOMAIN pit' : Typed(pit'[j], up)
  BY <1>1 DEF ForwarderInv, Drop
<1> QED BY <1>1, <1>3, <1>4 DEF ForwarderInv

\* onIncomingData
LEMMA SatisfiedType ==
    ASSUME NEW e, Typed(e, up), NEW in, PartialFunction(in, up, InRecord),
           \A f \in DOMAIN in : in[f].expiry <= MaxTime,
           NEW f, NEW d \in Data, now \in 0 .. MaxTime
    PROVE  LET n == Satisfied([e EXCEPT !.in = in], f, d) IN
           /\ Typed(n, up) /\ n.in = in /\ n.timer = now
<1> DEFINE m == [e EXCEPT !.in = in]
           out == Drop(e.out, {f})
           n == [m EXCEPT !.timer = now, !.satisfied = TRUE, !.freshness = d.freshness, !.out = out]
<1>0. d.freshness \in Nat  BY ForwarderAssumption
<1>1. PartialFunction(out, up, OutRecord)  BY DropType, Zenon DEF Typed
<1>2. m.out = e.out /\ m.in = in /\ m.interval = e.interval /\ DOMAIN m = DOMAIN e
  BY DEF Typed
<1>3. Satisfied(m, f, d) = n  BY <1>2 DEF Satisfied
<1> HIDE DEF m, out
<1>4. /\ DOMAIN n = DOMAIN e /\ n.in = in /\ n.out = out /\ n.interval = e.interval
      /\ n.timer = now /\ n.satisfied = TRUE /\ n.freshness = d.freshness
  BY <1>2 DEF Typed
<1> HIDE DEF n
<1>5. Typed(n, up)  BY <1>0, <1>1, <1>4, Zenon DEF Typed
<1> QED BY <1>3, <1>4, <1>5 DEF m

LEMMA CachedType ==
    ASSUME ForwarderInv, NEW d \in Data, NEW token
    PROVE  LET new == WithCached(d, token) IN
           DOMAIN new = BOOLEAN /\ \A b \in BOOLEAN : PartialFunction(new[b], Data, Nat)
<1> DEFINE b == ~token.present \/ token.canBePrefix
           old == cs[b]
           S == {x \in Data : ~b /\ x.name = d.name}
           store == Put(Drop(cs[b], S), d, now + d.freshness)
           new == WithCached(d, token)
<1>1. now + d.freshness \in Nat  BY ForwarderAssumption DEF ForwarderInv
<1>2. DOMAIN cs = BOOLEAN /\ \A c \in BOOLEAN : PartialFunction(cs[c], Data, Nat)
  BY DEF ForwarderInv
<1>3. CASE new = cs  BY <1>2, <1>3
<1>4. CASE new = [cs EXCEPT ![b] = store]
  <2> HIDE DEF b
  <2>1. ASSUME b \in BOOLEAN PROVE PartialFunction(store, Data, Nat)
    <3>1. PartialFunction(Drop(cs[b], S), Data, Nat)  BY <1>2, <2>1, DropType, Zenon
    <3> HIDE DEF S
    <3> QED BY <1>1, <3>1, PutType
  <2> HIDE DEF store, new
  <2>2. DOMAIN new = BOOLEAN  BY <1>2, <1>4
  <2>3. ASSUME NEW c \in BOOLEAN PROVE PartialFunction(new[c], Data, Nat)
    <3>1. CASE c = b  BY <1>2, <1>4, <2>1, <3>1
    <3>2. CASE c # b  BY <1>2, <1>4, <3>2
    <3> QED BY <3>1, <3>2
  <2> QED BY <2>2, <2>3 DEF new
<1> QED BY <1>3, <1>4, Zenon DEF WithCached

LEMMA DataStep ==
    ASSUME ForwarderInv, NEW f \in Faces, NEW d \in Data, NEW token \in DataTokens,
           onIncomingData(f, d, token)
    PROVE  ForwarderInv' /\ \A p \in sent' : InScope(p)
<1> DEFINE K == PitMatches(d, token)
           dead(k) == DeadNonces(k, [pit[k] EXCEPT !.satisfied = TRUE, !.freshness = d.freshness], {f})
           PitOK == DOMAIN pit' \subseteq Keys /\ \A k \in DOMAIN pit' : Typed(pit'[k], up)
<1>1. /\ cs' = WithCached(d, token) /\ dnl' = dnl \cup UNION {dead(k) : k \in K}
      /\ UNCHANGED <<now, up, strategy>>
  BY Zenon DEF onIncomingData
<1>2. DOMAIN cs' = BOOLEAN /\ \A b \in BOOLEAN : PartialFunction(cs'[b], Data, Nat)
  BY <1>1, CachedType, Zenon
<1>3. ASSUME NEW k \in K
      PROVE  k \in Keys /\ k \in DOMAIN pit /\ Typed(pit[k], up) /\ MatchesData(k, d)
  BY DEF PitMatches, ForwarderInv
<1>4. dnl' \subseteq Names \X Nonces
  <2>1. ASSUME NEW k \in K PROVE dead(k) \subseteq Names \X Nonces
    <3> DEFINE e == [pit[k] EXCEPT !.satisfied = TRUE, !.freshness = d.freshness]
    <3>1. e.out = pit[k].out  BY <1>3 DEF Typed
    <3>2. PartialFunction(e.out, up, OutRecord)  BY <1>3, <3>1 DEF Typed
    <3> HIDE DEF e
    <3>3. DeadNonces(k, e, {f}) \subseteq Names \X Nonces  BY <1>3, <3>2, DeadNoncesType, Zenon
    <3> QED BY <3>3 DEF e
  <2> HIDE DEF K, dead
  <2> QED BY <1>1, <2>1 DEF ForwarderInv
<1>5. now \in 0 .. MaxTime  BY DEF ForwarderInv
<1>6. SUFFICES PitOK /\ \A p \in sent' : InScope(p)
  BY <1>1, <1>2, <1>4, Zenon DEF ForwarderInv
<1>7. CASE sent' = {} /\ UNCHANGED pit  BY <1>7 DEF ForwarderInv
<1>8. ASSUME NEW k \in K, satisfyOne(k, f, d)
      PROVE  PitOK /\ \A p \in sent' : InScope(p)
  <2> DEFINE to == PendingDownstreams(pit[k], f)
             in == Drop(pit[k].in, to)
             n == Satisfied([pit[k] EXCEPT !.in = in], f, d)
  <2>1. pit' = [pit EXCEPT ![k] = n]  BY <1>8 DEF satisfyOne
  <2>2. sent' = UNION {onOutgoingData(d, g, TokenOf(pit[k].in[g])) : g \in to}
    BY <1>8 DEF satisfyOne
  <2>3. PartialFunction(in, up, InRecord)  BY <1>3, DropType, Zenon DEF Typed
  <2>4. \A g \in DOMAIN in : in[g].expiry <= MaxTime  BY <1>3, Zenon DEF Typed, Drop
  <2> HIDE DEF in, to
  <2>5. Typed(n, up)  BY <1>3, <1>5, <2>3, <2>4, SatisfiedType
  <2> HIDE DEF n
  <2>6. PitOK  BY <1>3, <2>1, <2>5, EntryReplaced
  <2>7. ASSUME NEW p \in sent' PROVE InScope(p)
    <3>1. PICK g \in to : p \in onOutgoingData(d, g, TokenOf(pit[k].in[g]))  BY <2>2
    <3> DEFINE t == TokenOf(pit[k].in[g])
    <3>2. p \in onOutgoingData(d, g, t)  BY <3>1
    <3> HIDE DEF t
    <3> QED BY <3>2, DataInScope, Zenon
  <2> QED BY <2>6, <2>7, Zenon
<1>9. CASE satisfyAll(K, f, d, token)
  <2> DEFINE to == UNION {PendingDownstreams(pit[k], f) : k \in K}
             n(k) == Satisfied([pit[k] EXCEPT !.in = << >>], f, d)
             t == IF token.present THEN "node" ELSE "none"
  <2>1. pit' = [k \in DOMAIN pit |-> IF k \in K THEN n(k) ELSE pit[k]]
    BY <1>9 DEF satisfyAll
  <2>2. sent' = UNION {onOutgoingData(d, g, t) : g \in to}  BY <1>9 DEF satisfyAll
  <2>3. PartialFunction(<< >>, up, InRecord) /\ \A g \in DOMAIN << >> : << >>[g].expiry <= MaxTime
    BY DEF PartialFunction
  <2>4. ASSUME NEW k \in K PROVE Typed(n(k), up)  BY <1>3, <1>5, <2>3, SatisfiedType
  <2> HIDE DEF n, to, t, K
  <2>5. PitOK  BY <2>1, <2>4 DEF ForwarderInv
  <2>6. ASSUME NEW p \in sent' PROVE InScope(p)
    <3>1. PICK g \in to : p \in onOutgoingData(d, g, t)  BY <2>2
    <3> QED BY <3>1, DataInScope, Zenon
  <2> QED BY <2>5, <2>6, Zenon
<1> QED BY <1>7, <1>8, <1>9, Zenon DEF onIncomingData

\* onIncomingNack
LEMMA ProcessNack ==
    ASSUME NEW e, NEW U, Typed(e, U), NEW k
    PROVE  LET r == processNack(e, k) IN
           /\ Typed(r.entry, U) /\ \A p \in r.sent : p.type = "nack"
           /\ r.entry.out = e.out /\ r.entry.timer = e.timer /\ r.entry.interval = e.interval
           /\ DOMAIN r.entry.in \subseteq DOMAIN e.in
           /\ \A f \in DOMAIN r.entry.in : r.entry.in[f] = e.in[f]
<1> DEFINE r == processNack(e, k)
<1>1. (\E F : r = sendNacks(e, k, F)) \/ r = Result(e, {})  BY Zenon DEF processNack
<1> HIDE DEF r
<1>2. ASSUME NEW F, r = sendNacks(e, k, F)
      PROVE  /\ Typed(r.entry, U) /\ \A p \in r.sent : p.type = "nack"
             /\ r.entry.out = e.out /\ r.entry.timer = e.timer /\ r.entry.interval = e.interval
             /\ DOMAIN r.entry.in \subseteq DOMAIN e.in
             /\ \A f \in DOMAIN r.entry.in : r.entry.in[f] = e.in[f]
  BY <1>2, SendNacks
<1>3. CASE r = Result(e, {})
  <2>1. r.entry = e /\ r.sent = {}  BY <1>3 DEF Result
  <2> QED BY <2>1 DEF r
<1> QED BY <1>1, <1>2, <1>3, Zenon DEF r

\* The out-record that a Nack marks
NackedEntry(e, f, nonce) == [e EXCEPT !.out[f].nack = nonce]

LEMMA Nacked ==
    ASSUME NEW e, NEW U, Typed(e, U), NEW f \in DOMAIN e.out, NEW nonce \in Nonces
    PROVE  LET n == NackedEntry(e, f, nonce) IN
           /\ Typed(n, U) /\ n.in = e.in /\ n.timer = e.timer /\ n.interval = e.interval
           /\ DOMAIN n.out = DOMAIN e.out
           /\ \A g \in DOMAIN e.out : /\ n.out[g].expiry = e.out[g].expiry
                                       /\ n.out[g].renewed = e.out[g].renewed
                                       /\ n.out[g].interval = e.out[g].interval
<1> DEFINE out == [e.out EXCEPT ![f].nack = nonce]
           n == NackedEntry(e, f, nonce)
<1>1. \A g \in DOMAIN e.out : e.out[g] \in OutRecord  BY DEF Typed, PartialFunction
<1>2. DOMAIN out = DOMAIN e.out  OBVIOUS
<1>3. ASSUME NEW g \in DOMAIN e.out
      PROVE  /\ out[g] \in OutRecord
             /\ out[g].expiry = e.out[g].expiry /\ out[g].renewed = e.out[g].renewed
             /\ out[g].interval = e.out[g].interval
  <2>1. CASE g # f  BY <1>1, <2>1
  <2>2. CASE g = f
    <3>1. out[g] = [e.out[g] EXCEPT !.nack = nonce]  BY <2>2
    <3>2. e.out[g] \in OutRecord  BY <1>1
    <3> HIDE DEF out
    <3> QED BY <3>1, <3>2 DEF OutRecord
  <2> QED BY <2>1, <2>2
<1>4. PartialFunction(out, U, OutRecord)  BY <1>2, <1>3 DEF Typed, PartialFunction
<1>5. n = [e EXCEPT !.out = out]  BY DEF NackedEntry
<1> HIDE DEF out, n
<1>6. /\ DOMAIN n = DOMAIN e /\ n.in = e.in /\ n.out = out /\ n.timer = e.timer
      /\ n.interval = e.interval /\ n.satisfied = e.satisfied /\ n.freshness = e.freshness
  BY <1>5 DEF Typed
<1>7. Typed(n, U)  BY <1>4, <1>6 DEF Typed
<1> QED BY <1>2, <1>3, <1>6, <1>7, Zenon DEF n

\* The entry that processNack gets
NackedAndTimed(e, f, nonce) ==
    LET n == NackedEntry(e, f, nonce)
    IN  IF hasPendingOutRecords(n) THEN n ELSE [n EXCEPT !.timer = now]

LEMMA NackedTimed ==
    ASSUME NEW e, NEW U, Typed(e, U), NEW f \in DOMAIN e.out, NEW nonce \in Nonces,
           now \in 0 .. MaxTime
    PROVE  LET n == NackedAndTimed(e, f, nonce) IN
           /\ Typed(n, U) /\ n.in = e.in /\ n.interval = e.interval
           /\ n.timer = e.timer \/ n.timer = now
           /\ n.out = NackedEntry(e, f, nonce).out
<1> DEFINE n == NackedEntry(e, f, nonce)
<1>1. Typed(n, U) /\ n.in = e.in /\ n.timer = e.timer /\ n.interval = e.interval  BY Nacked
<1>2. \/ NackedAndTimed(e, f, nonce) = n
      \/ NackedAndTimed(e, f, nonce) = [n EXCEPT !.timer = now]
  BY DEF NackedAndTimed
<1> HIDE DEF n
<1>3. /\ Typed([n EXCEPT !.timer = now], U) /\ [n EXCEPT !.timer = now].in = n.in
      /\ [n EXCEPT !.timer = now].out = n.out /\ [n EXCEPT !.timer = now].timer = now
      /\ [n EXCEPT !.timer = now].interval = n.interval
  BY <1>1, TimerSet
<1> QED BY <1>1, <1>2, <1>3, Zenon DEF n

LEMMA NackParts ==
    ASSUME NEW f, NEW k, NEW nonce, onIncomingNack(f, k, nonce)
    PROVE  LET r == processNack(NackedAndTimed(pit[k], f, nonce), k) IN
           /\ k \in DOMAIN pit /\ f \in DOMAIN pit[k].out
           /\ pit' = [pit EXCEPT ![k] = r.entry] /\ sent' = r.sent
           /\ UNCHANGED <<now, up, cs, dnl, strategy>>
  BY DEF onIncomingNack, NackedAndTimed, NackedEntry

LEMMA NackStep ==
    ASSUME ForwarderInv, NEW f, NEW k, NEW nonce \in Nonces, onIncomingNack(f, k, nonce)
    PROVE  ForwarderInv' /\ \A p \in sent' : p.type = "nack"
<1> DEFINE e == NackedAndTimed(pit[k], f, nonce)
           r == processNack(e, k)
<1>1. /\ k \in DOMAIN pit /\ f \in DOMAIN pit[k].out
      /\ pit' = [pit EXCEPT ![k] = r.entry] /\ sent' = r.sent
      /\ UNCHANGED <<now, up, cs, dnl, strategy>>
  BY NackParts
<1>2. Typed(e, up)  BY <1>1, NackedTimed DEF ForwarderInv
<1> HIDE DEF e
<1>3. Typed(r.entry, up) /\ \A p \in r.sent : p.type = "nack"  BY <1>2, ProcessNack, Zenon
<1> HIDE DEF r
<1>4. DOMAIN pit' \subseteq Keys /\ \A j \in DOMAIN pit' : Typed(pit'[j], up)
  BY <1>1, <1>3, EntryReplaced
<1> QED BY <1>1, <1>3, <1>4 DEF ForwarderInv

\* removeFace
LEMMA RemoveStep ==
    ASSUME ForwarderInv, NEW f, removeFace(f)
    PROVE  ForwarderInv' /\ sent' = {}
<1> DEFINE n(k) == [pit[k] EXCEPT !.in = Drop(@, {f}), !.out = Drop(@, {f})]
<1>1. /\ up' = up \ {f} /\ pit' = [k \in DOMAIN pit |-> n(k)] /\ sent' = {}
      /\ UNCHANGED <<now, cs, dnl, strategy>>
  BY Zenon DEF removeFace
<1>2. ASSUME NEW k \in DOMAIN pit PROVE Typed(n(k), up')
  <2> DEFINE e == pit[k]
             in == Drop(e.in, {f})
             out == Drop(e.out, {f})
  <2>1. Typed(e, up)  BY DEF ForwarderInv
  <2>2. PartialFunction(in, up', InRecord) /\ PartialFunction(out, up', OutRecord)
    BY <1>1, <2>1, DropType, Zenon DEF Typed
  <2>3. \A g \in DOMAIN in : in[g].expiry <= MaxTime  BY <2>1, Zenon DEF Typed, Drop
  <2>4. n(k) = [e EXCEPT !.in = in, !.out = out]  BY <2>1 DEF Typed
  <2> HIDE DEF e, in, out, n
  <2>5. /\ DOMAIN n(k) = DOMAIN e /\ n(k).in = in /\ n(k).out = out /\ n(k).timer = e.timer
        /\ n(k).interval = e.interval /\ n(k).satisfied = e.satisfied
        /\ n(k).freshness = e.freshness
    BY <2>1, <2>4 DEF Typed
  <2> QED BY <2>1, <2>2, <2>3, <2>5 DEF Typed
<1> HIDE DEF n
<1>3. DOMAIN pit' \subseteq Keys /\ \A k \in DOMAIN pit' : Typed(pit'[k], up')
  BY <1>1, <1>2, Zenon DEF ForwarderInv
<1> QED BY <1>1, <1>3 DEF ForwarderInv

\* changeStrategy
LEMMA ChangeStep ==
    ASSUME ForwarderInv, NEW names, NEW new \in Strategies, changeStrategy(names, new)
    PROVE  ForwarderInv' /\ sent' = {}
<1> DEFINE changed == {n \in names : strategy[n] # new}
           cleared(e) == [e EXCEPT !.interval = 0,
                             !.out = [f \in DOMAIN @ |-> [@[f] EXCEPT !.interval = 0]]]
<1>1. /\ strategy' = [n \in Names |-> IF n \in names THEN new ELSE strategy[n]]
      /\ pit' = [k \in DOMAIN pit |-> IF k.name \in changed THEN cleared(pit[k]) ELSE pit[k]]
      /\ sent' = {} /\ UNCHANGED <<now, up, cs, dnl>>
  BY Zenon DEF changeStrategy
<1>2. strategy' \in [Names -> Strategies]  BY <1>1, Zenon DEF ForwarderInv
<1>3. ASSUME NEW k \in DOMAIN pit PROVE Typed(cleared(pit[k]), up)
  <2> DEFINE e == pit[k]
             out == [f \in DOMAIN e.out |-> [e.out[f] EXCEPT !.interval = 0]]
             n == cleared(e)
  <2>1. Typed(e, up)  BY DEF ForwarderInv
  <2>2. 0 \in 0 .. SuppressionMax  BY ForwarderAssumption
  <2> HIDE DEF e
  <2>3. PartialFunction(out, up, OutRecord)
    <3>1. ASSUME NEW f \in DOMAIN e.out PROVE [e.out[f] EXCEPT !.interval = 0] \in OutRecord
      <4>1. e.out[f] \in OutRecord  BY <2>1 DEF Typed, PartialFunction
      <4> QED BY <2>2, <4>1 DEF OutRecord
    <3> QED BY <2>1, <3>1 DEF Typed, PartialFunction
  <2>4. n = [e EXCEPT !.interval = 0, !.out = out]  BY <2>1 DEF Typed
  <2> HIDE DEF out, n
  <2>5. /\ DOMAIN n = DOMAIN e /\ n.in = e.in /\ n.out = out /\ n.timer = e.timer
        /\ n.interval = 0 /\ n.satisfied = e.satisfied /\ n.freshness = e.freshness
    BY <2>1, <2>4 DEF Typed
  <2>6. Typed(n, up)  BY <2>1, <2>2, <2>3, <2>5 DEF Typed
  <2> QED BY <2>6 DEF n, e
<1> HIDE DEF changed, cleared
<1>4. DOMAIN pit' \subseteq Keys /\ \A k \in DOMAIN pit' : Typed(pit'[k], up)
  BY <1>1, <1>3 DEF ForwarderInv
<1> QED BY <1>1, <1>2, <1>4 DEF ForwarderInv

LEMMA ForgetStep ==
    ASSUME ForwarderInv, forget
    PROVE  ForwarderInv' /\ sent' = {}
<1>1. sent' = {} /\ UNCHANGED <<now, up, pit, strategy>>  BY DEF forget
<1>2. ASSUME NEW b \in BOOLEAN, NEW d \in DOMAIN cs[b], cs' = [cs EXCEPT ![b] = Drop(@, {d})],
             UNCHANGED dnl
      PROVE  ForwarderInv'
  <2>1. DOMAIN cs = BOOLEAN /\ \A c \in BOOLEAN : PartialFunction(cs[c], Data, Nat)
    BY DEF ForwarderInv
  <2>2. PartialFunction(Drop(cs[b], {d}), Data, Nat)  BY <2>1, DropType, Zenon
  <2>3. DOMAIN cs' = BOOLEAN /\ \A c \in BOOLEAN : PartialFunction(cs'[c], Data, Nat)
    BY <1>2, <2>1, <2>2
  <2> QED BY <1>1, <1>2, <2>3, Zenon DEF ForwarderInv
<1>3. ASSUME NEW x \in dnl, dnl' = dnl \ {x}, UNCHANGED cs PROVE ForwarderInv'
  BY <1>1, <1>3 DEF ForwarderInv
<1> QED BY <1>1, <1>2, <1>3, Zenon DEF forget

LEMMA TickStep ==
    ASSUME ForwarderInv, Tick
    PROVE  ForwarderInv' /\ sent' = {}
<1>1. now' \in 0 .. MaxTime  BY ForwarderAssumption DEF Tick, ForwarderInv
<1> QED BY <1>1 DEF Tick, ForwarderInv

-----------------------------------------------------------------------------
(* Safety                                                                    *)

LEMMA ForwarderInit == Init => ForwarderInv /\ ScopeKept
<1> SUFFICES ASSUME Init PROVE ForwarderInv /\ ScopeKept  OBVIOUS
<1>1. 0 \in 0 .. MaxTime  BY ForwarderAssumption
<1>2. strategy \in [Names -> Strategies]  BY DEF Init
<1>3. DOMAIN cs = BOOLEAN /\ \A b \in BOOLEAN : PartialFunction(cs[b], Data, Nat)
  BY DEF Init, PartialFunction
<1>4. DOMAIN pit = {}  BY DEF Init
<1> QED BY <1>1, <1>2, <1>3, <1>4 DEF Init, ForwarderInv, ScopeKept

LEMMA ForwarderStep ==
    ASSUME ForwarderInv, Next
    PROVE  ForwarderInv' /\ \A p \in sent' : InScope(p)
<1>1. CASE \E i \in Interests : onIncomingInterest(i)  BY <1>1, InterestStep
<1>2. CASE \E k \in Keys : onInterestFinalize(k)  BY <1>2, FinalizeStep
<1>3. CASE \E f \in Faces, d \in Data, t \in DataTokens : onIncomingData(f, d, t)
  BY <1>3, DataStep
<1>4. CASE \E f \in Faces, k \in Keys, n \in Nonces : onIncomingNack(f, k, n)
  BY <1>4, NackStep, NackInScope
<1>5. CASE \E f \in Removable : removeFace(f)  BY <1>5, RemoveStep
<1>6. CASE \E names \in SUBSET Changeable, new \in Strategies : changeStrategy(names, new)
  BY <1>6, ChangeStep
<1>7. CASE forget  BY <1>7, ForgetStep
<1>8. CASE Tick  BY <1>8, TickStep
<1> QED BY <1>1, <1>2, <1>3, <1>4, <1>5, <1>6, <1>7, <1>8 DEF Next

LEMMA ForwarderInvariant == Spec => [](ForwarderInv /\ ScopeKept)
<1>1. Init => ForwarderInv /\ ScopeKept  BY ForwarderInit
<1>2. ForwarderInv /\ ScopeKept /\ [Next]_vars => ForwarderInv' /\ ScopeKept'
  <2> SUFFICES ASSUME ForwarderInv, ScopeKept, [Next]_vars
               PROVE  ForwarderInv' /\ ScopeKept'
    OBVIOUS
  <2>1. CASE Next
    <3>1. ForwarderInv' /\ \A p \in sent' : InScope(p)  BY <2>1, ForwarderStep
    <3> QED BY <3>1 DEF ScopeKept, InScope
  <2>2. CASE UNCHANGED vars  BY <2>2 DEF vars, ForwarderInv, ScopeKept
  <2> QED BY <2>1, <2>2
<1> QED BY <1>1, <1>2, PTL DEF Spec

\* Whatever arrives, every PIT entry keeps its shape, its records belong to faces
\* that are up (Forwarder's cleanup of a removed face misses none), and its expiry
\* timer is set (onContentStoreMiss, onContentStoreHit): no entry is left behind.
THEOREM TypeCorrect == Spec => []TypeOK
  BY ForwarderInvariant, InvImpliesType, PTL

\* Scope and no return (isNextHopEligible, onOutgoingData): for any next hops and
\* strategy, /localhost packets stay on the host, a /localhop Interest of another
\* host goes no further, and no Interest returns to the face it came from, unless
\* an application chose the next hop.
THEOREM ScopeKeptAlways == Spec => []ScopeKept
  BY ForwarderInvariant, PTL
=============================================================================
