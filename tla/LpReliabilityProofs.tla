------------------------- MODULE LpReliabilityProofs -------------------------
(* The window of unacknowledged fragments, the lists of the network packets,  *)
(* the counters and the memory of the receiver are right for any number of    *)
(* packets and fragments, any range of TxSequences, any limit and threshold.  *)
EXTENDS LpReliability, WellFoundedInduction, TLAPS

------------------------------------------------------------------------------
(* Arithmetic of TxSequences.  Behind(l, t) is the age of t when l is the     *)
(* last TxSequence.                                                           *)

Behind(l, t) == (l - t) % TxSpace

LEMMA BehindIs ==
    ASSUME NEW l \in TxSeq, NEW t \in TxSeq
    PROVE  Behind(l, t) = IF t <= l THEN l - t ELSE l - t + TxSpace
<1>1. TxSpace \in Nat /\ TxSpace > 0  BY LinkAssumption
<1>2. l \in 0 .. TxSpace - 1 /\ t \in 0 .. TxSpace - 1  BY DEF TxSeq
<1>3. (l - t) % TxSpace \in 0 .. TxSpace - 1  BY <1>1, <1>2
<1> QED BY <1>1, <1>2, <1>3 DEF Behind

LEMMA NextTxIs ==
    ASSUME NEW l \in TxSeq
    PROVE  NextTx(l) \in TxSeq /\ NextTx(l) = IF l = TxSpace - 1 THEN 0 ELSE l + 1
<1>1. TxSpace \in Nat /\ TxSpace > 0  BY LinkAssumption
<1>2. l \in 0 .. TxSpace - 1  BY DEF TxSeq
<1>3. (l + 1) % TxSpace = IF l = TxSpace - 1 THEN 0 ELSE l + 1  BY <1>1, <1>2
<1> QED BY <1>1, <1>2, <1>3 DEF NextTx, TxSeq

\* A set of natural numbers that is not empty has a least element.
LEMMA LeastNumber ==
    ASSUME NEW S, S \subseteq Nat, S # {}
    PROVE  \E x \in S : \A y \in S : x <= y
<1> DEFINE R == {p \in Nat \X Nat : p[1] < p[2]}
<1>1. IsWellFoundedOn(R, Nat)  BY NatLessThanWellFounded DEF OpToRel
<1> HIDE DEF R
<1>2. PICK x \in S : \A y \in S : ~ (<<y, x>> \in R)  BY <1>1, WFMin, Zenon
<1>3. ASSUME NEW y \in S PROVE x <= y
  <2>1. x \in Nat /\ y \in Nat /\ <<y, x>> \notin R  BY <1>2
  <2>2. ~ (y < x)  BY <2>1 DEF R
  <2> QED BY <2>1, <2>2
<1> QED BY <1>3

LEMMA SmallestIs ==
    ASSUME NEW S, S \subseteq Nat, S # {}
    PROVE  Smallest(S) \in S /\ \A y \in S : Smallest(S) <= y
<1>1. \E x \in S : \A y \in S : x <= y  BY LeastNumber, Zenon
<1> QED BY <1>1, Zenon DEF Smallest

------------------------------------------------------------------------------
(* The window: f is the oldest of the unacknowledged TxSequences.             *)

Window(l, f, out) ==
    IF out = {} THEN f = None
    ELSE f \in out /\ \A t \in out : Behind(l, t) <= Behind(l, f)

\* assignTxSequence: a TxSequence that does not meet the start of the window is
\* not in use anywhere else.
LEMMA WindowGrows ==
    ASSUME NEW l \in TxSeq, NEW f, NEW out, out \subseteq TxSeq, Window(l, f, out),
           out # {} => NextTx(l) # f
    PROVE  /\ NextTx(l) \notin out
           /\ out # {} => Window(NextTx(l), f, out \cup {NextTx(l)})
           /\ out = {} => Window(NextTx(l), NextTx(l), out \cup {NextTx(l)})
<1> DEFINE n == NextTx(l)
<1>0. TxSpace \in Nat /\ TxSpace > 0  BY LinkAssumption
<1>1. n \in TxSeq /\ n = IF l = TxSpace - 1 THEN 0 ELSE l + 1  BY NextTxIs
<1>2. \A t \in TxSeq : t \in Int /\ 0 <= t /\ t <= TxSpace - 1  BY <1>0 DEF TxSeq
<1> HIDE DEF n
<1>3. \A t \in TxSeq : Behind(l, t) = IF t <= l THEN l - t ELSE l - t + TxSpace  BY BehindIs
<1>4. \A t \in TxSeq : Behind(n, t) = IF t <= n THEN n - t ELSE n - t + TxSpace
  BY <1>1, BehindIs
<1>5. \A t \in TxSeq : t # n => Behind(n, t) = Behind(l, t) + 1
  BY <1>0, <1>1, <1>2, <1>3, <1>4
<1>6. Behind(n, n) = 0 /\ Behind(l, n) = TxSpace - 1
  BY <1>0, <1>1, <1>2, <1>3, <1>4
<1>7. \A t \in TxSeq : Behind(l, t) \in 0 .. TxSpace - 1  BY <1>0, <1>2, <1>3
<1>8. ASSUME out # {}
      PROVE  n \notin out /\ Window(n, f, out \cup {n})
  <2>1. f \in out /\ f \in TxSeq /\ f # n /\ \A t \in out : Behind(l, t) <= Behind(l, f)
    BY <1>8 DEF Window, n
  <2>2. n \notin out
    <3> SUFFICES ASSUME n \in out PROVE FALSE
      OBVIOUS
    <3>1. Behind(l, f) = TxSpace - 1  BY <1>0, <1>6, <1>7, <2>1
    <3>2. f = n  BY <1>0, <1>1, <1>2, <1>3, <2>1, <3>1
    <3> QED BY <2>1, <3>2
  <2>3. ASSUME NEW t \in out \cup {n} PROVE Behind(n, t) <= Behind(n, f)
    <3>1. Behind(n, f) = Behind(l, f) + 1 /\ Behind(l, f) \in 0 .. TxSpace - 1
      BY <1>5, <1>7, <2>1
    <3>2. CASE t = n  BY <1>6, <3>1, <3>2
    <3>3. CASE t # n
      <4>1. t \in out /\ t \in TxSeq  BY <3>3
      <4>2. Behind(n, t) = Behind(l, t) + 1 /\ Behind(l, t) \in 0 .. TxSpace - 1
        BY <1>5, <1>7, <3>3, <4>1
      <4>3. Behind(l, t) <= Behind(l, f)  BY <2>1, <4>1
      <4> QED BY <3>1, <4>2, <4>3
    <3> QED BY <3>2, <3>3
  <2> QED BY <2>1, <2>2, <2>3 DEF Window
<1>9. ASSUME out = {} PROVE n \notin out /\ Window(n, n, out \cup {n})
  BY <1>6, <1>9 DEF Window
<1> QED BY <1>8, <1>9 DEF n

\* deleteUnackedFrag: the start of the window moves to the oldest that is left.
LEMMA WindowShrinks ==
    ASSUME NEW l \in TxSeq, NEW f, NEW out, out \subseteq TxSeq, Window(l, f, out), NEW T,
           NEW left, left = out \ T, NEW after, after = {x \in left : x > f}
    PROVE  Window(l, IF left = {} THEN None
                     ELSE IF f \notin T THEN f
                     ELSE IF after = {} THEN Smallest(left) ELSE Smallest(after), left)
<1>0. TxSpace \in Nat /\ TxSpace > 0  BY LinkAssumption
<1>1. \A t \in TxSeq : t \in Int /\ 0 <= t /\ t <= TxSpace - 1  BY <1>0 DEF TxSeq
<1>2. \A t \in TxSeq : Behind(l, t) = IF t <= l THEN l - t ELSE l - t + TxSpace  BY BehindIs
<1>3. CASE left = {}  BY <1>3 DEF Window
<1>4. ASSUME left # {}
      PROVE  f \in out /\ f \in TxSeq /\ \A t \in out : Behind(l, t) <= Behind(l, f)
  BY <1>4 DEF Window
<1>5. CASE left # {} /\ f \notin T  BY <1>4, <1>5 DEF Window
<1>6. ASSUME left # {}, f \in T, NEW m \in left,
             (m > f /\ \A t \in left : t > f => m <= t) \/ \A t \in left : m <= t /\ ~ (t > f)
      PROVE  Window(l, m, left)
  <2>1. f \in TxSeq /\ m \in TxSeq /\ l \in TxSeq  BY <1>4, <1>6
  <2>2. ASSUME NEW t \in left PROVE Behind(l, t) <= Behind(l, m)
    <3>1. t \in TxSeq /\ t # f /\ Behind(l, t) <= Behind(l, f)  BY <1>4, <1>6
    <3>2. m # f /\ Behind(l, m) <= Behind(l, f)  BY <1>4, <1>6
    <3>3. (t > f /\ m > f /\ m <= t) \/ (~ (t > f) /\ m > f) \/ (m <= t /\ ~ (m > f) /\ ~ (t > f))  BY <1>6
    <3>4. /\ Behind(l, t) = IF t <= l THEN l - t ELSE l - t + TxSpace
          /\ Behind(l, m) = IF m <= l THEN l - m ELSE l - m + TxSpace
          /\ Behind(l, f) = IF f <= l THEN l - f ELSE l - f + TxSpace
      BY <1>2, <2>1, <3>1
    <3>5. /\ l \in 0 .. TxSpace - 1 /\ t \in 0 .. TxSpace - 1
          /\ m \in 0 .. TxSpace - 1 /\ f \in 0 .. TxSpace - 1
      BY <2>1, <3>1 DEF TxSeq
    <3>6. CASE f <= l
      <4>1. t <= l /\ t > f /\ m <= l /\ m > f  BY <1>0, <3>1, <3>2, <3>4, <3>5, <3>6
      <4> QED BY <3>3, <3>4, <3>5, <4>1
    <3>7. CASE ~ (f <= l)
      <4>1. (t > f \/ t <= l) /\ (m > f \/ m <= l)  BY <1>0, <3>1, <3>2, <3>4, <3>5, <3>7
      <4> QED BY <1>0, <3>3, <3>4, <3>5, <3>7, <4>1
    <3> QED BY <3>6, <3>7
  <2> QED BY <2>2 DEF Window
<1>7. CASE left # {} /\ f \in T
  <2>0. TxSeq \subseteq Nat  BY <1>0 DEF TxSeq
  <2>1. left \subseteq Nat /\ after \subseteq Nat  BY <2>0, Zenon
  <2>2. CASE after = {}
    <3>1. Smallest(left) \in left /\ \A t \in left : Smallest(left) <= t  BY <1>7, <2>1, SmallestIs
    <3>2. \A t \in left : ~ (t > f)  BY <2>2
    <3>3. Window(l, Smallest(left), left)  BY <1>6, <1>7, <3>1, <3>2
    <3> QED BY <1>7, <2>2, <3>3
  <2>3. CASE after # {}
    <3>1. Smallest(after) \in after /\ \A t \in after : Smallest(after) <= t  BY <2>1, <2>3, SmallestIs
    <3>2. Smallest(after) \in left /\ Smallest(after) > f /\ \A t \in left : t > f => Smallest(after) <= t
      BY <3>1
    <3>3. Window(l, Smallest(after), left)  BY <1>6, <1>7, <3>2
    <3> QED BY <1>7, <2>3, <3>3
  <2> QED BY <2>2, <2>3
<1> QED BY <1>3, <1>5, <1>7

------------------------------------------------------------------------------
(* The map of unacknowledged fragments and the lists of the network packets.  *)

Lists(un, np, sent) ==
    /\ DOMAIN un \subseteq TxSeq
    /\ \A t \in DOMAIN un : un[t] \in UnackedFrag /\ un[t].frag[1] \in sent
    /\ np \in [Packets -> SUBSET TxSeq]
    /\ \A p \in Packets : np[p] = {t \in DOMAIN un : un[t].frag[1] = p}
    /\ \A t, u \in DOMAIN un : un[t].frag = un[u].frag => t = u

LEMMA FragmentIs ==
    ASSUME NEW frag \in Fragments
    PROVE  frag[1] \in Packets /\ frag[2] \in 0 .. FragCount[frag[1]] - 1 /\ frag = <<frag[1], frag[2]>>
<1>1. PICK p \in Packets : frag \in {<<p, i>> : i \in 0 .. FragCount[p] - 1}  BY DEF Fragments
<1>2. PICK i \in 0 .. FragCount[p] - 1 : frag = <<p, i>>  BY <1>1
<1> QED BY <1>2

LEMMA IsFragment ==
    ASSUME NEW p \in Packets, NEW i \in 0 .. FragCount[p] - 1
    PROVE  <<p, i>> \in Fragments
BY DEF Fragments

\* A fragment that is not in the map gets a place in it.
With(un, t, r) == [x \in DOMAIN un \cup {t} |-> IF x = t THEN r ELSE un[x]]

LEMMA ListsGrow ==
    ASSUME NEW un, NEW np, NEW sent, Lists(un, np, sent), NEW t \in TxSeq, t \notin DOMAIN un,
           NEW r \in UnackedFrag, r.frag[1] \in sent, \A x \in DOMAIN un : un[x].frag # r.frag
    PROVE  Lists(With(un, t, r), [np EXCEPT ![r.frag[1]] = @ \cup {t}], sent)
<1> DEFINE w == With(un, t, r)
           q == r.frag[1]
           n == [np EXCEPT ![q] = @ \cup {t}]
<1>1. /\ DOMAIN w = DOMAIN un \cup {t} /\ w[t] = r
      /\ \A x \in DOMAIN un : w[x] = un[x]
  BY DEF With
<1> HIDE DEF w
<1>2. q \in Packets
  <2>1. r.frag \in Fragments  BY DEF UnackedFrag
  <2> QED BY <2>1, FragmentIs
<1>3. np \in [Packets -> SUBSET TxSeq]  BY DEF Lists
<1>4. n \in [Packets -> SUBSET TxSeq]  BY <1>2, <1>3
<1>5. /\ DOMAIN w \subseteq TxSeq
      /\ \A x \in DOMAIN w : w[x] \in UnackedFrag /\ w[x].frag[1] \in sent
  BY <1>1 DEF Lists
<1>6. ASSUME NEW p \in Packets PROVE n[p] = {x \in DOMAIN w : w[x].frag[1] = p}
  <2>1. np[p] = {x \in DOMAIN un : un[x].frag[1] = p}  BY DEF Lists
  <2>2. CASE p = q  BY <1>1, <1>3, <2>1, <2>2
  <2>3. CASE p # q  BY <1>1, <1>3, <2>1, <2>3
  <2> QED BY <2>2, <2>3
<1>7. ASSUME NEW x \in DOMAIN w, NEW y \in DOMAIN w, w[x].frag = w[y].frag PROVE x = y
  <2>1. CASE x \in DOMAIN un /\ y \in DOMAIN un  BY <1>1, <1>7, <2>1 DEF Lists
  <2>2. CASE ~ (x \in DOMAIN un /\ y \in DOMAIN un)  BY <1>1, <1>7, <2>2
  <2> QED BY <2>1, <2>2
<1> HIDE DEF n
<1>8. Lists(w, n, sent)  BY <1>4, <1>5, <1>6, <1>7 DEF Lists
<1> QED BY <1>8 DEF w, n

\* Fragments of one packet go, from the map and from its list.
Less(un, T) == [x \in DOMAIN un \ T |-> un[x]]

LEMMA ListsShrink ==
    ASSUME NEW un, NEW np, NEW sent, Lists(un, np, sent), NEW p \in Packets, NEW T, T \subseteq np[p]
    PROVE  Lists(Less(un, T), [np EXCEPT ![p] = @ \ T], sent)
<1> DEFINE w == Less(un, T)
           n == [np EXCEPT ![p] = @ \ T]
<1>1. DOMAIN w = DOMAIN un \ T /\ \A x \in DOMAIN w : w[x] = un[x]  BY DEF Less
<1> HIDE DEF w
<1>2. np \in [Packets -> SUBSET TxSeq]  BY DEF Lists
<1>3. n \in [Packets -> SUBSET TxSeq]  BY <1>2
<1>4. ASSUME NEW q \in Packets PROVE n[q] = {x \in DOMAIN w : w[x].frag[1] = q}
  <2>1. /\ np[q] = {x \in DOMAIN un : un[x].frag[1] = q}
        /\ np[p] = {x \in DOMAIN un : un[x].frag[1] = p}
    BY DEF Lists
  <2>2. CASE q = p  BY <1>1, <1>2, <2>1, <2>2
  <2>3. CASE q # p
    <3>1. n[q] = np[q]  BY <1>2, <2>3
    <3>2. \A x \in T : un[x].frag[1] = p  BY <2>1
    <3> QED BY <1>1, <2>1, <2>3, <3>1, <3>2
  <2> QED BY <2>2, <2>3
<1> HIDE DEF n
<1>5. Lists(w, n, sent)  BY <1>1, <1>3, <1>4 DEF Lists
<1> QED BY <1>5 DEF w, n

------------------------------------------------------------------------------
(* The sender between two operations.  Settled(s, p): packet p is counted     *)
(* once, when no fragment of it is left.                                      *)

FieldNames == {"lastTxSeqNo", "firstUnackedFrag", "unackedFrags", "netPkt", "sent", "didRetx",
               "settled", "wire", "exceeded"}
Sender(s) ==
    /\ DOMAIN s = FieldNames
    /\ s.lastTxSeqNo \in TxSeq
    /\ Window(s.lastTxSeqNo, s.firstUnackedFrag, DOMAIN s.unackedFrags)
    /\ Lists(s.unackedFrags, s.netPkt, s.sent)
    /\ s.sent \subseteq Packets /\ s.didRetx \subseteq Packets
    /\ s.settled \in [Packets -> Seq(Outcome)]
    /\ s.wire \subseteq TxSeq \X Fragments
    /\ s.exceeded \in BOOLEAN
Settled(s, p) ==
    Len(s.settled[p]) = IF p \in s.sent /\ s.netPkt[p] = {} THEN 1 ELSE 0
SenderInv(s) == Sender(s) /\ \A p \in Packets : Settled(s, p)

\* n differs from s in the fields F only.
Same(n, s, F) == DOMAIN n = DOMAIN s /\ \A x \in DOMAIN s \ F : n[x] = s[x]

Exceeded(s) == [s EXCEPT !.exceeded = TRUE]

LEMMA ExceededInv ==
    ASSUME NEW s, SenderInv(s)
    PROVE  SenderInv(Exceeded(s)) /\ Exceeded(s).exceeded
<1> DEFINE n == Exceeded(s)
<1>1. Same(n, s, {"exceeded"}) /\ n.exceeded = TRUE
  BY DEF Same, SenderInv, Sender, FieldNames, Exceeded
<1> HIDE DEF n
<1>2. /\ n.lastTxSeqNo = s.lastTxSeqNo /\ n.firstUnackedFrag = s.firstUnackedFrag
      /\ n.unackedFrags = s.unackedFrags /\ n.netPkt = s.netPkt /\ n.sent = s.sent
      /\ n.didRetx = s.didRetx /\ n.settled = s.settled /\ n.wire = s.wire
  BY <1>1 DEF Same, SenderInv, Sender, FieldNames
<1>3. DOMAIN n = FieldNames  BY <1>1 DEF Same, SenderInv, Sender
<1>4. Sender(n)  BY <1>1, <1>2, <1>3, Zenon DEF SenderInv, Sender
<1>5. \A p \in Packets : Settled(n, p)  BY <1>2 DEF SenderInv, Settled
<1> QED BY <1>1, <1>4, <1>5 DEF SenderInv, n

LEMMA TransmitFields ==
    ASSUME NEW s, DOMAIN s = FieldNames, NEW frag, NEW retx, NEW t, t = NextTx(s.lastTxSeqNo),
           NEW n, n = Transmit(s, frag, retx)
    PROVE  /\ Same(n, s, {"lastTxSeqNo", "unackedFrags", "netPkt", "wire"})
           /\ n.lastTxSeqNo = t
           /\ n.unackedFrags = With(s.unackedFrags, t,
                                    [frag |-> frag, retxCount |-> retx, nGreaterSeqAcks |-> 0])
           /\ n.netPkt = [s.netPkt EXCEPT ![frag[1]] = @ \cup {t}]
           /\ n.wire = s.wire \cup {<<t, frag>>}
BY Zenon DEF Transmit, FieldNames, Same, With

LEMMA DeleteFields ==
    ASSUME NEW s, DOMAIN s = FieldNames, NEW T, NEW n, n = deleteUnackedFrags(s, T)
    PROVE  /\ Same(n, s, {"unackedFrags", "firstUnackedFrag"})
           /\ n.unackedFrags = Less(s.unackedFrags, T)
BY Zenon DEF deleteUnackedFrags, FieldNames, Same, Less

LEMMA DeleteWindow ==
    ASSUME NEW s, DOMAIN s = FieldNames, NEW T, NEW n, n = deleteUnackedFrags(s, T),
           s.lastTxSeqNo \in TxSeq, DOMAIN s.unackedFrags \subseteq TxSeq,
           Window(s.lastTxSeqNo, s.firstUnackedFrag, DOMAIN s.unackedFrags)
    PROVE  Window(n.lastTxSeqNo, n.firstUnackedFrag, DOMAIN n.unackedFrags)
<1> DEFINE left == DOMAIN s.unackedFrags \ T
           after == {x \in left : x > s.firstUnackedFrag}
           f == IF left = {} THEN None
                ELSE IF s.firstUnackedFrag \notin T THEN s.firstUnackedFrag
                ELSE IF after = {} THEN Smallest(left) ELSE Smallest(after)
<1>1. n.firstUnackedFrag = f  BY DEF deleteUnackedFrags, FieldNames
<1>2. n.unackedFrags = Less(s.unackedFrags, T) /\ Same(n, s, {"unackedFrags", "firstUnackedFrag"})
  BY DeleteFields
<1>3. DOMAIN n.unackedFrags = left  BY <1>2 DEF Less
<1>4. n.lastTxSeqNo = s.lastTxSeqNo  BY <1>2 DEF Same, FieldNames
<1>5. Window(s.lastTxSeqNo, f, left)
  <2> HIDE DEF left
  <2>1. left = DOMAIN s.unackedFrags \ T  BY DEF left
  <2> QED BY <2>1, WindowShrinks, Zenon
<1> QED BY <1>1, <1>3, <1>4, <1>5

------------------------------------------------------------------------------
(* Fragments of packet p leave the map: all of them (GiveUp), or one that is  *)
(* acknowledged.  The packet is counted if none is left.                      *)

LEMMA UnackedIs ==
    ASSUME NEW s, Sender(s), NEW t \in DOMAIN s.unackedFrags, NEW p, p = s.unackedFrags[t].frag[1]
    PROVE  /\ s.unackedFrags[t] \in UnackedFrag /\ s.unackedFrags[t].frag \in Fragments
           /\ p \in Packets /\ p \in s.sent /\ t \in s.netPkt[p] /\ t \in TxSeq
<1>1. s.unackedFrags[t] \in UnackedFrag /\ p \in s.sent /\ s.sent \subseteq Packets /\ t \in TxSeq
  BY DEF Sender, Lists
<1>2. s.unackedFrags[t].frag \in Fragments  BY <1>1 DEF UnackedFrag
<1>3. t \in s.netPkt[p]  BY <1>1 DEF Sender, Lists
<1> QED BY <1>1, <1>2, <1>3

LEMMA Dropped ==
    ASSUME NEW s, SenderInv(s), NEW p \in Packets, p \in s.sent, s.netPkt[p] # {},
           NEW T, T \subseteq s.netPkt[p], NEW o \in Outcome,
           NEW m, Same(m, s, {"netPkt", "settled"}), m.netPkt = [s.netPkt EXCEPT ![p] = @ \ T],
           m.settled = [s.settled EXCEPT ![p] = IF s.netPkt[p] \ T = {} THEN Append(@, o) ELSE @],
           NEW n, n = deleteUnackedFrags(m, T)
    PROVE  SenderInv(n) /\ n.exceeded = s.exceeded
<1>0. Sender(s) /\ DOMAIN s = FieldNames /\ DOMAIN m = FieldNames  BY DEF SenderInv, Sender, Same
<1>1. /\ m.lastTxSeqNo = s.lastTxSeqNo /\ m.firstUnackedFrag = s.firstUnackedFrag
      /\ m.unackedFrags = s.unackedFrags /\ m.sent = s.sent
      /\ m.didRetx = s.didRetx /\ m.wire = s.wire /\ m.exceeded = s.exceeded
  BY <1>0 DEF Same, FieldNames
<1>2. Same(n, m, {"unackedFrags", "firstUnackedFrag"}) /\ n.unackedFrags = Less(m.unackedFrags, T)
  BY <1>0, DeleteFields
<1>3. /\ n.lastTxSeqNo = s.lastTxSeqNo /\ n.netPkt = m.netPkt /\ n.sent = s.sent
      /\ n.didRetx = s.didRetx /\ n.settled = m.settled /\ n.wire = s.wire
      /\ n.exceeded = s.exceeded /\ DOMAIN n = FieldNames
  BY <1>0, <1>1, <1>2 DEF Same, FieldNames
<1>4. Window(n.lastTxSeqNo, n.firstUnackedFrag, DOMAIN n.unackedFrags)
  <2>1. DOMAIN s.unackedFrags \subseteq TxSeq  BY <1>0 DEF Sender, Lists
  <2> QED BY <1>0, <1>1, <2>1, DeleteWindow DEF Sender
<1>5. Lists(n.unackedFrags, n.netPkt, n.sent)
  <2>1. Lists(s.unackedFrags, s.netPkt, s.sent)  BY <1>0 DEF Sender
  <2> QED BY <1>1, <1>2, <1>3, <2>1, ListsShrink
<1>6. s.netPkt \in [Packets -> SUBSET TxSeq] /\ s.settled \in [Packets -> Seq(Outcome)]
  BY <1>0 DEF Sender, Lists
<1>7. n.settled \in [Packets -> Seq(Outcome)]  BY <1>3, <1>6
<1>8. Sender(n)  BY <1>0, <1>3, <1>4, <1>5, <1>7 DEF Sender
<1>9. ASSUME NEW q \in Packets PROVE Settled(n, q)
  <2>1. Settled(s, q) /\ Settled(s, p)  BY DEF SenderInv
  <2>2. CASE q # p
    <3>1. n.netPkt[q] = s.netPkt[q] /\ n.settled[q] = s.settled[q]  BY <1>3, <1>6, <2>2
    <3> QED BY <1>3, <2>1, <3>1, Zenon DEF Settled
  <2>3. CASE q = p
    <3>1. Len(s.settled[p]) = 0 /\ s.settled[p] \in Seq(Outcome)  BY <1>6, <2>1 DEF Settled
    <3>2. n.netPkt[p] = s.netPkt[p] \ T  BY <1>3, <1>6
    <3>3. CASE s.netPkt[p] \ T = {}
      <4>1. n.settled[p] = Append(s.settled[p], o)  BY <1>3, <1>6, <3>3
      <4>2. Len(n.settled[p]) = 1  BY <3>1, <4>1
      <4> QED BY <1>3, <2>3, <3>2, <3>3, <4>2, Zenon DEF Settled
    <3>4. CASE s.netPkt[p] \ T # {}
      <4>1. n.settled[p] = s.settled[p]  BY <1>3, <1>6, <3>4
      <4> QED BY <1>3, <2>3, <3>1, <3>2, <3>4, <4>1 DEF Settled
    <3> QED BY <3>3, <3>4
  <2> QED BY <2>2, <2>3
<1> QED BY <1>3, <1>8, <1>9 DEF SenderInv

LEMMA GiveUpInv ==
    ASSUME NEW s, SenderInv(s), NEW t \in DOMAIN s.unackedFrags
    PROVE  SenderInv(GiveUp(s, t)) /\ GiveUp(s, t).exceeded = s.exceeded
<1> DEFINE p == s.unackedFrags[t].frag[1]
           m == [s EXCEPT !.netPkt[p] = {}, !.settled[p] = Append(@, "exhausted")]
           T == s.netPkt[p]
<1>0. Sender(s) /\ DOMAIN s = FieldNames  BY DEF SenderInv, Sender
<1>1. p \in Packets /\ p \in s.sent /\ t \in T  BY <1>0, UnackedIs
<1>2. GiveUp(s, t) = deleteUnackedFrags(m, T)  BY DEF GiveUp
<1> HIDE DEF p
<1>3. /\ Same(m, s, {"netPkt", "settled"})
      /\ m.netPkt = [s.netPkt EXCEPT ![p] = {}]
      /\ m.settled = [s.settled EXCEPT ![p] = Append(@, "exhausted")]
  BY <1>0, Zenon DEF Same, FieldNames
<1> HIDE DEF m
<1>4. m.netPkt = [s.netPkt EXCEPT ![p] = @ \ T]
  <2>1. s.netPkt[p] \ T = {}  OBVIOUS
  <2> QED BY <1>3, <2>1, Zenon
<1>5. m.settled = [s.settled EXCEPT ![p] = IF s.netPkt[p] \ T = {} THEN Append(@, "exhausted") ELSE @]
  BY <1>3
<1>6. "exhausted" \in Outcome /\ T \subseteq s.netPkt[p] /\ s.netPkt[p] # {}  BY <1>1 DEF Outcome
<1> HIDE DEF T
<1> QED BY <1>1, <1>2, <1>3, <1>4, <1>5, <1>6, Dropped

LEMMA AcknowledgedInv ==
    ASSUME NEW s, SenderInv(s), NEW t \in DOMAIN s.unackedFrags
    PROVE  /\ SenderInv(onLpPacketAcknowledged(s, t))
           /\ onLpPacketAcknowledged(s, t).exceeded = s.exceeded
<1> DEFINE p == s.unackedFrags[t].frag[1]
           o == IF p \in s.didRetx THEN "retransmitted" ELSE "acknowledged"
           T == {t}
           left == s.netPkt[p] \ T
           m == [s EXCEPT !.netPkt[p] = left,
                          !.settled[p] = IF left = {} THEN Append(@, o) ELSE @]
<1>0. Sender(s) /\ DOMAIN s = FieldNames  BY DEF SenderInv, Sender
<1>1. p \in Packets /\ p \in s.sent /\ t \in s.netPkt[p]  BY <1>0, UnackedIs
<1>2. onLpPacketAcknowledged(s, t) = deleteUnackedFrags(m, T)  BY DEF onLpPacketAcknowledged
<1>3. o \in Outcome  BY DEF Outcome
<1> HIDE DEF p, o
<1>4. /\ Same(m, s, {"netPkt", "settled"})
      /\ m.netPkt = [s.netPkt EXCEPT ![p] = @ \ T]
      /\ m.settled = [s.settled EXCEPT ![p] = IF s.netPkt[p] \ T = {} THEN Append(@, o) ELSE @]
  BY <1>0, Zenon DEF Same, FieldNames
<1> HIDE DEF m, left
<1>5. T \subseteq s.netPkt[p] /\ s.netPkt[p] # {}  BY <1>1
<1> HIDE DEF T
<1> QED BY <1>1, <1>2, <1>3, <1>4, <1>5, Dropped

------------------------------------------------------------------------------
(* A fragment is sent again: its new TxSequence takes the place of the old.   *)

LEMMA LessWith ==
    ASSUME NEW un, NEW t \in DOMAIN un, NEW u, u \notin DOMAIN un, NEW r
    PROVE  Less(With(un, u, r), {t}) = With(Less(un, {t}), u, r)
<1> DEFINE a == Less(With(un, u, r), {t})
           b == With(Less(un, {t}), u, r)
<1>1. DOMAIN a = (DOMAIN un \cup {u}) \ {t} /\ DOMAIN b = (DOMAIN un \ {t}) \cup {u}
  BY DEF Less, With
<1>2. DOMAIN a = DOMAIN b  BY <1>1
<1>3. \A x \in DOMAIN a : a[x] = IF x = u THEN r ELSE un[x]  BY <1>1 DEF Less, With
<1>4. \A x \in DOMAIN b : b[x] = IF x = u THEN r ELSE un[x]  BY <1>1 DEF Less, With
<1>5. a = [x \in DOMAIN a |-> a[x]] /\ b = [x \in DOMAIN b |-> b[x]]  BY DEF Less, With
<1> HIDE DEF a, b
<1>6. a = b  BY <1>2, <1>3, <1>4, <1>5
<1> QED BY <1>6 DEF a, b

LEMMA LostInv ==
    ASSUME NEW s, SenderInv(s), NEW t \in DOMAIN s.unackedFrags
    PROVE  SenderInv(onLpPacketLost(s, t))
<1> DEFINE f == s.unackedFrags[t]
           p == f.frag[1]
           u == NextTx(s.lastTxSeqNo)
           r == [frag |-> f.frag, retxCount |-> f.retxCount + 1, nGreaterSeqAcks |-> 0]
           m == [s EXCEPT !.didRetx = @ \cup {p}, !.netPkt[p] = @ \ {t}]
           k == Transmit(m, f.frag, f.retxCount + 1)
           n == deleteUnackedFrags(k, {t})
<1>0. Sender(s) /\ DOMAIN s = FieldNames  BY DEF SenderInv, Sender
<1>1. /\ f \in UnackedFrag /\ f.frag \in Fragments
      /\ p \in Packets /\ p \in s.sent /\ t \in s.netPkt[p] /\ t \in TxSeq
  BY <1>0, UnackedIs
<1>2. CASE f.retxCount >= maxRetx
  <2>1. onLpPacketLost(s, t) = GiveUp(s, t)  BY <1>2 DEF onLpPacketLost
  <2> QED BY <2>1, GiveUpInv
<1>3. CASE ~ (f.retxCount >= maxRetx) /\ RangeExceeded(s)
  <2>1. onLpPacketLost(s, t) = Exceeded(s)  BY <1>3 DEF onLpPacketLost, Exceeded
  <2> QED BY <2>1, ExceededInv
<1>4. CASE ~ (f.retxCount >= maxRetx) /\ ~ RangeExceeded(s)
  <2>1. onLpPacketLost(s, t) = n  BY <1>4 DEF onLpPacketLost
  <2>2. r \in UnackedFrag /\ r.frag = f.frag
    <3>1. maxRetx \in Nat  BY LinkAssumption
    <3>2. f.retxCount \in 0 .. maxRetx  BY <1>1 DEF UnackedFrag
    <3>3. f.retxCount + 1 \in 0 .. maxRetx  BY <1>4, <3>1, <3>2
    <3> QED BY <1>1, <3>3 DEF UnackedFrag
  <2>3. /\ s.lastTxSeqNo \in TxSeq /\ DOMAIN s.unackedFrags \subseteq TxSeq
        /\ Window(s.lastTxSeqNo, s.firstUnackedFrag, DOMAIN s.unackedFrags)
        /\ s.netPkt \in [Packets -> SUBSET TxSeq] /\ Lists(s.unackedFrags, s.netPkt, s.sent)
    BY <1>0 DEF Sender, Lists
  <2>4. u \in TxSeq  BY <2>3, NextTxIs
  <2>5. u # s.firstUnackedFrag  BY <1>4 DEF RangeExceeded
  <2>6. /\ u \notin DOMAIN s.unackedFrags
        /\ Window(u, s.firstUnackedFrag, DOMAIN s.unackedFrags \cup {u})
    BY <2>3, <2>5, WindowGrows
  <2> HIDE DEF u, p
  <2>7. /\ Same(m, s, {"didRetx", "netPkt"}) /\ m.didRetx = s.didRetx \cup {p}
        /\ m.netPkt = [s.netPkt EXCEPT ![p] = @ \ {t}]
    BY <1>0, Zenon DEF Same, FieldNames
  <2> HIDE DEF m
  <2>8. /\ DOMAIN m = FieldNames /\ m.lastTxSeqNo = s.lastTxSeqNo
        /\ m.firstUnackedFrag = s.firstUnackedFrag
        /\ m.unackedFrags = s.unackedFrags /\ m.sent = s.sent
        /\ m.settled = s.settled /\ m.wire = s.wire /\ m.exceeded = s.exceeded
    BY <1>0, <2>7 DEF Same, FieldNames
  <2>9. u = NextTx(m.lastTxSeqNo) /\ f.frag[1] = p  BY <2>8 DEF u, p
  <2> HIDE DEF f
  <2>10. /\ Same(k, m, {"lastTxSeqNo", "unackedFrags", "netPkt", "wire"})
         /\ k.lastTxSeqNo = u /\ k.unackedFrags = With(m.unackedFrags, u, r)
         /\ k.netPkt = [m.netPkt EXCEPT ![f.frag[1]] = @ \cup {u}]
         /\ k.wire = m.wire \cup {<<u, f.frag>>}
    BY <2>8, <2>9, TransmitFields
  <2> HIDE DEF k, r
  <2>11. /\ DOMAIN k = FieldNames /\ k.firstUnackedFrag = s.firstUnackedFrag /\ k.sent = s.sent
         /\ k.settled = s.settled /\ k.exceeded = s.exceeded /\ k.didRetx = s.didRetx \cup {p}
    BY <2>7, <2>8, <2>10 DEF Same, FieldNames
  <2>12. DOMAIN k.unackedFrags = DOMAIN s.unackedFrags \cup {u}  BY <2>8, <2>10 DEF With
  <2>13. Window(n.lastTxSeqNo, n.firstUnackedFrag, DOMAIN n.unackedFrags)
    <3>1. DOMAIN k.unackedFrags \subseteq TxSeq /\ k.lastTxSeqNo \in TxSeq
      BY <2>3, <2>4, <2>10, <2>12
    <3>2. Window(k.lastTxSeqNo, k.firstUnackedFrag, DOMAIN k.unackedFrags)
      BY <2>6, <2>10, <2>11, <2>12
    <3> QED BY <2>11, <3>1, <3>2, DeleteWindow
  <2>14. Same(n, k, {"unackedFrags", "firstUnackedFrag"}) /\ n.unackedFrags = Less(k.unackedFrags, {t})
    BY <2>11, DeleteFields
  <2> HIDE DEF n
  <2>15. /\ DOMAIN n = FieldNames /\ n.lastTxSeqNo = u /\ n.netPkt = k.netPkt
         /\ n.sent = s.sent /\ n.settled = s.settled /\ n.exceeded = s.exceeded
         /\ n.didRetx = s.didRetx \cup {p} /\ n.wire = k.wire
    BY <2>10, <2>11, <2>14 DEF Same, FieldNames
  <2>16. Lists(n.unackedFrags, n.netPkt, n.sent)
    <3>1. n.unackedFrags = With(Less(s.unackedFrags, {t}), u, r)  BY <2>6, <2>8, <2>10, <2>14, LessWith
    <3>2. n.netPkt = [m.netPkt EXCEPT ![r.frag[1]] = @ \cup {u}]
      BY <2>2, <2>10, <2>15
    <3>3. {t} \subseteq s.netPkt[p]  BY <1>1
    <3>4. Lists(Less(s.unackedFrags, {t}), m.netPkt, s.sent)
      BY <1>1, <2>3, <2>7, <3>3, ListsShrink
    <3>5. u \notin DOMAIN Less(s.unackedFrags, {t})  BY <2>6 DEF Less
    <3>6. ASSUME NEW x \in DOMAIN Less(s.unackedFrags, {t})
          PROVE  Less(s.unackedFrags, {t})[x].frag # r.frag
      <4>1. x \in DOMAIN s.unackedFrags /\ x # t /\ Less(s.unackedFrags, {t})[x] = s.unackedFrags[x]
        BY <3>6 DEF Less
      <4> QED BY <2>2, <2>3, <4>1 DEF Lists, f
    <3>7. r.frag[1] \in s.sent  BY <1>1, <2>2, <2>9
    <3>8. Lists(With(Less(s.unackedFrags, {t}), u, r), [m.netPkt EXCEPT ![r.frag[1]] = @ \cup {u}], s.sent)
      BY <2>2, <2>4, <3>4, <3>5, <3>6, <3>7, ListsGrow
    <3> QED BY <2>15, <3>1, <3>2, <3>8
  <2>17. Sender(n)
    <3>1. n.wire \subseteq TxSeq \X Fragments  BY <1>0, <1>1, <2>4, <2>8, <2>10, <2>15 DEF Sender
    <3> QED BY <1>0, <1>1, <2>4, <2>13, <2>15, <2>16, <3>1 DEF Sender
  <2>18. ASSUME NEW q \in Packets PROVE Settled(n, q)
    <3>1. n.netPkt = [m.netPkt EXCEPT ![p] = @ \cup {u}]  BY <2>9, <2>10, <2>15
    <3>2. n.netPkt[q] = {} <=> s.netPkt[q] = {}
      <4>1. CASE q = p  BY <1>1, <2>3, <2>7, <3>1, <4>1
      <4>2. CASE q # p  BY <1>1, <2>3, <2>7, <3>1, <4>2
      <4> QED BY <4>1, <4>2
    <3>3. Settled(s, q)  BY DEF SenderInv
    <3> QED BY <2>15, <3>2, <3>3 DEF Settled
  <2> QED BY <2>1, <2>17, <2>18 DEF SenderInv
<1> QED BY <1>2, <1>3, <1>4

------------------------------------------------------------------------------
(* An Ack passes the fragments sent before, and those that are lost are sent  *)
(* again one after the other.  The loop is a recursive function: it exists,   *)
(* and each of its values keeps the invariant; both by the least              *)
(* counterexample.                                                            *)

LEMMA PassedInv ==
    ASSUME NEW s, SenderInv(s), NEW t
    PROVE  SenderInv(Passed(s, t)) /\ DOMAIN Passed(s, t).unackedFrags = DOMAIN s.unackedFrags
<1> DEFINE n == Passed(s, t)
           un == s.unackedFrags
           B == Before(s, t)
           w == [x \in DOMAIN un |-> IF x \in B THEN OneMoreAck(un[x]) ELSE un[x]]
<1>0. Sender(s) /\ DOMAIN s = FieldNames  BY DEF SenderInv, Sender
<1>1. Same(n, s, {"unackedFrags"}) /\ n.unackedFrags = w
  <2>1. n = [s EXCEPT !.unackedFrags = w]  BY DEF Passed
  <2> HIDE DEF w
  <2> QED BY <1>0, <2>1 DEF Same, FieldNames
<1> HIDE DEF n, B
<1>2. /\ DOMAIN n = FieldNames /\ n.lastTxSeqNo = s.lastTxSeqNo
      /\ n.firstUnackedFrag = s.firstUnackedFrag
      /\ n.netPkt = s.netPkt /\ n.sent = s.sent /\ n.didRetx = s.didRetx
      /\ n.settled = s.settled /\ n.wire = s.wire /\ n.exceeded = s.exceeded
  BY <1>0, <1>1 DEF Same, FieldNames
<1>3. ASSUME NEW x \in DOMAIN un PROVE w[x] \in UnackedFrag /\ w[x].frag = un[x].frag
  <2>1. un[x] \in UnackedFrag  BY <1>0 DEF Sender, Lists
  <2> QED BY <2>1 DEF UnackedFrag, OneMoreAck
<1>4. DOMAIN w = DOMAIN un  OBVIOUS
<1>5. Lists(un, s.netPkt, s.sent)  BY <1>0 DEF Sender
<1> HIDE DEF w, un
<1>6. Lists(w, s.netPkt, s.sent)  BY <1>3, <1>4, <1>5 DEF Lists
<1>7. Window(n.lastTxSeqNo, n.firstUnackedFrag, DOMAIN w)  BY <1>0, <1>2, <1>4 DEF Sender, un
<1>8. Sender(n)  BY <1>0, <1>1, <1>2, <1>6, <1>7 DEF Sender
<1>9. \A p \in Packets : Settled(n, p)  BY <1>2 DEF SenderInv, Settled
<1>10. DOMAIN n.unackedFrags = DOMAIN s.unackedFrags  BY <1>1, <1>4 DEF un
<1> QED BY <1>8, <1>9, <1>10 DEF SenderInv, n

LEMMA ResendInv ==
    ASSUME NEW s, SenderInv(s), NEW x
    PROVE  SenderInv(Resend(s, x))
<1>1. CASE s.exceeded \/ x \notin DOMAIN s.unackedFrags  BY <1>1 DEF Resend
<1>2. CASE ~ (s.exceeded \/ x \notin DOMAIN s.unackedFrags)  BY <1>2, LostInv DEF Resend
<1> QED BY <1>1, <1>2

Resending(f, s, lost, from, n) ==
    f = [k \in 0 .. n |-> IF k = 0 THEN s ELSE ResendLost(f[k - 1], lost, (from + k - 1) % TxSpace)]

LEMMA ResendingExists ==
    ASSUME NEW s, NEW lost, NEW from, NEW N \in Nat
    PROVE  \E f : Resending(f, s, lost, from, N)
<1> DEFINE Good(n) == \E f : Resending(f, s, lost, from, n)
           Bad == {n \in Nat : ~ Good(n)}
           Op(a, k) == ResendLost(a, lost, (from + k - 1) % TxSpace)
<1>1. Good(0)
  <2> DEFINE g == [k \in 0 .. 0 |-> s]
  <2>1. g = [k \in 0 .. 0 |-> IF k = 0 THEN s ELSE Op(g[k - 1], k)]  OBVIOUS
  <2> QED BY <2>1, Zenon DEF Resending
<1>2. ASSUME NEW n \in Nat, Good(n) PROVE Good(n + 1)
  <2>0. PICK f : Resending(f, s, lost, from, n)  BY <1>2
  <2>1. f = [k \in 0 .. n |-> IF k = 0 THEN s ELSE Op(f[k - 1], k)]  BY <2>0 DEF Resending
  <2> HIDE DEF Op
  <2> DEFINE g == [k \in 0 .. n + 1 |-> IF k <= n THEN f[k] ELSE Op(f[n], n + 1)]
  <2>2. ASSUME NEW k \in 0 .. n + 1 PROVE g[k] = IF k = 0 THEN s ELSE Op(g[k - 1], k)
    <3>1. CASE k = 0  BY <2>1, <3>1
    <3>2. CASE k # 0 /\ k <= n
      <4>1. k - 1 \in 0 .. n /\ k \in 0 .. n /\ k - 1 <= n /\ k - 1 \in 0 .. n + 1  BY <3>2
      <4>2. g[k] = f[k] /\ g[k - 1] = f[k - 1]  BY <3>2, <4>1
      <4>3. f[k] = Op(f[k - 1], k)  BY <2>1, <3>2, <4>1
      <4> QED BY <3>2, <4>2, <4>3
    <3>3. CASE k = n + 1
      <4>1. n \in 0 .. n + 1 /\ n <= n /\ k - 1 = n /\ ~ (k <= n) /\ k # 0  BY <3>3
      <4> QED BY <3>3, <4>1
    <3> QED BY <3>1, <3>2, <3>3
  <2>3. g = [k \in 0 .. n + 1 |-> IF k = 0 THEN s ELSE Op(g[k - 1], k)]  BY <2>2
  <2> HIDE DEF g
  <2>4. Resending(g, s, lost, from, n + 1)  BY <2>3 DEF Resending, Op
  <2> QED BY <2>4
<1> HIDE DEF Good
<1>3. Bad = {}
  <2> SUFFICES ASSUME Bad # {} PROVE FALSE
    OBVIOUS
  <2>1. Bad \subseteq Nat  OBVIOUS
  <2>2. PICK n \in Bad : \A m \in Bad : n <= m  BY <2>1, LeastNumber, Zenon
  <2>3. n \in Nat /\ ~ Good(n)  OBVIOUS
  <2>4. n # 0  BY <1>1, <2>3
  <2>5. n - 1 \in Nat /\ n - 1 < n /\ n - 1 + 1 = n  BY <2>3, <2>4
  <2>6. Good(n - 1)  BY <2>2, <2>5
  <2> QED BY <1>2, <2>3, <2>5, <2>6
<1> QED BY <1>3 DEF Good

LEMMA ResendAllInv ==
    ASSUME NEW s, SenderInv(s), NEW lost, NEW from
    PROVE  SenderInv(ResendAll(s, lost, from))
<1> DEFINE N == TxSpace
           F == CHOOSE f : Resending(f, s, lost, from, N)
           Bad == {k \in 0 .. N : ~ SenderInv(F[k])}
<1>0. N \in Nat  BY LinkAssumption
<1>1. ResendAll(s, lost, from) = F[N]  BY DEF ResendAll, Resending
<1> HIDE DEF N
<1>2. \E f : Resending(f, s, lost, from, N)  BY <1>0, ResendingExists
<1>3. Resending(F, s, lost, from, N)  BY <1>2
<1> HIDE DEF F
<1>4. Bad = {}
  <2> SUFFICES ASSUME Bad # {} PROVE FALSE
    OBVIOUS
  <2>1. Bad \subseteq Nat  BY <1>0
  <2>2. PICK n \in Bad : \A m \in Bad : n <= m
    <3> HIDE DEF Bad
    <3> QED BY <2>1, LeastNumber, Zenon
  <2>3. n \in 0 .. N /\ ~ SenderInv(F[n])  OBVIOUS
  <2>4. F[0] = s  BY <1>0, <1>3 DEF Resending
  <2>5. n # 0  BY <2>3, <2>4
  <2>6. n - 1 \in 0 .. N /\ n - 1 < n /\ n - 1 \in Int /\ n \in Int  BY <1>0, <2>3, <2>5
  <2>7. SenderInv(F[n - 1])  BY <2>2, <2>6
  <2>8. F[n] = ResendLost(F[n - 1], lost, (from + n - 1) % TxSpace)  BY <1>3, <2>3, <2>5, Zenon DEF Resending
  <2> QED BY <2>3, <2>7, <2>8, ResendInv DEF ResendLost
<1> QED BY <1>0, <1>1, <1>4

LEMMA ProcessAckInv ==
    ASSUME NEW s, SenderInv(s), NEW t
    PROVE  SenderInv(processAck(s, t))
<1> DEFINE counted == Passed(s, t)
           lost == {x \in Before(s, t) : counted.unackedFrags[x].nGreaterSeqAcks >= seqNumLossThreshold}
<1>1. CASE t \notin DOMAIN s.unackedFrags  BY <1>1 DEF processAck
<1>2. CASE t \in DOMAIN s.unackedFrags
  <2>1. SenderInv(counted) /\ DOMAIN counted.unackedFrags = DOMAIN s.unackedFrags  BY PassedInv
  <2>2. SenderInv(onLpPacketAcknowledged(counted, t))  BY <1>2, <2>1, AcknowledgedInv
  <2>3. processAck(s, t) = ResendAll(onLpPacketAcknowledged(counted, t), lost, s.firstUnackedFrag)
    BY <1>2 DEF processAck
  <2> HIDE DEF counted, lost
  <2> QED BY <2>2, <2>3, ResendAllInv
<1> QED BY <1>1, <1>2

------------------------------------------------------------------------------
(* handleOutgoing.  While the fragments of packet p get their TxSequences, p  *)
(* is not counted, and only its first k fragments are in the map.             *)

Sending(s, p, k) ==
    /\ Sender(s) /\ p \in s.sent /\ Len(s.settled[p]) = 0
    /\ \A q \in Packets \ {p} : Settled(s, q)
    /\ \A t \in DOMAIN s.unackedFrags : s.unackedFrags[t].frag[1] = p => s.unackedFrags[t].frag[2] < k
    /\ s.exceeded \/ k = 0 \/ s.netPkt[p] # {}

LEMMA TransmitNewInv ==
    ASSUME NEW s, NEW p \in Packets, NEW k \in 0 .. FragCount[p] - 1, Sending(s, p, k)
    PROVE  Sending(TransmitNew(s, <<p, k>>), p, k + 1)
<1> DEFINE frag == <<p, k>>
           t == NextTx(s.lastTxSeqNo)
           r == [frag |-> frag, retxCount |-> 0, nGreaterSeqAcks |-> 0]
           m == Transmit(s, frag, 0)
           n == TransmitNew(s, frag)
<1>0. Sender(s) /\ DOMAIN s = FieldNames /\ k \in Nat  BY DEF Sending, Sender
<1>1. frag \in Fragments /\ frag[1] = p /\ frag[2] = k  BY IsFragment
<1>2. /\ s.lastTxSeqNo \in TxSeq /\ DOMAIN s.unackedFrags \subseteq TxSeq
      /\ Window(s.lastTxSeqNo, s.firstUnackedFrag, DOMAIN s.unackedFrags)
      /\ s.netPkt \in [Packets -> SUBSET TxSeq] /\ Lists(s.unackedFrags, s.netPkt, s.sent)
      /\ \A x \in DOMAIN s.unackedFrags : s.unackedFrags[x].frag \in Fragments
  BY <1>0 DEF Sender, Lists, UnackedFrag
<1>3. \A x \in DOMAIN s.unackedFrags :
          s.unackedFrags[x].frag[1] = p => /\ s.unackedFrags[x].frag[2] < k
                                           /\ s.unackedFrags[x].frag[2] < k + 1
  <2> SUFFICES ASSUME NEW x \in DOMAIN s.unackedFrags, s.unackedFrags[x].frag[1] = p
               PROVE  /\ s.unackedFrags[x].frag[2] < k
                      /\ s.unackedFrags[x].frag[2] < k + 1
    OBVIOUS
  <2>1. s.unackedFrags[x].frag[2] \in 0 .. FragCount[p] - 1  BY <1>2, FragmentIs
  <2>2. s.unackedFrags[x].frag[2] < k  BY DEF Sending
  <2> QED BY <1>0, <2>1, <2>2
<1>4. CASE s.exceeded \/ RangeExceeded(s)
  <2>1. n = Exceeded(s)  BY <1>4 DEF TransmitNew, Exceeded
  <2>2. Same(n, s, {"exceeded"}) /\ n.exceeded = TRUE  BY <1>0, <2>1 DEF Same, FieldNames, Exceeded
  <2> HIDE DEF n
  <2>3. /\ DOMAIN n = FieldNames
        /\ n.lastTxSeqNo = s.lastTxSeqNo /\ n.firstUnackedFrag = s.firstUnackedFrag
        /\ n.unackedFrags = s.unackedFrags /\ n.netPkt = s.netPkt /\ n.sent = s.sent
        /\ n.didRetx = s.didRetx /\ n.settled = s.settled /\ n.wire = s.wire
    BY <1>0, <2>2 DEF Same, FieldNames
  <2>4. Sender(n)  BY <1>0, <2>2, <2>3, Zenon DEF Sender
  <2>5. \A q \in Packets \ {p} : Settled(n, q)  BY <2>3 DEF Sending, Settled
  <2>6. Sending(n, p, k + 1)  BY <1>3, <2>2, <2>3, <2>4, <2>5 DEF Sending
  <2> QED BY <2>6 DEF n
<1>5. CASE ~ (s.exceeded \/ RangeExceeded(s))
  <2>1. r \in UnackedFrag /\ r.frag = frag
    <3>1. 0 \in 0 .. maxRetx  BY LinkAssumption
    <3> QED BY <1>1, <3>1 DEF UnackedFrag
  <2>2. t \in TxSeq  BY <1>2, NextTxIs
  <2>3. DOMAIN s.unackedFrags # {} => t # s.firstUnackedFrag  BY <1>5 DEF RangeExceeded
  <2>4. /\ t \notin DOMAIN s.unackedFrags
        /\ DOMAIN s.unackedFrags # {} => Window(t, s.firstUnackedFrag, DOMAIN s.unackedFrags \cup {t})
        /\ DOMAIN s.unackedFrags = {} => Window(t, t, DOMAIN s.unackedFrags \cup {t})
    BY <1>2, <2>3, WindowGrows
  <2> HIDE DEF frag, t
  <2>5. /\ Same(m, s, {"lastTxSeqNo", "unackedFrags", "netPkt", "wire"})
        /\ m.lastTxSeqNo = t /\ m.unackedFrags = With(s.unackedFrags, t, r)
        /\ m.netPkt = [s.netPkt EXCEPT ![frag[1]] = @ \cup {t}]
        /\ m.wire = s.wire \cup {<<t, frag>>}
    BY <1>0, TransmitFields DEF t
  <2>6. n = IF DOMAIN s.unackedFrags = {} THEN [m EXCEPT !.firstUnackedFrag = m.lastTxSeqNo] ELSE m
    BY <1>5 DEF TransmitNew
  <2> HIDE DEF m, n, r
  <2>7. /\ DOMAIN n = FieldNames /\ n.lastTxSeqNo = t /\ n.unackedFrags = With(s.unackedFrags, t, r)
        /\ n.netPkt = [s.netPkt EXCEPT ![frag[1]] = @ \cup {t}] /\ n.wire = s.wire \cup {<<t, frag>>}
        /\ n.firstUnackedFrag = IF DOMAIN s.unackedFrags = {} THEN t ELSE s.firstUnackedFrag
        /\ n.sent = s.sent /\ n.settled = s.settled /\ n.exceeded = s.exceeded /\ n.didRetx = s.didRetx
    <3>1. /\ DOMAIN m = FieldNames /\ m.firstUnackedFrag = s.firstUnackedFrag
          /\ m.sent = s.sent /\ m.settled = s.settled /\ m.exceeded = s.exceeded
          /\ m.didRetx = s.didRetx
      BY <1>0, <2>5 DEF Same, FieldNames
    <3>2. CASE DOMAIN s.unackedFrags = {}  BY <2>5, <2>6, <3>1, <3>2 DEF FieldNames
    <3>3. CASE DOMAIN s.unackedFrags # {}  BY <2>5, <2>6, <3>1, <3>3
    <3> QED BY <3>2, <3>3
  <2>8. DOMAIN n.unackedFrags = DOMAIN s.unackedFrags \cup {t}  BY <2>7 DEF With
  <2>9. Lists(n.unackedFrags, n.netPkt, n.sent)
    <3>1. r.frag[1] \in s.sent /\ frag[1] = r.frag[1]  BY <1>1, <2>1 DEF Sending
    <3>2. ASSUME NEW x \in DOMAIN s.unackedFrags PROVE s.unackedFrags[x].frag # r.frag
      BY <1>0, <1>1, <1>3, <2>1
    <3>3. Lists(With(s.unackedFrags, t, r), [s.netPkt EXCEPT ![r.frag[1]] = @ \cup {t}], s.sent)
      BY <1>2, <2>1, <2>2, <2>4, <3>1, <3>2, ListsGrow
    <3> QED BY <2>7, <3>1, <3>3
  <2>10. Sender(n)
    <3>1. Window(n.lastTxSeqNo, n.firstUnackedFrag, DOMAIN n.unackedFrags)  BY <2>4, <2>7, <2>8
    <3>2. n.wire \subseteq TxSeq \X Fragments  BY <1>0, <1>1, <2>2, <2>7 DEF Sender
    <3> QED BY <1>0, <2>2, <2>7, <2>9, <3>1, <3>2 DEF Sender
  <2>11. ASSUME NEW q \in Packets \ {p} PROVE Settled(n, q)
    <3>1. n.netPkt[q] = s.netPkt[q]  BY <1>1, <1>2, <2>7
    <3>2. Settled(s, q)  BY DEF Sending
    <3> QED BY <2>7, <3>1, <3>2 DEF Settled
  <2>12. n.netPkt[p] # {}  BY <1>1, <1>2, <2>7
  <2>13. ASSUME NEW x \in DOMAIN n.unackedFrags, n.unackedFrags[x].frag[1] = p
         PROVE  n.unackedFrags[x].frag[2] < k + 1
    <3>1. CASE x = t
      <4>1. n.unackedFrags[x] = r  BY <2>7, <3>1 DEF With
      <4> QED BY <1>0, <1>1, <2>1, <4>1
    <3>2. CASE x # t
      <4>1. x \in DOMAIN s.unackedFrags /\ n.unackedFrags[x] = s.unackedFrags[x]
        BY <2>7, <2>8, <3>2 DEF With
      <4> QED BY <1>3, <2>13, <4>1
    <3> QED BY <3>1, <3>2
  <2>14. Sending(n, p, k + 1)  BY <2>7, <2>10, <2>11, <2>12, <2>13 DEF Sending
  <2> QED BY <2>14 DEF n, frag
<1> QED BY <1>4, <1>5

HandingOut(f, s, p, n) ==
    f = [k \in 0 .. n |-> IF k = 0 THEN [s EXCEPT !.sent = @ \cup {p}]
                          ELSE TransmitNew(f[k - 1], <<p, k - 1>>)]

LEMMA HandingOutExists ==
    ASSUME NEW s, NEW p, NEW N \in Nat
    PROVE  \E f : HandingOut(f, s, p, N)
<1> DEFINE Good(n) == \E f : HandingOut(f, s, p, n)
           Bad == {n \in Nat : ~ Good(n)}
           a == [s EXCEPT !.sent = @ \cup {p}]
           Op(b, k) == TransmitNew(b, <<p, k - 1>>)
<1>1. Good(0)
  <2> HIDE DEF a
  <2> DEFINE g == [k \in 0 .. 0 |-> a]
  <2>1. g = [k \in 0 .. 0 |-> IF k = 0 THEN a ELSE Op(g[k - 1], k)]  OBVIOUS
  <2> QED BY <2>1, Zenon DEF HandingOut, a
<1>2. ASSUME NEW n \in Nat, Good(n) PROVE Good(n + 1)
  <2>0. PICK f : HandingOut(f, s, p, n)  BY <1>2
  <2>1. f = [k \in 0 .. n |-> IF k = 0 THEN a ELSE Op(f[k - 1], k)]  BY <2>0, Zenon DEF HandingOut
  <2> HIDE DEF Op, a
  <2> DEFINE g == [k \in 0 .. n + 1 |-> IF k <= n THEN f[k] ELSE Op(f[n], n + 1)]
  <2>2. ASSUME NEW k \in 0 .. n + 1 PROVE g[k] = IF k = 0 THEN a ELSE Op(g[k - 1], k)
    <3>1. CASE k = 0  BY <2>1, <3>1
    <3>2. CASE k # 0 /\ k <= n
      <4>1. k - 1 \in 0 .. n /\ k \in 0 .. n /\ k - 1 <= n /\ k - 1 \in 0 .. n + 1  BY <3>2
      <4>2. g[k] = f[k] /\ g[k - 1] = f[k - 1]  BY <3>2, <4>1
      <4>3. f[k] = Op(f[k - 1], k)  BY <2>1, <3>2, <4>1
      <4> QED BY <3>2, <4>2, <4>3
    <3>3. CASE k = n + 1
      <4>1. n \in 0 .. n + 1 /\ n <= n /\ k - 1 = n /\ ~ (k <= n) /\ k # 0  BY <3>3
      <4> QED BY <3>3, <4>1
    <3> QED BY <3>1, <3>2, <3>3
  <2>3. g = [k \in 0 .. n + 1 |-> IF k = 0 THEN a ELSE Op(g[k - 1], k)]  BY <2>2
  <2> HIDE DEF g
  <2>4. HandingOut(g, s, p, n + 1)  BY <2>3, Zenon DEF HandingOut, Op, a
  <2> QED BY <2>4
<1> HIDE DEF Good
<1>3. Bad = {}
  <2> SUFFICES ASSUME Bad # {} PROVE FALSE
    OBVIOUS
  <2>1. Bad \subseteq Nat  OBVIOUS
  <2>2. PICK n \in Bad : \A m \in Bad : n <= m  BY <2>1, LeastNumber, Zenon
  <2>3. n \in Nat /\ ~ Good(n)  OBVIOUS
  <2>4. n # 0  BY <1>1, <2>3
  <2>5. n - 1 \in Nat /\ n - 1 < n /\ n - 1 + 1 = n  BY <2>3, <2>4
  <2>6. Good(n - 1)  BY <2>2, <2>5
  <2> QED BY <1>2, <2>3, <2>5, <2>6
<1> QED BY <1>3 DEF Good

LEMMA SendingStarts ==
    ASSUME NEW s, SenderInv(s), NEW p \in Packets, p \notin s.sent
    PROVE  Sending([s EXCEPT !.sent = @ \cup {p}], p, 0)
<1> DEFINE n == [s EXCEPT !.sent = @ \cup {p}]
<1>0. Sender(s) /\ DOMAIN s = FieldNames  BY DEF SenderInv, Sender
<1>1. Same(n, s, {"sent"}) /\ n.sent = s.sent \cup {p}  BY <1>0 DEF Same, FieldNames
<1> HIDE DEF n
<1>2. /\ DOMAIN n = FieldNames
      /\ n.lastTxSeqNo = s.lastTxSeqNo /\ n.firstUnackedFrag = s.firstUnackedFrag
      /\ n.unackedFrags = s.unackedFrags /\ n.netPkt = s.netPkt /\ n.didRetx = s.didRetx
      /\ n.settled = s.settled /\ n.wire = s.wire /\ n.exceeded = s.exceeded
  BY <1>0, <1>1 DEF Same, FieldNames
<1>3. Lists(n.unackedFrags, n.netPkt, n.sent)  BY <1>0, <1>1, <1>2 DEF Sender, Lists
<1>4. Sender(n)  BY <1>0, <1>1, <1>2, <1>3 DEF Sender
<1>5. Len(n.settled[p]) = 0  BY <1>2 DEF SenderInv, Settled
<1>6. \A q \in Packets \ {p} : Settled(n, q)  BY <1>1, <1>2 DEF SenderInv, Settled
<1>7. \A t \in DOMAIN n.unackedFrags : n.unackedFrags[t].frag[1] # p
  BY <1>0, <1>2 DEF Sender, Lists
<1>8. Sending(n, p, 0)  BY <1>1, <1>4, <1>5, <1>6, <1>7 DEF Sending
<1> QED BY <1>8 DEF n

LEMMA HandleOutgoingInv ==
    ASSUME NEW s, SenderInv(s), NEW p \in Packets, p \notin s.sent
    PROVE  SenderInv(handleOutgoing(s, p))
<1> DEFINE N == FragCount[p]
           F == CHOOSE f : HandingOut(f, s, p, N)
           next == F[N]
           Bad == {k \in 0 .. N : ~ Sending(F[k], p, k)}
<1>0. N \in Nat /\ N # 0  BY LinkAssumption
<1>1. handleOutgoing(s, p) = IF next.exceeded THEN Exceeded(s) ELSE next
  BY DEF handleOutgoing, HandingOut, Exceeded
<1>2. \E f : HandingOut(f, s, p, N)
  <2> HIDE DEF N
  <2> QED BY <1>0, HandingOutExists
<1>3. HandingOut(F, s, p, N)  BY <1>2
<1> HIDE DEF F
<1>4. Bad = {}
  <2> SUFFICES ASSUME Bad # {} PROVE FALSE
    OBVIOUS
  <2>1. Bad \subseteq Nat  BY <1>0
  <2>2. PICK n \in Bad : \A m \in Bad : n <= m
    <3> HIDE DEF Bad
    <3> QED BY <2>1, LeastNumber, Zenon
  <2>3. n \in 0 .. N /\ ~ Sending(F[n], p, n)  OBVIOUS
  <2>4. F[0] = [s EXCEPT !.sent = @ \cup {p}]  BY <1>0, <1>3 DEF HandingOut
  <2>5. n # 0  BY <2>3, <2>4, SendingStarts
  <2>6. /\ n - 1 \in 0 .. N - 1 /\ n - 1 \in 0 .. N /\ ~ (n <= n - 1) /\ n - 1 + 1 = n
    BY <1>0, <2>3, <2>5
  <2>7. Sending(F[n - 1], p, n - 1)  BY <2>2, <2>6
  <2>8. F[n] = TransmitNew(F[n - 1], <<p, n - 1>>)  BY <1>3, <2>3, <2>5, Zenon DEF HandingOut
  <2>9. Sending(TransmitNew(F[n - 1], <<p, n - 1>>), p, n - 1 + 1)  BY <2>6, <2>7, TransmitNewInv
  <2> QED BY <2>3, <2>6, <2>8, <2>9
<1>5. Sending(next, p, N)  BY <1>0, <1>4
<1> HIDE DEF next, N
<1>6. CASE next.exceeded  BY <1>1, <1>6, ExceededInv
<1>7. CASE ~ next.exceeded
  <2>1. next.netPkt[p] # {} /\ p \in next.sent /\ Len(next.settled[p]) = 0  BY <1>0, <1>5, <1>7 DEF Sending
  <2>2. Settled(next, p)  BY <2>1 DEF Settled
  <2>3. \A q \in Packets : Settled(next, q)  BY <1>5, <2>2 DEF Sending
  <2> QED BY <1>1, <1>5, <1>7, <2>3 DEF SenderInv, Sending
<1> QED BY <1>6, <1>7

------------------------------------------------------------------------------
(* The receiver.  What is kept of a packet for reassembly has been received;  *)
(* after the packet was handed up, it can only be there again because its     *)
(* Sequence was forgotten in between.                                         *)

Seen == Range(recent) \cup forgotten
RcvInv ==
    /\ acks \subseteq TxSeq
    /\ recent \in Seq(Fragments) /\ forgotten \subseteq Fragments
    /\ partial \in [Packets -> SUBSET Nat]
    /\ delivered \in [Packets -> 0 .. 2]
    /\ \A p \in Packets : \A i \in partial[p] : <<p, i>> \in Seen
    /\ \A p \in Packets : delivered[p] > 0 =>
           Arrived(p) /\ \A i \in partial[p] : <<p, i>> \in forgotten
    /\ OnceUnlessForgotten

LEMMA RangeAppend ==
    ASSUME NEW S, NEW q \in Seq(S), NEW x \in S
    PROVE  Append(q, x) \in Seq(S) /\ Range(Append(q, x)) = Range(q) \cup {x}
<1> DEFINE a == Append(q, x)
<1>1. /\ a \in Seq(S) /\ Len(a) = Len(q) + 1 /\ Len(q) \in Nat /\ a[Len(q) + 1] = x
      /\ \A i \in 1 .. Len(q) : a[i] = q[i]
  OBVIOUS
<1>2. DOMAIN a = 1 .. Len(q) + 1 /\ DOMAIN q = 1 .. Len(q)  BY <1>1
<1> HIDE DEF a
<1>3. ASSUME NEW y PROVE y \in Range(a) <=> y \in Range(q) \cup {x}
  <2>1. ASSUME y \in Range(a) PROVE y \in Range(q) \cup {x}
    <3>1. PICK i \in 1 .. Len(q) + 1 : y = a[i]  BY <1>2, <2>1 DEF Range
    <3>2. CASE i = Len(q) + 1  BY <1>1, <3>1, <3>2
    <3>3. CASE i # Len(q) + 1
      <4>1. i \in 1 .. Len(q)  BY <1>1, <3>3
      <4> QED BY <1>1, <1>2, <3>1, <4>1 DEF Range
    <3> QED BY <3>2, <3>3
  <2>2. ASSUME y \in Range(q) PROVE y \in Range(a)
    <3>1. PICK i \in 1 .. Len(q) : y = q[i]  BY <1>2, <2>2 DEF Range
    <3>2. i \in 1 .. Len(q) + 1 /\ a[i] = y  BY <1>1, <3>1
    <3> QED BY <1>2, <3>2 DEF Range
  <2>3. x \in Range(a)
    <3>1. Len(q) + 1 \in 1 .. Len(q) + 1  BY <1>1
    <3> QED BY <1>1, <1>2, <3>1 DEF Range
  <2> QED BY <2>1, <2>2, <2>3
<1>4. Range(a) = Range(q) \cup {x}  BY <1>3
<1> QED BY <1>1, <1>4 DEF a

\* Nothing that was seen is lost, and the fragment that arrives is remembered.
LEMMA SeenGrows ==
    ASSUME RcvInv, NEW t \in TxSeq, NEW frag \in Fragments, receiveFragment(t, frag)
    PROVE  /\ recent' \in Seq(Fragments) /\ forgotten' \subseteq Fragments
           /\ forgotten \subseteq forgotten' /\ Seen \subseteq Seen' /\ frag \in Seen'
<1>1. PICK old \in 0 .. Len(recent) :
          LET kept == SubSeq(recent, old + 1, Len(recent))
          IN  /\ recent' = IF frag \in Range(kept) THEN kept ELSE Append(kept, frag)
              /\ forgotten' = forgotten \cup (Range(recent) \ Range(kept))
  BY DEF receiveFragment
<1> DEFINE kept == SubSeq(recent, old + 1, Len(recent))
<1>2. recent \in Seq(Fragments) /\ Len(recent) \in Nat /\ DOMAIN recent = 1 .. Len(recent)
  BY DEF RcvInv
<1>3. kept \in Seq(Fragments)
  <2>1. old + 1 \in Int /\ Len(recent) \in Int  BY <1>2
  <2>2. \A i \in old + 1 .. Len(recent) : recent[i] \in Fragments  BY <1>2
  <2> QED BY <1>2, <2>1, <2>2
<1>4. /\ recent' = IF frag \in Range(kept) THEN kept ELSE Append(kept, frag)
      /\ forgotten' = forgotten \cup (Range(recent) \ Range(kept))
  BY <1>1
<1> HIDE DEF kept
<1>5. /\ recent' \in Seq(Fragments) /\ Range(recent') = Range(kept) \cup {frag}
  <2>1. CASE frag \in Range(kept)  BY <1>3, <1>4, <2>1
  <2>2. CASE frag \notin Range(kept)  BY <1>3, <1>4, <2>2, RangeAppend
  <2> QED BY <2>1, <2>2
<1>6. Range(recent) \subseteq Fragments  BY <1>2 DEF Range
<1>7. Seen' = Range(recent') \cup forgotten'  BY DEF Seen
<1> QED BY <1>4, <1>5, <1>6, <1>7 DEF RcvInv, Seen

LEMMA ReceiveStep ==
    ASSUME RcvInv, NEW t \in TxSeq, NEW frag \in Fragments, receiveFragment(t, frag)
    PROVE  RcvInv'
<1> DEFINE p == frag[1]
           i == frag[2]
<1>1. p \in Packets /\ i \in 0 .. FragCount[p] - 1 /\ frag = <<p, i>> /\ i \in Nat  BY FragmentIs
<1>2. /\ recent' \in Seq(Fragments) /\ forgotten' \subseteq Fragments
      /\ forgotten \subseteq forgotten' /\ Seen \subseteq Seen' /\ frag \in Seen'
  BY SeenGrows
<1>3. acks' \subseteq TxSeq  BY DEF receiveFragment, RcvInv
<1>4. \A q \in Packets : Arrived(q) => Arrived(q)'  BY <1>2 DEF Arrived, Seen
<1>5. partial \in [Packets -> SUBSET Nat] /\ delivered \in [Packets -> 0 .. 2]  BY DEF RcvInv
<1> HIDE DEF p, i
<1>6. CASE isDuplicate(frag)
  <2>1. partial' = partial /\ delivered' = delivered  BY <1>6 DEF receiveFragment
  <2>2. \A q \in Packets : \A j \in partial'[q] : <<q, j>> \in Seen'  BY <1>2, <2>1, Zenon DEF RcvInv
  <2>3. \A q \in Packets : delivered'[q] > 0 =>
            Arrived(q)' /\ \A j \in partial'[q] : <<q, j>> \in forgotten'
    BY <1>2, <1>4, <2>1 DEF RcvInv
  <2>4. OnceUnlessForgotten'  BY <1>2, <2>1 DEF RcvInv, OnceUnlessForgotten
  <2> QED BY <1>2, <1>3, <1>5, <2>1, <2>2, <2>3, <2>4 DEF RcvInv
<1>7. CASE ~ isDuplicate(frag)
  <2>0. Reassemble(p, i)  BY <1>7 DEF receiveFragment, p, i
  <2>1. delivered[p] > 0 => frag \in forgotten
    <3>1. frag \notin Range(recent)  BY <1>7 DEF isDuplicate
    <3> QED BY <1>1, <3>1 DEF RcvInv, Arrived
  <2>2. CASE FragCount[p] > 1 /\ partial[p] \cup {i} # 0 .. FragCount[p] - 1
    <3>1. partial' = [partial EXCEPT ![p] = @ \cup {i}] /\ delivered' = delivered
      BY <2>0, <2>2 DEF Reassemble
    <3>2. partial' \in [Packets -> SUBSET Nat]  BY <1>1, <1>5, <3>1
    <3>3. ASSUME NEW q \in Packets, NEW j \in partial'[q]
          PROVE  j \in partial[q] \/ <<q, j>> = frag
      BY <1>1, <1>5, <3>1
    <3>4. \A q \in Packets : \A j \in partial'[q] : <<q, j>> \in Seen'
      BY <1>2, <3>3, Zenon DEF RcvInv
    <3>5. ASSUME NEW q \in Packets, delivered'[q] > 0
          PROVE  Arrived(q)' /\ \A j \in partial'[q] : <<q, j>> \in forgotten'
      <4>1. delivered[q] > 0  BY <3>1, <3>5
      <4>2. Arrived(q)'  BY <1>4, <4>1 DEF RcvInv
      <4>3. ASSUME NEW j \in partial'[q] PROVE <<q, j>> \in forgotten'
        <5>1. CASE j \in partial[q]  BY <1>2, <4>1, <5>1 DEF RcvInv
        <5>2. CASE <<q, j>> = frag  BY <1>1, <1>2, <2>1, <4>1, <5>2
        <5> QED BY <3>3, <5>1, <5>2
      <4> QED BY <4>2, <4>3
    <3>6. OnceUnlessForgotten'  BY <1>2, <3>1 DEF RcvInv, OnceUnlessForgotten
    <3> QED BY <1>2, <1>3, <1>5, <3>1, <3>2, <3>4, <3>5, <3>6 DEF RcvInv
  <2>3. CASE ~ (FragCount[p] > 1 /\ partial[p] \cup {i} # 0 .. FragCount[p] - 1)
    <3>1. /\ partial' = [partial EXCEPT ![p] = {}]
          /\ delivered' = [delivered EXCEPT ![p] = IF @ = 2 THEN 2 ELSE @ + 1]
      BY <2>0, <2>3 DEF Reassemble
    <3>2. /\ partial' \in [Packets -> SUBSET Nat] /\ partial'[p] = {}
          /\ \A q \in Packets : q # p => partial'[q] = partial[q] /\ delivered'[q] = delivered[q]
      BY <1>1, <1>5, <3>1
    <3>3. delivered' \in [Packets -> 0 .. 2] /\ delivered'[p] = IF delivered[p] = 2 THEN 2 ELSE delivered[p] + 1
      BY <1>1, <1>5, <3>1
    <3>4. \A j \in 0 .. FragCount[p] - 1 : j \in partial[p] \/ j = i
      <4>1. FragCount[p] \in Nat \ {0}  BY <1>1, LinkAssumption
      <4>2. CASE FragCount[p] > 1  BY <2>3, <4>2
      <4>3. CASE ~ (FragCount[p] > 1)
        <5>1. FragCount[p] = 1  BY <4>1, <4>3
        <5> QED BY <1>1, <5>1
      <4> QED BY <4>2, <4>3
    <3>5. Arrived(p)'
      <4>1. ASSUME NEW j \in 0 .. FragCount[p] - 1 PROVE <<p, j>> \in Seen'
        <5>1. CASE j \in partial[p]  BY <1>1, <1>2, <5>1 DEF RcvInv
        <5>2. CASE j = i  BY <1>1, <1>2, <5>2
        <5> QED BY <3>4, <5>1, <5>2
      <4> QED BY <4>1 DEF Arrived, Seen
    <3>6. \A q \in Packets : \A j \in partial'[q] : <<q, j>> \in Seen'
      BY <1>2, <3>2, Zenon DEF RcvInv
    <3>7. ASSUME NEW q \in Packets, delivered'[q] > 0
          PROVE  Arrived(q)' /\ \A j \in partial'[q] : <<q, j>> \in forgotten'
      <4>1. CASE q = p  BY <3>2, <3>5, <4>1
      <4>2. CASE q # p
        <5>1. delivered[q] > 0 /\ partial'[q] = partial[q]  BY <3>2, <3>7, <4>2
        <5> QED BY <1>2, <1>4, <5>1 DEF RcvInv
      <4> QED BY <4>1, <4>2
    <3>8. OnceUnlessForgotten'
      <4>1. ASSUME NEW q \in Packets, delivered'[q] > 1, NEW j \in 0 .. FragCount[q] - 1
            PROVE  <<q, j>> \in forgotten'
        <5>1. CASE q # p
          <6>1. delivered[q] > 1  BY <3>2, <4>1, <5>1
          <6> QED BY <1>2, <4>1, <6>1 DEF RcvInv, OnceUnlessForgotten
        <5>2. CASE q = p
          <6>1. delivered[p] \in 0 .. 2  BY <1>1, <1>5
          <6>2. delivered[p] > 0  BY <3>3, <4>1, <5>2, <6>1
          <6>3. CASE j \in partial[p]  BY <1>1, <1>2, <5>2, <6>2, <6>3 DEF RcvInv
          <6>4. CASE j = i  BY <1>1, <1>2, <2>1, <5>2, <6>2, <6>4
          <6> QED BY <3>4, <4>1, <5>2, <6>3, <6>4
        <5> QED BY <5>1, <5>2
      <4> QED BY <4>1 DEF OnceUnlessForgotten
    <3> QED BY <1>2, <1>3, <3>2, <3>3, <3>6, <3>7, <3>8 DEF RcvInv
  <2> QED BY <2>2, <2>3
<1> QED BY <1>6, <1>7

------------------------------------------------------------------------------
LinkInv == SenderInv(snd) /\ RcvInv

LEMMA LinkInit == Init => LinkInv
<1> SUFFICES ASSUME Init PROVE LinkInv
  OBVIOUS
<1>1. /\ DOMAIN snd = FieldNames /\ snd.lastTxSeqNo \in Starts /\ snd.firstUnackedFrag = None
      /\ snd.unackedFrags = <<>> /\ snd.netPkt = [p \in Packets |-> {}] /\ snd.sent = {}
      /\ snd.didRetx = {} /\ snd.settled = [p \in Packets |-> <<>>] /\ snd.wire = {}
      /\ snd.exceeded = FALSE
  BY Zenon DEF Init, FieldNames
<1>2. snd.lastTxSeqNo \in TxSeq  BY <1>1, LinkAssumption, Zenon DEF TxSeq
<1>3. DOMAIN snd.unackedFrags = {}  BY <1>1
<1>4. Window(snd.lastTxSeqNo, snd.firstUnackedFrag, DOMAIN snd.unackedFrags)  BY <1>1, <1>3 DEF Window
<1>5. Lists(snd.unackedFrags, snd.netPkt, snd.sent)  BY <1>1, <1>3, Zenon DEF Lists
<1>6. snd.settled \in [Packets -> Seq(Outcome)]  BY <1>1
<1>7. Sender(snd)  BY <1>1, <1>2, <1>4, <1>5, <1>6, Zenon DEF Sender
<1>8. \A p \in Packets : Settled(snd, p)  BY <1>1 DEF Settled
<1>9. RcvInv
  <2>1. recent \in Seq(Fragments) /\ acks \subseteq TxSeq /\ forgotten \subseteq Fragments  BY DEF Init
  <2>2. partial \in [Packets -> SUBSET Nat] /\ \A p \in Packets : partial[p] = {}  BY DEF Init
  <2>3. delivered \in [Packets -> 0 .. 2] /\ \A p \in Packets : delivered[p] = 0  BY DEF Init
  <2> QED BY <2>1, <2>2, <2>3 DEF RcvInv, OnceUnlessForgotten
<1> QED BY <1>7, <1>8, <1>9 DEF LinkInv, SenderInv

LEMMA RcvUnchanged ==
    ASSUME RcvInv, acks' \subseteq TxSeq, UNCHANGED rcvVars
    PROVE  RcvInv'
BY Zenon DEF RcvInv, rcvVars, Seen, Arrived, OnceUnlessForgotten

LEMMA LinkStep == LinkInv /\ [Next]_vars => LinkInv'
<1> SUFFICES ASSUME LinkInv, [Next]_vars PROVE LinkInv'
  OBVIOUS
<1>0. SenderInv(snd) /\ RcvInv /\ acks \subseteq TxSeq  BY DEF LinkInv, RcvInv
<1>1. ASSUME NEW p \in Packets, sendNetPacket(p) PROVE LinkInv'
  <2>1. snd' = handleOutgoing(snd, p) /\ snd.sent = 1 .. p - 1 /\ acks' = acks /\ UNCHANGED rcvVars
    BY <1>1 DEF sendNetPacket
  <2>2. p \in Int
    <3>1. p \in Int  BY LinkAssumption
    <3> QED BY <3>1
  <2>3. p \notin snd.sent  BY <2>1, <2>2
  <2> QED BY <1>0, <2>1, <2>3, HandleOutgoingInv, RcvUnchanged, Zenon DEF LinkInv
<1>2. ASSUME NEW p \in Packets, timeoutPartialPacket(p) PROVE LinkInv'
  <2>1. /\ partial' = [partial EXCEPT ![p] = {}] /\ snd' = snd /\ acks' = acks
        /\ recent' = recent /\ forgotten' = forgotten /\ delivered' = delivered
    BY <1>2 DEF timeoutPartialPacket
  <2>2. /\ partial' \in [Packets -> SUBSET Nat]
        /\ \A q \in Packets : partial'[q] \subseteq partial[q]
    BY <1>0, <2>1 DEF RcvInv
  <2>3. RcvInv'  BY <1>0, <2>1, <2>2 DEF RcvInv, Seen, Arrived, OnceUnlessForgotten
  <2> QED BY <1>0, <2>1, <2>3 DEF LinkInv
<1>3. CASE rtoTimer
  <2>1. PICK t \in DOMAIN snd.unackedFrags : snd' = onLpPacketLost(snd, t)  BY <1>3 DEF rtoTimer
  <2>2. acks' = acks /\ UNCHANGED rcvVars  BY <1>3 DEF rtoTimer
  <2> QED BY <1>0, <2>1, <2>2, LostInv, RcvUnchanged DEF LinkInv
<1>4. ASSUME NEW m \in snd.wire, receiveFragment(m[1], m[2]) PROVE LinkInv'
  <2>1. m[1] \in TxSeq /\ m[2] \in Fragments  BY <1>0 DEF SenderInv, Sender
  <2>2. RcvInv'  BY <1>0, <1>4, <2>1, ReceiveStep
  <2>3. snd' = snd  BY <1>4, Zenon DEF receiveFragment
  <2> QED BY <1>0, <2>2, <2>3 DEF LinkInv
<1>5. ASSUME NEW t \in acks, receiveAck(t) PROVE LinkInv'
  <2>1. snd' = processAck(snd, t) /\ acks' \subseteq acks /\ UNCHANGED rcvVars  BY <1>5 DEF receiveAck
  <2> QED BY <1>0, <2>1, ProcessAckInv, RcvUnchanged DEF LinkInv
<1>6. ASSUME NEW t \in acks, loseAck(t) PROVE LinkInv'
  <2>1. snd' = snd /\ acks' \subseteq acks /\ UNCHANGED rcvVars  BY <1>6 DEF loseAck
  <2> QED BY <1>0, <2>1, RcvUnchanged DEF LinkInv
<1>7. CASE UNCHANGED vars
  <2>1. snd' = snd /\ acks' = acks /\ UNCHANGED rcvVars  BY <1>7 DEF vars
  <2> QED BY <1>0, <2>1, RcvUnchanged DEF LinkInv
<1> QED BY <1>1, <1>2, <1>3, <1>4, <1>5, <1>6, <1>7 DEF Next

LEMMA LinkInvariant == Spec => []LinkInv
BY LinkInit, LinkStep, PTL DEF Spec

------------------------------------------------------------------------------
\* TypeOK holds in every state.  The TxSequence of the start of the window and
\* the retransmission counts stay in their ranges, as assignTxSequence and
\* onLpPacketLost check them before they go on.
THEOREM TypeCorrect == Spec => []TypeOK
<1>1. LinkInv => TypeOK
  <2> SUFFICES ASSUME LinkInv PROVE TypeOK
    OBVIOUS
  <2>1. Sender(snd) /\ RcvInv  BY DEF LinkInv, SenderInv
  <2>2. /\ DOMAIN snd.unackedFrags \subseteq TxSeq /\ snd.netPkt \in [Packets -> SUBSET TxSeq]
        /\ \A t \in DOMAIN snd.unackedFrags : snd.unackedFrags[t] \in UnackedFrag
    BY <2>1 DEF Sender, Lists
  <2>3. snd.firstUnackedFrag \in TxSeq \cup {None}  BY <2>1, <2>2 DEF Sender, Window
  <2>4. /\ acks \subseteq TxSeq /\ recent \in Seq(Fragments) /\ forgotten \subseteq Fragments
        /\ partial \in [Packets -> SUBSET Nat] /\ delivered \in [Packets -> 0 .. 2]
    BY <2>1 DEF RcvInv
  <2> QED BY <2>1, <2>2, <2>3, <2>4, Zenon DEF TypeOK, Sender
<1> QED BY <1>1, LinkInvariant, PTL

\* m_firstUnackedFrag is the oldest of the unacknowledged fragments, however often
\* the TxSequences have wrapped around: assignTxSequence stops before the window
\* meets its own start, and deleteUnackedFrag moves the start to the next oldest.
THEOREM WindowStartAlways == Spec => []WindowStart
<1>1. LinkInv => WindowStart
  <2> SUFFICES ASSUME LinkInv PROVE WindowStart
    OBVIOUS
  <2>1. Window(snd.lastTxSeqNo, snd.firstUnackedFrag, DOMAIN snd.unackedFrags)
    BY DEF LinkInv, SenderInv, Sender
  <2> QED BY <2>1 DEF Window, WindowStart, Age, Behind
<1> QED BY <1>1, LinkInvariant, PTL

\* The list of each NetPkt holds exactly the fragments of the packet that are in
\* m_unackedFrags, each once, through sending, Acks, timers, retransmissions and
\* the removal of all fragments of a packet that is given up.
THEOREM ListsInStepAlways == Spec => []ListsInStep
<1>1. LinkInv => ListsInStep
  <2> SUFFICES ASSUME LinkInv PROVE ListsInStep
    OBVIOUS
  <2>1. Lists(snd.unackedFrags, snd.netPkt, snd.sent)  BY DEF LinkInv, SenderInv, Sender
  <2> QED BY <2>1 DEF Lists, ListsInStep
<1> QED BY <1>1, LinkInvariant, PTL

\* Every packet is counted once, at the moment the last of its fragments leaves
\* the map, by onLpPacketAcknowledged or by onLpPacketLost.
THEOREM CountedOnceAlways == Spec => []CountedOnce
<1>1. LinkInv => CountedOnce  BY DEF LinkInv, SenderInv, Settled, CountedOnce
<1> QED BY <1>1, LinkInvariant, PTL

\* A packet is handed up a second time only if the receiver has forgotten the
\* Sequence of each of its fragments, whatever the link repeats or reorders.
THEOREM OnceUnlessForgottenAlways == Spec => []OnceUnlessForgotten
<1>1. LinkInv => OnceUnlessForgotten  BY DEF LinkInv, RcvInv
<1> QED BY <1>1, LinkInvariant, PTL
==============================================================================
