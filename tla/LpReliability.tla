--------------------------- MODULE LpReliability ----------------------------
(* Reliability of the generic link service (daemon/face/lp-reliability.cpp)   *)
(* with the reassembler of the peer (lp-reassembler.cpp).  One side sends     *)
(* network packets as fragments, each with a TxSequence that is new for every *)
(* transmission; the other side acknowledges TxSequences.  The link may lose, *)
(* repeat and reorder.  Timers may expire at any time.  After setOptions has  *)
(* switched reliability off, timers still run and Acks are ignored, which is  *)
(* for the sender as if the link lost them.                                   *)
(*                                                                            *)
(* A fragment is <<packet, index>>, which stands for its Sequence.  The       *)
(* sender's state is one record, as a single Ack may change all of it.        *)
EXTENDS Integers, Sequences, FiniteSets, Functions

CONSTANTS
    Packets,         \* 1, 2, ... in the order of sending
    FragCount,       \* the number of fragments of each
    TxSpace,         \* the number of TxSequences, 2^64 in the code
    Starts,          \* the last TxSequences before the packets modelled
    maxRetx,
    seqNumLossThreshold,
    None,
    MaxAcks,         \* bound: Acks on their way
    MaxForgotten     \* bound: fragments the receiver forgets

ASSUME LinkAssumption ==
    /\ \A p \in Packets : p \in Nat /\ p > 0 /\ 1 .. p \subseteq Packets
    /\ FragCount \in [Packets -> Nat \ {0}]
    /\ {TxSpace, maxRetx, seqNumLossThreshold} \subseteq Nat /\ TxSpace > 0
    /\ Starts \subseteq 0 .. TxSpace - 1

VARIABLES
    snd,         \* the sender, see below
    acks,        \* Acks in the receiver's m_ackQueue and on the link
    recent,      \* receiver: m_recentRecvSeqs, oldest first
    partial,     \* receiver: m_partialPackets, the indexes received
    forgotten,   \* history: fragments erased from recent after a while
    delivered    \* history: how often a packet was handed up (2: more than once)

rcvVars == <<recent, partial, forgotten, delivered>>
vars == <<snd, acks, rcvVars>>

Fragments == UNION {{<<p, i>> : i \in 0 .. FragCount[p] - 1} : p \in Packets}
TxSeq == 0 .. TxSpace - 1
Outcome == {"acknowledged", "retransmitted", "exhausted"}
UnackedFrag == [frag : Fragments, retxCount : 0 .. maxRetx, nGreaterSeqAcks : Nat]

TypeOK ==
    /\ snd.lastTxSeqNo \in TxSeq
    /\ snd.firstUnackedFrag \in TxSeq \cup {None}
    /\ DOMAIN snd.unackedFrags \subseteq TxSeq
    /\ \A t \in DOMAIN snd.unackedFrags : snd.unackedFrags[t] \in UnackedFrag
    /\ snd.netPkt \in [Packets -> SUBSET TxSeq]
    /\ snd.sent \subseteq Packets /\ snd.didRetx \subseteq Packets
    /\ snd.settled \in [Packets -> Seq(Outcome)]
    /\ snd.wire \subseteq TxSeq \X Fragments /\ snd.exceeded \in BOOLEAN
    /\ acks \subseteq TxSeq
    /\ recent \in Seq(Fragments) /\ forgotten \subseteq Fragments
    /\ partial \in [Packets -> SUBSET Nat]
    /\ delivered \in [Packets -> 0 .. 2]

\* The counter starts at -1, the last TxSequence there is; after long use it may
\* be anywhere.
Init ==
    /\ snd \in [lastTxSeqNo : Starts, firstUnackedFrag : {None}, unackedFrags : {<<>>},
                netPkt : {[p \in Packets |-> {}]}, sent : {{}}, didRetx : {{}},
                settled : {[p \in Packets |-> <<>>]}, wire : {{}},
                exceeded : {FALSE}]
    /\ acks = {}
    /\ recent = <<>> /\ forgotten = {}
    /\ partial = [p \in Packets |-> {}]
    /\ delivered = [p \in Packets |-> 0]

-----------------------------------------------------------------------------
(* The sender.  The fields of s are those of LpReliability: lastTxSeqNo,      *)
(* firstUnackedFrag, unackedFrags (by TxSequence), and of each packet the     *)
(* unackedFrags of its NetPkt (netPkt) and didRetx.  sent, settled and wire   *)
(* are what was sent, what the counters of the link service say of it, and    *)
(* the fragments on the link: each may arrive any number of times, or never.  *)
(* exceeded says that assignTxSequence threw: the thread ends.                *)

NextTx(t) == (t + 1) % TxSpace

\* How far the TxSequence t is behind the last one.
Age(s, t) == (s.lastTxSeqNo - t) % TxSpace

\* assignTxSequence throws when the window has gone round.
RangeExceeded(s) ==
    DOMAIN s.unackedFrags # {} /\ NextTx(s.lastTxSeqNo) = s.firstUnackedFrag

\* assignTxSequence, and a place in the map
Transmit(s, frag, retx) ==
    LET t == NextTx(s.lastTxSeqNo)
    IN  [s EXCEPT !.lastTxSeqNo = t,
                  !.unackedFrags = [x \in DOMAIN @ \cup {t} |->
                      IF x = t THEN [frag |-> frag, retxCount |-> retx, nGreaterSeqAcks |-> 0]
                      ELSE @[x]],
                  !.netPkt[frag[1]] = @ \cup {t},
                  !.wire = @ \cup {<<t, frag>>}]

\* One fragment of handleOutgoing
TransmitNew(s, frag) ==
    LET next == Transmit(s, frag, 0)
    IN  IF s.exceeded \/ RangeExceeded(s) THEN [s EXCEPT !.exceeded = TRUE]
        ELSE IF DOMAIN s.unackedFrags = {}
        THEN [next EXCEPT !.firstUnackedFrag = next.lastTxSeqNo] ELSE next

\* Nothing is handed to the link if a fragment gets no TxSequence.
handleOutgoing(s, p) ==
    LET after[k \in 0 .. FragCount[p]] ==
            IF k = 0 THEN [s EXCEPT !.sent = @ \cup {p}] ELSE TransmitNew(after[k - 1], <<p, k - 1>>)
        next == after[FragCount[p]]
    IN  IF next.exceeded THEN [s EXCEPT !.exceeded = TRUE] ELSE next

Smallest(S) == CHOOSE x \in S : \A y \in S : x <= y

\* A bug would be to leave the start of the window at the end of the map.
deleteUnackedFragsNoWrap(s, T) ==
    LET left == DOMAIN s.unackedFrags \ T
        after == {x \in left : x > s.firstUnackedFrag}
    IN  [s EXCEPT !.unackedFrags = [x \in left |-> s.unackedFrags[x]],
                  !.firstUnackedFrag = IF left = {} THEN None
                                       ELSE IF @ \notin T THEN @
                                       ELSE IF after = {} THEN None ELSE Smallest(after)]

\* deleteUnackedFrag for each of T, in any order.  If the window started at one
\* of them, it then starts at the next TxSequence of the map, or at its first one.
deleteUnackedFrags(s, T) ==
    LET left == DOMAIN s.unackedFrags \ T
        after == {x \in left : x > s.firstUnackedFrag}
    IN  [s EXCEPT !.unackedFrags = [x \in left |-> s.unackedFrags[x]],
                  !.firstUnackedFrag = IF left = {} THEN None
                                       ELSE IF @ \notin T THEN @
                                       ELSE IF after = {} THEN Smallest(left) ELSE Smallest(after)]

\* A bug would be to leave the other fragments of the packet to their timers.
GiveUpThis(s, t) ==
    LET p == s.unackedFrags[t].frag[1]
    IN  deleteUnackedFrags([s EXCEPT !.netPkt[p] = @ \ {t},
                                     !.settled[p] = Append(@, "exhausted")], {t})

\* All fragments go, and with the last one the NetPkt.  The strategy is told if
\* it was an Interest.
GiveUp(s, t) ==
    LET p == s.unackedFrags[t].frag[1]
    IN  deleteUnackedFrags([s EXCEPT !.netPkt[p] = {}, !.settled[p] = Append(@, "exhausted")],
                           s.netPkt[p])

\* A bug would be to check the limit one retransmission late.
onLpPacketLostLate(s, t) ==
    LET f == s.unackedFrags[t]
        p == f.frag[1]
    IN  IF f.retxCount > maxRetx THEN GiveUp(s, t)
        ELSE deleteUnackedFrags(Transmit([s EXCEPT !.didRetx = @ \cup {p}, !.netPkt[p] = @ \ {t}],
                                         f.frag, f.retxCount + 1), {t})

\* A bug would be to leave the old TxSequence in the list of the NetPkt.
onLpPacketLostKept(s, t) ==
    LET f == s.unackedFrags[t]
        p == f.frag[1]
    IN  IF f.retxCount >= maxRetx THEN GiveUp(s, t)
        ELSE deleteUnackedFrags(Transmit([s EXCEPT !.didRetx = @ \cup {p}],
                                         f.frag, f.retxCount + 1), {t})

\* The fragment is given up, or sent again with a new TxSequence that takes the
\* place of the old one.
onLpPacketLost(s, t) ==
    LET f == s.unackedFrags[t]
        p == f.frag[1]
    IN  IF f.retxCount >= maxRetx THEN GiveUp(s, t)
        ELSE IF RangeExceeded(s) THEN [s EXCEPT !.exceeded = TRUE]
        ELSE deleteUnackedFrags(Transmit([s EXCEPT !.didRetx = @ \cup {p}, !.netPkt[p] = @ \ {t}],
                                         f.frag, f.retxCount + 1), {t})

\* A bug would be to take the Ack of a fragment for one of the packet.
onLpPacketAcknowledgedWhole(s, t) ==
    LET p == s.unackedFrags[t].frag[1]
        outcome == IF p \in s.didRetx THEN "retransmitted" ELSE "acknowledged"
    IN  deleteUnackedFrags([s EXCEPT !.netPkt[p] = {}, !.settled[p] = Append(@, outcome)], s.netPkt[p])

\* The packet is counted when the last of its fragments is acknowledged.
onLpPacketAcknowledged(s, t) ==
    LET p == s.unackedFrags[t].frag[1]
        left == s.netPkt[p] \ {t}
        outcome == IF p \in s.didRetx THEN "retransmitted" ELSE "acknowledged"
    IN  deleteUnackedFrags([s EXCEPT !.netPkt[p] = left,
                                     !.settled[p] = IF left = {} THEN Append(@, outcome) ELSE @], {t})

\* The unacknowledged TxSequences from the start of the window up to t, which
\* findLostLpPackets walks through: each is passed by one more Ack.
Before(s, t) ==
    LET from == s.firstUnackedFrag
    IN  {x \in DOMAIN s.unackedFrags : (x - from) % TxSpace < (t - from) % TxSpace}
OneMoreAck(f) == [f EXCEPT !.nGreaterSeqAcks = @ + 1]
Passed(s, t) ==
    [s EXCEPT !.unackedFrags = [x \in DOMAIN @ |->
        IF x \in Before(s, t) THEN OneMoreAck(@[x]) ELSE @[x]]]

\* A packet that is given up takes others of the lost with it.
Resend(s, x) ==
    IF s.exceeded \/ x \notin DOMAIN s.unackedFrags THEN s ELSE onLpPacketLost(s, x)

ResendLost(s, lost, x) == IF x \in lost THEN Resend(s, x) ELSE s

\* The lost fragments are sent again in the order in which findLostLpPackets has
\* met them, which is from the start of the window on.
ResendAll(s, lost, from) ==
    LET after[k \in 0 .. TxSpace] ==
            IF k = 0 THEN s ELSE ResendLost(after[k - 1], lost, (from + k - 1) % TxSpace)
    IN  after[TxSpace]

\* An Ack counts against the fragments sent before the one it is for; those with
\* enough of them are lost.
processAck(s, t) ==
    LET counted == Passed(s, t)
        lost == {x \in Before(s, t) : counted.unackedFrags[x].nGreaterSeqAcks >= seqNumLossThreshold}
    IN  IF t \notin DOMAIN s.unackedFrags THEN s
        ELSE ResendAll(onLpPacketAcknowledged(counted, t), lost, s.firstUnackedFrag)

-----------------------------------------------------------------------------
\* GenericLinkService::sendNetPacket of a packet in FragCount[p] fragments
sendNetPacket(p) ==
    /\ ~snd.exceeded
    /\ snd.sent = 1 .. p - 1
    /\ snd' = handleOutgoing(snd, p)
    /\ UNCHANGED <<acks, rcvVars>>

\* The timer of a fragment expires.
rtoTimer ==
    /\ ~snd.exceeded
    /\ UNCHANGED <<acks, rcvVars>>
    /\ \E t \in DOMAIN snd.unackedFrags : snd' = onLpPacketLost(snd, t)

\* Acks leave with the packets of the receiver (piggyback, or the idle timer),
\* which the link may reorder, repeat and lose.  Those of one packet are handled
\* one after the other.
receiveAck(t) ==
    /\ ~snd.exceeded
    /\ snd' = processAck(snd, t)
    /\ acks' = acks \ {t}
    /\ UNCHANGED rcvVars

loseAck(t) ==
    /\ acks' = acks \ {t}
    /\ UNCHANGED <<snd, rcvVars>>

\* LpReassembler::receiveFragment, for a fragment that is not a duplicate
Reassemble(p, i) ==
    IF FragCount[p] > 1 /\ partial[p] \cup {i} # 0 .. FragCount[p] - 1
    THEN /\ partial' = [partial EXCEPT ![p] = @ \cup {i}]
         /\ UNCHANGED delivered
    ELSE /\ partial' = [partial EXCEPT ![p] = {}]
         /\ delivered' = [delivered EXCEPT ![p] = IF @ = 2 THEN 2 ELSE @ + 1]

\* A bug would be to rely on the reassembler.
isDuplicatePartial(frag) == frag[2] \in partial[frag[1]]

isDuplicate(frag) == frag \in Range(recent)

\* processIncomingPacket for a fragment, and doReceivePacket.  What was received
\* long enough ago is forgotten after the fragment has been looked up.
receiveFragment(t, frag) ==
    /\ acks' = acks \cup {t} /\ Cardinality(acks') <= MaxAcks
    /\ \E old \in 0 .. Len(recent) :
        LET kept == SubSeq(recent, old + 1, Len(recent))
        IN  /\ recent' = IF frag \in Range(kept) THEN kept ELSE Append(kept, frag)
            /\ forgotten' = forgotten \cup (Range(recent) \ Range(kept))
            /\ Cardinality(forgotten') <= MaxForgotten
    /\ IF isDuplicate(frag) THEN UNCHANGED <<partial, delivered>> ELSE Reassemble(frag[1], frag[2])
    /\ UNCHANGED snd

timeoutPartialPacket(p) ==
    /\ partial[p] # {}
    /\ partial' = [partial EXCEPT ![p] = {}]
    /\ UNCHANGED <<snd, acks, recent, forgotten, delivered>>

Next ==
    \/ \E p \in Packets : sendNetPacket(p) \/ timeoutPartialPacket(p)
    \/ rtoTimer
    \/ \E m \in snd.wire : receiveFragment(m[1], m[2])
    \/ \E t \in acks : receiveAck(t) \/ loseAck(t)

\* A timer that runs expires.  Nothing is assumed of the link.
Spec == Init /\ [][Next]_vars /\ WF_vars(rtoTimer)

-----------------------------------------------------------------------------
\* m_firstUnackedFrag is the fragment that was transmitted first of those that are
\* unacknowledged, also when TxSequences have wrapped around; findLostLpPackets
\* would otherwise not end, or count an Ack against later fragments.
WindowStart ==
    LET out == DOMAIN snd.unackedFrags
    IN  IF out = {} THEN snd.firstUnackedFrag = None
        ELSE /\ snd.firstUnackedFrag \in out
             /\ \A t \in out : Age(snd, t) <= Age(snd, snd.firstUnackedFrag)

\* The list of each NetPkt and the map m_unackedFrags agree, as the assertions of
\* onLpPacketLost and onLpPacketAcknowledged require: the iterators are valid, and
\* no fragment is missing or there under two TxSequences.
ListsInStep ==
    \A p \in Packets :
        /\ snd.netPkt[p] = {t \in DOMAIN snd.unackedFrags : snd.unackedFrags[t].frag[1] = p}
        /\ \A t, u \in snd.netPkt[p] : snd.unackedFrags[t].frag = snd.unackedFrags[u].frag => t = u

\* A packet is counted once, in nAcknowledged, nRetransmitted or nRetxExhausted,
\* which is when no fragment of it is left to wait for.  So the strategy is told of
\* a dropped Interest at most once, and of none that was acknowledged.
CountedOnce ==
    \A p \in Packets :
        Len(snd.settled[p]) = IF p \in snd.sent /\ snd.netPkt[p] = {} THEN 1 ELSE 0

\* processIncomingPacket lets a packet be handed up again only after all of its
\* Sequences were erased from m_recentRecvSeqs, however often it was retransmitted.
OnceUnlessForgotten ==
    \A p \in Packets : delivered[p] > 1 => \A i \in 0 .. FragCount[p] - 1 : <<p, i>> \in forgotten

\* Every fragment that has arrived is remembered or has been forgotten.
Arrived(p) == \A i \in 0 .. FragCount[p] - 1 : <<p, i>> \in Range(recent) \cup forgotten

StatusOf(p) == IF p \notin snd.sent THEN "unsent"
               ELSE IF snd.settled[p] = <<>> THEN "pending" ELSE snd.settled[p][1]
Channel == INSTANCE PacketChannel WITH
    status <- [p \in Packets |-> StatusOf(p)],
    arrived <- {p \in Packets : Arrived(p)}

\* A link with reliability does what PacketChannel promises: what is counted as
\* acknowledged or retransmitted has arrived, and each packet is settled.
RefinesChannel == Channel!Spec
=============================================================================
