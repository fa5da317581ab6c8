-------------------------- MODULE FragmentDispatch --------------------------
(* Fragments of one network packet must meet in one worker, since every     *)
(* worker reassembles with the LpReassembler of its own link services.      *)
(* Only the first fragment has the Name and the PIT token, so               *)
(* dissectNdnPacket (daemon/mw-nfd/mw-nfd-global.cpp) keeps the worker of   *)
(* the first fragment in g_fragmentMap, a map the input threads share and   *)
(* whose key is Sequence - FragIndex.  The sequence numbers are those that  *)
(* GenericLinkService::assignSequences gave at the peer of the face.        *)
(* Fragments of one packet arrive in order, may be lost, and interleave     *)
(* with those of other packets; link reliability is off, as README.md says  *)
(* it is not supported, so only fragmented packets have a Sequence.         *)
EXTENDS ForwardingWorkers, FiniteSets

CONSTANTS
    Faces,
    FragCounts,   \* into how many fragments a packet may be cut
    StartSeq,     \* m_lastSeqNo of the peer of each face
    MaxPackets    \* bound: fragmented packets sent by all peers

ASSUME FragmentAssumption ==
    /\ NWorkers \in Nat \ {0}
    /\ FragCounts \subseteq Nat \ {0, 1}
    /\ StartSeq \in [Faces -> Nat]
    /\ MaxPackets \in Nat

\* No two peers get to the same numbers with packets of up to M fragments.
NumbersApart(M) ==
    /\ M \in Nat /\ FragCounts \subseteq 0 .. M
    /\ \A f, g \in Faces : f # g =>
        \/ StartSeq[f] + MaxPackets * M <= StartSeq[g]
        \/ StartSeq[g] + MaxPackets * M <= StartSeq[f]

VARIABLES
    lastSeqNo,    \* m_lastSeqNo of the peers
    packets,      \* the packets sent, and how far their fragments have come
    fragmentMap   \* g_fragmentMap, as a set of pairs with distinct ids

fragmentVars == <<lastSeqNo, packets, fragmentMap>>

\* home is the worker the PIT token of the first fragment names, for Data
\* that has one, and the worker of the name otherwise (the main forwarder
\* counts as a worker here); went collects where the fragments have gone.
Packet == [face : Faces, id : Nat, count : FragCounts, token : BOOLEAN, home : Workers,
           next : Nat, lost : BOOLEAN, went : SUBSET Workers]

FragmentTypeOK ==
    /\ lastSeqNo \in [Faces -> Nat]
    /\ packets \subseteq Packet
    /\ \A m \in packets : m.next <= m.count
    /\ fragmentMap \subseteq [id : Nat, worker : Workers]
    /\ \A e, f \in fragmentMap : e.id = f.id => e = f

FragmentInit ==
    /\ lastSeqNo = StartSeq
    /\ packets = {}
    /\ fragmentMap = {}

-----------------------------------------------------------------------------
\* sendNetPacket at the peer: one fetch_add takes a block of numbers, so
\* threads that send at the same time get different blocks.
sendNetPacket(f, c, token, home) ==
    /\ Cardinality(packets) < MaxPackets
    /\ lastSeqNo' = [lastSeqNo EXCEPT ![f] = @ + c]
    /\ packets' = packets \cup
        {[face |-> f, id |-> lastSeqNo[f], count |-> c, token |-> token, home |-> home,
          next |-> 0, lost |-> FALSE, went |-> {}]}
    /\ UNCHANGED fragmentMap

\* The network loses the next fragment.
lose(m) ==
    /\ m.next < m.count
    /\ packets' = (packets \ {m}) \cup {[m EXCEPT !.next = @ + 1, !.lost = TRUE]}
    /\ UNCHANGED <<lastSeqNo, fragmentMap>>

\* std::map::insert does nothing when the key is present.
Inserted(id, w) ==
    IF \E e \in fragmentMap : e.id = id THEN fragmentMap
    ELSE fragmentMap \cup {[id |-> id, worker |-> w]}

\* find(id)->second; what a read past the end of the map gives is undefined,
\* and a value that is no worker's number loses the packet.
Found(id) ==
    IF \E e \in fragmentMap : e.id = id
    THEN {{e.worker} : e \in {e \in fragmentMap : e.id = id}}
    ELSE {{w} : w \in Workers} \cup {{}}

\* Bugs would be never to forget the entry, or to forget it one fragment early.
ErasedNever(m) == fragmentMap
ErasedEarly(m) ==
    IF m.next = m.count - 2 \/ m.next = m.count - 1
    THEN {e \in fragmentMap : e.id # m.id} ELSE fragmentMap

\* The last fragment erases the entry.
Erased(m) ==
    IF m.next = m.count - 1 THEN {e \in fragmentMap : e.id # m.id} ELSE fragmentMap

\* dissectNdnPacket of the next fragment.  A first fragment goes where its
\* token or its name says and leaves the worker in the map.
dissectFirst(m) ==
    /\ m.next = 0
    /\ packets' = (packets \ {m}) \cup {[m EXCEPT !.next = 1, !.went = {m.home}]}
    /\ fragmentMap' = Inserted(m.id, m.home)
    /\ UNCHANGED lastSeqNo

\* A bug would be to count fragments from one.
dissectLaterPast(m) ==
    /\ m.next \in 1 .. m.count
    /\ packets' = (packets \ {m}) \cup {[m EXCEPT !.next = @ + 1]}
    /\ fragmentMap' = Erased(m)
    /\ UNCHANGED lastSeqNo

\* A later fragment goes where the map says.
dissectLater(m) ==
    /\ m.next \in 1 .. m.count - 1
    /\ \E w \in Found(m.id) :
        packets' = (packets \ {m}) \cup {[m EXCEPT !.next = @ + 1, !.went = @ \cup w]}
    /\ fragmentMap' = Erased(m)
    /\ UNCHANGED lastSeqNo

FragmentNext ==
    \/ \E f \in Faces, c \in FragCounts, token \in BOOLEAN, home \in Workers :
        sendNetPacket(f, c, token, home)
    \/ \E m \in packets : lose(m) \/ dissectFirst(m) \/ dissectLater(m)

FragmentSpec == FragmentInit /\ [][FragmentNext]_fragmentVars

-----------------------------------------------------------------------------
\* All fragments of a packet of which none is lost go to the worker of its
\* PIT token or name, so that its LpReassembler gets all of them, however the
\* fragments of other packets interleave and are lost.
FragmentsGoHome ==
    \A m \in packets : ~ m.lost => m.went \subseteq {m.home}

\* g_fragmentMap only keeps entries of packets that are still arriving or
\* that have lost a fragment.
MapForgets ==
    \A e \in fragmentMap : \E m \in packets :
        m.id = e.id /\ (m.lost \/ m.next < m.count)
=============================================================================
