--------------------------- MODULE PacketDispatch ---------------------------
(* From the faces to the workers: dcnReceivePacket and dissectNdnPacket     *)
(* (daemon/mw-nfd/mw-nfd-global.cpp) put every packet in a queue to one     *)
(* worker, runWorker (mw-nfd-worker.cpp) takes it out, and the PIT of that  *)
(* worker, and no other, is searched.  Interests go by the hash of their    *)
(* name; the worker writes its own number in the PIT token of the Interests *)
(* it sends; Data goes by the token when the upstream returned it and by    *)
(* the hash of the Data name otherwise; a Nack carries its Interest and     *)
(* goes by name.  What a worker does with the packet is in Forwarder; here  *)
(* it only creates and removes PIT entries.                                 *)
EXTENDS WorkerDispatch, Integers

CONSTANTS
    Inputs,         \* input threads, each with its own queues
    InterestNames,  \* names applications ask for
    DataNames,      \* names of the Data that exist
    QueueLength     \* capacity of a queue; try_enqueue fails beyond it

ASSUME PacketAssumption ==
    /\ InterestNames \subseteq Name
    /\ DataNames \subseteq Name
    /\ QueueLength \in Nat

VARIABLES
    interestQ,  \* g_dcnMoodyMQ[iw][worker]
    dataQ,      \* g_dcnMoodyMQ[iw + 1][worker]: everything but Interests
    pit,        \* the PIT entries of each worker
    asked       \* Interests the upstreams have received, with their token

packetVars == <<interestQ, dataQ, pit, asked>>

Key == [name : InterestNames, canBePrefix : BOOLEAN]

NoToken == -1

\* `key' of a Nack or Data is the Interest the upstream answers.  For Data
\* with a token it also stands for the token's hash of the Interest name.
InterestPacket == [type : {"interest", "nack"}, key : Key]
DataPacket == [name : DataNames, key : Key, token : Workers \cup {NoToken}]

PacketTypeOK ==
    /\ interestQ \in [Inputs -> [Workers -> Seq(InterestPacket)]]
    /\ dataQ \in [Inputs -> [Workers -> Seq(DataPacket)]]
    /\ pit \in [Workers -> SUBSET Key]
    /\ asked \subseteq [key : Key, token : Workers]

PacketInit ==
    /\ interestQ = [i \in Inputs |-> [w \in Workers |-> <<>>]]
    /\ dataQ = [i \in Inputs |-> [w \in Workers |-> <<>>]]
    /\ pit = [w \in Workers |-> {}]
    /\ asked = {}

-----------------------------------------------------------------------------
\* Name::isPrefixOf or equality, as CanBePrefix asks for.
Matches(k, d) == IF k.canBePrefix THEN IsPrefixOf(k.name, d) ELSE k.name = d

\* A bug would be to let the Name, which is read after the token, win.
DataWorkerByName(p) == computeWorkerId(p.name)

\* dissectNdnPacket: the token of a packet that is not an Interest replaces
\* what its name gave.
DataWorker(p) ==
    IF p.token # NoToken THEN p.token ELSE computeWorkerId(p.name)

InterestWorker(p) == computeWorkerId(p.key.name)

Enqueued(q, i, w, p) ==
    IF w \in Workers /\ Len(q[i][w]) < QueueLength
    THEN [q EXCEPT ![i][w] = Append(@, p)]
    ELSE q

\* dcnReceivePacket.  A packet for the main forwarder does not enter a queue
\* and one that meets a full queue is lost.
receiveInterest(i, k) ==
    LET p == [type |-> "interest", key |-> k]
    IN  /\ interestQ' = Enqueued(interestQ, i, InterestWorker(p), p)
        /\ UNCHANGED <<dataQ, pit, asked>>

receiveNack(i, a) ==
    LET p == [type |-> "nack", key |-> a.key]
    IN  /\ interestQ' = Enqueued(interestQ, i, InterestWorker(p), p)
        /\ UNCHANGED <<dataQ, pit, asked>>

\* The upstream answers any Interest it has received, again if it likes, and
\* with the token or, if it does not know tokens, without.
Answers(a) ==
    {[name |-> d, key |-> a.key, token |-> t] :
        d \in {n \in DataNames : Matches(a.key, n)}, t \in {a.token, NoToken}}

receiveData(i, p) ==
    /\ dataQ' = Enqueued(dataQ, i, DataWorker(p), p)
    /\ UNCHANGED <<interestQ, pit, asked>>

-----------------------------------------------------------------------------
\* A bug would be to count the workers from one here.
TokenFromOne(w, k) == [key |-> k, token |-> w + 1]

\* Strategy::sendInterest writes the number of the worker that holds the
\* entry in the token.
TokenOf(w, k) == [key |-> k, token |-> w]

\* runWorker takes an Interest: onIncomingInterest inserts the entry and
\* sends the Interest on, if the Content Store, loop detection and the
\* strategy let it; a Nack removes the entry if it was the last one awaited.
takeInterest(i, w) ==
    /\ interestQ[i][w] # <<>>
    /\ interestQ' = [interestQ EXCEPT ![i][w] = Tail(@)]
    /\ LET p == Head(interestQ[i][w]) IN
        IF p.type = "nack"
        THEN /\ pit' \in {pit, [pit EXCEPT ![w] = @ \ {p.key}]}
             /\ UNCHANGED asked
        ELSE \/ /\ pit' = [pit EXCEPT ![w] = @ \cup {p.key}]
                /\ asked' \in {asked, asked \cup {TokenOf(w, p.key)}}
             \/ UNCHANGED <<pit, asked>>
    /\ UNCHANGED dataQ

\* Pit::findAllDataMatches, or with a token the entries of the name whose
\* hash the token holds.
DataMatches(w, p) ==
    {k \in pit[w] : /\ Matches(k, p.name)
                    /\ p.token # NoToken => k.name = p.key.name}

takeData(i, w) ==
    /\ dataQ[i][w] # <<>>
    /\ dataQ' = [dataQ EXCEPT ![i][w] = Tail(@)]
    /\ pit' = [pit EXCEPT ![w] = @ \ DataMatches(w, Head(dataQ[i][w]))]
    /\ UNCHANGED <<interestQ, asked>>

\* onInterestFinalize of an entry whose timer has fired.
expire(w, k) ==
    /\ k \in pit[w]
    /\ pit' = [pit EXCEPT ![w] = @ \ {k}]
    /\ UNCHANGED <<interestQ, dataQ, asked>>

PacketNext ==
    \/ \E i \in Inputs :
        \/ \E k \in Key : receiveInterest(i, k)
        \/ \E a \in asked : receiveNack(i, a)
        \/ \E a \in asked : \E p \in Answers(a) : receiveData(i, p)
        \/ \E w \in Workers : takeInterest(i, w) \/ takeData(i, w)
    \/ \E w \in Workers : \E k \in pit[w] : expire(w, k)

PacketSpec == PacketInit /\ [][PacketNext]_packetVars

-----------------------------------------------------------------------------
\* The worker that holds the entry of an answered Interest, if any, is w.
AtHome(k, w) == \A v \in Workers : k \in pit[v] => v = w

\* The configuration file asks that prefix-length-for-distribution be no
\* larger than the names applications match by prefix; Data without a token
\* is only promised to find its Interest then.
Promised(p) ==
    \/ p.token # NoToken
    \/ ~ p.key.canBePrefix
    \/ Len(p.key.name) >= PrefixLength

\* dissectNdnPacket gives every Data packet an upstream may send, and every
\* Nack, to the worker that holds the PIT entry of its Interest, and the entry
\* is in no other worker, whatever was retransmitted, answered twice, nacked
\* or expired in between; so do the Data and Nacks that wait in the queues.
AnswersGoHome ==
    /\ \A a \in asked :
        /\ AtHome(a.key, computeWorkerId(a.key.name))
        /\ \A p \in Answers(a) : Promised(p) => AtHome(p.key, DataWorker(p))
    /\ \A i \in Inputs, w \in Workers :
        /\ \A j \in 1 .. Len(interestQ[i][w]) : AtHome(interestQ[i][w][j].key, w)
        /\ \A j \in 1 .. Len(dataQ[i][w]) :
            Promised(dataQ[i][w][j]) => AtHome(dataQ[i][w][j].key, w)
=============================================================================
