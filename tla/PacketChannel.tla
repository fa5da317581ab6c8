--------------------------- MODULE PacketChannel ----------------------------
(* What a link with NDNLPv2 reliability promises of the network packets that  *)
(* are sent over it.  A packet is pending until the sender settles it, once:  *)
(* as acknowledged (with or without retransmission), which it may do only     *)
(* when all of the packet has arrived, or as given up.  The receiver hands up *)
(* only packets that have arrived.  Every packet is settled in the end.       *)
EXTENDS Integers

CONSTANT Packets

VARIABLES
    status,     \* "unsent", "pending", or how the packet was settled
    arrived,    \* the packets of which everything has arrived
    delivered   \* how often a packet was handed up: 0, 1, or 2 for more

channelVars == <<status, arrived, delivered>>

Success == {"acknowledged", "retransmitted"}

Init ==
    /\ status = [p \in Packets |-> "unsent"]
    /\ arrived = {}
    /\ delivered = [p \in Packets |-> 0]

Send(p) ==
    /\ status[p] = "unsent"
    /\ status' = [status EXCEPT ![p] = "pending"]
    /\ UNCHANGED <<arrived, delivered>>

Receive(p) ==
    /\ status[p] # "unsent"
    /\ arrived' \in {arrived, arrived \cup {p}}
    /\ \/ UNCHANGED delivered
       \/ /\ p \in arrived'
          /\ \E n \in {1, 2} : n >= delivered[p] /\ delivered' = [delivered EXCEPT ![p] = n]
    /\ UNCHANGED status

\* One message may settle several packets.
Settle ==
    /\ status' \in [Packets -> {"unsent", "pending", "exhausted"} \cup Success]
    /\ \A p \in Packets : status'[p] # status[p] =>
            /\ status[p] = "pending"
            /\ status'[p] \in Success => p \in arrived
            /\ status'[p] # "unsent"
    /\ UNCHANGED <<arrived, delivered>>

Next == (\E p \in Packets : Send(p) \/ Receive(p)) \/ Settle

\* A pending packet does not stay pending.
Spec == /\ Init /\ [][Next]_channelVars
        /\ \A p \in Packets : []<>(status[p] # "pending")
=============================================================================
