---------------------------- MODULE MCForwarder ----------------------------
(* Small instances of Forwarder.                                             *)
EXTENDS Forwarder, TLC

CONSTANTS d1, d2, u1, u2   \* faces: two downstreams, two upstreams
CONSTANTS n1, n2           \* nonces

\* The downstreams are alike, and so are the nonces.
Alike == Permutations({d1, d2}) \cup Permutations(Nonces)

A == <<"a">>
AB == <<"a", "b">>
Hop == <<"localhop", "b">>
Host == <<"localhost", "b">>

Key(n, p, m) == [name |-> n, canBePrefix |-> p, mustBeFresh |-> m]
Packet(n, f) == [name |-> n, freshness |-> f]

\* One name, two downstreams, two upstreams
OneKey == {Key(AB, FALSE, FALSE)}
OneData == {Packet(AB, 0)}
BothUpstreams == [n \in {AB} |-> <<u1, u2>>]

\* Several entries that one Data may satisfy
TwoKeys == {Key(A, TRUE, FALSE), Key(AB, FALSE, TRUE)}
FreshData == {Packet(AB, 1)}
OneUpstream == [n \in {A, AB} |-> <<u1>>]
LongerName == {AB}

\* Scoped names; the upstream asks, too
ScopedKeys == {Key(Hop, FALSE, FALSE), Key(Host, FALSE, FALSE)}
ScopedData == {Packet(Hop, 0), Packet(Host, 0)}
EveryoneIsNextHop == [n \in {Hop, Host} |-> <<u1, d1, d2>>]
=============================================================================
