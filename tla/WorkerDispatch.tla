--------------------------- MODULE WorkerDispatch ---------------------------
(* How a name selects a forwarding worker.  Input threads, the FIB command  *)
(* handler of a worker and the Data path all use computeWorkerId            *)
(* (daemon/mw-nfd/mw-nfd-global.cpp).  A name is a sequence of components;  *)
(* its wire encoding only matters through CityHash64 of the first           *)
(* PrefixLength components and through the nine-byte comparison with        *)
(* "localhost", which any component beginning with those bytes satisfies.   *)
EXTENDS ForwardingWorkers, Sequences

CONSTANTS
    Component,      \* name components
    LocalhostLike,  \* the components whose bytes begin with "localhost"
    PrefixLength,   \* g_prefixLength4Distribution
    CityHash64      \* the hash of each name prefix of that length

ASSUME WorkerAssumption ==
    /\ NWorkers \in 1 .. 64
    /\ PrefixLength \in Nat \ {0}
    /\ LocalhostLike \subseteq Component

ASSUME HashAssumption ==
    CityHash64 \in [[1 .. PrefixLength -> Component] -> Nat]

Name == Seq(Component)

\* DCN_LOCALHOST_PREFIX: the packet stays with the thread that received it,
\* whose forwarder is the one the main thread built.
MainForwarder == 65535

IsPrefixOf(p, n) == /\ Len(p) <= Len(n)
                    /\ \A i \in 1 .. Len(p) : p[i] = n[i]

DistributionPrefix(n) == [i \in 1 .. PrefixLength |-> n[i]]

\* memcmp(pos, "localhost", 9) on each component the loop visits: it stops
\* after PrefixLength components or at the end of the name.
VisitsLocalhost(n) ==
    \E i \in 1 .. Len(n) : i <= PrefixLength /\ n[i] \in LocalhostLike

computeWorkerId(n) ==
    IF VisitsLocalhost(n) THEN MainForwarder
    ELSE IF Len(n) < PrefixLength THEN 0
    ELSE CityHash64[DistributionPrefix(n)] % NWorkers
=============================================================================
