------------------------------ MODULE RibTable ------------------------------
(* The routing information base: daemon/rib/rib.cpp and rib-entry.cpp.  A    *)
(* RIB entry exists while its name has routes, so the table is a function    *)
(* from names to lists of routes, and the tree of entries (parent, children) *)
(* is the prefix order of the names that have some.                          *)
EXTENDS Integers, Sequences, FiniteSets

CONSTANTS
    Names,     \* name prefixes, as sequences of components
    Faces,
    Origins,
    Costs,
    None       \* no cost: there is no such route or next hop

ASSUME RibAssumption == /\ Names \subseteq Seq(STRING)
                        /\ Costs \subseteq Nat \ {0}
                        /\ None \notin Nat

VARIABLES
    routes,       \* m_routes of each entry, in the order of the list
    nCapture,     \* m_nRoutesWithCaptureSet, unsigned in the code
    inherited,    \* the faces in m_inheritedRoutes of each entry
    faceEntries   \* how often m_faceEntries pairs a face with an entry

ribVars == <<routes, nCapture, inherited, faceEntries>>

Route == [face : Faces, origin : Origins, cost : Costs, inherit : BOOLEAN, capture : BOOLEAN]

RibTypeOK ==
    /\ routes \in [Names -> Seq(Route)]
    /\ nCapture \in [Names -> Int]
    /\ inherited \in [Names -> SUBSET Faces]
    /\ faceEntries \in [Names -> [Faces -> Nat]]

RibInit ==
    /\ routes = [n \in Names |-> <<>>]
    /\ nCapture = [n \in Names |-> 0]
    /\ inherited = [n \in Names |-> {}]
    /\ faceEntries = [n \in Names |-> [f \in Faces |-> 0]]

-----------------------------------------------------------------------------
(* Sequences.  Written out here: each operator of a module that is extended   *)
(* is a part of every obligation of the proofs.                               *)

Min(S) == CHOOSE x \in S : \A y \in S : x <= y
IsPrefix(s, t) == Len(s) <= Len(t) /\ SubSeq(t, 1, Len(s)) = s
IsStrictPrefix(s, t) == IsPrefix(s, t) /\ s # t
RemoveAt(s, i) == SubSeq(s, 1, i - 1) \o SubSeq(s, i + 1, Len(s))

\* The first element that passes the test, 0 if none does.
SelectInSeq(s, Test(_)) ==
    LET I == {i \in 1 .. Len(s) : Test(s[i])} IN IF I # {} THEN Min(I) ELSE 0

\* The orders of the elements of a finite set.
SetToSeqs(S) ==
    LET D == 1 .. Cardinality(S)
    IN  {f \in [D -> S] : \A i, j \in D : i # j => f[i] # f[j]}

-----------------------------------------------------------------------------
(* RibEntry: queries on a list of routes.                                    *)

SameRoute(r, q) == r.face = q.face /\ r.origin = q.origin

\* The route of the list with q's face and origin.
findRoute(list, q) == SelectInSeq(list, LAMBDA r : SameRoute(r, q))

hasFaceId(list, f) == \E i \in DOMAIN list : list[i].face = f

hasChildInheritOnFaceId(list, f) == \E i \in DOMAIN list : list[i].face = f /\ list[i].inherit

LowestCost(costs) == IF costs = {} THEN None ELSE Min(costs)

\* Only the cost of the routes these two functions return is used.
getRouteWithLowestCostByFaceId(list, f) ==
    LowestCost({list[i].cost : i \in {i \in DOMAIN list : list[i].face = f}})

getRouteWithLowestCostAndChildInheritByFaceId(list, f) ==
    LowestCost({list[i].cost : i \in {i \in DOMAIN list : list[i].face = f /\ list[i].inherit}})

\* What may come second when the routes of a face are sorted by cost; equal
\* costs leave the choice to std::nth_element.
getRouteWithSecondLowestCostByFaceId(list, f) ==
    LET matches == {i \in DOMAIN list : list[i].face = f}
        Below(i) == {j \in matches : list[j].cost < list[i].cost}
        Upto(i) == {j \in matches : list[j].cost <= list[i].cost}
    IN  {list[i] : i \in {i \in matches : Cardinality(Below(i)) <= 1 /\ Cardinality(Upto(i)) > 1}}

\* m_nRoutesWithCaptureSet > 0, for an unsigned count
Captures(count) == count # 0
hasCapture(n) == Captures(nCapture[n])

-----------------------------------------------------------------------------
(* Rib: the tree and what it hands down.                                     *)

Entries == {n \in Names : routes[n] # <<>>}
Ancestors(n) == {a \in Entries : IsStrictPrefix(a, n)}
Descendants(n) == {d \in Entries : IsStrictPrefix(n, d)}

\* A RouteSet is ordered by face alone: it has at most one route of a face,
\* and of a route only the cost matters.
NoRoutes == [f \in Faces |-> None]
Only(r) == [NoRoutes EXCEPT ![r.face] = r.cost]

\* A bug would be to go on past an entry that captures.
VisitedAll(n) == Ancestors(n)

\* The walk from the parent upwards ends at the first entry that captures.
Visited(n) == {a \in Ancestors(n) :
                \A m \in Ancestors(n) : IsStrictPrefix(a, m) => ~ hasCapture(m)}

\* std::set::insert keeps the first route of a face that it is given.
getAncestorRoutes(n) ==
    [f \in Faces |->
        LET offers == {a \in Visited(n) : hasChildInheritOnFaceId(routes[a], f)}
        IN  IF offers = {} THEN None
            ELSE LET a == CHOOSE a \in offers : \A b \in offers : Len(b) <= Len(a)
                 IN  routes[a][SelectInSeq(routes[a], LAMBDA r : r.face = f /\ r.inherit)].cost]

CaptureBit(r) == IF r.capture THEN 1 ELSE 0

\* m_faceEntries.emplace, for a new route.  A bug would be to do it for a new
\* entry only.
emplaceFirst(n, f) == IF routes[n] = <<>> THEN [faceEntries EXCEPT ![n][f] = @ + 1] ELSE faceEntries
emplace(n, f) == [faceEntries EXCEPT ![n][f] = @ + 1]

\* A route that exists is replaced; the count of captures is not revised.
insert(n, r) ==
    LET i == findRoute(routes[n], r)
    IN  IF i = 0
        THEN /\ routes' = [routes EXCEPT ![n] = Append(@, r)]
             /\ nCapture' = [nCapture EXCEPT ![n] = @ + CaptureBit(r)]
             /\ faceEntries' = emplace(n, r.face)
        ELSE /\ routes' = [routes EXCEPT ![n][i] = r]
             /\ UNCHANGED <<nCapture, faceEntries>>

\* The rows of the face table for an entry that has lost a route of face f.
RowsLeft(rows, left, f) ==
    IF left = <<>> THEN [g \in Faces |-> 0]
    ELSE IF hasFaceId(left, f) THEN rows ELSE [rows EXCEPT ![f] = @ - 1]

\* eraseRoute and, after the last route, eraseEntry.  Rows of the face table
\* that still point to an erased entry find no routes there and are dropped.
erase(n, q) ==
    LET i == findRoute(routes[n], q)
        left == RemoveAt(routes[n], i)
    IN  IF i = 0 THEN UNCHANGED <<routes, nCapture, faceEntries>>
        ELSE /\ routes' = [routes EXCEPT ![n] = left]
             /\ nCapture' = [nCapture EXCEPT
                                ![n] = IF left = <<>> THEN 0 ELSE @ - CaptureBit(routes[n][i])]
             /\ faceEntries' = [faceEntries EXCEPT ![n] = RowsLeft(@, left, q.face)]
=============================================================================
