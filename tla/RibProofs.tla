------------------------------ MODULE RibProofs ------------------------------
(* What holds of the RIB for any names, faces and routes, whatever FIB        *)
(* commands are lost or rejected and whichever faces go: every route is found *)
(* by its face, and inherited routes are recorded only for names that have an *)
(* entry.  In tame runs a batch also never meets the commands of another.     *)
EXTENDS Rib, FiniteSetTheorems, WellFoundedInduction, TLAPS

------------------------------------------------------------------------------
(* Numbers and lists.                                                         *)

LEMMA LeastNumber ==
    ASSUME NEW S, S \subseteq Nat, S # {}
    PROVE  \E x \in S : \A y \in S : x <= y
<1> DEFINE R == {p \in Nat \X Nat : p[1] < p[2]}
<1>1. IsWellFoundedOn(R, Nat)  BY NatLessThanWellFounded DEF OpToRel
<1> HIDE DEF R
<1>2. PICK x \in S : \A y \in S : ~ (<<y, x>> \in R)  BY <1>1, WFMin, Zenon
<1>3. ASSUME NEW y \in S PROVE x <= y
  <2>1. x \in Nat /\ y \in Nat /\ <<y, x>> \notin R  BY <1>2
  <2>2. ~ (y < x)  BY <2>1 DEF R
  <2> QED BY <2>1, <2>2
<1> QED BY <1>3

LEMMA MinIn ==
    ASSUME NEW S, S \subseteq Nat, S # {}
    PROVE  Min(S) \in S
<1>1. \E x \in S : \A y \in S : x <= y  BY LeastNumber, Zenon
<1> QED BY <1>1, Zenon DEF Min

\* Of numbers up to m there is a greatest one.
LEMMA GreatestNumber ==
    ASSUME NEW m \in Nat, NEW S, S \subseteq 0 .. m, S # {}
    PROVE  \E x \in S : \A y \in S : y <= x
<1> DEFINE T == {m - y : y \in S}
<1>0. \A y \in S : m - y \in Nat  OBVIOUS
<1>1. T \subseteq Nat /\ T # {}  BY <1>0, Zenon
<1> HIDE DEF T
<1>2. PICK t \in T : \A u \in T : t <= u  BY <1>1, LeastNumber, Zenon
<1> USE DEF T
<1>3. PICK x \in S : t = m - x  OBVIOUS
<1>4. ASSUME NEW y \in S PROVE y <= x
  <2>1. t <= m - y  BY <1>2
  <2>2. x \in Int /\ y \in Int  OBVIOUS
  <2> HIDE DEF T
  <2> QED BY <1>3, <2>1, <2>2
<1> QED BY <1>4

\* RibEntry::findRoute
LEMMA FoundRoute ==
    ASSUME NEW D, NEW list \in Seq(D), NEW q
    PROVE  LET i == findRoute(list, q)
           IN  \/ i = 0 /\ \A j \in 1 .. Len(list) : ~ SameRoute(list[j], q)
               \/ i \in 1 .. Len(list) /\ SameRoute(list[i], q)
<1> DEFINE I == {j \in 1 .. Len(list) : SameRoute(list[j], q)}
<1>1. findRoute(list, q) = IF I # {} THEN Min(I) ELSE 0  BY DEF findRoute, SelectInSeq
<1>2. I \subseteq Nat  OBVIOUS
<1>3. CASE I = {}  BY <1>1, <1>3
<1>4. CASE I # {}
  <2>1. Min(I) \in I
    <3> HIDE DEF I
    <3> QED BY <1>2, <1>4, MinIn, Zenon
  <2> QED BY <1>1, <1>4, <2>1
<1> QED BY <1>3, <1>4

\* A list without its i-th element
LEMMA Removed ==
    ASSUME NEW D, NEW s \in Seq(D), NEW i \in 1 .. Len(s)
    PROVE  /\ RemoveAt(s, i) \in Seq(D)
           /\ \A j \in 1 .. Len(RemoveAt(s, i)) : \E k \in 1 .. Len(s) : RemoveAt(s, i)[j] = s[k]
<1> DEFINE a == SubSeq(s, 1, i - 1)
           b == SubSeq(s, i + 1, Len(s))
<1>1. Len(s) \in Nat /\ i \in Nat /\ i >= 1 /\ i <= Len(s)  OBVIOUS
<1>2. a \in Seq(D) /\ Len(a) = i - 1 /\ \A j \in 1 .. i - 1 : a[j] = s[j]  BY <1>1
<1>3. b \in Seq(D) /\ Len(b) = Len(s) - i /\ \A j \in 1 .. Len(s) - i : b[j] = s[i + j]  BY <1>1
<1>4. RemoveAt(s, i) = a \o b  BY DEF RemoveAt
<1> HIDE DEF a, b
<1>5. a \o b \in Seq(D) /\ Len(a \o b) = Len(s) - 1
  <2>0. a \in Seq(D) /\ b \in Seq(D)  BY <1>2, <1>3
  <2>1. a \o b \in Seq(D)  BY <2>0
  <2>2. Len(a \o b) = Len(a) + Len(b)  BY <2>0
  <2> QED BY <1>1, <1>2, <1>3, <2>1, <2>2
<1>6. ASSUME NEW j \in 1 .. Len(s) - 1 PROVE \E k \in 1 .. Len(s) : (a \o b)[j] = s[k]
  <2>1. CASE j <= i - 1
    <3>1. (a \o b)[j] = s[j]  BY <1>1, <1>2, <1>3, <2>1
    <3> QED BY <1>1, <3>1
  <2>2. CASE j > i - 1
    <3>1. j - (i - 1) \in 1 .. Len(s) - i /\ i + (j - (i - 1)) = j + 1  BY <1>1, <2>2
    <3>2. (a \o b)[j] = b[j - (i - 1)]  BY <1>1, <1>2, <1>3, <2>2
    <3>3. (a \o b)[j] = s[j + 1]  BY <1>3, <3>1, <3>2, Zenon
    <3> QED BY <1>1, <3>3
  <2>3. j <= i - 1 \/ j > i - 1  BY <1>1
  <2> QED BY <2>1, <2>2, <2>3, Zenon
<1> QED BY <1>4, <1>5, <1>6, Zenon

------------------------------------------------------------------------------
(* Costs of routes, and what is handed down.                                  *)

RouteSet == [Faces -> Costs \cup {None}]

LEMMA CostIn ==
    ASSUME NEW S, S \subseteq Costs
    PROVE  LowestCost(S) \in Costs \cup {None}
<1>1. S \subseteq Nat  BY RibAssumption
<1> QED BY <1>1, MinIn, Zenon DEF LowestCost

LEMMA LowestCosts ==
    ASSUME NEW list \in Seq(Route), NEW f
    PROVE  /\ getRouteWithLowestCostByFaceId(list, f) \in Costs \cup {None}
           /\ getRouteWithLowestCostAndChildInheritByFaceId(list, f) \in Costs \cup {None}
<1>0. \A i \in DOMAIN list : list[i] \in Route  OBVIOUS
<1>1. \A i \in DOMAIN list : list[i].cost \in Costs  BY <1>0 DEF Route
<1>2. {list[i].cost : i \in {i \in DOMAIN list : list[i].face = f}} \subseteq Costs  BY <1>1
<1>3. {list[i].cost : i \in {i \in DOMAIN list : list[i].face = f /\ list[i].inherit}} \subseteq Costs
  BY <1>1
<1> QED BY <1>2, <1>3, CostIn DEF getRouteWithLowestCostByFaceId,
        getRouteWithLowestCostAndChildInheritByFaceId

LEMMA NoRoutesType == NoRoutes \in RouteSet
BY DEF NoRoutes, RouteSet

LEMMA OnlyType ==
    ASSUME NEW r, r.face \in Faces, r.cost \in Costs
    PROVE  Only(r) \in RouteSet
BY DEF Only, NoRoutes, RouteSet

\* Rib::getAncestorRoutes: the walk upwards meets a nearest entry.
LEMMA AncestorRoutesType ==
    ASSUME RibTypeOK, NEW n \in Names
    PROVE  getAncestorRoutes(n) \in RouteSet
<1> SUFFICES ASSUME NEW f \in Faces
             PROVE  LET offers == {a \in Visited(n) : hasChildInheritOnFaceId(routes[a], f)}
                    IN  offers # {} =>
                        LET a == CHOOSE a \in offers : \A b \in offers : Len(b) <= Len(a)
                        IN  routes[a][SelectInSeq(routes[a], LAMBDA r : r.face = f /\ r.inherit)].cost
                                \in Costs
  BY Zenon DEF getAncestorRoutes, RouteSet
<1> DEFINE offers == {a \in Visited(n) : hasChildInheritOnFaceId(routes[a], f)}
           nearest == CHOOSE a \in offers : \A b \in offers : Len(b) <= Len(a)
<1>1. SUFFICES ASSUME offers # {}
               PROVE  routes[nearest][SelectInSeq(routes[nearest],
                                                  LAMBDA r : r.face = f /\ r.inherit)].cost \in Costs
  OBVIOUS
<1>2. ASSUME NEW a \in offers PROVE a \in Names /\ Len(a) \in 0 .. Len(n)
  <2>1. a \in Names /\ IsStrictPrefix(a, n)  BY DEF Visited, Ancestors, Entries
  <2>2. Len(a) \in Nat /\ Len(n) \in Nat  BY <2>1, RibAssumption
  <2> QED BY <2>1, <2>2 DEF IsStrictPrefix, IsPrefix
<1>3. \E a \in offers : \A b \in offers : Len(b) <= Len(a)
  <2> DEFINE L == {Len(a) : a \in offers}
  <2> HIDE DEF offers
  <2>1. L \subseteq 0 .. Len(n) /\ L # {} /\ Len(n) \in Nat  BY <1>1, <1>2, RibAssumption
  <2>2. PICK l \in L : \A m \in L : m <= l
    <3> HIDE DEF L
    <3> QED BY <2>1, GreatestNumber, Zenon
  <2> QED BY <2>2
<1>4. nearest \in offers  BY <1>3
<1> HIDE DEF nearest
<1> DEFINE list == routes[nearest]
           I == {i \in 1 .. Len(list) : list[i].face = f /\ list[i].inherit}
<1>5. list \in Seq(Route)  BY <1>2, <1>4 DEF RibTypeOK
<1>6. I # {} /\ I \subseteq Nat
  <2>1. hasChildInheritOnFaceId(list, f)  BY <1>4
  <2> QED BY <1>5, <2>1 DEF hasChildInheritOnFaceId
<1>7. SelectInSeq(list, LAMBDA r : r.face = f /\ r.inherit) = Min(I)  BY <1>6 DEF SelectInSeq
<1>8. Min(I) \in I
  <2> HIDE DEF I
  <2> QED BY <1>6, MinIn, Zenon
<1>9. list[Min(I)] \in Route
  <2>1. Min(I) \in 1 .. Len(list)  BY <1>8
  <2> HIDE DEF I, list
  <2> QED BY <1>5, <2>1
<1>10. list[Min(I)].cost \in Costs  BY <1>9 DEF Route
<1> QED BY <1>7, <1>10, Zenon

------------------------------------------------------------------------------
(* Plans.  One is good for S if it is well formed and changes the inherited   *)
(* routes of names in S only.                                                 *)

FibChange == [action : {"add", "remove", "none"}, cost : Costs \cup {0}]
Change == [fib : FibChange, inherit : {"add", "remove", "same"}]
Plan == [Names -> [Faces -> Change]]
GoodPlan(p, S) ==
    p \in Plan /\ \A n \in Names, f \in Faces : p[n][f].inherit # "same" => n \in S

LEMMA Changes ==
    /\ RemoveHop \in FibChange /\ NoUpdate \in FibChange
    /\ \A c \in Costs : Add(c) \in FibChange
BY DEF RemoveHop, NoUpdate, Add, FibChange

LEMMA InheritedChanges ==
    /\ removeInherited \in Change
    /\ \A c \in Costs : addInherited(c) \in Change
BY Changes DEF removeInherited, addInherited, Change

LEMMA NoPlanGood ==
    ASSUME NEW S
    PROVE  GoodPlan(NoPlan, S)
<1>1. NoPlan \in Plan  BY Changes DEF NoPlan, Plan, Change
<1> QED BY <1>1 DEF GoodPlan, NoPlan

LEMMA FibUpdateGood ==
    ASSUME NEW S, NEW p, GoodPlan(p, S), NEW n \in Names, NEW f \in Faces, NEW u \in FibChange
    PROVE  GoodPlan(addFibUpdate(p, n, f, u), S)
<1> DEFINE q == addFibUpdate(p, n, f, u)
<1>1. p \in Plan  BY DEF GoodPlan
<1>2. q = [p EXCEPT ![n] = [p[n] EXCEPT ![f] = [p[n][f] EXCEPT !.fib = u]]]  BY DEF addFibUpdate
<1>3. /\ [p[n][f] EXCEPT !.fib = u] \in Change
      /\ [p[n][f] EXCEPT !.fib = u].inherit = p[n][f].inherit
  <2> DEFINE r == p[n][f]
  <2>1. r \in Change  BY <1>1 DEF Plan
  <2> HIDE DEF r
  <2>2. /\ [r EXCEPT !.fib = u] \in Change
        /\ [r EXCEPT !.fib = u].inherit = r.inherit
    BY <2>1 DEF Change
  <2> QED BY <2>2 DEF r
<1>4. q \in Plan  BY <1>1, <1>2, <1>3 DEF Plan
<1>5. \A m \in Names, g \in Faces : q[m][g].inherit = p[m][g].inherit
  BY <1>1, <1>2, <1>3 DEF Plan
<1> QED BY <1>4, <1>5 DEF GoodPlan

LEMMA AddInheritedGood ==
    ASSUME NEW S, NEW p, GoodPlan(p, S), NEW n \in S, n \in Names, NEW list, NEW toAdd \in RouteSet
    PROVE  GoodPlan(addInheritedRoutes(p, n, list, toAdd), S)
<1> DEFINE c == [f \in Faces |-> IF toAdd[f] # None /\ ~ hasFaceId(list, f)
                                 THEN addInherited(toAdd[f]) ELSE p[n][f]]
<1>1. addInheritedRoutes(p, n, list, toAdd) = [p EXCEPT ![n] = c]  BY DEF addInheritedRoutes
<1>2. \A f \in Faces : toAdd[f] # None => toAdd[f] \in Costs  BY DEF RouteSet
<1>3. c \in [Faces -> Change]
  BY <1>2, InheritedChanges DEF GoodPlan, Plan
<1> HIDE DEF c
<1> QED BY <1>1, <1>3 DEF GoodPlan, Plan

LEMMA RemoveInheritedGood ==
    ASSUME NEW S, NEW p, GoodPlan(p, S), NEW n \in Names, NEW toRemove, n \in S \/ toRemove = NoRoutes
    PROVE  GoodPlan(removeInheritedRoutes(p, n, toRemove), S)
<1> DEFINE c == [f \in Faces |-> IF toRemove[f] # None /\ f \in inherited[n]
                                 THEN removeInherited ELSE p[n][f]]
<1>1. removeInheritedRoutes(p, n, toRemove) = [p EXCEPT ![n] = c]  BY DEF removeInheritedRoutes
<1>2. c \in [Faces -> Change]
  BY InheritedChanges DEF GoodPlan, Plan
<1>3. CASE n \in S
  <2> HIDE DEF c
  <2> QED BY <1>1, <1>2, <1>3 DEF GoodPlan, Plan
<1>4. CASE toRemove = NoRoutes
  <2>1. \A f \in Faces : c[f] = p[n][f]  BY <1>4 DEF NoRoutes
  <2>2. [p EXCEPT ![n] = c] = p  BY <2>1 DEF GoodPlan, Plan
  <2> QED BY <1>1, <2>2, Zenon
<1> QED BY <1>3, <1>4

LEMMA ModifyGood ==
    ASSUME NEW S, NEW p, GoodPlan(p, S), NEW n, Descendants(n) \subseteq S,
           NEW toAdd \in RouteSet, NEW toRemove
    PROVE  GoodPlan(modifyChildrensInheritedRoutes(p, n, toAdd, toRemove), S)
<1> DEFINE q == modifyChildrensInheritedRoutes(p, n, toAdd, toRemove)
           c(d) == [f \in Faces |->
                      IF ~ Reached(n, d, f) THEN p[d][f]
                      ELSE IF toAdd[f] # None /\ ~ hasFaceId(routes[d], f) THEN addInherited(toAdd[f])
                      ELSE IF toRemove[f] # None /\ f \in inherited[d] THEN removeInherited
                      ELSE p[d][f]]
<1>1. q = [d \in Names |-> IF d \notin Descendants(n) THEN p[d] ELSE c(d)]
  BY DEF modifyChildrensInheritedRoutes
<1>2. \A f \in Faces : toAdd[f] # None => toAdd[f] \in Costs  BY DEF RouteSet
<1>3. \A d \in Names : c(d) \in [Faces -> Change]
  BY <1>2, InheritedChanges DEF GoodPlan, Plan
<1> HIDE DEF c, q
<1>4. q \in Plan  BY <1>1, <1>3 DEF GoodPlan, Plan
<1>5. \A d \in Names : d \notin S => q[d] = p[d]  BY <1>1
<1> QED BY <1>4, <1>5 DEF GoodPlan, q

------------------------------------------------------------------------------
(* FibUpdater: the plans it makes for one update are good for the names that  *)
(* have an entry once the update is applied.                                  *)

LEMMA RouteFields ==
    ASSUME NEW r \in Route
    PROVE  /\ r.face \in Faces /\ r.cost \in Costs /\ r.inherit \in BOOLEAN /\ r.capture \in BOOLEAN
           /\ Add(r.cost) \in FibChange /\ Only(r) \in RouteSet
<1>1. r.face \in Faces /\ r.cost \in Costs /\ r.inherit \in BOOLEAN /\ r.capture \in BOOLEAN
  BY DEF Route
<1> QED BY <1>1, Changes, OnlyType

LEMMA NewRibEntryGood ==
    ASSUME RibTypeOK, NEW S, NEW n \in Names, n \in S, Descendants(n) \subseteq S, NEW r \in Route
    PROVE  GoodPlan(createFibUpdatesForNewRibEntry(n, r), S)
<1> DEFINE above == getAncestorRoutes(n)
           own == addFibUpdate(NoPlan, n, r.face, Add(r.cost))
           self == IF r.capture THEN own ELSE addInheritedRoutes(own, n, <<r>>, above)
           toAdd == IF ~ r.inherit THEN NoRoutes
                    ELSE IF r.capture THEN Only(r)
                    ELSE [above EXCEPT ![r.face] = r.cost]
           toRemove == IF r.capture THEN above ELSE NoRoutes
<1>1. above \in RouteSet  BY AncestorRoutesType
<1>2. GoodPlan(own, S)  BY NoPlanGood, FibUpdateGood, RouteFields
<1> HIDE DEF above, own
<1>3. GoodPlan(self, S)  BY <1>1, <1>2, AddInheritedGood
<1>4. toAdd \in RouteSet
  <2>1. [above EXCEPT ![r.face] = r.cost] \in RouteSet  BY <1>1, RouteFields DEF RouteSet
  <2> QED BY <2>1, RouteFields, NoRoutesType
<1>5. createFibUpdatesForNewRibEntry(n, r) =
          IF r.inherit \/ r.capture
          THEN modifyChildrensInheritedRoutes(self, n, toAdd, toRemove) ELSE self
  BY DEF createFibUpdatesForNewRibEntry, above, own
<1> HIDE DEF self, toAdd, toRemove
<1>6. GoodPlan(modifyChildrensInheritedRoutes(self, n, toAdd, toRemove), S)  BY <1>3, <1>4, ModifyGood
<1> QED BY <1>3, <1>5, <1>6

LEMMA NewRouteGood ==
    ASSUME RibTypeOK, NEW S, NEW p, GoodPlan(p, S), NEW n \in Names, Descendants(n) \subseteq S,
           NEW list, NEW r \in Route, NEW captures, captures => n \in S
    PROVE  GoodPlan(createFibUpdatesForNewRoute(p, n, list, r, captures), S)
<1> DEFINE prev == getRouteWithLowestCostAndChildInheritByFaceId(list, r.face)
           toAdd == IF r.inherit /\ (prev = None \/ r.cost <= prev) THEN Only(r) ELSE NoRoutes
           toRemove == IF captures THEN getAncestorRoutes(n) ELSE NoRoutes
           self == removeInheritedRoutes(p, n, toRemove)
           children == modifyChildrensInheritedRoutes(self, n, toAdd, toRemove)
           other == getRouteWithLowestCostByFaceId(list, r.face)
<1>1. createFibUpdatesForNewRoute(p, n, list, r, captures) =
          IF other = None \/ r.cost <= other
          THEN addFibUpdate(children, n, r.face, Add(r.cost)) ELSE children
  BY DEF createFibUpdatesForNewRoute
<1>2. toAdd \in RouteSet  BY RouteFields, NoRoutesType
<1>3. n \in S \/ toRemove = NoRoutes  OBVIOUS
<1> HIDE DEF toAdd, toRemove, other
<1>4. GoodPlan(self, S)  BY <1>3, RemoveInheritedGood
<1> HIDE DEF self
<1>5. GoodPlan(children, S)  BY <1>2, <1>4, ModifyGood
<1> HIDE DEF children
<1>6. GoodPlan(addFibUpdate(children, n, r.face, Add(r.cost)), S)  BY <1>5, RouteFields, FibUpdateGood
<1> QED BY <1>1, <1>5, <1>6

LEMMA UpdatedRouteGood ==
    ASSUME RibTypeOK, NEW S, NEW n \in Names, n \in S, Descendants(n) \subseteq S,
           NEW list \in Seq(Route), NEW r \in Route, NEW old \in Route
    PROVE  GoodPlan(createFibUpdatesForUpdatedRoute(n, list, r, old), S)
<1> DEFINE prev == getRouteWithLowestCostAndChildInheritByFaceId(list, r.face)
           lowest == getRouteWithLowestCostByFaceId(list, r.face)
           sameFlags == r.inherit = old.inherit /\ r.capture = old.capture
           above == getAncestorRoutes(n)
           ownCost == IF r.cost # old.cost /\ r.cost <= lowest
                      THEN addFibUpdate(NoPlan, n, r.face, Add(r.cost))
                      ELSE IF r.cost # old.cost /\ old.cost < lowest /\ prev # None
                      THEN addFibUpdate(NoPlan, n, r.face, Add(prev))
                      ELSE NoPlan
           handsDown == prev = None \/ r.cost <= prev
           instead == IF prev # None THEN [NoRoutes EXCEPT ![r.face] = prev]
                      ELSE [NoRoutes EXCEPT ![r.face] = above[r.face]]
           Mod(p, a, d) == modifyChildrensInheritedRoutes(p, n, a, d)
           inheritance ==
               IF ~ old.inherit /\ r.inherit /\ handsDown THEN Mod(ownCost, Only(r), NoRoutes)
               ELSE IF old.inherit /\ ~ r.inherit THEN Mod(ownCost, instead, Only(r))
               ELSE ownCost
           on == Mod(removeInheritedRoutes(inheritance, n, above), NoRoutes, above)
           off == Mod(addInheritedRoutes(inheritance, n, list, above), above, NoRoutes)
<1>1. createFibUpdatesForUpdatedRoute(n, list, r, old) =
          IF sameFlags
          THEN IF r.cost # old.cost /\ handsDown /\ r.inherit
               THEN Mod(ownCost, Only(r), NoRoutes) ELSE ownCost
          ELSE IF ~ old.capture /\ r.capture THEN on
          ELSE IF old.capture /\ ~ r.capture THEN off
          ELSE inheritance
  BY Zenon DEF createFibUpdatesForUpdatedRoute
<1>2. above \in RouteSet  BY AncestorRoutesType
<1>3. prev \in Costs \cup {None} /\ (prev # None => Add(prev) \in FibChange)
  BY LowestCosts, Changes
<1> HIDE DEF prev, above, lowest
<1>4. GoodPlan(ownCost, S)  BY <1>3, NoPlanGood, FibUpdateGood, RouteFields
<1>5. instead \in RouteSet  BY <1>2, <1>3, RouteFields DEF NoRoutes, RouteSet
<1>6. ASSUME NEW p, GoodPlan(p, S), NEW a \in RouteSet, NEW d PROVE GoodPlan(Mod(p, a, d), S)
  BY <1>6, ModifyGood
<1> HIDE DEF ownCost, instead, Mod, handsDown, sameFlags
<1>7. GoodPlan(inheritance, S)  BY <1>4, <1>5, <1>6, RouteFields
<1>8. GoodPlan(Mod(ownCost, Only(r), NoRoutes), S)  BY <1>4, <1>6, RouteFields
<1> HIDE DEF inheritance
<1>9. GoodPlan(on, S)  BY <1>6, <1>7, RemoveInheritedGood, NoRoutesType
<1>10. GoodPlan(off, S)  BY <1>2, <1>6, <1>7, AddInheritedGood
<1> HIDE DEF on, off
<1> QED BY <1>1, <1>4, <1>7, <1>8, <1>9, <1>10

LEMMA ErasedRouteGood ==
    ASSUME RibTypeOK, NEW S, NEW n \in Names, Descendants(n) \subseteq S,
           NEW list, list # <<>> => n \in S, NEW count, NEW old \in Route, NEW turnedOff
    PROVE  GoodPlan(createFibUpdatesForErasedRoute(n, list, count, old, turnedOff), S)
<1> DEFINE above == getAncestorRoutes(n)
           gone == addFibUpdate(NoPlan, n, old.face, RemoveHop)
           uncovered == old.capture /\ turnedOff /\ list # <<>>
           self == IF uncovered THEN addInheritedRoutes(gone, n, list, above) ELSE gone
           toAdd == IF uncovered \/ (old.inherit /\ ~ old.capture /\ ~ Captures(count))
                    THEN above ELSE NoRoutes
           toRemove == IF old.inherit THEN Only(old) ELSE NoRoutes
           modified == modifyChildrensInheritedRoutes(self, n, toAdd, toRemove)
           children == IF old.inherit \/ old.capture THEN modified ELSE self
<1>1. createFibUpdatesForErasedRoute(n, list, count, old, turnedOff) =
          IF InheritsInstead(list, count) /\ above[old.face] # None
          THEN [children EXCEPT ![n][old.face] = addInherited(above[old.face])] ELSE children
  BY DEF createFibUpdatesForErasedRoute
<1>2. above \in RouteSet  BY AncestorRoutesType
<1>3. GoodPlan(gone, S)  BY NoPlanGood, FibUpdateGood, RouteFields, Changes
<1> HIDE DEF above, gone
<1>4. GoodPlan(self, S)  BY <1>2, <1>3, AddInheritedGood
<1>5. toAdd \in RouteSet  BY <1>2, NoRoutesType
<1> HIDE DEF self, toAdd, toRemove
<1>6. GoodPlan(modified, S)  BY <1>4, <1>5, ModifyGood
<1> HIDE DEF modified
<1>7. GoodPlan(children, S)  BY <1>4, <1>6
<1> HIDE DEF children
<1>8. ASSUME InheritsInstead(list, count), above[old.face] # None
      PROVE  GoodPlan([children EXCEPT ![n][old.face] = addInherited(above[old.face])], S)
  <2>1. n \in S  BY <1>8 DEF InheritsInstead
  <2>2. old.face \in Faces /\ above[old.face] \in Costs  BY <1>2, <1>8, RouteFields DEF RouteSet
  <2> DEFINE c == addInherited(above[old.face])
  <2>3. c \in Change  BY <2>2, InheritedChanges
  <2> HIDE DEF c
  <2>4. [children EXCEPT ![n][old.face] = c] \in Plan  BY <1>7, <2>2, <2>3 DEF GoodPlan, Plan
  <2>5. \A m \in Names : m # n => [children EXCEPT ![n][old.face] = c][m] = children[m]
    BY <1>7 DEF GoodPlan, Plan
  <2>6. GoodPlan([children EXCEPT ![n][old.face] = c], S)  BY <1>7, <2>1, <2>4, <2>5 DEF GoodPlan
  <2> QED BY <2>6 DEF c
<1> QED BY <1>1, <1>7, <1>8

LEMMA ErasedEntryGood ==
    ASSUME NEW S, NEW p, GoodPlan(p, S), NEW n \in Names
    PROVE  GoodPlan(createFibUpdatesForErasedRibEntry(p, n), S)
<1> DEFINE c == [f \in Faces |-> IF f \in inherited[n] THEN [p[n][f] EXCEPT !.fib = RemoveHop] ELSE p[n][f]]
           q == createFibUpdatesForErasedRibEntry(p, n)
<1>1. q = [p EXCEPT ![n] = c]  BY DEF createFibUpdatesForErasedRibEntry
<1>2. ASSUME NEW f \in Faces PROVE c[f] \in Change /\ c[f].inherit = p[n][f].inherit
  <2> DEFINE r == p[n][f]
  <2>1. r \in Change  BY DEF GoodPlan, Plan
  <2>2. c[f] = IF f \in inherited[n] THEN [r EXCEPT !.fib = RemoveHop] ELSE r  OBVIOUS
  <2> HIDE DEF r, c
  <2>3. [r EXCEPT !.fib = RemoveHop] \in Change /\ [r EXCEPT !.fib = RemoveHop].inherit = r.inherit
    BY <2>1, Changes DEF Change
  <2>4. c[f] \in Change /\ c[f].inherit = r.inherit  BY <2>1, <2>2, <2>3
  <2> QED BY <2>4 DEF r
<1>3. c \in [Faces -> Change]  BY <1>2
<1> HIDE DEF c, q
<1>4. q \in Plan  BY <1>1, <1>3 DEF GoodPlan, Plan
<1>5. \A m \in Names, f \in Faces : q[m][f].inherit = p[m][f].inherit
  BY <1>1, <1>2 DEF GoodPlan, Plan
<1> QED BY <1>4, <1>5 DEF GoodPlan, q

\* The names that have an entry once u is applied.
Named(u) == {n \in Names : Applied(routes, u)[n] # <<>>}

LEMMA UpdateFields ==
    ASSUME NEW u \in RibUpdate
    PROVE  /\ u.name \in Names /\ u.route.face \in Faces
           /\ u.action \in {"register", "unregister", "removeFace"}
           /\ u.action = "register" => u.route \in Route
<1>1. CASE u \in [action : {"register"}, name : Names, route : Route]
  <2>1. u.name \in Names /\ u.route \in Route /\ u.action = "register"  BY <1>1
  <2> QED BY <2>1 DEF Route
<1>2. CASE u \in [action : {"unregister", "removeFace"}, name : Names, route : Key]
  <2>1. u.name \in Names /\ u.route \in Key /\ u.action \in {"unregister", "removeFace"}  BY <1>2
  <2> QED BY <2>1 DEF Key
<1> QED BY <1>1, <1>2 DEF RibUpdate

LEMMA AppliedIs ==
    ASSUME RibTypeOK, NEW u \in RibUpdate
    PROVE  LET n == u.name
               i == findRoute(routes[n], u.route)
           IN  /\ Applied(routes, u) =
                    [routes EXCEPT ![n] =
                        IF u.action = "register"
                        THEN IF i = 0 THEN Append(routes[n], u.route) ELSE [routes[n] EXCEPT ![i] = u.route]
                        ELSE IF i = 0 THEN routes[n] ELSE RemoveAt(routes[n], i)]
               /\ i \in 0 .. Len(routes[n])
               /\ routes[n] \in Seq(Route)
<1>1. routes[u.name] \in Seq(Route)  BY UpdateFields DEF RibTypeOK
<1>2. findRoute(routes[u.name], u.route) \in 0 .. Len(routes[u.name])
  <2> DEFINE i == findRoute(routes[u.name], u.route)
  <2>1. i = 0 \/ i \in 1 .. Len(routes[u.name])  BY <1>1, FoundRoute
  <2>2. Len(routes[u.name]) \in Nat  BY <1>1
  <2> HIDE DEF i
  <2>3. i \in 0 .. Len(routes[u.name])  BY <2>1, <2>2
  <2> QED BY <2>3 DEF i
<1> QED BY <1>1, <1>2 DEF Applied

LEMMA BelowNamed ==
    ASSUME RibTypeOK, NEW u \in RibUpdate
    PROVE  Descendants(u.name) \subseteq Named(u)
<1> SUFFICES ASSUME NEW d \in Descendants(u.name) PROVE d \in Named(u)
  OBVIOUS
<1>1. d \in Names /\ routes[d] # <<>> /\ d # u.name
  BY DEF Descendants, Entries, IsStrictPrefix
<1>2. Applied(routes, u)[d] = routes[d]  BY <1>1, UpdateFields DEF Applied, RibTypeOK
<1> QED BY <1>1, <1>2 DEF Named

\* A registration leaves an entry for its name.
LEMMA RegisteredNamed ==
    ASSUME RibTypeOK, NEW u \in RibUpdate, u.action = "register"
    PROVE  u.name \in Named(u)
<1> DEFINE n == u.name
           i == findRoute(routes[n], u.route)
           list == routes[n]
<1>1. n \in Names /\ list \in Seq(Route) /\ i \in 0 .. Len(list) /\ u.route \in Route
  BY AppliedIs, UpdateFields, Zenon
<1>2. Applied(routes, u)[n] = IF i = 0 THEN Append(list, u.route) ELSE [list EXCEPT ![i] = u.route]
  BY <1>1, AppliedIs, Zenon DEF RibTypeOK
<1> HIDE DEF n, i, list
<1>3. CASE i = 0
  <2>1. Append(list, u.route) # <<>>  BY <1>1
  <2> QED BY <1>1, <1>2, <1>3, <2>1 DEF Named, n
<1>4. CASE i # 0
  <2>1. list # <<>>  BY <1>1, <1>4
  <2>2. [list EXCEPT ![i] = u.route] # <<>>
    <3>1. DOMAIN [list EXCEPT ![i] = u.route] = DOMAIN list  OBVIOUS
    <3>2. i \in DOMAIN list  BY <1>1, <1>4
    <3> QED BY <3>1, <3>2
  <2> QED BY <1>1, <1>2, <1>4, <2>2 DEF Named, n
<1> QED BY <1>3, <1>4

LEMMA RegistrationGood ==
    ASSUME RibTypeOK, NEW u \in RibUpdate, u.action = "register",
           NEW p \in computeUpdatesForRegistration(u.name, u.route)
    PROVE  GoodPlan(p, Named(u))
<1> DEFINE S == Named(u)
           n == u.name
           r == u.route
           i == findRoute(routes[n], r)
           list == routes[n]
<1>1. n \in Names /\ n \in S /\ Descendants(n) \subseteq S /\ r \in Route /\ list \in Seq(Route)
      /\ i \in 0 .. Len(list)
  BY UpdateFields, AppliedIs, BelowNamed, RegisteredNamed, Zenon
<1>2. \/ p = createFibUpdatesForNewRibEntry(n, r)
      \/ /\ i = 0
         /\ p = createFibUpdatesForNewRoute(NoPlan, n, list, r, ~ hasCapture(n) /\ r.capture)
      \/ /\ i # 0
         /\ p = createFibUpdatesForUpdatedRoute(n, [list EXCEPT ![i] = r], r, list[i])
  BY DEF computeUpdatesForRegistration
<1> HIDE DEF S, n, r, i, list
<1>3. CASE p = createFibUpdatesForNewRibEntry(n, r)
  <2>1. GoodPlan(p, S)  BY <1>1, <1>3, NewRibEntryGood
  <2> QED BY <2>1 DEF S
<1>4. CASE p = createFibUpdatesForNewRoute(NoPlan, n, list, r, ~ hasCapture(n) /\ r.capture)
  <2> DEFINE c == ~ hasCapture(n) /\ r.capture
  <2> HIDE DEF c
  <2>1. p = createFibUpdatesForNewRoute(NoPlan, n, list, r, c)  BY <1>4 DEF c
  <2>2. GoodPlan(NoPlan, S)  BY NoPlanGood
  <2>3. GoodPlan(p, S)  BY <1>1, <2>1, <2>2, NewRouteGood
  <2> QED BY <2>3 DEF S
<1>5. CASE i # 0 /\ p = createFibUpdatesForUpdatedRoute(n, [list EXCEPT ![i] = r], r, list[i])
  <2> DEFINE replaced == [list EXCEPT ![i] = r]
             old == list[i]
  <2>1. i \in 1 .. Len(list)  BY <1>1, <1>5
  <2>2. old \in Route  BY <1>1, <2>1
  <2>3. replaced \in Seq(Route)  BY <1>1, <2>1
  <2>4. p = createFibUpdatesForUpdatedRoute(n, replaced, r, old)  BY <1>5
  <2> HIDE DEF replaced, old
  <2>5. GoodPlan(p, S)  BY <1>1, <2>2, <2>3, <2>4, UpdatedRouteGood
  <2> QED BY <2>5 DEF S
<1> QED BY <1>2, <1>3, <1>4, <1>5

LEMMA UnregistrationGood ==
    ASSUME RibTypeOK, NEW u \in RibUpdate, u.action # "register",
           NEW p \in computeUpdatesForUnregistration(u.name, u.route)
    PROVE  GoodPlan(p, Named(u))
<1> DEFINE S == Named(u)
           n == u.name
           q == u.route
           i == findRoute(routes[n], q)
           old == routes[n][i]
           list == RemoveAt(routes[n], i)
           count == nCapture[n] - CaptureBit(old)
           off == hasCapture(n) /\ ~ Captures(count)
           erased == createFibUpdatesForErasedRoute(n, list, count, old, off)
           nexts == getRouteWithSecondLowestCostByFaceId(routes[n], old.face)
           plans == IF nexts = {} THEN {erased}
                    ELSE {createFibUpdatesForNewRoute(erased, n, list, next, FALSE) : next \in nexts}
<1>1. /\ n \in Names /\ Descendants(n) \subseteq S /\ routes[n] \in Seq(Route)
      /\ i \in 0 .. Len(routes[n]) /\ (i # 0 => Applied(routes, u)[n] = list)
  <2>1. n \in Names  BY UpdateFields
  <2>2. Applied(routes, u)[n] = IF i = 0 THEN routes[n] ELSE list
    BY <2>1, AppliedIs, Zenon DEF RibTypeOK
  <2> QED BY <2>1, <2>2, AppliedIs, BelowNamed, Zenon
<1>2. p \in IF i = 0 THEN {NoPlan}
            ELSE IF list = <<>> THEN {createFibUpdatesForErasedRibEntry(x, n) : x \in plans}
            ELSE plans
  BY Zenon DEF computeUpdatesForUnregistration
<1>3. CASE i = 0
  <2>1. p = NoPlan  BY <1>2, <1>3, Zenon
  <2> QED BY <2>1, NoPlanGood
<1>4. CASE i # 0
  <2>1. list # <<>> => n \in S  BY <1>1, <1>4, Zenon DEF Named
  <2>2. i \in 1 .. Len(routes[n])  BY <1>1, <1>4
  <2>3. old \in Route  BY <1>1, <2>2
  <2>4. nexts \subseteq Route
    <3>1. \A j \in DOMAIN routes[n] : routes[n][j] \in Route  BY <1>1
    <3> QED BY <3>1, Zenon DEF getRouteWithSecondLowestCostByFaceId
  <2> HIDE DEF S, n, list, count, old, off, nexts, i
  <2>5. GoodPlan(erased, S)  BY <1>1, <2>1, <2>3, ErasedRouteGood
  <2> HIDE DEF erased
  <2>6. \A x \in plans : GoodPlan(x, S)
    <3>1. \A next \in nexts : GoodPlan(createFibUpdatesForNewRoute(erased, n, list, next, FALSE), S)
      BY <1>1, <2>4, <2>5, NewRouteGood, Zenon
    <3> QED BY <2>5, <3>1, Zenon
  <2>7. p \in plans \/ \E x \in plans : p = createFibUpdatesForErasedRibEntry(x, n)  BY <1>2, <1>4, Zenon
  <2> HIDE DEF plans
  <2>8. GoodPlan(p, S)  BY <1>1, <2>6, <2>7, ErasedEntryGood
  <2> QED BY <2>8 DEF S
<1> QED BY <1>3, <1>4

LEMMA PlansGood ==
    ASSUME RibTypeOK, NEW u \in RibUpdate, NEW p \in computeUpdates(u)
    PROVE  GoodPlan(p, Named(u))
<1>1. CASE u.action = "register"  BY <1>1, RegistrationGood DEF computeUpdates
<1>2. CASE u.action = "unregister"  BY <1>2, UnregistrationGood DEF computeUpdates
<1>3. CASE u.action = "removeFace"
  <2> DEFINE g == u.route.face
  <2>1. PICK x \in computeUpdatesForUnregistration(u.name, u.route) :
            p = [n \in Names |-> [x[n] EXCEPT ![g].fib = NoUpdate]]
    BY <1>3, Zenon DEF computeUpdates
  <2>2. GoodPlan(x, Named(u))  BY <1>3, UnregistrationGood
  <2>3. ASSUME NEW n \in Names
        PROVE  p[n] \in [Faces -> Change] /\ \A f \in Faces : p[n][f].inherit = x[n][f].inherit
    <3> DEFINE c == x[n]
               r == c[g]
    <3>1. c \in [Faces -> Change] /\ g \in Faces  BY <2>2, UpdateFields DEF GoodPlan, Plan
    <3>2. p[n] = [c EXCEPT ![g] = [r EXCEPT !.fib = NoUpdate]]  BY <2>1
    <3>3. r \in Change  BY <3>1
    <3> HIDE DEF c, r
    <3>4. [r EXCEPT !.fib = NoUpdate] \in Change /\ [r EXCEPT !.fib = NoUpdate].inherit = r.inherit
      BY <3>3, Changes DEF Change
    <3>5. p[n] \in [Faces -> Change] /\ \A f \in Faces : p[n][f].inherit = c[f].inherit
      BY <3>1, <3>2, <3>4 DEF r
    <3> QED BY <3>5 DEF c
  <2>4. p \in Plan  BY <2>1, <2>3 DEF Plan
  <2> QED BY <2>2, <2>3, <2>4 DEF GoodPlan
<1> QED BY <1>1, <1>2, <1>3, UpdateFields

------------------------------------------------------------------------------
(* The table.                                                                 *)

Found == \A n \in Names : \A i \in DOMAIN routes[n] : faceEntries[n][routes[n][i].face] > 0

LEMMA FoundIs == RibTypeOK => (RoutesFoundByFace <=> Found)
<1> SUFFICES ASSUME RibTypeOK PROVE RoutesFoundByFace <=> Found
  OBVIOUS
<1>1. ASSUME RoutesFoundByFace PROVE Found
  <2> SUFFICES ASSUME NEW n \in Names, NEW i \in DOMAIN routes[n]
               PROVE  faceEntries[n][routes[n][i].face] > 0
    BY DEF Found
  <2>1. <<n, routes[n][i]>> \in RoutesOf(routes)  BY DEF RoutesOf
  <2> QED BY <1>1, <2>1 DEF RoutesFoundByFace
<1>2. ASSUME Found PROVE RoutesFoundByFace
  <2> SUFFICES ASSUME NEW x \in RoutesOf(routes) PROVE faceEntries[x[1]][x[2].face] > 0
    BY DEF RoutesFoundByFace
  <2>1. PICK n \in Names : x \in {<<n, routes[n][i]>> : i \in DOMAIN routes[n]}  BY DEF RoutesOf
  <2>2. PICK i \in DOMAIN routes[n] : x = <<n, routes[n][i]>>  BY <2>1
  <2> QED BY <1>2, <2>2 DEF Found
<1> QED BY <1>1, <1>2

TableInv == RibTypeOK /\ Found /\ IsFiniteSet(Entries)

\* What insert and erase have in common: the list of one name becomes another
\* one, whose faces have rows.
LEMMA TableStep ==
    ASSUME TableInv, NEW n \in Names, NEW list \in Seq(Route), NEW rows \in [Faces -> Nat],
           \A i \in DOMAIN list : rows[list[i].face] > 0,
           routes' = [routes EXCEPT ![n] = list], faceEntries' = [faceEntries EXCEPT ![n] = rows]
    PROVE  /\ routes' \in [Names -> Seq(Route)] /\ faceEntries' \in [Names -> [Faces -> Nat]]
           /\ Found' /\ IsFiniteSet(Entries)'
<1>1. routes \in [Names -> Seq(Route)] /\ faceEntries \in [Names -> [Faces -> Nat]]
  BY DEF TableInv, RibTypeOK
<1>2. routes' \in [Names -> Seq(Route)] /\ faceEntries' \in [Names -> [Faces -> Nat]]  BY <1>1
<1>3. Found'
  <2> SUFFICES ASSUME NEW m \in Names, NEW i \in DOMAIN routes'[m]
               PROVE  faceEntries'[m][routes'[m][i].face] > 0
    BY DEF Found
  <2>1. CASE m = n  BY <1>1, <2>1
  <2>2. CASE m # n
    <3>1. routes'[m] = routes[m] /\ faceEntries'[m] = faceEntries[m]  BY <1>1, <2>2
    <3> QED BY <3>1 DEF TableInv, Found
  <2> QED BY <2>1, <2>2
<1>4. IsFiniteSet(Entries)'
  <2> DEFINE E == Entries
             F == Entries'
  <2>1. F \subseteq E \cup {n}  BY <1>1 DEF Entries
  <2>2. IsFiniteSet(E)  BY DEF TableInv
  <2> HIDE DEF E, F
  <2>3. IsFiniteSet(E \cup {n})  BY <2>2, FS_AddElement
  <2>4. IsFiniteSet(F)  BY <2>1, <2>3, FS_Subset
  <2> QED BY <2>4 DEF F
<1> QED BY <1>2, <1>3, <1>4

LEMMA TableSame ==
    ASSUME TableInv, UNCHANGED <<routes, faceEntries>>
    PROVE  /\ routes' \in [Names -> Seq(Route)] /\ faceEntries' \in [Names -> [Faces -> Nat]]
           /\ Found' /\ IsFiniteSet(Entries)'
<1>1. Entries' = Entries  BY DEF Entries
<1> QED BY <1>1 DEF TableInv, RibTypeOK, Found

\* Rib::insert
LEMMA InsertStep ==
    ASSUME TableInv, NEW n \in Names, NEW r \in Route, insert(n, r)
    PROVE  /\ routes' \in [Names -> Seq(Route)] /\ faceEntries' \in [Names -> [Faces -> Nat]]
           /\ Found' /\ IsFiniteSet(Entries)' /\ nCapture' \in [Names -> Int]
<1> DEFINE i == findRoute(routes[n], r)
           old == routes[n]
           rows == faceEntries[n]
<1>1. /\ old \in Seq(Route) /\ rows \in [Faces -> Nat] /\ routes \in [Names -> Seq(Route)]
      /\ faceEntries \in [Names -> [Faces -> Nat]] /\ nCapture \in [Names -> Int]
      /\ \A j \in DOMAIN old : rows[old[j].face] > 0
  BY DEF TableInv, RibTypeOK, Found
<1>2. r.face \in Faces  BY RouteFields
<1>3. i = 0 \/ (i \in 1 .. Len(old) /\ SameRoute(old[i], r))
  <2> DEFINE j == findRoute(old, r)
  <2>1. old \in Seq(Route)  BY <1>1
  <2> HIDE DEF old
  <2>2. j = 0 \/ (j \in 1 .. Len(old) /\ SameRoute(old[j], r))  BY <2>1, FoundRoute, Zenon
  <2> QED BY <2>2 DEF old
<1>4. CASE i = 0
  <2> DEFINE list == Append(old, r)
             more == [rows EXCEPT ![r.face] = @ + 1]
  <2>1. /\ routes' = [routes EXCEPT ![n] = list] /\ faceEntries' = [faceEntries EXCEPT ![n] = more]
        /\ nCapture' = [nCapture EXCEPT ![n] = @ + CaptureBit(r)]
    BY <1>4 DEF insert, emplace
  <2> HIDE DEF i, old, rows
  <2>2. more \in [Faces -> Nat] /\ more[r.face] > 0 /\ \A f \in Faces : more[f] >= rows[f]
    BY <1>1, <1>2
  <2>3. ASSUME NEW j \in DOMAIN list PROVE more[list[j].face] > 0
    <3>1. CASE j = Len(old) + 1
      <4>1. list[j] = r  BY <1>1, <3>1
      <4> QED BY <2>2, <4>1
    <3>2. CASE j # Len(old) + 1
      <4>1. j \in DOMAIN old /\ list[j] = old[j]  BY <1>1, <3>2
      <4>2. old[j] \in Route  BY <1>1, <4>1
      <4>3. old[j].face \in Faces  BY <4>2, RouteFields
      <4>4. rows[old[j].face] > 0 /\ rows[old[j].face] \in Nat /\ more[old[j].face] \in Nat
        BY <1>1, <2>2, <4>1, <4>3
      <4> HIDE DEF list, more
      <4> QED BY <2>2, <4>1, <4>3, <4>4
    <3> QED BY <3>1, <3>2
  <2>4. list \in Seq(Route)  BY <1>1
  <2> HIDE DEF list, more
  <2>5. nCapture' \in [Names -> Int]  BY <1>1, <2>1 DEF CaptureBit
  <2> QED BY <2>1, <2>2, <2>3, <2>4, <2>5, TableStep, Zenon
<1>5. CASE i # 0
  <2> DEFINE list == [old EXCEPT ![i] = r]
  <2>1. /\ routes' = [routes EXCEPT ![n] = list] /\ nCapture' = nCapture
        /\ faceEntries' = [faceEntries EXCEPT ![n] = rows]
    BY <1>1, <1>5 DEF insert
  <2> HIDE DEF i, old, rows
  <2>2. i \in 1 .. Len(old) /\ old[i].face = r.face  BY <1>3, <1>5 DEF SameRoute
  <2>3. list \in Seq(Route) /\ DOMAIN list = DOMAIN old /\ i \in DOMAIN old  BY <1>1, <2>2
  <2>4. ASSUME NEW j \in DOMAIN list PROVE rows[list[j].face] > 0
    <3>1. list[j].face = old[j].face  BY <2>2, <2>3
    <3> HIDE DEF list
    <3> QED BY <1>1, <2>3, <3>1
  <2> HIDE DEF list
  <2> QED BY <1>1, <2>1, <2>3, <2>4, TableStep, Zenon
<1> QED BY <1>4, <1>5

\* Rib::erase: the rows of a face go with its last route.
LEMMA EraseStep ==
    ASSUME TableInv, NEW n \in Names, NEW q, q.face \in Faces, erase(n, q)
    PROVE  /\ routes' \in [Names -> Seq(Route)] /\ faceEntries' \in [Names -> [Faces -> Nat]]
           /\ Found' /\ IsFiniteSet(Entries)' /\ nCapture' \in [Names -> Int]
<1> DEFINE i == findRoute(routes[n], q)
           old == routes[n]
           left == RemoveAt(old, i)
           rows == faceEntries[n]
           fewer == RowsLeft(rows, left, q.face)
<1>1. /\ old \in Seq(Route) /\ rows \in [Faces -> Nat] /\ routes \in [Names -> Seq(Route)]
      /\ faceEntries \in [Names -> [Faces -> Nat]] /\ nCapture \in [Names -> Int]
      /\ \A j \in DOMAIN old : rows[old[j].face] > 0
  BY DEF TableInv, RibTypeOK, Found
<1>2. i = 0 \/ (i \in 1 .. Len(old) /\ SameRoute(old[i], q))
  <2> DEFINE j == findRoute(old, q)
  <2>1. old \in Seq(Route)  BY <1>1
  <2> HIDE DEF old
  <2>2. j = 0 \/ (j \in 1 .. Len(old) /\ SameRoute(old[j], q))  BY <2>1, FoundRoute, Zenon
  <2> QED BY <2>2 DEF old
<1>3. CASE i = 0
  <2>1. UNCHANGED <<routes, nCapture, faceEntries>>  BY <1>3 DEF erase
  <2> QED BY <1>1, <2>1, TableSame
<1>4. CASE i # 0
  <2>1. /\ routes' = [routes EXCEPT ![n] = left] /\ faceEntries' = [faceEntries EXCEPT ![n] = fewer]
        /\ nCapture' = [nCapture EXCEPT ![n] = IF left = <<>> THEN 0 ELSE @ - CaptureBit(old[i])]
    BY <1>4 DEF erase
  <2> HIDE DEF i, old, rows
  <2>2. i \in 1 .. Len(old) /\ old[i].face = q.face  BY <1>2, <1>4 DEF SameRoute
  <2>3. left \in Seq(Route) /\ \A j \in 1 .. Len(left) : \E k \in 1 .. Len(old) : left[j] = old[k]
    <3>1. old \in Seq(Route) /\ i \in 1 .. Len(old)  BY <1>1, <2>2
    <3>2. ASSUME NEW z \in Seq(Route), NEW x \in 1 .. Len(z)
          PROVE  /\ RemoveAt(z, x) \in Seq(Route)
                 /\ \A j \in 1 .. Len(RemoveAt(z, x)) : \E k \in 1 .. Len(z) : RemoveAt(z, x)[j] = z[k]
      BY <3>2, Removed
    <3> QED BY <3>1, <3>2, Zenon
  <2>4. rows[q.face] > 0 /\ rows[q.face] \in Nat  BY <1>1, <2>2
  <2> HIDE DEF left
  <2>5. fewer \in [Faces -> Nat]
    <3>1. rows[q.face] - 1 \in Nat  BY <2>4
    <3> QED BY <1>1, <3>1 DEF RowsLeft
  <2>6. ASSUME NEW j \in DOMAIN left PROVE fewer[left[j].face] > 0
    <3>1. PICK k \in 1 .. Len(old) : left[j] = old[k]  BY <2>3
    <3>2. left # <<>>  BY <2>3
    <3>3. old[k].face \in Faces /\ rows[old[k].face] > 0
      <4>1. k \in DOMAIN old /\ old[k] \in Route  BY <1>1
      <4> QED BY <1>1, <4>1, RouteFields
    <3>4. CASE hasFaceId(left, q.face)
      <4>1. fewer = rows  BY <3>2, <3>4 DEF RowsLeft
      <4> HIDE DEF fewer
      <4> QED BY <3>1, <3>3, <4>1
    <3>5. CASE ~ hasFaceId(left, q.face)
      <4>1. left[j].face # q.face  BY <3>5 DEF hasFaceId
      <4>2. fewer = [rows EXCEPT ![q.face] = @ - 1]  BY <3>2, <3>5 DEF RowsLeft
      <4> HIDE DEF fewer
      <4> QED BY <1>1, <3>1, <3>3, <4>1, <4>2
    <3> QED BY <3>4, <3>5
  <2> HIDE DEF fewer
  <2>7. nCapture' \in [Names -> Int]  BY <1>1, <2>1 DEF CaptureBit
  <2> QED BY <2>1, <2>3, <2>5, <2>6, <2>7, TableStep, Zenon
<1> QED BY <1>3, <1>4

------------------------------------------------------------------------------
(* Batches.                                                                   *)

\* What onFibUpdateSuccess does to the RIB, for whichever batch.
LEMMA SuccessStep ==
    ASSUME TableInv, NEW b \in RibUpdate, NEW inheritance, onFibUpdateSuccess(b, inheritance)
    PROVE  TableInv' /\ inProgress' = FALSE /\ advancing' = TRUE /\ current' = None
<1>1. inProgress' = FALSE /\ advancing' = TRUE /\ current' = None  BY DEF onFibUpdateSuccess
<1>2. inherited' \in [Names -> SUBSET Faces]
  <2> DEFINE In(n) == IF routes'[n] = <<>> THEN {} ELSE
            {f \in Faces : CASE inheritance[n][f] = "add" -> TRUE
                             [] inheritance[n][f] = "remove" -> FALSE
                             [] OTHER -> f \in inherited[n]}
  <2>1. inherited' = [n \in Names |-> In(n)]  BY DEF onFibUpdateSuccess
  <2>2. \A n \in Names : In(n) \subseteq Faces  OBVIOUS
  <2> HIDE DEF In
  <2> QED BY <2>1, <2>2
<1>3. /\ b.name \in Names /\ b.route.face \in Faces
      /\ b.action = "register" => b.route \in Route
  BY UpdateFields
<1>4. CASE b.action = "register"
  <2>1. insert(b.name, b.route)  BY <1>4 DEF onFibUpdateSuccess
  <2> QED BY <1>1, <1>2, <1>3, <1>4, <2>1, InsertStep DEF TableInv, RibTypeOK
<1>5. CASE b.action # "register"
  <2>1. erase(b.name, b.route)  BY <1>5 DEF onFibUpdateSuccess
  <2> QED BY <1>1, <1>2, <1>3, <1>5, <2>1, EraseStep DEF TableInv, RibTypeOK
<1> QED BY <1>4, <1>5, Zenon

LEMMA RibSame ==
    ASSUME TableInv, UNCHANGED ribVars
    PROVE  TableInv'
<1>1. UNCHANGED <<routes, nCapture, inherited, faceEntries>>  BY DEF ribVars
<1> QED BY <1>1, TableSame DEF TableInv, RibTypeOK

Inheritance == [Names -> [Faces -> {"add", "remove", "same"}]]

LEMMA KeepsType ==
    ASSUME NEW out, NEW face \in Faces \cup {None}, NEW bt \in SUBSET FibUpdate,
           NEW ot \in SUBSET FibUpdate, NEW inh \in Inheritance, Keeps(out, face, bt, ot, inh)
    PROVE  /\ batchFace' \in Faces \cup {None} /\ todoBatch' \subseteq FibUpdate
           /\ todoOther' \subseteq FibUpdate /\ changes' \in Inheritance
           /\ changes' = inh \/ changes' = NoChanges
<1>1. NoChanges \in Inheritance  BY DEF NoChanges, Inheritance
<1> QED BY <1>1 DEF Keeps

\* An update is what the plan has for its name and face.
UpdateAt(p, n, f) ==
    [name |-> n, face |-> f, action |-> p[n][f].fib.action, cost |-> p[n][f].fib.cost]

LEMMA UpdatesOf ==
    ASSUME NEW p, NEW x \in Updates(p)
    PROVE  /\ x.name \in Names /\ x.face \in Faces /\ x.action # "none"
           /\ x = UpdateAt(p, x.name, x.face)
<1>1. PICK n \in Names, f \in Faces : x = UpdateAt(p, n, f)  BY DEF Updates, UpdateAt
<1>2. x.action # "none"  BY DEF Updates
<1>3. x.name = n /\ x.face = f  BY <1>1 DEF UpdateAt
<1> QED BY <1>1, <1>2, <1>3

LEMMA UpdatesType ==
    ASSUME NEW plan \in Plan
    PROVE  Updates(plan) \subseteq FibUpdate
<1> SUFFICES ASSUME NEW x \in Updates(plan) PROVE x \in FibUpdate
  OBVIOUS
<1>0. PICK n \in Names, f \in Faces : x = UpdateAt(plan, n, f)
  <2>1. x.name \in Names /\ x.face \in Faces /\ x = UpdateAt(plan, x.name, x.face)
    BY UpdatesOf, Zenon
  <2> QED BY <2>1, Zenon
<1>1. x = [name |-> n, face |-> f, action |-> plan[n][f].fib.action, cost |-> plan[n][f].fib.cost]
  BY <1>0, Zenon DEF UpdateAt
<1>2. x.action # "none"  BY UpdatesOf, Zenon
<1>3. plan[n][f] \in Change  BY DEF Plan
<1>4. plan[n][f].fib \in FibChange  BY <1>3 DEF Change
<1>5. plan[n][f].fib.action \in {"add", "remove", "none"} /\ plan[n][f].fib.cost \in Costs \cup {0}
  BY <1>4 DEF FibChange
<1>6. plan[n][f].fib.action \in {"add", "remove"}  BY <1>1, <1>2, <1>5
<1> QED BY <1>1, <1>5, <1>6 DEF FibUpdate

LEMMA CommandsType ==
    ASSUME NEW updates \in SUBSET FibUpdate, NEW b \in RibUpdate
    PROVE  Commands(updates, b) \subseteq Command
<1> SUFFICES ASSUME NEW c \in Commands(updates, b) PROVE c \in Command
  OBVIOUS
<1>1. PICK x \in updates : c = [update |-> x, verb |-> x.action, tries |-> 0, batch |-> b]
  BY Zenon DEF Commands
<1>2. x \in FibUpdate /\ x.action \in {"add", "remove"}  BY DEF FibUpdate
<1>3. 0 \in 0 .. MAX_NUM_TIMEOUTS  BY UpdateAssumption
<1> QED BY <1>1, <1>2, <1>3 DEF Command

\* A removal is of a route that is there.
LEMMA RemovalsOf ==
    ASSUME NEW faces, NEW x \in RouteRemovals(faces)
    PROVE  \E n \in Names : \E i \in DOMAIN routes[n] :
                x = [action |-> "removeFace", name |-> n,
                     route |-> [face |-> routes[n][i].face, origin |-> routes[n][i].origin]]
<1> DEFINE Removal(n, i) == [action |-> "removeFace", name |-> n,
                route |-> [face |-> routes[n][i].face, origin |-> routes[n][i].origin]]
           F(n) == {Removal(n, i) : i \in {i \in DOMAIN routes[n] :
                        /\ routes[n][i].face \in faces
                        /\ faceEntries[n][routes[n][i].face] > 0}}
<1>1. x \in UNION {F(n) : n \in Names}  BY DEF RouteRemovals
<1>2. PICK n \in Names : x \in F(n)
  <2> HIDE DEF F
  <2> QED BY <1>1
<1>3. PICK i \in DOMAIN routes[n] : x = Removal(n, i)
  <2> HIDE DEF Removal
  <2> QED BY <1>2, Zenon
<1> QED BY <1>3

\* A face's routes are finitely many, so that they can be removed one by one.
LEMMA RemovalsQueued ==
    ASSUME TableInv, NEW faces, NEW s \in SetToSeqs(RouteRemovals(faces))
    PROVE  s \in Seq(RibUpdate)
<1> DEFINE Removal(n, i) == [action |-> "removeFace", name |-> n,
                route |-> [face |-> routes[n][i].face, origin |-> routes[n][i].origin]]
           J(n) == {i \in DOMAIN routes[n] : /\ routes[n][i].face \in faces
                                             /\ faceEntries[n][routes[n][i].face] > 0}
           F(n) == {Removal(n, i) : i \in J(n)}
           T == {F(n) : n \in Entries}
           R == RouteRemovals(faces)
<1>0. R = UNION {F(n) : n \in Names}  BY DEF RouteRemovals
<1>1. \A n \in Names : routes[n] \in Seq(Route)  BY DEF TableInv, RibTypeOK
<1>2. ASSUME NEW n \in Names PROVE IsFiniteSet(F(n))
  <2> DEFINE I == 1 .. Len(routes[n])
             h == [i \in J(n) |-> Removal(n, i)]
             X == J(n)
             Y == F(n)
  <2>1. Len(routes[n]) \in Nat /\ X \subseteq I  BY <1>1
  <2>2. IsFiniteSet(I)  BY <2>1, FS_Interval
  <2>3. h \in Surjection(X, Y)
    <3> HIDE DEF Removal, J
    <3> QED BY DEF Surjection
  <2> HIDE DEF I, h, X, Y, F
  <2>4. IsFiniteSet(X)  BY <2>1, <2>2, FS_Subset
  <2>5. IsFiniteSet(Y)  BY <2>3, <2>4, FS_Surjection
  <2> QED BY <2>5 DEF Y
<1>3. IsFiniteSet(T)
  <2> DEFINE E == Entries
             h == [n \in E |-> F(n)]
  <2>1. IsFiniteSet(E)  BY DEF TableInv
  <2>2. h \in Surjection(E, T)
    <3> HIDE DEF F, E
    <3>1. T = {F(n) : n \in E}  BY DEF E
    <3> HIDE DEF T
    <3> QED BY <3>1 DEF Surjection
  <2> HIDE DEF T, E, h
  <2> QED BY <2>1, <2>2, FS_Surjection
<1>4. \A t \in T : IsFiniteSet(t)
  <2> HIDE DEF F
  <2> QED BY <1>2 DEF Entries
<1>5. IsFiniteSet(UNION T)
  <2> HIDE DEF T
  <2> QED BY <1>3, <1>4, FS_UNION
<1>6. R = UNION T
  <2>1. ASSUME NEW n \in Names, n \notin Entries PROVE F(n) = {}
    BY <1>1, <2>1 DEF Entries
  <2>2. Entries \subseteq Names  BY DEF Entries
  <2> HIDE DEF F, R
  <2> QED BY <1>0, <2>1, <2>2
<1>7. R \subseteq RibUpdate
  <2>1. ASSUME NEW x \in R PROVE \E n \in Names : \E i \in DOMAIN routes[n] : x = Removal(n, i)
    BY RemovalsOf, Zenon
  <2>2. ASSUME NEW n \in Names, NEW i \in DOMAIN routes[n] PROVE Removal(n, i) \in RibUpdate
    <3>1. routes[n][i] \in Route  BY <1>1
    <3>2. routes[n][i].face \in Faces /\ routes[n][i].origin \in Origins  BY <3>1 DEF Route
    <3> QED BY <3>2 DEF RibUpdate, Key
  <2> HIDE DEF Removal, R
  <2> QED BY <2>1, <2>2, Zenon
<1> HIDE DEF T, R
<1>8. Cardinality(R) \in Nat  BY <1>5, <1>6, FS_CardinalityType
<1>9. s \in [1 .. Cardinality(R) -> R]  BY DEF SetToSeqs, R
<1> QED BY <1>7, <1>8, <1>9

------------------------------------------------------------------------------
(* The invariant, action by action.                                           *)

RibInv == TypeOK /\ TableInv /\ RecordsHaveEntries

LEMMA InitInv == Init => RibInv
<1> SUFFICES ASSUME Init PROVE RibInv
  OBVIOUS
<1>1. /\ routes = [n \in Names |-> <<>>] /\ nCapture = [n \in Names |-> 0]
      /\ inherited = [n \in Names |-> {}] /\ faceEntries = [n \in Names |-> [f \in Faces |-> 0]]
  BY DEF Init, RibInit
<1>2. RibTypeOK  BY <1>1 DEF RibTypeOK
<1>3. Entries = {}  BY <1>1 DEF Entries
<1>4. IsFiniteSet(Entries)  BY <1>3, FS_EmptySet
<1>5. Found  BY <1>1 DEF Found
<1>6. RecordsHaveEntries  BY DEF Init, RecordsHaveEntries
<1>7. TypeOK
  <2>1. fib \in [Names -> [Faces -> Costs \cup {0, None}]]  BY DEF Init, NoRoutes
  <2>2. changes \in [Names -> [Faces -> {"add", "remove", "same"}]]  BY DEF Init, NoChanges
  <2>3. queue \in Seq(RibUpdate)  BY DEF Init
  <2>4. {inProgress, advancing, crashed} \subseteq BOOLEAN  BY Zenon DEF Init
  <2> QED BY <1>2, <2>1, <2>2, <2>3, <2>4 DEF Init, TypeOK
<1> QED BY <1>2, <1>4, <1>5, <1>6, <1>7 DEF RibInv, TableInv

\* What is recorded for the batch in progress stays so while the RIB does.
LEMMA RecordsSame ==
    ASSUME RecordsHaveEntries, UNCHANGED <<routes, inProgress, current>>,
           changes' = changes \/ changes' = NoChanges
    PROVE  RecordsHaveEntries'
<1>1. \A n \in Names, f \in Faces : changes'[n][f] # "same" => changes[n][f] # "same"
  BY DEF NoChanges
<1>2. Applied(routes, current)' = Applied(routes, current)  BY DEF Applied
<1> QED BY <1>1, <1>2 DEF RecordsHaveEntries

\* Steps that leave the RIB and its batch alone.
LEMMA BatchSame ==
    ASSUME RibInv, UNCHANGED <<ribVars, batchVars>>
    PROVE  /\ TableInv' /\ RecordsHaveEntries' /\ RibTypeOK'
           /\ inProgress' \in BOOLEAN
           /\ current' \in RibUpdate \cup {None} /\ batchFace' \in Faces \cup {None}
           /\ todoBatch' \subseteq FibUpdate /\ todoOther' \subseteq FibUpdate
           /\ changes' \in [Names -> [Faces -> {"add", "remove", "same"}]]
<1>1. UNCHANGED ribVars /\ UNCHANGED batchVars  OBVIOUS
<1>2. TableInv'  BY <1>1, RibSame DEF RibInv
<1>3. UNCHANGED <<routes, inProgress, current, changes>>  BY <1>1 DEF ribVars, batchVars
<1>4. RecordsHaveEntries'  BY <1>3, RecordsSame DEF RibInv
<1> QED BY <1>1, <1>2, <1>4 DEF RibInv, TypeOK, batchVars, TableInv

LEMMA AskStep ==
    ASSUME RibInv, NEW u \in RibUpdate, beginApplyUpdate(u)
    PROVE  RibInv'
<1>1. UNCHANGED <<ribVars, batchVars>>  BY DEF beginApplyUpdate
<1>2. queue' \in Seq(RibUpdate)  BY DEF beginApplyUpdate, RibInv, TypeOK
<1>3. UNCHANGED <<up, noticed, fib, sent, expiring, crashed>> /\ advancing' = TRUE
  BY DEF beginApplyUpdate, faceVars
<1>4. TypeOK'  BY <1>1, <1>2, <1>3, BatchSame DEF RibInv, TypeOK
<1> QED BY <1>1, <1>4, BatchSame DEF RibInv

LEMMA AddRouteStep ==
    ASSUME RibInv, NEW o \in Offers, beginAddRoute(o[1], o[2])
    PROVE  RibInv'
<1> DEFINE u == [action |-> "register", name |-> o[1], route |-> o[2]]
<1>1. o[1] \in Names /\ o[2] \in Route  BY UpdateAssumption
<1>2. u \in RibUpdate  BY <1>1, Zenon DEF RibUpdate
<1>3. beginApplyUpdate(u)  BY DEF beginAddRoute
<1> HIDE DEF u
<1> QED BY <1>2, <1>3, AskStep

LEMMA RemoveRouteStep ==
    ASSUME RibInv, NEW n \in Names, NEW q \in Key, beginRemoveRoute(n, q)
    PROVE  RibInv'
<1> DEFINE u == [action |-> "unregister", name |-> n, route |-> q]
<1>1. u \in RibUpdate  BY Zenon DEF RibUpdate
<1>2. beginApplyUpdate(u)  BY DEF beginRemoveRoute
<1> HIDE DEF u
<1> QED BY <1>1, <1>2, AskStep

LEMMA DestroyStep ==
    ASSUME RibInv, NEW f \in Faces, destroy(f)
    PROVE  RibInv'
<1>1. UNCHANGED <<ribVars, batchVars>>  BY DEF destroy
<1>2. fib' \in [Names -> [Faces -> Costs \cup {0, None}]]  BY DEF destroy, RibInv, TypeOK
<1>3. UNCHANGED <<queue, advancing, sent, expiring, crashed>>  BY Zenon DEF destroy
<1>4. up' \subseteq Faces /\ noticed' \subseteq Faces \ up'  BY Zenon DEF destroy, RibInv, TypeOK
<1>5. TypeOK'  BY <1>1, <1>2, <1>3, <1>4, BatchSame DEF RibInv, TypeOK
<1> QED BY <1>1, <1>5, BatchSame DEF RibInv

LEMMA RemoveFacesStep ==
    ASSUME RibInv, NEW faces, enqueueRemoveFaces(faces), noticed' \subseteq noticed
    PROVE  RibInv'
<1>1. UNCHANGED <<ribVars, batchVars>>  BY DEF enqueueRemoveFaces
<1>2. PICK s \in SetToSeqs(RouteRemovals(faces)) : queue' = queue \o s  BY DEF enqueueRemoveFaces
<1>3. s \in Seq(RibUpdate)  BY RemovalsQueued DEF RibInv
<1>4. queue' \in Seq(RibUpdate)  BY <1>2, <1>3 DEF RibInv, TypeOK
<1>5. UNCHANGED <<up, fib, sent, expiring, crashed>> /\ advancing' = TRUE  BY DEF enqueueRemoveFaces
<1>6. TypeOK'  BY <1>1, <1>4, <1>5, BatchSame DEF RibInv, TypeOK
<1> QED BY <1>1, <1>6, BatchSame DEF RibInv

\* onFibUpdateSuccess, with what every handler of an answer does besides.
LEMMA Succeeded ==
    ASSUME RibInv, NEW b \in RibUpdate, NEW inheritance, onFibUpdateSuccess(b, inheritance)
    PROVE  TableInv' /\ RecordsHaveEntries' /\ inProgress' = FALSE /\ advancing' = TRUE /\ current' = None
<1>1. TableInv' /\ inProgress' = FALSE /\ advancing' = TRUE /\ current' = None
  BY SuccessStep, Zenon DEF RibInv
<1> QED BY <1>1 DEF RecordsHaveEntries

\* The batch begins with the records of its plan: PlansGood says of which names.
LEMMA ComputeStep ==
    ASSUME RibInv, NEW b \in RibUpdate, computeAndSendFibUpdates(b), UNCHANGED expiring
    PROVE  /\ TableInv' /\ RecordsHaveEntries' /\ sent' \subseteq Command
           /\ inProgress' \in BOOLEAN /\ advancing' \in BOOLEAN /\ current' \in RibUpdate \cup {None}
           /\ batchFace' \in Faces \cup {None} /\ todoBatch' \subseteq FibUpdate
           /\ todoOther' \subseteq FibUpdate /\ changes' \in Inheritance
<1> DEFINE inh(plan) == [n \in Names |-> [f \in Faces |-> plan[n][f].inherit]]
           mine(plan) == {x \in Updates(plan) : x.face = b.route.face}
           others(plan) == Updates(plan) \ mine(plan)
           first(plan) == IF mine(plan) # {} THEN mine(plan) ELSE others(plan)
<1>1. PICK plan \in computeUpdates(b) :
        /\ sent' = sent \cup Commands(first(plan), b)
        /\ Keeps(sent', b.route.face, mine(plan), others(plan), inh(plan))
        /\ IF Updates(plan) = {} THEN onFibUpdateSuccess(b, inh(plan))
           ELSE inProgress' = TRUE /\ current' = b /\ advancing' = FALSE /\ UNCHANGED ribVars
  BY Zenon DEF computeAndSendFibUpdates
<1>2. GoodPlan(plan, Named(b))  BY PlansGood DEF RibInv, TableInv
<1>3. plan \in Plan /\ \A n \in Names, f \in Faces : plan[n][f].inherit # "same" => n \in Named(b)
  BY <1>2 DEF GoodPlan
<1>4. Updates(plan) \subseteq FibUpdate  BY <1>3, UpdatesType
<1>5. mine(plan) \in SUBSET FibUpdate /\ others(plan) \in SUBSET FibUpdate /\ first(plan) \in SUBSET FibUpdate
  BY <1>4, Zenon
<1>6. inh(plan) \in Inheritance
  <2>1. ASSUME NEW n \in Names, NEW f \in Faces
        PROVE  plan[n][f].inherit \in {"add", "remove", "same"}
    <3>1. plan[n][f] \in Change  BY <1>3 DEF Plan
    <3> QED BY <3>1 DEF Change
  <2> QED BY <2>1 DEF Inheritance
<1>7. b.route.face \in Faces \cup {None}  BY UpdateFields
<1>8. ASSUME NEW n \in Names, NEW f \in Faces, inh(plan)[n][f] # "same"
      PROVE  Applied(routes, b)[n] # <<>>
  BY <1>3, <1>8 DEF Named
<1> HIDE DEF inh, mine, others, first
<1>9. /\ batchFace' \in Faces \cup {None} /\ todoBatch' \subseteq FibUpdate
      /\ todoOther' \subseteq FibUpdate /\ changes' \in Inheritance
      /\ changes' = inh(plan) \/ changes' = NoChanges
  BY <1>1, <1>5, <1>6, <1>7, KeepsType
<1>10. sent' \subseteq Command
  <2>1. Commands(first(plan), b) \subseteq Command  BY <1>5, CommandsType
  <2> QED BY <1>1, <2>1 DEF RibInv, TypeOK
<1>11. CASE Updates(plan) = {}
  <2>1. onFibUpdateSuccess(b, inh(plan))  BY <1>1, <1>11
  <2> QED BY <1>9, <1>10, <2>1, Succeeded, Zenon
<1>12. CASE Updates(plan) # {}
  <2>1. inProgress' = TRUE /\ current' = b /\ advancing' = FALSE /\ UNCHANGED ribVars  BY <1>1, <1>12
  <2>2. TableInv'  BY <2>1, RibSame DEF RibInv
  <2>3. Applied(routes, current)' = Applied(routes, b)  BY <2>1 DEF Applied, ribVars
  <2>4. \A n \in Names, f \in Faces : changes'[n][f] # "same" => Applied(routes, b)[n] # <<>>
    BY <1>8, <1>9 DEF NoChanges
  <2>5. RecordsHaveEntries'  BY <2>3, <2>4, Zenon DEF RecordsHaveEntries
  <2> QED BY <1>9, <1>10, <2>1, <2>2, <2>5, Zenon
<1> QED BY <1>11, <1>12

LEMMA SendStep ==
    ASSUME RibInv, sendBatchFromQueue
    PROVE  RibInv'
<1>1. UNCHANGED <<up, noticed, fib, expiring, crashed>>  BY DEF sendBatchFromQueue, faceVars
<1>2. CASE queue = <<>> \/ inProgress
  <2>1. advancing' = FALSE /\ UNCHANGED <<ribVars, batchVars>> /\ UNCHANGED <<queue, sent>>
    BY <1>2 DEF sendBatchFromQueue
  <2>2. TypeOK'  BY <1>1, <2>1, BatchSame, Zenon DEF RibInv, TypeOK
  <2> QED BY <2>1, <2>2, BatchSame DEF RibInv
<1>3. CASE ~ (queue = <<>> \/ inProgress)
  <2>1. queue' = Tail(queue) /\ computeAndSendFibUpdates(Head(queue))
    BY <1>3 DEF sendBatchFromQueue
  <2>2. queue \in Seq(RibUpdate) /\ queue # <<>>  BY <1>3 DEF RibInv, TypeOK
  <2>3. Head(queue) \in RibUpdate /\ queue' \in Seq(RibUpdate)  BY <2>1, <2>2
  <2>4. /\ TableInv' /\ RecordsHaveEntries' /\ sent' \subseteq Command
        /\ inProgress' \in BOOLEAN /\ advancing' \in BOOLEAN /\ current' \in RibUpdate \cup {None}
        /\ batchFace' \in Faces \cup {None} /\ todoBatch' \subseteq FibUpdate
        /\ todoOther' \subseteq FibUpdate /\ changes' \in Inheritance
    BY <1>1, <2>1, <2>3, ComputeStep
  <2>5. TypeOK'  BY <1>1, <2>3, <2>4, Zenon DEF RibInv, TypeOK, TableInv, Inheritance
  <2> QED BY <2>4, <2>5 DEF RibInv
<1> QED BY <1>2, <1>3

LEMMA CommandFields ==
    ASSUME NEW c \in Command
    PROVE  /\ c.update \in FibUpdate /\ c.update.name \in Names /\ c.update.face \in Faces
           /\ c.update.cost \in Costs \cup {0} /\ c.batch \in RibUpdate /\ c.verb \in {"add", "remove"}
           /\ c.tries \in Nat
<1>1. c.update \in FibUpdate /\ c.batch \in RibUpdate /\ c.verb \in {"add", "remove"} /\ c.tries \in 0 .. MAX_NUM_TIMEOUTS
  BY DEF Command
<1>2. c.tries \in Nat  BY <1>1, UpdateAssumption
<1> QED BY <1>1, <1>2 DEF FibUpdate

LEMMA ExecutedType ==
    ASSUME TypeOK, NEW c \in Command
    PROVE  Executed(c) \in [Names -> [Faces -> Costs \cup {0, None}]]
BY CommandFields DEF Executed, TypeOK

\* Of an answer, whether the batch of the command is the one in progress or
\* one that has failed.
LEMMA AnswerStep ==
    ASSUME RibInv, NEW c \in sent, answer(c)
    PROVE  RibInv'
<1>1. c \in Command  BY DEF RibInv, TypeOK
<1>2. UNCHANGED <<up, noticed, queue, expiring, crashed>> /\ fib' = Executed(c)
  BY DEF answer, faceVars
<1>3. fib' \in [Names -> [Faces -> Costs \cup {0, None}]]  BY <1>1, <1>2, ExecutedType DEF RibInv
<1>4. /\ changes \in Inheritance /\ batchFace \in Faces \cup {None} /\ sent \subseteq Command
      /\ todoBatch \in SUBSET FibUpdate /\ todoOther \in SUBSET FibUpdate
      /\ inProgress \in BOOLEAN /\ advancing \in BOOLEAN /\ current \in RibUpdate \cup {None}
  BY DEF RibInv, TypeOK, Inheritance
<1>5. /\ TableInv' /\ RecordsHaveEntries' /\ sent' \subseteq Command
      /\ inProgress' \in BOOLEAN /\ advancing' \in BOOLEAN /\ current' \in RibUpdate \cup {None}
      /\ batchFace' \in Faces \cup {None} /\ todoBatch' \subseteq FibUpdate
      /\ todoOther' \subseteq FibUpdate /\ changes' \in Inheritance
  <2>1. CASE onFibUpdateFailure(c)
    <3>1. Keeps(sent', batchFace, todoBatch, todoOther, changes)  BY <2>1 DEF onFibUpdateFailure
    <3>2. /\ batchFace' \in Faces \cup {None} /\ todoBatch' \subseteq FibUpdate
          /\ todoOther' \subseteq FibUpdate /\ changes' \in Inheritance
      BY <1>4, <3>1, KeepsType
    <3>3. /\ inProgress' = FALSE /\ current' = None /\ advancing' = TRUE
          /\ sent' \subseteq Command /\ UNCHANGED ribVars
      BY <1>4, <2>1 DEF onFibUpdateFailure
    <3>4. TableInv'  BY <3>3, RibSame DEF RibInv
    <3>5. RecordsHaveEntries'  BY <3>3, Zenon DEF RecordsHaveEntries
    <3> QED BY <3>2, <3>3, <3>4, <3>5, Zenon
  <2>2. CASE onUpdateDone(c)
    <3> DEFINE mine == c.update.face = batchFace
               bt == IF mine THEN todoBatch \ {c.update} ELSE todoBatch
               ot == IF mine THEN todoOther ELSE todoOther \ {c.update}
               then == IF mine /\ bt = {} THEN Commands(ot, c.batch) ELSE {}
    <3>1. /\ sent' = (sent \ {c}) \cup then /\ Keeps(sent', batchFace, bt, ot, changes)
          /\ IF ot = {} /\ (mine => bt = {}) THEN onFibUpdateSuccess(c.batch, changes)
             ELSE UNCHANGED <<ribVars, inProgress, current, advancing>>
      BY <2>2, Zenon DEF onUpdateDone
    <3>2. bt \in SUBSET FibUpdate /\ ot \in SUBSET FibUpdate  BY <1>4
    <3>3. c.batch \in RibUpdate  BY <1>1, CommandFields
    <3> HIDE DEF bt, ot, mine
    <3>4. then \subseteq Command  BY <3>2, <3>3, CommandsType
    <3>5. sent' \subseteq Command  BY <1>4, <3>1, <3>4
    <3>6. /\ batchFace' \in Faces \cup {None} /\ todoBatch' \subseteq FibUpdate
          /\ todoOther' \subseteq FibUpdate /\ changes' \in Inheritance
          /\ changes' = changes \/ changes' = NoChanges
      BY <1>4, <3>1, <3>2, KeepsType
    <3>7. CASE onFibUpdateSuccess(c.batch, changes)
      BY <3>3, <3>5, <3>6, <3>7, Succeeded, Zenon
    <3>8. CASE UNCHANGED <<ribVars, inProgress, current, advancing>>
      <4>1. TableInv'  BY <3>8, RibSame DEF RibInv
      <4>2. RecordsHaveEntries'  BY <3>6, <3>8, RecordsSame DEF RibInv, ribVars
      <4> QED BY <1>4, <3>5, <3>6, <3>8, <4>1, <4>2
    <3> QED BY <3>1, <3>7, <3>8
  <2> QED BY <2>1, <2>2 DEF answer
<1>6. TypeOK'  BY <1>2, <1>3, <1>5, Zenon DEF RibInv, TypeOK, TableInv, Inheritance
<1> QED BY <1>5, <1>6 DEF RibInv

LEMMA LoseStep ==
    ASSUME RibInv, NEW c \in sent, lose(c)
    PROVE  RibInv'
<1>1. UNCHANGED <<ribVars, batchVars>>  BY DEF lose
<1>2. c \in Command  BY DEF RibInv, TypeOK
<1>3. fib' \in [Names -> [Faces -> Costs \cup {0, None}]]
  BY <1>2, ExecutedType DEF lose, RibInv, TypeOK
<1>4. UNCHANGED <<up, noticed, queue, advancing, crashed>>  BY DEF lose, faceVars
<1>5. sent' \subseteq Command /\ expiring' \subseteq Command  BY <1>2 DEF lose, RibInv, TypeOK
<1>6. TypeOK'  BY <1>1, <1>3, <1>4, <1>5, BatchSame DEF RibInv, TypeOK
<1> QED BY <1>1, <1>6, BatchSame DEF RibInv

LEMMA TimeoutStep ==
    ASSUME RibInv, NEW c \in expiring, timeout(c)
    PROVE  RibInv'
<1>1. UNCHANGED <<ribVars, batchVars>>  BY DEF timeout
<1>2. c \in Command  BY DEF RibInv, TypeOK
<1>3. UNCHANGED <<up, noticed, fib, queue, advancing>>  BY DEF timeout, faceVars
<1>4. expiring' \subseteq Command  BY DEF timeout, RibInv, TypeOK
<1>5. sent' \subseteq Command /\ crashed' \in BOOLEAN
  <2> DEFINE r == [c EXCEPT !.verb = "add", !.tries = @ + 1]
  <2>1. CASE MayRetry(c)
    <3>1. c.tries + 1 \in 0 .. MAX_NUM_TIMEOUTS  BY <1>2, <2>1, CommandFields, UpdateAssumption DEF MayRetry
    <3>2. r \in Command  BY <1>2, <3>1, Zenon DEF Command
    <3>3. sent' = sent \cup {r} /\ crashed' = crashed  BY <2>1 DEF timeout
    <3> HIDE DEF r
    <3> QED BY <3>2, <3>3 DEF RibInv, TypeOK
  <2>2. CASE ~ MayRetry(c)  BY <2>2 DEF timeout, RibInv, TypeOK
  <2> QED BY <2>1, <2>2
<1>6. TypeOK'  BY <1>1, <1>3, <1>4, <1>5, BatchSame, Zenon DEF RibInv, TypeOK
<1> QED BY <1>1, <1>6, BatchSame DEF RibInv

LEMMA NextInv == RibInv /\ [Next]_vars => RibInv'
<1> SUFFICES ASSUME RibInv, [Next]_vars PROVE RibInv'
  OBVIOUS
<1>1. CASE \E o \in Offers : beginAddRoute(o[1], o[2])  BY <1>1, AddRouteStep
<1>2. CASE \E n \in Names, q \in Key : beginRemoveRoute(n, q)  BY <1>2, RemoveRouteStep
<1>3. CASE \E f \in Faces : destroy(f)  BY <1>3, DestroyStep
<1>4. ASSUME NEW f \in Faces, beginRemoveFace(f) PROVE RibInv'
  <2>1. enqueueRemoveFaces({f}) /\ noticed' \subseteq noticed  BY <1>4 DEF beginRemoveFace
  <2> DEFINE F == {f}
  <2>2. enqueueRemoveFaces(F)  BY <2>1
  <2> HIDE DEF F
  <2> QED BY <2>1, <2>2, RemoveFacesStep
<1>5. CASE beginRemoveFailedFaces
  <2> DEFINE F == Faces \ up
  <2>1. enqueueRemoveFaces(F) /\ noticed' \subseteq noticed  BY <1>5 DEF beginRemoveFailedFaces
  <2> HIDE DEF F
  <2> QED BY <2>1, RemoveFacesStep
<1>6. CASE sendBatchFromQueue  BY <1>6, SendStep
<1>7. CASE \E c \in sent : answer(c)  BY <1>7, AnswerStep
<1>8. CASE \E c \in sent : lose(c)  BY <1>8, LoseStep
<1>9. CASE \E c \in expiring : timeout(c)  BY <1>9, TimeoutStep
<1>10. CASE UNCHANGED vars
  <2>1. UNCHANGED <<ribVars, batchVars>>  BY <1>10 DEF vars
  <2>2. UNCHANGED <<up, noticed, fib, queue, advancing, sent, expiring, crashed>>
    BY <1>10 DEF vars, faceVars
  <2>3. TypeOK'  BY <2>1, <2>2, BatchSame DEF RibInv, TypeOK
  <2> QED BY <2>1, <2>3, BatchSame DEF RibInv
<1> QED BY <1>1, <1>2, <1>3, <1>4, <1>5, <1>6, <1>7, <1>8, <1>9, <1>10 DEF Next

THEOREM Invariance == Spec => []RibInv
BY InitInv, NextInv, PTL DEF Spec

\* Every variable keeps to its type: no answer, retry or removal makes a batch
\* or a command that is not of an update that was asked for.
THEOREM TypeCorrect == Spec => []TypeOK
<1>1. RibInv => TypeOK  BY DEF RibInv
<1> QED BY <1>1, Invariance, PTL

\* Rib::insert and Rib::erase keep m_faceEntries in step with the routes: a
\* route has a row of its face, whichever batches succeed, fail or are answered
\* late, so that beginRemoveFace finds it.
THEOREM RoutesFoundByFaceAlways == Spec => []RoutesFoundByFace
<1>1. RibInv => RoutesFoundByFace  BY FoundIs DEF RibInv, TableInv
<1> QED BY <1>1, Invariance, PTL

\* What computeUpdates records is for names that have an entry when the batch
\* has succeeded, which is what modifyInheritedRoutes asserts: nothing changes
\* the RIB between the two without ending the batch.
THEOREM RecordsHaveEntriesAlways == Spec => []RecordsHaveEntries
<1>1. RibInv => RecordsHaveEntries  BY DEF RibInv
<1> QED BY <1>1, Invariance, PTL

------------------------------------------------------------------------------
(* One batch at a time.  A plan leaves alone what is not below its name.      *)

Untouched(p, m) == DOMAIN p = Names /\ p[m] = NoPlan[m]

LEMMA NoPlanUntouched == \A m : Untouched(NoPlan, m)
BY DEF Untouched, NoPlan

LEMMA FibUpdateUntouched ==
    ASSUME NEW p, NEW m, Untouched(p, m), m \in Names, NEW n, NEW f, NEW u, m # n
    PROVE  Untouched(addFibUpdate(p, n, f, u), m)
BY DEF Untouched, addFibUpdate

LEMMA AddInheritedUntouched ==
    ASSUME NEW p, NEW m, Untouched(p, m), m \in Names, NEW n, NEW list, NEW toAdd, m # n
    PROVE  Untouched(addInheritedRoutes(p, n, list, toAdd), m)
BY DEF Untouched, addInheritedRoutes

LEMMA RemoveInheritedUntouched ==
    ASSUME NEW p, NEW m, Untouched(p, m), m \in Names, NEW n, NEW toRemove, m # n
    PROVE  Untouched(removeInheritedRoutes(p, n, toRemove), m)
BY DEF Untouched, removeInheritedRoutes

LEMMA ModifyUntouched ==
    ASSUME NEW p, NEW m, Untouched(p, m), m \in Names, NEW n, m \notin Descendants(n),
           NEW toAdd, NEW toRemove
    PROVE  Untouched(modifyChildrensInheritedRoutes(p, n, toAdd, toRemove), m)
BY Zenon DEF Untouched, modifyChildrensInheritedRoutes

LEMMA NewRibEntryUntouched ==
    ASSUME NEW m \in Names, NEW n, m # n, m \notin Descendants(n), NEW r
    PROVE  Untouched(createFibUpdatesForNewRibEntry(n, r), m)
<1> DEFINE above == getAncestorRoutes(n)
           own == addFibUpdate(NoPlan, n, r.face, Add(r.cost))
           self == IF r.capture THEN own ELSE addInheritedRoutes(own, n, <<r>>, above)
           toAdd == IF ~ r.inherit THEN NoRoutes
                    ELSE IF r.capture THEN Only(r)
                    ELSE [above EXCEPT ![r.face] = r.cost]
           toRemove == IF r.capture THEN above ELSE NoRoutes
           all == modifyChildrensInheritedRoutes(self, n, toAdd, toRemove)
<1>1. createFibUpdatesForNewRibEntry(n, r) = all \/ createFibUpdatesForNewRibEntry(n, r) = self
  BY Zenon DEF createFibUpdatesForNewRibEntry
<1>2. Untouched(own, m)  BY NoPlanUntouched, FibUpdateUntouched
<1> HIDE DEF own, above
<1>3. Untouched(self, m)  BY <1>2, AddInheritedUntouched
<1> HIDE DEF self, toAdd, toRemove
<1>4. Untouched(all, m)  BY <1>3, ModifyUntouched
<1> HIDE DEF all
<1> QED BY <1>1, <1>3, <1>4

LEMMA NewRouteUntouched ==
    ASSUME NEW m \in Names, NEW n, m # n, m \notin Descendants(n), NEW r, NEW p, Untouched(p, m),
           NEW list, NEW on
    PROVE  Untouched(createFibUpdatesForNewRoute(p, n, list, r, on), m)
<1> DEFINE prev == getRouteWithLowestCostAndChildInheritByFaceId(list, r.face)
           toAdd == IF r.inherit /\ (prev = None \/ r.cost <= prev) THEN Only(r) ELSE NoRoutes
           toRemove == IF on THEN getAncestorRoutes(n) ELSE NoRoutes
           self == removeInheritedRoutes(p, n, toRemove)
           children == modifyChildrensInheritedRoutes(self, n, toAdd, toRemove)
           all == addFibUpdate(children, n, r.face, Add(r.cost))
<1>1. \/ createFibUpdatesForNewRoute(p, n, list, r, on) = all
      \/ createFibUpdatesForNewRoute(p, n, list, r, on) = children
  BY Zenon DEF createFibUpdatesForNewRoute
<1> HIDE DEF prev, toAdd, toRemove
<1>2. Untouched(self, m)  BY RemoveInheritedUntouched
<1> HIDE DEF self
<1>3. Untouched(children, m)  BY <1>2, ModifyUntouched
<1> HIDE DEF children
<1>4. Untouched(all, m)  BY <1>3, FibUpdateUntouched
<1> HIDE DEF all
<1> QED BY <1>1, <1>3, <1>4

LEMMA UpdatedRouteUntouched ==
    ASSUME NEW m \in Names, NEW n, m # n, m \notin Descendants(n), NEW list, NEW r, NEW old
    PROVE  Untouched(createFibUpdatesForUpdatedRoute(n, list, r, old), m)
<1> DEFINE prev == getRouteWithLowestCostAndChildInheritByFaceId(list, r.face)
           lowest == getRouteWithLowestCostByFaceId(list, r.face)
           above == getAncestorRoutes(n)
           ownCost == IF r.cost # old.cost /\ r.cost <= lowest
                      THEN addFibUpdate(NoPlan, n, r.face, Add(r.cost))
                      ELSE IF r.cost # old.cost /\ old.cost < lowest /\ prev # None
                      THEN addFibUpdate(NoPlan, n, r.face, Add(prev))
                      ELSE NoPlan
           handsDown == prev = None \/ r.cost <= prev
           instead == IF prev # None THEN [NoRoutes EXCEPT ![r.face] = prev]
                      ELSE [NoRoutes EXCEPT ![r.face] = above[r.face]]
           down == modifyChildrensInheritedRoutes(ownCost, n, Only(r), NoRoutes)
           inheritance ==
               IF ~ old.inherit /\ r.inherit /\ handsDown THEN down
               ELSE IF old.inherit /\ ~ r.inherit
               THEN modifyChildrensInheritedRoutes(ownCost, n, instead, Only(r))
               ELSE ownCost
           on == modifyChildrensInheritedRoutes(removeInheritedRoutes(inheritance, n, above),
                                                n, NoRoutes, above)
           off == modifyChildrensInheritedRoutes(addInheritedRoutes(inheritance, n, list, above),
                                                 n, above, NoRoutes)
           p == createFibUpdatesForUpdatedRoute(n, list, r, old)
<1>1. p = ownCost \/ p = down \/ p = inheritance \/ p = on \/ p = off
  BY Zenon DEF createFibUpdatesForUpdatedRoute
<1> HIDE DEF above, lowest, prev, p
<1>2. Untouched(ownCost, m)  BY NoPlanUntouched, FibUpdateUntouched
<1> HIDE DEF ownCost, instead, handsDown
<1>3. Untouched(down, m)  BY <1>2, ModifyUntouched
<1> HIDE DEF down
<1>4. Untouched(inheritance, m)  BY <1>2, <1>3, ModifyUntouched
<1> HIDE DEF inheritance
<1>5. Untouched(on, m)  BY <1>4, RemoveInheritedUntouched, ModifyUntouched
<1>6. Untouched(off, m)  BY <1>4, AddInheritedUntouched, ModifyUntouched
<1> HIDE DEF on, off
<1>7. Untouched(p, m)  BY <1>1, <1>2, <1>3, <1>4, <1>5, <1>6
<1> QED BY <1>7 DEF p

LEMMA ErasedRouteUntouched ==
    ASSUME NEW m \in Names, NEW n, m # n, m \notin Descendants(n), NEW list, NEW count, NEW old, NEW off
    PROVE  Untouched(createFibUpdatesForErasedRoute(n, list, count, old, off), m)
<1> DEFINE above == getAncestorRoutes(n)
           gone == addFibUpdate(NoPlan, n, old.face, RemoveHop)
           uncovered == old.capture /\ off /\ list # <<>>
           self == IF uncovered THEN addInheritedRoutes(gone, n, list, above) ELSE gone
           toAdd == IF uncovered \/ (old.inherit /\ ~ old.capture /\ ~ Captures(count))
                    THEN above ELSE NoRoutes
           toRemove == IF old.inherit THEN Only(old) ELSE NoRoutes
           children == IF old.inherit \/ old.capture
                       THEN modifyChildrensInheritedRoutes(self, n, toAdd, toRemove) ELSE self
           all == [children EXCEPT ![n][old.face] = addInherited(above[old.face])]
           p == createFibUpdatesForErasedRoute(n, list, count, old, off)
<1>1. p = children \/ p = all  BY Zenon DEF createFibUpdatesForErasedRoute
<1> HIDE DEF p, above
<1>2. Untouched(gone, m)  BY NoPlanUntouched, FibUpdateUntouched
<1> HIDE DEF gone
<1>3. Untouched(self, m)  BY <1>2, AddInheritedUntouched
<1> HIDE DEF self, toAdd, toRemove
<1>4. Untouched(children, m)  BY <1>3, ModifyUntouched
<1> HIDE DEF children
<1>5. Untouched(all, m)  BY <1>4 DEF Untouched
<1> HIDE DEF all
<1>6. Untouched(p, m)  BY <1>1, <1>4, <1>5
<1> QED BY <1>6 DEF p

LEMMA ErasedEntryUntouched ==
    ASSUME NEW p, NEW m \in Names, Untouched(p, m), NEW n, m # n
    PROVE  Untouched(createFibUpdatesForErasedRibEntry(p, n), m)
BY DEF Untouched, createFibUpdatesForErasedRibEntry

LEMMA UnregistrationUntouched ==
    ASSUME NEW m \in Names, NEW n, m # n, m \notin Descendants(n), NEW q,
           NEW p \in computeUpdatesForUnregistration(n, q)
    PROVE  Untouched(p, m)
<1> DEFINE i == findRoute(routes[n], q)
           old == routes[n][i]
           list == RemoveAt(routes[n], i)
           count == nCapture[n] - CaptureBit(old)
           off == hasCapture(n) /\ ~ Captures(count)
           erased == createFibUpdatesForErasedRoute(n, list, count, old, off)
           nexts == getRouteWithSecondLowestCostByFaceId(routes[n], old.face)
           plans == IF nexts = {} THEN {erased}
                    ELSE {createFibUpdatesForNewRoute(erased, n, list, next, FALSE) : next \in nexts}
<1>1. \/ p = NoPlan \/ p \in plans
      \/ \E x \in plans : p = createFibUpdatesForErasedRibEntry(x, n)
  BY Zenon DEF computeUpdatesForUnregistration
<1> HIDE DEF i, old, list, count, off, nexts
<1>2. Untouched(erased, m)  BY ErasedRouteUntouched
<1> HIDE DEF erased
<1>3. \A x \in plans : Untouched(x, m)  BY <1>2, NewRouteUntouched, Zenon
<1> HIDE DEF plans
<1> QED BY <1>1, <1>3, NoPlanUntouched, ErasedEntryUntouched

\* What the batch of a leaf tells the FIB is about that name; the removal of a
\* face tells it nothing of that face.
LEMMA PlanOfLeaf ==
    ASSUME RibTypeOK, NEW u \in RibUpdate, NEW p \in computeUpdates(u), NEW x \in Updates(p)
    PROVE  /\ Leaf(u.name) => x.name = u.name
           /\ u.action = "removeFace" => x.face # u.route.face
<1>0. PICK m \in Names, f \in Faces : x = UpdateAt(p, m, f)
  <2>1. x.name \in Names /\ x.face \in Faces /\ x = UpdateAt(p, x.name, x.face)
    BY UpdatesOf, Zenon
  <2> QED BY <2>1, Zenon
<1>1. x = [name |-> m, face |-> f, action |-> p[m][f].fib.action, cost |-> p[m][f].fib.cost]
  BY <1>0, Zenon DEF UpdateAt
<1>2. p[m][f].fib.action # "none"
  <2>1. x.action # "none"  BY UpdatesOf, Zenon
  <2> QED BY <1>1, <2>1
<1>3. ASSUME NEW y, Untouched(y, m) PROVE y[m][f].fib = NoUpdate
  <2>1. NoPlan[m][f].fib = NoUpdate  BY DEF NoPlan
  <2>2. y[m] = NoPlan[m]  BY <1>3, Zenon DEF Untouched
  <2> QED BY <2>1, <2>2, Zenon
<1>4. NoUpdate.action = "none"  BY DEF NoUpdate
<1> DEFINE g == u.route.face
<1>5. ASSUME u.action = "removeFace"
      PROVE  \E y \in computeUpdatesForUnregistration(u.name, u.route) :
                p = [n \in Names |-> [y[n] EXCEPT ![g].fib = NoUpdate]]
  BY <1>5, Zenon DEF computeUpdates
<1>6. ASSUME Leaf(u.name), m # u.name PROVE FALSE
  <2>1. m \notin Descendants(u.name)  BY <1>6, Zenon DEF Leaf, Descendants, Entries
  <2>2. CASE u.action = "register"
    <3>1. p \in computeUpdatesForRegistration(u.name, u.route)  BY <2>2 DEF computeUpdates
    <3> DEFINE n == u.name
               r == u.route
               i == findRoute(routes[n], r)
    <3>2. \/ p = createFibUpdatesForNewRibEntry(n, r)
          \/ p = createFibUpdatesForNewRoute(NoPlan, n, routes[n], r, ~ hasCapture(n) /\ r.capture)
          \/ p = createFibUpdatesForUpdatedRoute(n, [routes[n] EXCEPT ![i] = r], r, routes[n][i])
      BY <3>1, Zenon DEF computeUpdatesForRegistration
    <3> HIDE DEF i
    <3>3. Untouched(p, m)
      BY <1>6, <2>1, <3>2, NoPlanUntouched, NewRibEntryUntouched, NewRouteUntouched, UpdatedRouteUntouched, Zenon
    <3> QED BY <1>2, <1>3, <1>4, <3>3
  <2>3. CASE u.action = "unregister"
    <3>1. Untouched(p, m)  BY <1>6, <2>1, <2>3, UnregistrationUntouched DEF computeUpdates
    <3> QED BY <1>2, <1>3, <1>4, <3>1
  <2>4. CASE u.action = "removeFace"
    <3>1. PICK y \in computeUpdatesForUnregistration(u.name, u.route) :
             p = [n \in Names |-> [y[n] EXCEPT ![g].fib = NoUpdate]]
      BY <1>5, <2>4, Zenon
    <3>2. Untouched(y, m)  BY <1>6, <2>1, UnregistrationUntouched
    <3> DEFINE c == NoPlan[m]
               e == [fib |-> NoUpdate, inherit |-> "same"]
    <3>3. c = [k \in Faces |-> e]  BY DEF NoPlan
    <3>4. p[m] = [c EXCEPT ![g] = [c[g] EXCEPT !.fib = NoUpdate]]  BY <3>1, <3>2 DEF Untouched
    <3> HIDE DEF c
    <3>5. p[m][f].fib = NoUpdate  BY <3>3, <3>4
    <3> QED BY <1>2, <1>4, <3>5, Zenon
  <2> QED BY <2>2, <2>3, <2>4, UpdateFields
<1>7. ASSUME u.action = "removeFace", f = g PROVE FALSE
  <2>1. PICK y \in computeUpdatesForUnregistration(u.name, u.route) :
           p = [n \in Names |-> [y[n] EXCEPT ![g].fib = NoUpdate]]
    BY <1>5, <1>7, Zenon
  <2> DEFINE c == y[m]
             r == c[g]
  <2>2. c \in [Faces -> Change] /\ g \in Faces
    BY <1>7, UnregistrationGood, UpdateFields, Zenon DEF GoodPlan, Plan
  <2>3. p[m] = [c EXCEPT ![g] = [r EXCEPT !.fib = NoUpdate]]  BY <2>1
  <2>4. r \in Change  BY <2>2
  <2> HIDE DEF c, r
  <2>5. p[m][g].fib = NoUpdate  BY <2>2, <2>3, <2>4 DEF Change
  <2> QED BY <1>2, <1>4, <1>7, <2>5, Zenon
<1> QED BY <1>1, <1>6, <1>7, Zenon

------------------------------------------------------------------------------
(* What is out is what is left to do of the batch in progress.                *)

Out == sent \cup expiring
Due == IF todoBatch # {} THEN todoBatch ELSE todoOther

\* A face that is gone fails the batch only of a leaf.
GoneLeaf(u) == u.action # "removeFace" /\ u.route.face \notin up => Leaf(u.name)

InBatch ==
    /\ current \in RibUpdate /\ batchFace = current.route.face /\ GoneLeaf(current)
    /\ sent \cap expiring = {}
    /\ \A c \in Out : c.batch = current
    /\ \A c, d \in Out : c.update = d.update => c = d
    /\ \A x \in todoBatch : x.face = batchFace
    /\ \A x \in todoOther : x.face # batchFace
    /\ current.action = "removeFace" => todoBatch = {}
    /\ Leaf(current.name) => \A x, y \in todoBatch : x = y
    /\ ~ crashed => Due = {c.update : c \in Out} /\ Due # {}

BatchInv ==
    /\ Tame
    /\ \A i \in DOMAIN queue : GoneLeaf(queue[i])
    /\ IF inProgress THEN InBatch ELSE Out = {}

LEMMA BatchInit == Tame /\ Init => BatchInv
<1> SUFFICES ASSUME Tame, Init PROVE BatchInv
  OBVIOUS
<1>1. queue = <<>> /\ inProgress = FALSE /\ sent = {} /\ expiring = {}  BY DEF Init
<1> QED BY <1>1 DEF BatchInv, Out

\* Steps that leave the batch, what is out and the faces alone.
LEMMA BatchStays ==
    ASSUME BatchInv, UNCHANGED <<up, sent, expiring, crashed>>, UNCHANGED batchVars
    PROVE  IF inProgress' THEN InBatch' ELSE Out' = {}
<1>1. UNCHANGED <<inProgress, current, batchFace, todoBatch, todoOther>>  BY DEF batchVars
<1>2. Out' = Out /\ Due' = Due  BY <1>1 DEF Out, Due
<1>3. GoneLeaf(current)' = GoneLeaf(current)  BY <1>1 DEF GoneLeaf
<1> QED BY <1>1, <1>2, <1>3, Zenon DEF BatchInv, InBatch

LEMMA AskBatch ==
    ASSUME RibInv, BatchInv, NEW u, beginApplyUpdate(u), GoneLeaf(u)
    PROVE  BatchInv'
<1>1. UNCHANGED <<up, sent, expiring, crashed>> /\ UNCHANGED batchVars
  BY DEF beginApplyUpdate, faceVars
<1>2. IF inProgress' THEN InBatch' ELSE Out' = {}  BY <1>1, BatchStays
<1>3. queue \in Seq(RibUpdate) /\ queue' = Append(queue, u)  BY DEF RibInv, TypeOK, beginApplyUpdate
<1>4. ASSUME NEW i \in DOMAIN queue' PROVE GoneLeaf(queue[i])'
  <2>1. (i \in DOMAIN queue /\ queue'[i] = queue[i]) \/ queue'[i] = u  BY <1>3
  <2>2. GoneLeaf(queue'[i])  BY <2>1 DEF BatchInv
  <2> QED BY <1>1, <2>2 DEF GoneLeaf
<1> QED BY <1>2, <1>4 DEF BatchInv

LEMMA RemoveFacesBatch ==
    ASSUME RibInv, BatchInv, NEW faces, enqueueRemoveFaces(faces)
    PROVE  BatchInv'
<1>1. UNCHANGED <<up, sent, expiring, crashed>> /\ UNCHANGED batchVars  BY DEF enqueueRemoveFaces
<1>2. IF inProgress' THEN InBatch' ELSE Out' = {}  BY <1>1, BatchStays
<1>3. PICK s \in SetToSeqs(RouteRemovals(faces)) : queue' = queue \o s  BY DEF enqueueRemoveFaces
<1>4. s \in Seq(RibUpdate)  BY RemovalsQueued DEF RibInv
<1>5. queue \in Seq(RibUpdate)  BY DEF RibInv, TypeOK
<1>6. \A i \in DOMAIN s : s[i] \in RouteRemovals(faces)
  <2>1. s \in [1 .. Cardinality(RouteRemovals(faces)) -> RouteRemovals(faces)]  BY DEF SetToSeqs
  <2> QED BY <2>1
<1>7. ASSUME NEW x \in RouteRemovals(faces) PROVE x.action = "removeFace"
  <2>1. PICK n \in Names : \E i \in DOMAIN routes[n] :
          x = [action |-> "removeFace", name |-> n,
               route |-> [face |-> routes[n][i].face, origin |-> routes[n][i].origin]]
    BY RemovalsOf, Zenon
  <2> QED BY <2>1
<1>8. ASSUME NEW i \in DOMAIN queue' PROVE GoneLeaf(queue[i])'
  <2>1. CASE i \in DOMAIN queue
    <3>1. queue'[i] = queue[i]  BY <1>3, <1>4, <1>5, <2>1
    <3>2. GoneLeaf(queue'[i])  BY <2>1, <3>1, Zenon DEF BatchInv
    <3> QED BY <1>1, <3>2, Zenon DEF GoneLeaf
  <2>2. CASE i \notin DOMAIN queue
    <3>1. i - Len(queue) \in DOMAIN s /\ queue'[i] = s[i - Len(queue)]  BY <1>3, <1>4, <1>5, <2>2
    <3>2. queue'[i].action = "removeFace"  BY <1>6, <1>7, <3>1
    <3> QED BY <3>2 DEF GoneLeaf
  <2> QED BY <2>1, <2>2
<1> QED BY <1>2, <1>8 DEF BatchInv

LEMMA DestroyBatch ==
    ASSUME RibInv, BatchInv, NEW f \in Faces, destroy(f)
    PROVE  BatchInv'
<1>1. UNCHANGED <<sent, expiring, crashed, queue>> /\ UNCHANGED batchVars /\ up' = up \ {f}
  BY Zenon DEF destroy
<1>2. UNCHANGED <<inProgress, current, batchFace, todoBatch, todoOther>>  BY <1>1 DEF batchVars
<1>3. queue \in Seq(RibUpdate)  BY DEF RibInv, TypeOK
<1>4. \A i \in DOMAIN Pending : Pending[i].route.face = f => Leaf(Pending[i].name)
  BY Zenon DEF destroy, BatchInv
<1>5. ASSUME NEW u, GoneLeaf(u), u.route.face = f => Leaf(u.name)
      PROVE  u.action # "removeFace" /\ u.route.face \notin up' => Leaf(u.name)
  BY <1>1, <1>5 DEF GoneLeaf
<1>6. ASSUME NEW i \in DOMAIN queue PROVE queue[i].route.face = f => Leaf(queue[i].name)
  <2>1. CASE inProgress
    <3>1. Pending = <<current>> \o queue  BY <2>1 DEF Pending
    <3>2. <<current>> \in Seq({current}) /\ Len(<<current>>) = 1  OBVIOUS
    <3>3. i + 1 \in DOMAIN Pending /\ Pending[i + 1] = queue[i]  BY <1>3, <3>1, <3>2
    <3> QED BY <1>4, <3>3
  <2>2. CASE ~ inProgress
    <3>1. Pending = <<>> \o queue  BY <2>2 DEF Pending
    <3>2. Pending = queue  BY <1>3, <3>1
    <3> QED BY <1>4, <3>2
  <2> QED BY <2>1, <2>2
<1>7. ASSUME inProgress PROVE current.route.face = f => Leaf(current.name)
  <2>1. Pending = <<current>> \o queue  BY <1>7 DEF Pending
  <2>2. <<current>> \in Seq({current}) /\ Len(<<current>>) = 1 /\ <<current>>[1] = current  OBVIOUS
  <2>3. 1 \in DOMAIN Pending /\ Pending[1] = current  BY <1>3, <2>1, <2>2
  <2> QED BY <1>4, <2>3
<1>8. \A i \in DOMAIN queue' : GoneLeaf(queue[i])'  BY <1>1, <1>5, <1>6, Zenon DEF GoneLeaf, BatchInv
<1>9. Out' = Out /\ Due' = Due  BY <1>1, <1>2 DEF Out, Due
<1>10. CASE inProgress
  <2>1. InBatch  BY <1>10 DEF BatchInv
  <2>2. GoneLeaf(current)'  BY <1>2, <1>5, <1>7, <1>10, <2>1, Zenon DEF GoneLeaf, InBatch
  <2>3. InBatch'  BY <1>1, <1>2, <1>9, <2>1, <2>2, Zenon DEF InBatch
  <2> QED BY <1>2, <1>8, <1>10, <2>3 DEF BatchInv
<1>11. CASE ~ inProgress  BY <1>2, <1>8, <1>9, <1>11 DEF BatchInv
<1> QED BY <1>10, <1>11

LEMMA CommandsOf ==
    ASSUME NEW S, NEW b
    PROVE  /\ \A c \in Commands(S, b) : c.batch = b /\ c.update \in S
           /\ \A c, d \in Commands(S, b) : c.update = d.update => c = d
           /\ S = {c.update : c \in Commands(S, b)}
           /\ S # {} => Commands(S, b) # {}
           /\ S = {} => Commands(S, b) = {}
<1> DEFINE Of(x) == [update |-> x, verb |-> x.action, tries |-> 0, batch |-> b]
           C == Commands(S, b)
<1>1. C = {Of(x) : x \in S}  BY DEF Commands
<1>2. \A x : Of(x).update = x /\ Of(x).batch = b  OBVIOUS
<1> HIDE DEF Of, C
<1>3. (\A c \in C : c.batch = b /\ c.update \in S) /\ \A c, d \in C : c.update = d.update => c = d
  BY <1>1, <1>2
<1>4. S = {c.update : c \in C}  BY <1>1, <1>2
<1>5. (S # {} => C # {}) /\ (S = {} => C = {})  BY <1>1
<1> QED BY <1>3, <1>4, <1>5, Zenon DEF C

\* The commands of a new batch are the first ones out.
LEMMA SendBatch ==
    ASSUME RibInv, BatchInv, sendBatchFromQueue
    PROVE  BatchInv'
<1>1. UNCHANGED <<up, expiring, crashed>>  BY DEF sendBatchFromQueue, faceVars
<1>2. CASE queue = <<>> \/ inProgress
  <2>1. UNCHANGED batchVars /\ UNCHANGED <<queue, sent>>  BY <1>2 DEF sendBatchFromQueue
  <2>2. IF inProgress' THEN InBatch' ELSE Out' = {}  BY <1>1, <2>1, BatchStays
  <2>3. \A i \in DOMAIN queue' : GoneLeaf(queue[i])'  BY <1>1, <2>1 DEF GoneLeaf, BatchInv
  <2> QED BY <2>2, <2>3 DEF BatchInv
<1>3. CASE ~ (queue = <<>> \/ inProgress)
  <2> DEFINE b == Head(queue)
  <2>1. queue' = Tail(queue) /\ computeAndSendFibUpdates(b)  BY <1>3 DEF sendBatchFromQueue
  <2>2. queue \in Seq(RibUpdate) /\ queue # <<>>  BY <1>3 DEF RibInv, TypeOK
  <2>3. b \in RibUpdate /\ GoneLeaf(b)
    <3>1. 1 \in DOMAIN queue /\ b = queue[1]  BY <2>2
    <3> QED BY <2>2, <3>1 DEF BatchInv
  <2>4. ASSUME NEW i \in DOMAIN queue' PROVE GoneLeaf(queue[i])'
    <3>1. i + 1 \in DOMAIN queue /\ queue'[i] = queue[i + 1]  BY <2>1, <2>2
    <3>2. GoneLeaf(queue'[i])  BY <3>1 DEF BatchInv
    <3> QED BY <1>1, <3>2 DEF GoneLeaf
  <2>5. sent = {} /\ expiring = {}  BY <1>3 DEF BatchInv, Out
  <2> HIDE DEF b
  <2> DEFINE inh(plan) == [n \in Names |-> [f \in Faces |-> plan[n][f].inherit]]
             mine(plan) == {x \in Updates(plan) : x.face = b.route.face}
             others(plan) == Updates(plan) \ mine(plan)
             first(plan) == IF mine(plan) # {} THEN mine(plan) ELSE others(plan)
  <2>6. PICK plan \in computeUpdates(b) :
          /\ sent' = sent \cup Commands(first(plan), b)
          /\ Keeps(sent', b.route.face, mine(plan), others(plan), inh(plan))
          /\ IF Updates(plan) = {} THEN onFibUpdateSuccess(b, inh(plan))
             ELSE inProgress' = TRUE /\ current' = b /\ advancing' = FALSE /\ UNCHANGED ribVars
    BY <2>1, Zenon DEF computeAndSendFibUpdates
  <2> DEFINE F == first(plan)
             C == Commands(F, b)
             m == mine(plan)
             o == others(plan)
  <2>7. sent' = C /\ expiring' = {}  BY <1>1, <2>5, <2>6, Zenon
  <2>8. CASE Updates(plan) = {}
    <3>1. F = {}  BY <2>8
    <3>2. inProgress' = FALSE  BY <2>6, <2>8 DEF onFibUpdateSuccess
    <3> HIDE DEF F
    <3>3. C = {}  BY <3>1, CommandsOf, Zenon
    <3>4. Out' = {}  BY <2>7, <3>3 DEF Out
    <3> QED BY <2>4, <3>2, <3>4 DEF BatchInv
  <2>9. CASE Updates(plan) # {}
    <3>1. F # {} /\ F = (IF m # {} THEN m ELSE o) /\ (\A x \in m : x.face = b.route.face)
          /\ (\A x \in o : x.face # b.route.face)
      BY <2>9, Zenon
    <3>2. b.action = "removeFace" => m = {}
      BY <2>3, PlanOfLeaf DEF RibInv, TableInv
    <3>3. ASSUME Leaf(b.name), NEW x \in m, NEW y \in m PROVE x = y
      <4>1. x \in Updates(plan) /\ y \in Updates(plan) /\ x.face = y.face  BY Zenon
      <4>2. x.name = b.name /\ y.name = b.name
        BY <2>3, <3>3, <4>1, PlanOfLeaf, Zenon DEF RibInv, TableInv
      <4>3. x = UpdateAt(plan, x.name, x.face) /\ y = UpdateAt(plan, y.name, y.face)
        BY <4>1, UpdatesOf, Zenon
      <4> QED BY <4>1, <4>2, <4>3, Zenon
    <3>4. inProgress' = TRUE /\ current' = b  BY <2>6, <2>9, Zenon
    <3>5. Keeps(sent', b.route.face, m, o, inh(plan))  BY <2>6, Zenon
    <3> HIDE DEF F, m, o, inh
    <3>6. /\ C # {} /\ (\A c \in C : c.batch = b) /\ (\A c, d \in C : c.update = d.update => c = d)
          /\ F = {c.update : c \in C}
      BY <3>1, CommandsOf, Zenon
    <3> HIDE DEF C
    <3>7. sent' \cup expiring # {}  BY <2>7, <3>6
    <3>8. batchFace' = b.route.face /\ todoBatch' = m /\ todoOther' = o  BY <3>5, <3>7 DEF Keeps
    <3>9. Due' = F  BY <3>1, <3>8 DEF Due
    <3>10. GoneLeaf(current)'  BY <1>1, <2>3, <3>4 DEF GoneLeaf
    <3>11. Out' = C  BY <2>7 DEF Out
    <3>12. InBatch'
      BY <2>3, <2>7, <3>1, <3>2, <3>3, <3>4, <3>6, <3>8, <3>9, <3>10, <3>11, Zenon DEF InBatch
    <3> QED BY <2>4, <3>4, <3>12 DEF BatchInv
  <2> QED BY <2>8, <2>9
<1> QED BY <1>2, <1>3

\* A batch ends, one way or the other, with the answer to its last command.
LEMMA AnswerBatch ==
    ASSUME RibInv, BatchInv, NEW c \in sent, answer(c)
    PROVE  BatchInv'
<1>1. UNCHANGED <<up, queue, expiring, crashed>> /\ ~ crashed  BY DEF answer, faceVars
<1>2. inProgress /\ InBatch  BY DEF BatchInv, Out
<1>3. \A i \in DOMAIN queue' : GoneLeaf(queue[i])'  BY <1>1 DEF GoneLeaf, BatchInv
<1>4. /\ c \in Out /\ c \notin expiring /\ c.batch = current /\ c.update \in Due
      /\ \A d \in Out : d.update = c.update => d = c
      /\ Due = {d.update : d \in Out}
      /\ \A x \in todoBatch : x.face = batchFace
      /\ \A x \in todoOther : x.face # batchFace
  BY <1>1, <1>2, Zenon DEF InBatch, Out
<1>5. (c.update.face = batchFace) <=> todoBatch # {}  BY <1>4 DEF Due
<1>6. CASE onFibUpdateFailure(c) /\ c.update.face \notin up /\ c.update.face = batchFace
  <2>1. Due = todoBatch /\ todoBatch # {}  BY <1>5, <1>6 DEF Due
  <2>2. current.action # "removeFace" /\ current.route.face \notin up
    BY <1>2, <1>6, <2>1, Zenon DEF InBatch
  <2>3. \A x, y \in todoBatch : x = y  BY <1>2, <2>2, Zenon DEF InBatch, GoneLeaf
  <2>4. Out = {c}
    <3>1. ASSUME NEW d \in Out PROVE d = c
      <4>1. d.update \in todoBatch /\ c.update \in todoBatch  BY <1>4, <2>1
      <4> QED BY <1>4, <2>3, <4>1
    <3> QED BY <1>4, <3>1
  <2>5. inProgress' = FALSE /\ sent' = sent \ {c}  BY <1>6 DEF onFibUpdateFailure
  <2>6. Out' = {}  BY <1>1, <1>4, <2>4, <2>5 DEF Out
  <2> QED BY <1>3, <2>5, <2>6 DEF BatchInv
<1>7. CASE onUpdateDone(c)
  <2> DEFINE mine == c.update.face = batchFace
             bt == IF mine THEN todoBatch \ {c.update} ELSE todoBatch
             ot == IF mine THEN todoOther ELSE todoOther \ {c.update}
             then == IF mine /\ bt = {} THEN Commands(ot, c.batch) ELSE {}
  <2>1. /\ sent' = (sent \ {c}) \cup then /\ Keeps(sent', batchFace, bt, ot, changes)
        /\ IF ot = {} /\ (mine => bt = {}) THEN onFibUpdateSuccess(c.batch, changes)
           ELSE UNCHANGED <<ribVars, inProgress, current, advancing>>
    BY <1>7, Zenon DEF onUpdateDone
  <2> DEFINE rest == Out \ {c}
  <2>2. sent' \cup expiring = rest \cup then /\ Out' = rest \cup then /\ sent' \cap expiring \subseteq then
    <3>1. sent' = (sent \ {c}) \cup then  BY <2>1
    <3>2. expiring' = expiring /\ c \notin expiring  BY <1>1, <1>4
    <3>3. sent \cap expiring = {}  BY <1>2 DEF InBatch
    <3> HIDE DEF then
    <3> QED BY <3>1, <3>2, <3>3 DEF Out
  <2>3. Due \ {c.update} = {d.update : d \in rest}  BY <1>4
  <2>4. Due \ {c.update} = IF mine THEN bt ELSE ot  BY <1>5 DEF Due
  <2>5. bt \subseteq todoBatch /\ ot \subseteq todoOther /\ (~ mine => bt = {})  BY <1>5
  <2> HIDE DEF mine, bt, ot
  <2>6. CASE ot = {} /\ (mine => bt = {})
    <3>1. inProgress' = FALSE  BY <2>1, <2>6 DEF onFibUpdateSuccess
    <3>2. then = {}  BY <2>6, CommandsOf, Zenon
    <3>3. rest = {}  BY <2>3, <2>4, <2>6, Zenon
    <3>4. Out' = {}  BY <2>2, <3>2, <3>3
    <3> QED BY <1>3, <3>1, <3>4 DEF BatchInv
  <2>7. CASE ~ (ot = {} /\ (mine => bt = {}))
    <3> DEFINE due == IF bt # {} THEN bt ELSE ot
    <3>1. UNCHANGED <<inProgress, current>>  BY <2>1, <2>7
    <3>2. due # {}  BY <2>5, <2>7
    <3>3. ASSUME mine /\ bt = {}
          PROVE  /\ \A d \in Out' : d.batch = current
                 /\ \A d, e \in Out' : d.update = e.update => d = e
                 /\ due = {d.update : d \in Out'} /\ sent' \cap expiring' = {}
      <4>1. rest = {}  BY <2>3, <2>4, <3>3
      <4>2. then = Commands(ot, current)  BY <1>4, <3>3, Zenon
      <4>3. due = ot  BY <3>3
      <4> DEFINE C == Commands(ot, current)
      <4>4. /\ \A d \in C : d.batch = current
            /\ \A d, e \in C : d.update = e.update => d = e
            /\ ot = {d.update : d \in C}
        BY CommandsOf, Zenon
      <4>5. expiring = {}
        <5>1. expiring \subseteq Out /\ c \notin expiring  BY <1>4 DEF Out
        <5> QED BY <4>1, <5>1
      <4> HIDE DEF C, then
      <4>6. Out' = C /\ sent' \cap expiring' = {}  BY <1>1, <2>2, <4>1, <4>2, <4>5 DEF C
      <4> HIDE DEF due
      <4> QED BY <4>3, <4>4, <4>6
    <3>4. ASSUME ~ (mine /\ bt = {})
          PROVE  /\ \A d \in Out' : d.batch = current
                 /\ \A d, e \in Out' : d.update = e.update => d = e
                 /\ due = {d.update : d \in Out'} /\ sent' \cap expiring' = {}
      <4>1. then = {}  BY <3>4
      <4> HIDE DEF then
      <4>2. Out' = rest /\ sent' \cap expiring' = {}  BY <1>1, <2>2, <4>1
      <4>3. due = Due \ {c.update}  BY <2>4, <2>5, <2>7, <3>4
      <4>4. (\A d \in rest : d.batch = current) /\ (\A d, e \in rest : d.update = e.update => d = e)
        BY <1>2, Zenon DEF InBatch
      <4> HIDE DEF due, rest
      <4> QED BY <2>3, <4>2, <4>3, <4>4
    <3>5. /\ \A d \in Out' : d.batch = current
          /\ \A d, e \in Out' : d.update = e.update => d = e
          /\ due = {d.update : d \in Out'} /\ sent' \cap expiring' = {}
      BY <3>3, <3>4
    <3>6. sent' \cup expiring # {}
      <4>1. Out' # {}  BY <3>2, <3>5
      <4> QED BY <2>2, <4>1
    <3>7. batchFace' = batchFace /\ todoBatch' = bt /\ todoOther' = ot  BY <2>1, <3>6 DEF Keeps
    <3>8. Due' = due  BY <3>7 DEF Due
    <3>9. GoneLeaf(current)'  BY <1>1, <1>2, <3>1, Zenon DEF GoneLeaf, InBatch
    <3> HIDE DEF due, then, rest
    <3>10. InBatch'
      BY <1>2, <2>5, <3>1, <3>2, <3>5, <3>7, <3>8, <3>9, Zenon DEF InBatch
    <3> QED BY <1>2, <1>3, <3>1, <3>10 DEF BatchInv
  <2> QED BY <2>6, <2>7
<1> QED BY <1>6, <1>7 DEF answer

LEMMA LoseBatch ==
    ASSUME RibInv, BatchInv, NEW c \in sent, lose(c)
    PROVE  BatchInv'
<1>1. UNCHANGED <<up, queue, crashed>> /\ UNCHANGED batchVars  BY DEF lose, faceVars
<1>2. UNCHANGED <<inProgress, current, batchFace, todoBatch, todoOther>>  BY <1>1 DEF batchVars
<1>3. inProgress /\ InBatch  BY DEF BatchInv, Out
<1>4. \A i \in DOMAIN queue' : GoneLeaf(queue[i])'  BY <1>1, Zenon DEF GoneLeaf, BatchInv
<1>5. sent' = sent \ {c} /\ expiring' = expiring \cup {c}  BY DEF lose
<1>6. Out' = Out /\ sent' \cap expiring' = {}  BY <1>3, <1>5, Zenon DEF Out, InBatch
<1>7. Due' = Due /\ GoneLeaf(current)' = GoneLeaf(current)  BY <1>1, <1>2 DEF Due, GoneLeaf
<1>8. InBatch'  BY <1>1, <1>2, <1>3, <1>6, <1>7, Zenon DEF InBatch
<1> QED BY <1>2, <1>3, <1>4, <1>8 DEF BatchInv

\* A retry takes the place of the command that was lost.
LEMMA TimeoutBatch ==
    ASSUME RibInv, BatchInv, NEW c \in expiring, timeout(c)
    PROVE  BatchInv'
<1>1. UNCHANGED <<up, queue>> /\ UNCHANGED batchVars /\ ~ crashed  BY DEF timeout, faceVars
<1>2. UNCHANGED <<inProgress, current, batchFace, todoBatch, todoOther>>  BY <1>1 DEF batchVars
<1>3. inProgress /\ InBatch  BY DEF BatchInv, Out
<1>4. \A i \in DOMAIN queue' : GoneLeaf(queue[i])'  BY <1>1 DEF GoneLeaf, BatchInv
<1>5. Due' = Due /\ GoneLeaf(current)' = GoneLeaf(current)  BY <1>1, <1>2 DEF Due, GoneLeaf
<1>6. expiring' = expiring \ {c}  BY DEF timeout
<1>7. c \in Out /\ sent \cap expiring = {} /\ \A d \in Out : d.update = c.update => d = c
  BY <1>3, Zenon DEF Out, InBatch
<1>8. CASE MayRetry(c)
  <2> DEFINE r == [c EXCEPT !.verb = "add", !.tries = @ + 1]
  <2>1. sent' = sent \cup {r} /\ crashed' = crashed  BY <1>8 DEF timeout
  <2>2. r.update = c.update /\ r.batch = c.batch /\ r # c
    <3>1. c \in Command  BY DEF RibInv, TypeOK
    <3>2. c.tries \in Nat  BY <3>1, CommandFields
    <3>3. r.update = c.update /\ r.batch = c.batch /\ r.tries = c.tries + 1  BY <3>1 DEF Command
    <3> HIDE DEF r
    <3>4. r.tries # c.tries  BY <3>2, <3>3
    <3> QED BY <3>3, <3>4
  <2> HIDE DEF r
  <2>3. Out' = (Out \ {c}) \cup {r}  BY <1>6, <1>7, <2>1, <2>2 DEF Out
  <2>4. r \notin expiring  BY <1>7, <2>2 DEF Out
  <2>5. sent' \cap expiring' = {}  BY <1>6, <1>7, <2>1, <2>4
  <2>6. {d.update : d \in Out'} = {d.update : d \in Out}  BY <1>7, <2>2, <2>3
  <2>7. \A d, e \in Out' : d.update = e.update => d = e  BY <1>3, <1>7, <2>2, <2>3, Zenon DEF InBatch
  <2>8. \A d \in Out' : d.batch = current  BY <1>3, <1>7, <2>2, <2>3, Zenon DEF InBatch
  <2>9. InBatch'  BY <1>2, <1>3, <1>5, <2>1, <2>5, <2>6, <2>7, <2>8, Zenon DEF InBatch
  <2> QED BY <1>2, <1>3, <1>4, <2>9 DEF BatchInv
<1>9. CASE ~ MayRetry(c)
  <2>1. crashed' /\ sent' = sent  BY <1>9 DEF timeout
  <2>2. Out' \subseteq Out /\ sent' \cap expiring' = {}  BY <1>6, <1>7, <2>1 DEF Out
  <2>3. InBatch'  BY <1>2, <1>3, <1>5, <2>1, <2>2, Zenon DEF InBatch
  <2> QED BY <1>2, <1>3, <1>4, <2>3 DEF BatchInv
<1> QED BY <1>8, <1>9

LEMMA BatchNext == RibInv /\ BatchInv /\ [Next]_vars => BatchInv'
<1> SUFFICES ASSUME RibInv, BatchInv, [Next]_vars PROVE BatchInv'
  OBVIOUS
<1>0. Tame  BY DEF BatchInv
<1>1. ASSUME NEW o \in Offers, beginAddRoute(o[1], o[2]) PROVE BatchInv'
  <2> DEFINE u == [action |-> "register", name |-> o[1], route |-> o[2]]
  <2>1. beginApplyUpdate(u) /\ (o[2].face \in up \/ Leaf(o[1]))  BY <1>0, <1>1 DEF beginAddRoute
  <2>2. GoneLeaf(u)  BY <2>1 DEF GoneLeaf
  <2> HIDE DEF u
  <2> QED BY <2>1, <2>2, AskBatch
<1>2. ASSUME NEW n \in Names, NEW q \in Key, beginRemoveRoute(n, q) PROVE BatchInv'
  <2> DEFINE u == [action |-> "unregister", name |-> n, route |-> q]
  <2>1. beginApplyUpdate(u) /\ (q.face \in up \/ Leaf(n))  BY <1>0, <1>2 DEF beginRemoveRoute
  <2>2. GoneLeaf(u)  BY <2>1 DEF GoneLeaf
  <2> HIDE DEF u
  <2> QED BY <2>1, <2>2, AskBatch
<1>3. CASE \E f \in Faces : destroy(f)  BY <1>3, DestroyBatch
<1>4. ASSUME NEW f \in Faces, beginRemoveFace(f) PROVE BatchInv'
  <2> DEFINE F == {f}
  <2>1. enqueueRemoveFaces(F)  BY <1>4 DEF beginRemoveFace
  <2> HIDE DEF F
  <2> QED BY <2>1, RemoveFacesBatch
<1>5. CASE beginRemoveFailedFaces
  <2> DEFINE F == Faces \ up
  <2>1. enqueueRemoveFaces(F)  BY <1>5 DEF beginRemoveFailedFaces
  <2> HIDE DEF F
  <2> QED BY <2>1, RemoveFacesBatch
<1>6. CASE sendBatchFromQueue  BY <1>6, SendBatch
<1>7. CASE \E c \in sent : answer(c)  BY <1>7, AnswerBatch
<1>8. CASE \E c \in sent : lose(c)  BY <1>8, LoseBatch
<1>9. CASE \E c \in expiring : timeout(c)  BY <1>9, TimeoutBatch
<1>10. CASE UNCHANGED vars
  <2>1. UNCHANGED <<up, sent, expiring, crashed>> /\ UNCHANGED batchVars /\ UNCHANGED queue
    BY <1>10 DEF vars, faceVars
  <2>2. \A i \in DOMAIN queue' : GoneLeaf(queue[i])'  BY <2>1 DEF GoneLeaf, BatchInv
  <2> QED BY <1>0, <2>1, <2>2, BatchStays DEF BatchInv
<1> QED BY <1>1, <1>2, <1>3, <1>4, <1>5, <1>6, <1>7, <1>8, <1>9, <1>10 DEF Next

\* computeAndSendFibUpdates is called when no command of an earlier batch is
\* out: in a tame run a batch ends with the answer to its last command, because
\* a face that goes fails the batch of a leaf only, whose command of that face
\* is the only one out.
THEOREM OneBatchAtATimeAlways == Tame /\ Spec => []OneBatchAtATime
<1>1. BatchInv => OneBatchAtATime  BY Zenon DEF BatchInv, InBatch, Out, OneBatchAtATime
<1> QED BY <1>1, BatchInit, BatchNext, Invariance, PTL DEF Spec
==============================================================================
