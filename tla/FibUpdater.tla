----------------------------- MODULE FibUpdater -----------------------------
(* FibUpdater::computeUpdates (daemon/rib/fib-updater.cpp): from the RIB and  *)
(* one RIB update, the next hops to add to and to remove from the FIB, and    *)
(* the inherited routes to record.  What is computed is a plan: for each name *)
(* and face an update of the FIB, if any (a later one replaces an earlier     *)
(* one, as addFibUpdate does), and a change of the inherited routes, if any.  *)
EXTENDS RibTable

Add(c) == [action |-> "add", cost |-> c]
RemoveHop == [action |-> "remove", cost |-> 0]
NoUpdate == [action |-> "none", cost |-> 0]

NoPlan == [n \in Names |-> [f \in Faces |-> [fib |-> NoUpdate, inherit |-> "same"]]]

addFibUpdate(plan, n, f, u) == [plan EXCEPT ![n][f].fib = u]

addInherited(c) == [fib |-> Add(c), inherit |-> "add"]
removeInherited == [fib |-> RemoveHop, inherit |-> "remove"]

\* The routes the entry n, with this list of routes, inherits.
addInheritedRoutes(plan, n, list, toAdd) ==
    [plan EXCEPT ![n] = [f \in Faces |->
        IF toAdd[f] # None /\ ~ hasFaceId(list, f) THEN addInherited(toAdd[f]) ELSE @[f]]]

removeInheritedRoutes(plan, n, toRemove) ==
    [plan EXCEPT ![n] = [f \in Faces |->
        IF toRemove[f] # None /\ f \in inherited[n] THEN removeInherited ELSE @[f]]]

\* traverseSubTree over the children of n.  It does not enter an entry that
\* captures, and below an entry that hands down a route of its own on a face
\* it has nothing more to do for that face.
Reached(n, d, f) ==
    \A m \in Descendants(n) : IsPrefix(m, d) =>
        ~ hasCapture(m) /\ ~ hasChildInheritOnFaceId(routes[m], f)

modifyChildrensInheritedRoutes(plan, n, toAdd, toRemove) ==
    [d \in Names |-> IF d \notin Descendants(n) THEN plan[d] ELSE
        [f \in Faces |->
            IF ~ Reached(n, d, f) THEN plan[d][f]
            ELSE IF toAdd[f] # None /\ ~ hasFaceId(routes[d], f) THEN addInherited(toAdd[f])
            ELSE IF toRemove[f] # None /\ f \in inherited[d] THEN removeInherited
            ELSE plan[d][f]]]

-----------------------------------------------------------------------------
\* The first route of a name.
createFibUpdatesForNewRibEntry(n, r) ==
    LET above == getAncestorRoutes(n)
        own == addFibUpdate(NoPlan, n, r.face, Add(r.cost))
        self == IF r.capture THEN own ELSE addInheritedRoutes(own, n, <<r>>, above)
        toAdd == IF ~ r.inherit THEN NoRoutes
                 ELSE IF r.capture THEN Only(r)
                 ELSE [above EXCEPT ![r.face] = r.cost]
        toRemove == IF r.capture THEN above ELSE NoRoutes
    IN  IF r.inherit \/ r.capture
        THEN modifyChildrensInheritedRoutes(self, n, toAdd, toRemove) ELSE self

\* Another route of a name, whose list is this one.
createFibUpdatesForNewRoute(plan, n, list, r, captureWasTurnedOn) ==
    LET prev == getRouteWithLowestCostAndChildInheritByFaceId(list, r.face)
        toAdd == IF r.inherit /\ (prev = None \/ r.cost <= prev) THEN Only(r) ELSE NoRoutes
        toRemove == IF captureWasTurnedOn THEN getAncestorRoutes(n) ELSE NoRoutes
        self == removeInheritedRoutes(plan, n, toRemove)
        children == modifyChildrensInheritedRoutes(self, n, toAdd, toRemove)
        other == getRouteWithLowestCostByFaceId(list, r.face)
    IN  IF other = None \/ r.cost <= other
        THEN addFibUpdate(children, n, r.face, Add(r.cost)) ELSE children

\* A route is registered again, old being what it was and list the routes with
\* the new one in its place.  (The FIB update of the entry itself when another
\* route has become the cheapest of the face is taken from prevRoute, which
\* may be a null pointer; only several routes of one face get there.)
createFibUpdatesForUpdatedRoute(n, list, r, old) ==
    LET prev == getRouteWithLowestCostAndChildInheritByFaceId(list, r.face)
        lowest == getRouteWithLowestCostByFaceId(list, r.face)
        sameFlags == r.inherit = old.inherit /\ r.capture = old.capture
        above == getAncestorRoutes(n)
        ownCost == IF r.cost # old.cost /\ r.cost <= lowest
                   THEN addFibUpdate(NoPlan, n, r.face, Add(r.cost))
                   ELSE IF r.cost # old.cost /\ old.cost < lowest /\ prev # None
                   THEN addFibUpdate(NoPlan, n, r.face, Add(prev))
                   ELSE NoPlan
        handsDown == prev = None \/ r.cost <= prev
        instead == IF prev # None THEN [NoRoutes EXCEPT ![r.face] = prev]
                   ELSE [NoRoutes EXCEPT ![r.face] = above[r.face]]
        inheritance ==
            IF ~ old.inherit /\ r.inherit /\ handsDown
            THEN modifyChildrensInheritedRoutes(ownCost, n, Only(r), NoRoutes)
            ELSE IF old.inherit /\ ~ r.inherit
            THEN modifyChildrensInheritedRoutes(ownCost, n, instead, Only(r))
            ELSE ownCost
    IN  IF sameFlags
        THEN IF r.cost # old.cost /\ handsDown /\ r.inherit
             THEN modifyChildrensInheritedRoutes(ownCost, n, Only(r), NoRoutes) ELSE ownCost
        ELSE IF ~ old.capture /\ r.capture
             THEN modifyChildrensInheritedRoutes(removeInheritedRoutes(inheritance, n, above),
                                                 n, NoRoutes, above)
        ELSE IF old.capture /\ ~ r.capture
             THEN modifyChildrensInheritedRoutes(addInheritedRoutes(inheritance, n, list, above),
                                                 n, above, NoRoutes)
        ELSE inheritance

\* A bug would be to let an entry that goes inherit in place of its last route.
InheritsInsteadAlways(list, count) == ~ Captures(count)
InheritsInstead(list, count) == ~ Captures(count) /\ list # <<>>

\* The route old goes, list and count being the entry without it.
createFibUpdatesForErasedRoute(n, list, count, old, captureWasTurnedOff) ==
    LET above == getAncestorRoutes(n)
        gone == addFibUpdate(NoPlan, n, old.face, RemoveHop)
        uncovered == old.capture /\ captureWasTurnedOff /\ list # <<>>
        self == IF uncovered THEN addInheritedRoutes(gone, n, list, above) ELSE gone
        toAdd == IF uncovered \/ (old.inherit /\ ~ old.capture /\ ~ Captures(count))
                 THEN above ELSE NoRoutes
        toRemove == IF old.inherit THEN Only(old) ELSE NoRoutes
        children == IF old.inherit \/ old.capture
                    THEN modifyChildrensInheritedRoutes(self, n, toAdd, toRemove) ELSE self
    IN  IF InheritsInstead(list, count) /\ above[old.face] # None
        THEN [children EXCEPT ![n][old.face] = addInherited(above[old.face])] ELSE children

createFibUpdatesForErasedRibEntry(plan, n) ==
    [plan EXCEPT ![n] = [f \in Faces |->
        IF f \in inherited[n] THEN [@[f] EXCEPT !.fib = RemoveHop] ELSE @[f]]]

-----------------------------------------------------------------------------
\* Both return a set of plans: all but the last step are deterministic.
computeUpdatesForRegistration(n, r) ==
    LET i == findRoute(routes[n], r)
    IN  IF n \notin Entries THEN {createFibUpdatesForNewRibEntry(n, r)}
        ELSE IF i = 0
        THEN {createFibUpdatesForNewRoute(NoPlan, n, routes[n], r, ~ hasCapture(n) /\ r.capture)}
        ELSE {createFibUpdatesForUpdatedRoute(n, [routes[n] EXCEPT ![i] = r], r, routes[n][i])}

computeUpdatesForUnregistration(n, q) ==
    LET i == findRoute(routes[n], q)
        old == routes[n][i]
        list == RemoveAt(routes[n], i)
        count == nCapture[n] - CaptureBit(old)
        erased == createFibUpdatesForErasedRoute(n, list, count, old,
                                                 hasCapture(n) /\ ~ Captures(count))
        nexts == getRouteWithSecondLowestCostByFaceId(routes[n], old.face)
        plans == IF nexts = {} THEN {erased}
                 ELSE {createFibUpdatesForNewRoute(erased, n, list, next, FALSE) : next \in nexts}
    IN  IF i = 0 THEN {NoPlan}
        ELSE IF list = <<>> THEN {createFibUpdatesForErasedRibEntry(p, n) : p \in plans}
        ELSE plans

\* A face that is gone takes its next hops out of the FIB by itself.
computeUpdates(u) ==
    CASE u.action = "register" -> computeUpdatesForRegistration(u.name, u.route)
      [] u.action = "unregister" -> computeUpdatesForUnregistration(u.name, u.route)
      [] u.action = "removeFace" ->
            {[n \in Names |-> [p[n] EXCEPT ![u.route.face].fib = NoUpdate]] :
                p \in computeUpdatesForUnregistration(u.name, u.route)}
=============================================================================
