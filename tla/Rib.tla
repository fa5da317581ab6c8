-------------------------------- MODULE Rib ---------------------------------
(* How a RIB update is carried out (daemon/rib/rib.cpp, fib-updater.cpp and   *)
(* daemon/mgmt/rib-manager.cpp).  Updates wait in a queue; one at a time is   *)
(* computed into FIB commands, the commands go to the FIB manager, and when   *)
(* all have succeeded the RIB itself is changed.  Commands may be lost, with  *)
(* or without having been executed; the controller then reports a timeout.    *)
(* Faces are destroyed meanwhile: the RIB hears of it by notification, or     *)
(* from the list of faces that it fetches now and then.                       *)
(*                                                                            *)
(* The callback of a command is part of the step that executes it: it does    *)
(* not touch what the thread of the FIB manager reads, nor the other way      *)
(* round, so that the time in between makes no difference.  For the same      *)
(* reason nothing happens between a handler and its call of                   *)
(* sendBatchFromQueue.                                                        *)
EXTENDS FibUpdater

CONSTANTS
    Offers,            \* the names and routes that may be registered
    Lossy,             \* which FIB commands may be lost, of {"add", "remove"}
    MAX_NUM_TIMEOUTS,
    Tame,              \* keep to registrations for which the FIB is right
    MaxRoutes,         \* bound: routes in the RIB
    MaxPending,        \* bound: a request is made when fewer are pending
    MaxDown            \* bound: faces destroyed

ASSUME UpdateAssumption ==
    /\ Offers \subseteq Names \X Route
    /\ Lossy \subseteq {"add", "remove"}
    /\ MAX_NUM_TIMEOUTS \in Nat
    /\ Tame \in BOOLEAN

VARIABLES
    up,          \* FaceTable: the faces there are
    fib,         \* the cost of each next hop in the FIB
    noticed,     \* destroyed faces whose notification is still on its way
    queue,       \* m_updateBatches; each batch has one update
    inProgress,  \* m_isUpdateInProgress
    advancing,   \* the RIB thread is on its way to sendBatchFromQueue
    current,     \* the batch in progress, or None
    batchFace,   \* m_batchFaceId, or None
    todoBatch,   \* m_updatesForBatchFaceId
    todoOther,   \* m_updatesForNonBatchFaceId
    changes,     \* m_inheritedRoutes
    sent,        \* commands on their way to the FIB manager
    expiring,    \* commands that will time out
    crashed      \* FibUpdater::Error was thrown

batchVars == <<inProgress, current, batchFace, todoBatch, todoOther, changes>>
faceVars == <<up, noticed>>
vars == <<ribVars, faceVars, fib, queue, advancing, batchVars, sent, expiring, crashed>>

Key == [face : Faces, origin : Origins]
RibUpdate == [action : {"register"}, name : Names, route : Route]
             \cup [action : {"unregister", "removeFace"}, name : Names, route : Key]
FibUpdate == [name : Names, face : Faces, action : {"add", "remove"}, cost : Costs \cup {0}]

\* verb is what is sent, which after a timeout is not what the update says.
Command == [update : FibUpdate, verb : {"add", "remove"}, tries : 0 .. MAX_NUM_TIMEOUTS,
            batch : RibUpdate]

TypeOK ==
    /\ RibTypeOK
    /\ up \subseteq Faces /\ noticed \subseteq Faces \ up
    /\ fib \in [Names -> [Faces -> Costs \cup {0, None}]]
    /\ queue \in Seq(RibUpdate)
    /\ {inProgress, advancing, crashed} \subseteq BOOLEAN
    /\ current \in RibUpdate \cup {None} /\ batchFace \in Faces \cup {None}
    /\ todoBatch \subseteq FibUpdate /\ todoOther \subseteq FibUpdate
    /\ changes \in [Names -> [Faces -> {"add", "remove", "same"}]]
    /\ sent \subseteq Command /\ expiring \subseteq Command

NoChanges == [n \in Names |-> [f \in Faces |-> "same"]]

Init ==
    /\ RibInit
    /\ up = Faces /\ noticed = {}
    /\ fib = [n \in Names |-> NoRoutes]
    /\ queue = <<>> /\ inProgress = FALSE /\ advancing = FALSE /\ current = None
    /\ batchFace = None /\ todoBatch = {} /\ todoOther = {} /\ changes = NoChanges
    /\ sent = {} /\ expiring = {} /\ crashed = FALSE

-----------------------------------------------------------------------------
(* What is asked of the RIB.                                                 *)

\* The table when everything under way has been applied.
Applied(table, u) ==
    LET i == findRoute(table[u.name], u.route)
        list == table[u.name]
    IN  [table EXCEPT ![u.name] =
            IF u.action = "register"
            THEN IF i = 0 THEN Append(list, u.route) ELSE [list EXCEPT ![i] = u.route]
            ELSE IF i = 0 THEN list ELSE RemoveAt(list, i)]
Pending == (IF inProgress THEN <<current>> ELSE <<>>) \o queue
Intended ==
    LET after[i \in 0 .. Len(Pending)] ==
            IF i = 0 THEN routes ELSE Applied(after[i - 1], Pending[i])
    IN  after[Len(Pending)]

RoutesOf(table) == UNION {{<<n, table[n][i]>> : i \in DOMAIN table[n]} : n \in Names}

\* The tables that the FIB follows: each face has one route; or no route
\* captures, and the routes of a face that has several are all inherited.
WellBehaved(table) ==
    LET all == RoutesOf(table)
        One(x) == \A y \in all : y[2].face = x[2].face => y = x
    IN  \/ \A x \in all : One(x)
        \/ \A x \in all : ~ x[2].capture /\ (One(x) \/ x[2].inherit)

\* ...and the removals that it follows.
LeavesWell(table, n, q) ==
    LET i == findRoute(table[n], q)
    IN  i # 0 /\ table[n][i].capture /\ Len(table[n]) = 1
            => \A d \in Names : IsStrictPrefix(n, d) => table[d] = <<>>

Leaf(n) == \A d \in Names : ~ IsStrictPrefix(n, d)

KeepsCapture(table, n, r) ==
    LET i == findRoute(table[n], r) IN i # 0 => table[n][i].capture = r.capture

MayAsk == ~ crashed /\ ~ advancing /\ Len(Pending) < MaxPending

\* beginApplyUpdate: the request is queued, and sendBatchFromQueue called.
beginApplyUpdate(u) ==
    /\ queue' = Append(queue, u)
    /\ advancing' = TRUE
    /\ UNCHANGED <<ribVars, faceVars, fib, batchVars, sent, expiring, crashed>>

beginAddRoute(n, r) ==
    LET u == [action |-> "register", name |-> n, route |-> r]
    IN  /\ MayAsk
        /\ Cardinality(RoutesOf(Applied(Intended, u))) <= MaxRoutes
        /\ Tame => /\ WellBehaved(Applied(Intended, u))
                   /\ KeepsCapture(Intended, n, r)
                   /\ r.face \in up \/ Leaf(n)
        /\ beginApplyUpdate(u)

\* Also onRouteExpiration, for a route whose time is up.  (For a route that is
\* neither there nor on its way nothing happens.)
beginRemoveRoute(n, q) ==
    /\ MayAsk
    /\ findRoute(Intended[n], q) # 0
    /\ Tame => LeavesWell(Intended, n, q) /\ (q.face \in up \/ Leaf(n))
    /\ beginApplyUpdate([action |-> "unregister", name |-> n, route |-> q])

-----------------------------------------------------------------------------
(* Faces.                                                                    *)

\* FaceTable removes a face, with its next hops in the FIB.  In a tame run only
\* a leaf has an update pending with it, so that at most one FIB command fails.
destroy(f) ==
    /\ ~ crashed /\ ~ advancing
    /\ f \in up
    /\ Cardinality(Faces \ up) < MaxDown
    /\ Tame => /\ \A i \in DOMAIN Pending : Pending[i].route.face = f => Leaf(Pending[i].name)
               /\ \A x \in RoutesOf(Intended) : x[2].face = f /\ x[2].capture => Leaf(x[1])
    /\ up' = up \ {f}
    /\ noticed' = noticed \cup {f}
    /\ fib' = [n \in Names |-> [fib[n] EXCEPT ![f] = None]]
    /\ UNCHANGED <<ribVars, queue, advancing, batchVars, sent, expiring, crashed>>

\* enqueueRemoveFace for the entries that the face table gives; a second
\* removal of the same route would find nothing and is left out.
RouteRemovals(faces) ==
    UNION {{[action |-> "removeFace", name |-> n,
             route |-> [face |-> routes[n][i].face, origin |-> routes[n][i].origin]] :
                i \in {i \in DOMAIN routes[n] : /\ routes[n][i].face \in faces
                                                /\ faceEntries[n][routes[n][i].face] > 0}} :
           n \in Names}

\* The order is that of m_faceEntries, in which the routes were inserted.
enqueueRemoveFaces(faces) ==
    /\ ~ crashed /\ ~ advancing
    /\ \E s \in SetToSeqs(RouteRemovals(faces)) : queue' = queue \o s
    /\ advancing' = TRUE
    /\ UNCHANGED <<ribVars, up, fib, batchVars, sent, expiring, crashed>>

\* onNotification
beginRemoveFace(f) ==
    /\ f \in noticed
    /\ noticed' = noticed \ {f}
    /\ enqueueRemoveFaces({f})

\* fetchActiveFaces and removeInvalidFaces, from time to time: what notifications
\* left behind goes.  (Bound: once an hour is when nothing else is going on.)
beginRemoveFailedFaces ==
    /\ Pending = <<>> /\ noticed = {}
    /\ up # Faces
    /\ enqueueRemoveFaces(Faces \ up)
    /\ UNCHANGED noticed

-----------------------------------------------------------------------------
(* Batches.                                                                  *)

Updates(plan) == {x \in {[name |-> n, face |-> f, action |-> plan[n][f].fib.action,
                          cost |-> plan[n][f].fib.cost] : n \in Names, f \in Faces} :
                    x.action # "none"}

Commands(updates, b) ==
    {[update |-> x, verb |-> x.action, tries |-> 0, batch |-> b] : x \in updates}

\* What a batch leaves behind is kept while there is a command out whose
\* callback could read it; the next batch clears it.
Keeps(out, face, batchTodo, otherTodo, inheritance) ==
    IF out \cup expiring = {}
    THEN batchFace' = None /\ todoBatch' = {} /\ todoOther' = {} /\ changes' = NoChanges
    ELSE /\ batchFace' = face /\ changes' = inheritance
         /\ todoBatch' = batchTodo /\ todoOther' = otherTodo

\* onFibUpdateSuccess: the update, then the inherited routes.
onFibUpdateSuccess(b, inheritance) ==
    /\ IF b.action = "register" THEN insert(b.name, b.route) ELSE erase(b.name, b.route)
    /\ inherited' = [n \in Names |-> IF routes'[n] = <<>> THEN {} ELSE
            {f \in Faces : CASE inheritance[n][f] = "add" -> TRUE
                             [] inheritance[n][f] = "remove" -> FALSE
                             [] OTHER -> f \in inherited[n]}]
    /\ inProgress' = FALSE
    /\ current' = None
    /\ advancing' = TRUE

\* computeAndSendFibUpdates: the commands for the face of the batch go first.
computeAndSendFibUpdates(b) ==
    \E plan \in computeUpdates(b) :
        LET inheritance == [n \in Names |-> [f \in Faces |-> plan[n][f].inherit]]
            forBatchFace == {x \in Updates(plan) : x.face = b.route.face}
            forOthers == Updates(plan) \ forBatchFace
        IN  /\ sent' = sent \cup Commands(IF forBatchFace # {} THEN forBatchFace ELSE forOthers, b)
            /\ Keeps(sent', b.route.face, forBatchFace, forOthers, inheritance)
            /\ IF Updates(plan) = {}
               THEN onFibUpdateSuccess(b, inheritance)
               ELSE /\ inProgress' = TRUE
                    /\ current' = b
                    /\ advancing' = FALSE
                    /\ UNCHANGED ribVars

\* A bug would be to start a batch while one is in progress.
sendBatchFromQueueAnyway ==
    /\ ~ crashed /\ advancing
    /\ IF queue = <<>>
       THEN advancing' = FALSE /\ UNCHANGED <<ribVars, queue, batchVars, sent>>
       ELSE queue' = Tail(queue) /\ computeAndSendFibUpdates(Head(queue))
    /\ UNCHANGED <<faceVars, fib, expiring, crashed>>

sendBatchFromQueue ==
    /\ ~ crashed /\ advancing
    /\ IF queue = <<>> \/ inProgress
       THEN advancing' = FALSE /\ UNCHANGED <<ribVars, queue, batchVars, sent>>
       ELSE queue' = Tail(queue) /\ computeAndSendFibUpdates(Head(queue))
    /\ UNCHANGED <<faceVars, fib, expiring, crashed>>

\* onUpdateSuccess, and the part of onUpdateError that treats a next hop whose
\* face is gone as done.  When nothing is left it is onSuccess of c's batch,
\* which may be a batch that has failed.
onUpdateDone(c) ==
    LET mine == c.update.face = batchFace
        batchTodo == IF mine THEN todoBatch \ {c.update} ELSE todoBatch
        otherTodo == IF mine THEN todoOther ELSE todoOther \ {c.update}
        then == IF mine /\ batchTodo = {} THEN Commands(otherTodo, c.batch) ELSE {}
    IN  /\ sent' = (sent \ {c}) \cup then
        /\ Keeps(sent', batchFace, batchTodo, otherTodo, changes)
        /\ IF otherTodo = {} /\ (mine => batchTodo = {})
           THEN onFibUpdateSuccess(c.batch, changes)
           ELSE UNCHANGED <<ribVars, inProgress, current, advancing>>

\* onFailure: the batch is given up, but its other commands are still out.
onFibUpdateFailure(c) ==
    /\ inProgress' = FALSE
    /\ current' = None
    /\ advancing' = TRUE
    /\ sent' = sent \ {c}
    /\ Keeps(sent', batchFace, todoBatch, todoOther, changes)
    /\ UNCHANGED ribVars

\* FibManager::addNextHop and removeNextHop
Executed(c) ==
    [fib EXCEPT ![c.update.name][c.update.face] =
        IF c.verb = "remove" \/ c.update.face \notin up THEN None ELSE c.update.cost]

answer(c) ==
    /\ ~ crashed /\ ~ advancing
    /\ c \in sent
    /\ fib' = Executed(c)
    /\ IF c.verb = "add" /\ c.update.face \notin up /\ c.update.face = batchFace
       THEN onFibUpdateFailure(c) ELSE onUpdateDone(c)
    /\ UNCHANGED <<faceVars, queue, expiring, crashed>>

\* A command or its answer is lost.
lose(c) ==
    /\ ~ crashed /\ ~ advancing
    /\ c \in sent /\ c.verb \in Lossy
    /\ fib' \in {fib, Executed(c)}
    /\ sent' = sent \ {c}
    /\ expiring' = expiring \cup {c}
    /\ UNCHANGED <<ribVars, faceVars, queue, advancing, batchVars, crashed>>

\* A bug would be to retry once too often.
MayRetryMore(c) == c.tries <= MAX_NUM_TIMEOUTS
MayRetry(c) == c.tries < MAX_NUM_TIMEOUTS

\* onUpdateError with ERROR_TIMEOUT: whatever the command was, it is sent again
\* as one that adds a next hop.
timeout(c) ==
    /\ ~ crashed /\ ~ advancing
    /\ c \in expiring
    /\ expiring' = expiring \ {c}
    /\ IF MayRetry(c)
       THEN sent' = sent \cup {[c EXCEPT !.verb = "add", !.tries = @ + 1]} /\ UNCHANGED crashed
       ELSE crashed' = TRUE /\ UNCHANGED sent
    /\ UNCHANGED <<ribVars, faceVars, fib, queue, advancing, batchVars>>

Next ==
    \/ \E o \in Offers : beginAddRoute(o[1], o[2])
    \/ \E n \in Names, q \in Key : beginRemoveRoute(n, q)
    \/ \E f \in Faces : destroy(f) \/ beginRemoveFace(f)
    \/ beginRemoveFailedFaces
    \/ sendBatchFromQueue
    \/ \E c \in sent : answer(c) \/ lose(c)
    \/ \E c \in expiring : timeout(c)

Spec == Init /\ [][Next]_vars

-----------------------------------------------------------------------------
\* What the FIB should hold.  A name with routes has the next hops of its own
\* routes at their lowest cost, and of the other faces those that the nearest
\* ancestor with an inherited route offers, as far as no entry captures.
Captured(n) == \E i \in DOMAIN routes[n] : routes[n][i].capture
Inherits(n, f) ==
    LET offers == {a \in Ancestors(n) :
                    /\ hasChildInheritOnFaceId(routes[a], f)
                    /\ \A m \in Entries : IsStrictPrefix(a, m) /\ IsPrefix(m, n) => ~ Captured(m)}
    IN  IF offers = {} THEN None
        ELSE LET a == CHOOSE a \in offers : \A b \in offers : Len(b) <= Len(a)
             IN  getRouteWithLowestCostAndChildInheritByFaceId(routes[a], f)

AtRest == Pending = <<>> /\ ~ advancing /\ ~ crashed

\* Once all updates are through, the FIB has for every name the next hops that
\* the routes in the RIB call for: those of its own at the right cost, and the
\* inherited ones (the cost of which may be that of a farther ancestor).
FibFollowsRib ==
    AtRest => \A n \in Names, f \in up :
        IF hasFaceId(routes[n], f)
        THEN fib[n][f] = getRouteWithLowestCostByFaceId(routes[n], f)
        ELSE (fib[n][f] # None) = (n \in Entries /\ Inherits(n, f) # None)

\* Only the commands of the batch in progress are under way, as
\* computeAndSendFibUpdates demands of its caller.
OneBatchAtATime ==
    \A c \in sent \cup expiring : inProgress /\ c.batch = current

\* modifyInheritedRoutes asserts that the names it is told of have an entry;
\* they were chosen before the batch was sent.
RecordsHaveEntries ==
    inProgress => \A n \in Names, f \in Faces :
        changes[n][f] # "same" => Applied(routes, current)[n] # <<>>

\* Every route can be found by its face, so that it goes when the face does.
RoutesFoundByFace ==
    \A x \in RoutesOf(routes) : faceEntries[x[1]][x[2].face] > 0
=============================================================================
