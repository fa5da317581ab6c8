---------------------------- MODULE FibSharding -----------------------------
(* The forwarding table of MW-NFD: one FIB in the main thread for           *)
(* /localhost prefixes and one FIB per forwarding worker, filled by         *)
(* commands that the management thread emits to the workers one after the   *)
(* other (emitMwNfdcCommand returns from worker w before it turns to w+1).  *)
(*                                                                          *)
(* The RIB turns a route registration into a FIB command that reaches       *)
(* FibManager later; the net-name flag of the registration travels outside  *)
(* that command, in the process-wide variable g_netName.                    *)
(*                                                                          *)
(* A next hop is a face; costs only order the next hops of an entry and are *)
(* left out.  An entry exists exactly while it has a next hop.              *)
(*                                                                          *)
(* Faces come and go by commands of the same kind.  A worker has a link     *)
(* service for each face it was told of, and its PIT names faces in in- and *)
(* out-records; packets of a face may be in its queues at any time, also    *)
(* long after the face has gone.                                            *)
EXTENDS WorkerDispatch

CONSTANTS
    Localhost,      \* the component "localhost"
    Names,          \* names of Interests
    Prefixes,       \* prefixes that routes are registered for
    Faces,          \* all faces there will ever be
    Requested,      \* next hops that registrations are about
    FibShardingOn,  \* the configuration option fib-sharding
    QueueBound      \* bound on the FIB commands in flight from the RIB

NextHop == [prefix : Prefixes, face : Faces]

ASSUME FibAssumption ==
    /\ Localhost \in LocalhostLike
    /\ Names \subseteq Name /\ Prefixes \subseteq Name
    /\ Requested \subseteq NextHop
    /\ FibShardingOn \in BOOLEAN
    /\ QueueBound \in Nat

VARIABLES
    unborn,    \* faces not created yet
    faces,     \* the FaceTable
    mainFib,   \* FIB of the main forwarder
    fib,       \* FIB of each worker
    netName,   \* g_netName
    queue,     \* FIB commands sent by the RIB, not yet handled by FibManager
    emission,  \* the command being emitted and the worker it goes to next
    routes,    \* next hops management has accepted and not removed
    links,     \* each worker's link services: m_genericLinkServiceList
    records    \* faces that the records of each worker's PIT refer to

vars == <<unborn, faces, mainFib, fib, netName, queue, emission, routes, links, records>>

Command == [verb : {"add", "remove"}, hop : NextHop]

Idle == [verb |-> "none"]

Emission ==
    {Idle}
    \cup [verb : {"add", "remove"}, hop : NextHop, net : BOOLEAN, next : Workers]
    \cup [verb : {"create", "destroy"}, face : Faces, next : Workers]

TypeOK ==
    /\ unborn \subseteq Faces /\ faces \subseteq Faces
    /\ mainFib \subseteq NextHop
    /\ fib \in [Workers -> SUBSET NextHop]
    /\ netName \in BOOLEAN
    /\ queue \in Seq(Command)
    /\ emission \in Emission
    /\ routes \subseteq NextHop
    /\ links \in [Workers -> SUBSET Faces]
    /\ records \in [Workers -> SUBSET Faces]

Init ==
    /\ unborn = Faces
    /\ faces = {}
    /\ mainFib = {}
    /\ fib = [w \in Workers |-> {}]
    /\ netName = FALSE
    /\ queue = <<>>
    /\ emission = Idle
    /\ routes = {}
    /\ links = [w \in Workers |-> {}]
    /\ records = [w \in Workers |-> {}]

-----------------------------------------------------------------------------
\* RibManager::registerEntry: the flag is raised at once, the FIB command
\* follows when the RIB has computed it.
registerEntry(hop, net) ==
    /\ Len(queue) < QueueBound
    /\ netName' = (netName \/ net)
    /\ queue' = Append(queue, [verb |-> "add", hop |-> hop])
    /\ UNCHANGED <<unborn, faces, mainFib, fib, emission, routes, links, records>>

\* RibManager::unregisterEntry
unregisterEntry(hop) ==
    /\ Len(queue) < QueueBound
    /\ queue' = Append(queue, [verb |-> "remove", hop |-> hop])
    /\ UNCHANGED <<unborn, faces, mainFib, fib, netName, emission, routes, links, records>>

IsLocalhost(p) == Len(p) >= 1 /\ p[1] = Localhost

\* FibManager::addNextHop.  The flag is dropped when the face is unknown,
\* kept when the prefix belongs to the main FIB.
addNextHop ==
    /\ emission = Idle
    /\ queue # <<>>
    /\ Head(queue).verb = "add"
    /\ queue' = Tail(queue)
    /\ LET hop == Head(queue).hop IN
       \/ /\ hop.face \notin faces
          /\ netName' = FALSE
          /\ UNCHANGED <<mainFib, emission, routes>>
       \/ /\ hop.face \in faces
          /\ IsLocalhost(hop.prefix)
          /\ mainFib' = mainFib \cup {hop}
          /\ routes' = routes \cup {hop}
          /\ UNCHANGED <<netName, emission>>
       \/ /\ hop.face \in faces
          /\ ~IsLocalhost(hop.prefix)
          /\ emission' = [verb |-> "add", hop |-> hop, net |-> netName, next |-> 0]
          /\ routes' = routes \cup {hop}
          /\ UNCHANGED <<mainFib, netName>>
    /\ UNCHANGED <<unborn, faces, fib, links, records>>

\* FibManager::removeNextHop: with workers running, the command goes to the
\* workers whatever the prefix is.
removeNextHop ==
    /\ emission = Idle
    /\ queue # <<>>
    /\ Head(queue).verb = "remove"
    /\ queue' = Tail(queue)
    /\ LET hop == Head(queue).hop IN
       /\ routes' = routes \ {hop}
       /\ emission' = IF hop.face \in faces
                      THEN [verb |-> "remove", hop |-> hop, net |-> netName, next |-> 0]
                      ELSE Idle
    /\ UNCHANGED <<unborn, faces, mainFib, fib, netName, links, records>>

\* FaceTable::add, up to the emission of FACE CREATE; face ids are not reused.
addFace(f) ==
    /\ emission = Idle
    /\ f \in unborn
    /\ unborn' = unborn \ {f}
    /\ faces' = faces \cup {f}
    /\ emission' = [verb |-> "create", face |-> f, next |-> 0]
    /\ UNCHANGED <<mainFib, fib, netName, queue, routes, links, records>>

\* FaceTable::remove, up to the first emission of FACE DESTROYED.
removeFace(f) ==
    /\ emission = Idle
    /\ f \in faces
    /\ emission' = [verb |-> "destroy", face |-> f, next |-> 0]
    /\ routes' = {hop \in routes : hop.face # f}
    /\ UNCHANGED <<unborn, faces, mainFib, fib, netName, queue, links, records>>

\* Mutant: a short prefix is hashed like a long one.
InstallsHashedOnly(w, hop, net) ==
    net \/ ~FibShardingOn \/ computeWorkerId(hop.prefix) = w

\* processNfdcCommand, FIB ADD: which workers install a next hop.
Installs(w, hop, net) ==
    \/ net
    \/ ~FibShardingOn
    \/ Len(hop.prefix) < PrefixLength
    \/ computeWorkerId(hop.prefix) = w

\* Mutant: removing a next hop erases the FIB entry.
FibAfterEraseEntry(w, e) ==
    CASE e.verb = "add" -> IF Installs(w, e.hop, e.net) THEN fib[w] \cup {e.hop} ELSE fib[w]
      [] e.verb = "remove" -> {hop \in fib[w] : hop.prefix # e.hop.prefix}
      [] e.verb = "create" -> fib[w]
      [] e.verb = "destroy" -> {hop \in fib[w] : hop.face # e.face}

\* Mutant: FACE DESTROYED does not clean the tables.
FibAfterNoCleanup(w, e) ==
    CASE e.verb = "add" -> IF Installs(w, e.hop, e.net) THEN fib[w] \cup {e.hop} ELSE fib[w]
      [] e.verb = "remove" -> fib[w] \ {e.hop}
      [] e.verb \in {"create", "destroy"} -> fib[w]

\* processNfdcCommand on worker w: FIB ADD, FIB REMOVE, FACE CREATE, DESTROYED.
FibAfter(w, e) ==
    CASE e.verb = "add" -> IF Installs(w, e.hop, e.net) THEN fib[w] \cup {e.hop} ELSE fib[w]
      [] e.verb = "remove" -> fib[w] \ {e.hop}
      [] e.verb = "create" -> fib[w]
      [] e.verb = "destroy" -> {hop \in fib[w] : hop.face # e.face}

\* Mutant: the link service stays.
LinksAfterKept(w, e) == IF e.verb = "create" THEN links[w] \cup {e.face} ELSE links[w]

\* Mutant: what is done once for the first FACE CREATE is done for the first only.
LinksAfterFirst(w, e) ==
    CASE e.verb = "create" -> IF links[w] = {} THEN {e.face} ELSE links[w]
      [] e.verb = "destroy" -> links[w] \ {e.face}
      [] OTHER -> links[w]

LinksAfter(w, e) ==
    CASE e.verb = "create" -> links[w] \cup {e.face}
      [] e.verb = "destroy" -> links[w] \ {e.face}
      [] OTHER -> links[w]

\* cleanupOnFaceRemoval: Pit::deleteInOutRecords of all entries
RecordsAfter(w, e) == IF e.verb = "destroy" THEN records[w] \ {e.face} ELSE records[w]

\* Mutant: the loop runs one worker too far.
IsLastPast(w) == w = NWorkers

\* for (i = 0; i < g_forwardingWorkers; i++)
IsLast(w) == w = NWorkers - 1

\* One turn of the loop of emitMwNfdcCommand: worker w executes the command
\* and replies.  After the last worker the caller goes on: addNextHop resets
\* the flag; remove cleans the tables of the main forwarder and erases the
\* face (the second FACE DESTROYED it emits finds no face and changes no FIB).
workerExecutes(w) ==
    /\ emission # Idle
    /\ emission.next = w
    /\ fib' = [fib EXCEPT ![w] = FibAfter(w, emission)]
    /\ links' = [links EXCEPT ![w] = LinksAfter(w, emission)]
    /\ records' = [records EXCEPT ![w] = RecordsAfter(w, emission)]
    /\ IF ~IsLast(w)
       THEN /\ emission' = [emission EXCEPT !.next = w + 1]
            /\ UNCHANGED <<faces, mainFib, netName>>
       ELSE /\ emission' = Idle
            /\ netName' = IF emission.verb = "add" THEN FALSE ELSE netName
            /\ IF emission.verb = "destroy"
               THEN /\ faces' = faces \ {emission.face}
                    /\ mainFib' = {hop \in mainFib : hop.face # emission.face}
               ELSE UNCHANGED <<faces, mainFib>>
    /\ UNCHANGED <<unborn, queue, routes>>

\* decodeNetPacketFromMq on worker w, for a packet of face f in its queue: the
\* face must be in the table and have a link service.  The forwarder makes
\* records for f and for a next hop.
takePacket(w, f) ==
    /\ f \in faces \cap links[w]
    /\ \E g \in {f} \cup {hop.face : hop \in fib[w]} :
          records' = [records EXCEPT ![w] = @ \cup {f, g}]
    /\ UNCHANGED <<unborn, faces, mainFib, fib, netName, queue, emission, routes, links>>

\* The records of a face go: Data, Nack, or the end of the PIT entry.
endRecords(w, f) ==
    /\ f \in records[w]
    /\ records' = [records EXCEPT ![w] = @ \ {f}]
    /\ UNCHANGED <<unborn, faces, mainFib, fib, netName, queue, emission, routes, links>>

Next ==
    \/ \E hop \in Requested, net \in BOOLEAN : registerEntry(hop, net)
    \/ \E hop \in Requested : unregisterEntry(hop)
    \/ addNextHop
    \/ removeNextHop
    \/ \E f \in Faces : addFace(f) \/ removeFace(f)
    \/ \E w \in Workers : workerExecutes(w)
    \/ \E w \in Workers, f \in Faces : takePacket(w, f) \/ endRecords(w, f)

Spec == Init /\ [][Next]_vars

-----------------------------------------------------------------------------
\* Fib::findLongestPrefixMatch: the next hops of the longest prefix of n
\* that has an entry.
Matching(table, n) == {hop \in table : IsPrefixOf(hop.prefix, n)}

findLongestPrefixMatch(table, n) ==
    {hop \in Matching(table, n) :
        \A other \in Matching(table, n) : Len(other.prefix) <= Len(hop.prefix)}

\* The FIB an Interest named n meets: that of the forwarder it is given to.
FibFor(n) == IF computeWorkerId(n) \in Workers THEN fib[computeWorkerId(n)] ELSE mainFib

\* Interests of n go to a worker, and so does every prefix of n.
ReachesWorker(n) == ~VisitsLocalhost(n)

\* Between commands, an Interest finds in the FIB of the worker its name
\* hashes to the next hops it would find in one FIB holding every accepted
\* route, although a worker only has its shard (processNfdcCommand FIB ADD
\* against computeWorkerId on the packet).
ShardedLookup ==
    emission = Idle =>
        \A n \in Names : ReachesWorker(n) =>
            findLongestPrefixMatch(FibFor(n), n) = findLongestPrefixMatch(routes, n)

\* No FIB ever names a face that has left the FaceTable: Strategy code
\* dereferences the Face of every next hop (cleanupOnFaceRemoval).
NoDeadNextHop ==
    /\ \A w \in Workers : \A hop \in fib[w] : hop.face \in faces
    /\ \A hop \in mainFib : hop.face \in faces

\* While a command is being emitted each worker answers from the routes
\* before it or the routes after it, never from a mixture: a worker that has
\* executed it already agrees with routes, one that has not still agrees on
\* every name the command does not concern.
Concerns(e, n) ==
    \/ e.verb \in {"add", "remove"} /\ IsPrefixOf(e.hop.prefix, n)
    \/ e.verb = "destroy"

LookupDuringEmission ==
    emission # Idle =>
        \A n \in Names :
            /\ ReachesWorker(n)
            /\ computeWorkerId(n) < emission.next \/ ~Concerns(emission, n)
            => findLongestPrefixMatch(FibFor(n), n) = findLongestPrefixMatch(routes, n)

\* No record of a PIT refers to a face that has left the FaceTable: a worker
\* that has executed FACE DESTROYED takes no more packets of the face, although
\* they are in its queues and the face is in the table until all workers have.
NoDeadRecord == \A w \in Workers : records[w] \subseteq faces

\* Between commands every worker takes packets of all faces in the FaceTable.
LinksInStep == emission = Idle => \A w \in Workers : links[w] = faces
=============================================================================
