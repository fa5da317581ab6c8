------------------------ MODULE WorkerDispatchProofs ------------------------
(* What the choice of a worker by name is for, for every hash function,     *)
(* number of workers and distribution length.  The first part is about      *)
(* FibSharding: lookup in a worker's shard agrees with one logical FIB, for *)
(* every set of names and of faces.  The second is about PacketDispatch:    *)
(* answers meet the PIT entry of their Interest, for every number of input  *)
(* threads and every queue size.                                            *)
EXTENDS FibSharding, PacketDispatch, TLAPS

\* A worker still has to execute the command being emitted.
StillDue(w) == emission # Idle /\ emission.next <= w

\* Every route a worker is responsible for is in its FIB, unless the command
\* that adds it has not reached the worker yet.
RoutesInstalled ==
    \A w \in Workers, hop \in routes :
        \/ IsLocalhost(hop.prefix)
        \/ ~Installs(w, hop, FALSE)
        \/ StillDue(w) /\ emission.verb = "add" /\ emission.hop = hop
        \/ hop \in fib[w]

\* What a FIB holds beyond the routes is about to be removed.
NothingElseInstalled ==
    \A w \in Workers : \A hop \in fib[w] :
        \/ hop \in routes
        \/ StillDue(w) /\ emission.verb = "remove" /\ emission.hop = hop
        \/ StillDue(w) /\ emission.verb = "destroy" /\ emission.face = hop.face

\* Faces named by routes and commands are in the FaceTable, and routes are
\* already those that hold after the command.
FacesLive ==
    /\ \A hop \in routes : hop.face \in faces
    /\ emission.verb \in {"add", "remove"} => emission.hop.face \in faces
    /\ emission.verb = "add" => emission.hop \in routes
    /\ emission.verb = "remove" => emission.hop \notin routes
    /\ emission.verb \in {"create", "destroy"} => emission.face \in faces
    /\ emission.verb = "destroy" => \A hop \in routes : hop.face # emission.face

\* A worker has executed the emission of a verb about a face.
Executed(w, verb, f) == emission.verb = verb /\ emission.face = f /\ ~StillDue(w)

\* Records and link services are of faces in the FaceTable, and a worker that
\* has executed FACE DESTROYED has none of the face.
FacesForgotten ==
    \A w \in Workers :
        /\ links[w] \subseteq faces /\ records[w] \subseteq faces
        /\ \A f \in Faces : Executed(w, "destroy", f) => f \notin links[w] /\ f \notin records[w]

\* A worker has a link service for every face, but for one it has still to be
\* told of and one it was told to forget.
FacesLinked ==
    \A w \in Workers, f \in faces :
        \/ f \in links[w]
        \/ StillDue(w) /\ emission.verb = "create" /\ emission.face = f
        \/ Executed(w, "destroy", f)

IInv == /\ TypeOK
        /\ RoutesInstalled
        /\ NothingElseInstalled
        /\ FacesLive
        /\ NoDeadNextHop
        /\ FacesForgotten
        /\ FacesLinked

-----------------------------------------------------------------------------
\* A name none of whose visited components begins with "localhost" is given
\* to one of the workers (computeWorkerId).
LEMMA WorkerOfName ==
    ASSUME NEW n \in Name, ReachesWorker(n)
    PROVE  computeWorkerId(n) \in Workers
<1>1. CASE Len(n) < PrefixLength
  BY <1>1, WorkerAssumption DEF computeWorkerId, ReachesWorker, Workers
<1>2. CASE Len(n) >= PrefixLength
  <2>1. DistributionPrefix(n) \in [1 .. PrefixLength -> Component]
    BY <1>2, WorkerAssumption DEF DistributionPrefix, Name
  <2>2. CityHash64[DistributionPrefix(n)] \in Nat
    BY <2>1, HashAssumption
  <2>3. CityHash64[DistributionPrefix(n)] % NWorkers \in 0 .. NWorkers - 1
    BY <2>2, WorkerAssumption
  <2> QED
    BY <1>2, <2>3, WorkerAssumption DEF computeWorkerId, ReachesWorker, Workers, Name
<1> QED
  BY <1>1, <1>2, WorkerAssumption DEF Name

\* computeWorkerId looks at the first PrefixLength components only, so that a
\* prefix at least that long is given to the worker of every name under it.
LEMMA PrefixSharesWorker ==
    ASSUME NEW n \in Name, NEW p \in Name, IsPrefixOf(p, n), Len(p) >= PrefixLength
    PROVE  computeWorkerId(p) = computeWorkerId(n)
<1>1. \A i \in 1 .. PrefixLength : p[i] = n[i]
  BY WorkerAssumption DEF IsPrefixOf, Name
<1>2. DistributionPrefix(p) = DistributionPrefix(n)
  BY <1>1, WorkerAssumption DEF DistributionPrefix, Name, IsPrefixOf
<1>3. VisitsLocalhost(p) <=> VisitsLocalhost(n)
  BY <1>1, WorkerAssumption DEF VisitsLocalhost, IsPrefixOf, Name
<1> QED
  BY <1>2, <1>3, WorkerAssumption DEF computeWorkerId, IsPrefixOf, Name

\* The worker of a name installs every route that matches the name.
LEMMA MatchingIsInstalled ==
    ASSUME NEW n \in Name, NEW hop \in NextHop, ReachesWorker(n),
           IsPrefixOf(hop.prefix, n)
    PROVE  /\ Installs(computeWorkerId(n), hop, FALSE)
           /\ ~IsLocalhost(hop.prefix)
<1>1. hop.prefix \in Name
  BY FibAssumption DEF NextHop
<1>2. Installs(computeWorkerId(n), hop, FALSE)
  <2>1. Len(hop.prefix) < PrefixLength \/ Len(hop.prefix) >= PrefixLength
    BY <1>1, WorkerAssumption DEF Name
  <2> QED
    BY <1>1, <2>1, PrefixSharesWorker DEF Installs
<1>3. ~IsLocalhost(hop.prefix)
  BY <1>1, FibAssumption, WorkerAssumption
  DEF IsLocalhost, ReachesWorker, VisitsLocalhost, IsPrefixOf, Name
<1> QED
  BY <1>2, <1>3, Zenon

-----------------------------------------------------------------------------
LEMMA InitInv == Init => IInv
<1> SUFFICES ASSUME Init PROVE IInv
  OBVIOUS
<1>1. TypeOK
  <2>1. emission \in Emission /\ queue \in Seq(Command)
    BY DEF Init, Emission
  <2>2. /\ fib \in [Workers -> SUBSET NextHop]
        /\ links \in [Workers -> SUBSET Faces]
        /\ records \in [Workers -> SUBSET Faces]
    BY DEF Init
  <2>3. netName \in BOOLEAN
    BY Zenon DEF Init
  <2> QED
    BY <2>1, <2>2, <2>3 DEF Init, TypeOK
<1>2. RoutesInstalled /\ NothingElseInstalled /\ FacesLive /\ NoDeadNextHop
  BY DEF Init, RoutesInstalled, NothingElseInstalled, FacesLive, NoDeadNextHop, Idle
<1>3. FacesForgotten /\ FacesLinked
  BY DEF Init, FacesForgotten, FacesLinked
<1> QED
  BY <1>1, <1>2, <1>3 DEF IInv

\* The verb tells whether a command is being emitted.
LEMMA IdleVerb ==
    ASSUME emission \in Emission
    PROVE  /\ emission = Idle <=> emission.verb = "none"
           /\ emission # Idle => emission.next \in Workers
           /\ emission.verb \in {"add", "remove"} => emission.hop \in NextHop
           /\ emission.verb \in {"create", "destroy"} => emission.face \in Faces
           /\ emission.verb \in {"none", "add", "remove", "create", "destroy"}
BY DEF Emission, Idle

\* A step that leaves the faces and the command under way alone, or begins or
\* ends a command that is not about a face, leaves the link services right.
LEMMA SameFaces ==
    ASSUME FacesForgotten, FacesLinked, UNCHANGED <<faces, links, records>>,
           \/ emission' = emission
           \/ emission = Idle /\ emission'.verb \in {"none", "add", "remove"}
    PROVE  FacesForgotten' /\ FacesLinked'
<1>1. CASE emission' = emission
  BY <1>1 DEF FacesForgotten, FacesLinked, Executed, StillDue
<1>2. CASE emission = Idle /\ emission'.verb \in {"none", "add", "remove"}
  BY <1>2 DEF FacesForgotten, FacesLinked, Executed, StillDue, Idle
<1> QED
  BY <1>1, <1>2

\* Commands that only wait in the queue disturb nothing.
LEMMA QueueSteps ==
    ASSUME IInv,
           \/ \E hop \in Requested, net \in BOOLEAN : registerEntry(hop, net)
           \/ \E hop \in Requested : unregisterEntry(hop)
    PROVE  IInv'
<1>1. TypeOK'
  <2>1. \E c \in Command : queue' = Append(queue, c)
    BY FibAssumption, Zenon DEF registerEntry, unregisterEntry, Command
  <2>2. queue' \in Seq(Command)
    BY <2>1 DEF IInv, TypeOK
  <2>3. netName' \in BOOLEAN
    BY Zenon DEF IInv, TypeOK, registerEntry, unregisterEntry
  <2> QED
    BY <2>2, <2>3, Zenon DEF IInv, TypeOK, registerEntry, unregisterEntry
<1>2. UNCHANGED <<faces, mainFib, fib, emission, routes, links, records>>
  BY Zenon DEF registerEntry, unregisterEntry
<1> QED
  BY <1>1, <1>2, SameFaces, Zenon
  DEF IInv, RoutesInstalled, NothingElseInstalled, FacesLive, NoDeadNextHop, StillDue

LEMMA AddStep ==
    ASSUME IInv, addNextHop
    PROVE  IInv'
<1> DEFINE hop == Head(queue).hop
<1>1. Head(queue) \in Command /\ Tail(queue) \in Seq(Command)
  BY DEF IInv, TypeOK, addNextHop
<1>2. hop \in NextHop /\ 0 \in Workers
  BY <1>1, WorkerAssumption DEF Command, Workers
<1>3. CASE emission' = Idle
  <2>1. TypeOK'
    BY <1>1, <1>2, <1>3, Zenon DEF IInv, TypeOK, addNextHop, Emission
  <2>2. routes' = routes \/ (routes' = routes \cup {hop} /\ IsLocalhost(hop.prefix) /\ hop.face \in faces)
    BY <1>3 DEF addNextHop, Idle
  <2>3. FacesForgotten' /\ FacesLinked'
    BY <1>3, SameFaces DEF IInv, addNextHop, Idle
  <2> QED
    BY <2>1, <2>2, <2>3, <1>3, Zenon
    DEF IInv, addNextHop, RoutesInstalled, NothingElseInstalled, FacesLive, NoDeadNextHop,
        StillDue, Idle
<1>4. CASE emission' = [verb |-> "add", hop |-> hop, net |-> netName, next |-> 0]
  <2>1. /\ routes' = routes \cup {hop} /\ hop.face \in faces
        /\ UNCHANGED <<mainFib, faces, fib, netName>>
    BY <1>4 DEF addNextHop, Idle
  <2>2. TypeOK'
    BY <1>1, <1>2, <1>4, <2>1 DEF IInv, TypeOK, addNextHop, Emission
  <2>3. \A w \in Workers : StillDue(w)'
    BY <1>4, <1>2 DEF StillDue, Idle, Workers
  <2>4. emission = Idle
    BY DEF addNextHop
  <2>5. FacesForgotten' /\ FacesLinked'
    BY <1>4, <2>4, SameFaces DEF IInv, addNextHop
  <2> QED
    BY <2>1, <2>2, <2>3, <2>4, <2>5, <1>4, Zenon
    DEF IInv, RoutesInstalled, NothingElseInstalled, FacesLive, NoDeadNextHop, StillDue, Idle
<1> QED
  BY <1>3, <1>4 DEF addNextHop

LEMMA RemoveStep ==
    ASSUME IInv, removeNextHop
    PROVE  IInv'
<1> DEFINE hop == Head(queue).hop
<1>1. Head(queue) \in Command /\ Tail(queue) \in Seq(Command)
  BY DEF IInv, TypeOK, removeNextHop
<1>2. hop \in NextHop /\ 0 \in Workers
  BY <1>1, WorkerAssumption DEF Command, Workers
<1>3. /\ routes' = routes \ {hop}
      /\ UNCHANGED <<faces, mainFib, fib, netName>>
      /\ emission = Idle
      /\ hop.face \in faces => emission' = [verb |-> "remove", hop |-> hop, net |-> netName, next |-> 0]
      /\ hop.face \notin faces => emission' = Idle
  BY DEF removeNextHop
<1>4. TypeOK'
  BY <1>1, <1>2, <1>3 DEF IInv, TypeOK, removeNextHop, Emission
<1>7. FacesForgotten' /\ FacesLinked'
  BY <1>3, SameFaces DEF IInv, removeNextHop, Idle
<1>5. CASE hop.face \in faces
  <2>1. \A w \in Workers : StillDue(w)'
    BY <1>3, <1>5, <1>2 DEF StillDue, Idle, Workers
  <2>2. RoutesInstalled'
    BY <1>3, <1>5, Zenon DEF IInv, RoutesInstalled, StillDue, Idle
  <2>3. NothingElseInstalled'
    BY <1>3, <1>5, <2>1 DEF IInv, NothingElseInstalled, StillDue, Idle
  <2>4. FacesLive' /\ NoDeadNextHop'
    BY <1>3, <1>5 DEF IInv, FacesLive, NoDeadNextHop
  <2> QED
    BY <1>4, <1>7, <2>2, <2>3, <2>4 DEF IInv
<1>6. CASE hop.face \notin faces
  BY <1>3, <1>4, <1>6, <1>7, Zenon
  DEF IInv, RoutesInstalled, NothingElseInstalled, FacesLive, NoDeadNextHop, StillDue, Idle
<1> QED
  BY <1>5, <1>6

LEMMA DestroyStep ==
    ASSUME IInv, NEW f \in Faces, removeFace(f)
    PROVE  IInv'
<1>1. 0 \in Workers
  BY WorkerAssumption DEF Workers
<1>2. TypeOK'
  BY <1>1 DEF IInv, TypeOK, removeFace, Emission
<1>3. \A w \in Workers : StillDue(w)'
  BY <1>1 DEF removeFace, StillDue, Idle, Workers
<1>4. RoutesInstalled'
  BY Zenon DEF IInv, RoutesInstalled, removeFace, StillDue, Idle
<1>5. NothingElseInstalled'
  BY <1>3 DEF IInv, TypeOK, NothingElseInstalled, removeFace, StillDue, Idle
<1>6. FacesLive' /\ NoDeadNextHop'
  BY DEF IInv, FacesLive, NoDeadNextHop, removeFace
<1>7. FacesForgotten' /\ FacesLinked'
  BY <1>3 DEF IInv, FacesForgotten, FacesLinked, Executed, removeFace, StillDue, Idle
<1> QED
  BY <1>2, <1>4, <1>5, <1>6, <1>7 DEF IInv

\* A new face is in no table.
LEMMA CreateStep ==
    ASSUME IInv, NEW f \in Faces, addFace(f)
    PROVE  IInv'
<1>1. 0 \in Workers
  BY WorkerAssumption DEF Workers
<1>2. TypeOK'
  BY <1>1 DEF IInv, TypeOK, addFace, Emission
<1>3. \A w \in Workers : StillDue(w)'
  BY <1>1 DEF addFace, StillDue, Idle, Workers
<1>4. RoutesInstalled' /\ NothingElseInstalled'
  BY Zenon DEF IInv, RoutesInstalled, NothingElseInstalled, addFace, StillDue, Idle
<1>5. FacesLive' /\ NoDeadNextHop'
  BY DEF IInv, FacesLive, NoDeadNextHop, addFace, Idle
<1>6. FacesForgotten'
  BY <1>3 DEF IInv, FacesForgotten, Executed, addFace, StillDue, Idle
<1>7. FacesLinked'
  BY <1>3 DEF IInv, FacesLinked, Executed, addFace, StillDue, Idle
<1> QED
  BY <1>2, <1>4, <1>5, <1>6, <1>7 DEF IInv

\* Packets: what a worker finds in its FIB is not a face it was told to forget.
LEMMA PacketStep ==
    ASSUME IInv, NEW w \in Workers, NEW f \in Faces, takePacket(w, f) \/ endRecords(w, f)
    PROVE  IInv'
<1>1. /\ UNCHANGED <<unborn, faces, mainFib, fib, netName, queue, emission, routes, links>>
      /\ \A v \in Workers \ {w} : records'[v] = records[v]
  BY DEF IInv, TypeOK, takePacket, endRecords
<1>2. \A g \in records'[w] :
         \/ g \in records[w]
         \/ g \in links[w]
         \/ \E hop \in fib[w] : hop.face = g
  BY DEF IInv, TypeOK, takePacket, endRecords
<1>3. \A hop \in fib[w] : hop.face \in faces /\ ~Executed(w, "destroy", hop.face)
  BY DEF IInv, NoDeadNextHop, NothingElseInstalled, FacesLive, Executed
<1>4. FacesForgotten'
  BY <1>1, <1>2, <1>3 DEF IInv, FacesForgotten, Executed, StillDue
<1>5. FacesLinked'
  BY <1>1 DEF IInv, FacesLinked, Executed, StillDue
<1>6. TypeOK'
  <2>1. records' \in [Workers -> SUBSET Faces]
    BY <1>4, <1>1 DEF IInv, TypeOK, FacesForgotten, takePacket, endRecords
  <2> QED
    BY <1>1, <2>1 DEF IInv, TypeOK
<1> QED
  BY <1>1, <1>4, <1>5, <1>6, Zenon
  DEF IInv, RoutesInstalled, NothingElseInstalled, FacesLive, NoDeadNextHop, StillDue

\* The heart of the argument: worker w executes the command and is no
\* longer due; the others are untouched.
LEMMA WorkerStep ==
    ASSUME IInv, NEW w \in Workers, workerExecutes(w)
    PROVE  IInv'
<1> DEFINE e == emission
<1> USE DEF Idle
<1>1. /\ e \in Emission /\ e # Idle /\ e.next = w
      /\ e.verb \in {"add", "remove", "create", "destroy"}
      /\ UNCHANGED <<unborn, queue, routes>>
  BY IdleVerb DEF IInv, TypeOK, workerExecutes
<1>0. IsLast(w) <=> w + 1 \notin Workers
  BY WorkerAssumption DEF IsLast, Workers
<1>2. \/ emission' = Idle /\ w + 1 \notin Workers
      \/ emission' = [e EXCEPT !.next = w + 1] /\ w + 1 \in Workers
  BY <1>0, Zenon DEF workerExecutes
<1>3. FibAfter(w, e) \subseteq NextHop
  BY <1>1, IdleVerb DEF IInv, TypeOK, FibAfter
<1>4. fib' = [fib EXCEPT ![w] = FibAfter(w, e)]
  BY DEF workerExecutes
<1>5. TypeOK'
  <2>1. emission' \in Emission
    BY <1>1, <1>2 DEF Emission
  <2>2. fib' \in [Workers -> SUBSET NextHop]
    BY <1>3, <1>4 DEF IInv, TypeOK
  <2>3. netName' \in BOOLEAN
    BY Zenon DEF IInv, TypeOK, workerExecutes
  <2>4. faces' \subseteq Faces /\ mainFib' \subseteq NextHop
    BY Zenon DEF IInv, TypeOK, workerExecutes
  <2>5. LinksAfter(w, e) \subseteq Faces /\ RecordsAfter(w, e) \subseteq Faces
    BY <1>1, IdleVerb DEF IInv, TypeOK, LinksAfter, RecordsAfter
  <2>6. links' \in [Workers -> SUBSET Faces] /\ records' \in [Workers -> SUBSET Faces]
    BY <2>5 DEF IInv, TypeOK, workerExecutes
  <2> QED
    BY <1>1, <2>1, <2>2, <2>3, <2>4, <2>6 DEF IInv, TypeOK
<1>6. \A v \in Workers : StillDue(v)' <=> StillDue(v) /\ v # w
  BY <1>1, <1>2, WorkerAssumption DEF StillDue, Workers, Emission
<1>7. \A v \in Workers : StillDue(v)' =>
        /\ emission'.verb = e.verb
        /\ e.verb \in {"add", "remove"} => emission'.hop = e.hop
        /\ e.verb \in {"create", "destroy"} => emission'.face = e.face
  BY <1>1, <1>2 DEF StillDue, Emission
<1>8. fib'[w] = FibAfter(w, e) /\ \A v \in Workers \ {w} : fib'[v] = fib[v]
  BY <1>4 DEF IInv, TypeOK
<1>9. RoutesInstalled'
  <2> SUFFICES ASSUME NEW v \in Workers, NEW hop \in routes,
                      ~IsLocalhost(hop.prefix), Installs(v, hop, FALSE),
                      ~(StillDue(v)' /\ emission'.verb = "add" /\ emission'.hop = hop)
               PROVE  hop \in fib'[v]
    BY <1>1 DEF RoutesInstalled, Installs, IsLocalhost
  <2>1. CASE v # w
    BY <2>1, <1>6, <1>7, <1>8, Zenon DEF IInv, RoutesInstalled
  <2>2. CASE v = w
    <3>1. e.verb = "add" /\ e.hop = hop => hop \in FibAfter(w, e)
      BY <2>2 DEF FibAfter, Installs
    <3>2. ~(e.verb = "add" /\ e.hop = hop) => hop \in fib[w]
      BY <2>2, Zenon DEF IInv, RoutesInstalled
    <3>3. e.verb = "remove" => e.hop \notin routes
      BY DEF IInv, FacesLive
    <3> QED
      BY <1>1, <1>8, <2>2, <3>1, <3>2, <3>3 DEF FibAfter, IInv, FacesLive
  <2> QED
    BY <2>1, <2>2
<1>10. NothingElseInstalled'
  <2> SUFFICES ASSUME NEW v \in Workers, NEW hop \in fib'[v], hop \notin routes
               PROVE  /\ StillDue(v)'
                      /\ \/ emission'.verb = "remove" /\ emission'.hop = hop
                         \/ emission'.verb = "destroy" /\ emission'.face = hop.face
    BY <1>1 DEF NothingElseInstalled
  <2>1. CASE v # w
    BY <2>1, <1>6, <1>7, <1>8 DEF IInv, NothingElseInstalled
  <2>2. CASE v = w
    <3>1. hop \in FibAfter(w, e)
      BY <1>8, <2>2
    <3>2. hop \in fib[w]
      BY <3>1, <1>1 DEF FibAfter, IInv, FacesLive
    <3>3. \/ e.verb = "remove" /\ e.hop = hop
          \/ e.verb = "destroy" /\ e.face = hop.face
      BY <3>2 DEF IInv, NothingElseInstalled
    <3> QED
      BY <3>1, <3>3 DEF FibAfter
  <2> QED
    BY <2>1, <2>2
<1>13. /\ links'[w] = LinksAfter(w, e) /\ records'[w] = RecordsAfter(w, e)
       /\ \A v \in Workers \ {w} : links'[v] = links[v] /\ records'[v] = records[v]
  BY DEF IInv, TypeOK, workerExecutes
<1>14. \A v \in Workers :
          /\ links'[v] \subseteq faces /\ records'[v] \subseteq faces
          /\ e.verb = "destroy" /\ ~StillDue(v)' => e.face \notin links'[v] /\ e.face \notin records'[v]
  <2> SUFFICES ASSUME NEW v \in Workers
               PROVE  /\ links'[v] \subseteq faces /\ records'[v] \subseteq faces
                      /\ e.verb = "destroy" /\ ~StillDue(v)' => e.face \notin links'[v] /\ e.face \notin records'[v]
    OBVIOUS
  <2>1. CASE v # w
    <3>1. e.verb = "destroy" => e.face \in Faces
      BY <1>1, IdleVerb
    <3> QED
      BY <2>1, <1>6, <1>13, <3>1 DEF IInv, FacesForgotten, Executed
  <2>2. CASE v = w
    <3>1. e.verb = "create" => e.face \in faces
      BY DEF IInv, FacesLive
    <3> QED
      BY <2>2, <1>1, <1>13, <3>1 DEF IInv, FacesForgotten, LinksAfter, RecordsAfter
  <2> QED
    BY <2>1, <2>2
<1>15. \A v \in Workers, f \in faces :
          \/ f \in links'[v]
          \/ StillDue(v)' /\ e.verb = "create" /\ e.face = f
          \/ ~StillDue(v)' /\ e.verb = "destroy" /\ e.face = f
  <2> SUFFICES ASSUME NEW v \in Workers, NEW f \in faces
               PROVE  \/ f \in links'[v]
                      \/ StillDue(v)' /\ e.verb = "create" /\ e.face = f
                      \/ ~StillDue(v)' /\ e.verb = "destroy" /\ e.face = f
    OBVIOUS
  <2>1. CASE v # w
    BY <2>1, <1>6, <1>13 DEF IInv, FacesLinked, Executed
  <2>2. CASE v = w
    BY <2>2, <1>1, <1>6, <1>13 DEF IInv, FacesLinked, Executed, LinksAfter
  <2> QED
    BY <2>1, <2>2
<1>11. CASE emission' = Idle /\ w + 1 \notin Workers
  <2>1. \A v \in Workers : fib'[v] \subseteq routes
    <3>1. \A v \in Workers : ~StillDue(v)'
      BY <1>11 DEF StillDue
    <3> QED
      BY <1>1, <1>10, <3>1 DEF NothingElseInstalled
  <2>4. \A v \in Workers : ~StillDue(v)'
    BY <1>11 DEF StillDue
  <2>2. CASE e.verb = "destroy"
    <3>1. faces' = faces \ {e.face} /\ mainFib' = {hop \in mainFib : hop.face # e.face}
      BY <1>0, <1>11, <2>2 DEF workerExecutes
    <3>2. FacesLive' /\ NoDeadNextHop'
      BY <1>1, <1>5, <1>11, <2>1, <2>2, <3>1 DEF IInv, TypeOK, FacesLive, NoDeadNextHop
    <3>3. FacesForgotten'
      BY <1>11, <1>14, <2>2, <2>4, <3>1 DEF FacesForgotten, Executed
    <3>4. FacesLinked'
      BY <1>11, <1>15, <2>2, <3>1 DEF FacesLinked
    <3> QED
      BY <1>5, <1>9, <1>10, <3>2, <3>3, <3>4 DEF IInv
  <2>3. CASE e.verb # "destroy"
    <3>1. UNCHANGED <<faces, mainFib>>
      BY <1>0, <1>11, <2>3, Zenon DEF workerExecutes
    <3>2. FacesLive' /\ NoDeadNextHop'
      BY <1>1, <1>5, <1>11, <2>1, <3>1 DEF IInv, TypeOK, FacesLive, NoDeadNextHop
    <3>3. FacesForgotten'
      BY <1>11, <1>14, <3>1 DEF FacesForgotten, Executed
    <3>4. FacesLinked'
      BY <1>11, <1>15, <2>3, <2>4, <3>1 DEF FacesLinked
    <3> QED
      BY <1>5, <1>9, <1>10, <3>2, <3>3, <3>4 DEF IInv
  <2> QED
    BY <2>2, <2>3
<1>12. CASE emission' = [e EXCEPT !.next = w + 1] /\ w + 1 \in Workers
  <2>1. UNCHANGED <<faces, mainFib>>
    BY <1>0, <1>12, Zenon DEF workerExecutes
  <2>2. FibAfter(w, e) \subseteq fib[w] \/ (e.verb = "add" /\ FibAfter(w, e) \subseteq fib[w] \cup {e.hop})
    BY <1>1 DEF FibAfter
  <2>3. NoDeadNextHop'
    BY <1>1, <1>8, <2>1, <2>2 DEF IInv, TypeOK, FacesLive, NoDeadNextHop
  <2>4. FacesLive'
    BY <1>1, <1>12, <2>1 DEF IInv, FacesLive, Emission
  <2>5. /\ emission'.verb = e.verb
        /\ e.verb \in {"create", "destroy"} => emission'.face = e.face
    BY <1>1, <1>12 DEF Emission
  <2>6. FacesForgotten'
    BY <1>14, <2>1, <2>5 DEF FacesForgotten, Executed
  <2>7. FacesLinked'
    BY <1>15, <2>1, <2>5 DEF FacesLinked, Executed
  <2> QED
    BY <1>5, <1>9, <1>10, <2>3, <2>4, <2>6, <2>7 DEF IInv
<1> QED
  BY <1>2, <1>11, <1>12

\* Every step of the system keeps the shards in line with the routes.
LEMMA NextInv == IInv /\ [Next]_vars => IInv'
<1> SUFFICES ASSUME IInv, [Next]_vars
             PROVE  IInv'
  OBVIOUS
<1>1. CASE UNCHANGED vars
  BY <1>1, Zenon
  DEF vars, IInv, TypeOK, RoutesInstalled, NothingElseInstalled, FacesLive, NoDeadNextHop,
      FacesForgotten, FacesLinked, Executed, StillDue
<1>2. CASE Next
  BY <1>2, QueueSteps, AddStep, RemoveStep, CreateStep, DestroyStep, WorkerStep, PacketStep DEF Next
<1> QED
  BY <1>1, <1>2

\* TypeOK: the tables, the flag and the commands always have their shape.
THEOREM TypeCorrect == Spec => []TypeOK
BY InitInv, NextInv, PTL DEF Spec, IInv

\* NoDeadNextHop: no FIB of any worker or of the main thread ever names a
\* face that FaceTable::remove has erased.
THEOREM NoDeadNextHopAlways == Spec => []NoDeadNextHop
BY InitInv, NextInv, PTL DEF Spec, IInv

\* NoDeadRecord: no record of any PIT outlives its face in the FaceTable, with
\* packets of the face still queued while it is being removed.
THEOREM NoDeadRecordAlways == Spec => []NoDeadRecord
<1>1. IInv => NoDeadRecord
  BY DEF IInv, FacesForgotten, NoDeadRecord
<1> QED
  BY <1>1, InitInv, NextInv, PTL DEF Spec

\* LinksInStep: between commands every worker has a link service for each face
\* in the FaceTable, and for no other.
THEOREM LinksInStepAlways == Spec => []LinksInStep
<1>1. IInv => LinksInStep
  <2> SUFFICES ASSUME IInv, emission = Idle, NEW w \in Workers
               PROVE  links[w] = faces
    BY DEF LinksInStep
  <2>1. links[w] \subseteq faces
    BY DEF IInv, FacesForgotten
  <2>2. ~StillDue(w) /\ \A f \in Faces : ~Executed(w, "destroy", f)
    BY DEF StillDue, Executed, Idle
  <2>3. \A f \in faces : f \in Faces
    BY DEF IInv, TypeOK
  <2>4. faces \subseteq links[w]
    BY <2>2, <2>3 DEF IInv, FacesLinked
  <2> QED
    BY <2>1, <2>4
<1> QED
  BY <1>1, InitInv, NextInv, PTL DEF Spec

\* A worker agrees with the routes on every name it is given, but for names
\* that a command it has still to execute concerns.
LEMMA LookupAgrees ==
    ASSUME IInv, NEW n \in Names, ReachesWorker(n),
           StillDue(computeWorkerId(n)) => ~Concerns(emission, n)
    PROVE  findLongestPrefixMatch(FibFor(n), n) = findLongestPrefixMatch(routes, n)
<1> DEFINE w == computeWorkerId(n)
<1>1. n \in Name /\ w \in Workers
  BY WorkerOfName, FibAssumption
<1>2. Matching(fib[w], n) \subseteq Matching(routes, n)
  BY <1>1 DEF IInv, NothingElseInstalled, Matching, Concerns
<1>3. Matching(routes, n) \subseteq Matching(fib[w], n)
  <2> SUFFICES ASSUME NEW hop \in routes, IsPrefixOf(hop.prefix, n)
               PROVE  hop \in fib[w]
    BY DEF Matching
  <2>1. Installs(w, hop, FALSE) /\ ~IsLocalhost(hop.prefix)
    BY <1>1, MatchingIsInstalled, Zenon DEF IInv, TypeOK
  <2> QED
    BY <1>1, <2>1, Zenon DEF IInv, RoutesInstalled, Concerns
<1>4. FibFor(n) = fib[w]
  BY <1>1 DEF FibFor
<1> QED
  BY <1>2, <1>3, <1>4 DEF findLongestPrefixMatch

\* ShardedLookup: between commands, every Interest meets in its worker's
\* shard the next hops of the longest matching route.
THEOREM ShardedLookupAlways == Spec => []ShardedLookup
<1>1. IInv => ShardedLookup
  BY LookupAgrees DEF ShardedLookup, StillDue
<1> QED
  BY <1>1, InitInv, NextInv, PTL DEF Spec

\* LookupDuringEmission: while a command travels from worker to worker, each
\* worker agrees with the routes as soon as it has executed the command, and
\* all along on the names the command does not concern.
THEOREM LookupDuringEmissionAlways == Spec => []LookupDuringEmission
<1>1. IInv => LookupDuringEmission
  <2> SUFFICES ASSUME IInv, emission # Idle, NEW n \in Names, ReachesWorker(n),
                      computeWorkerId(n) < emission.next \/ ~Concerns(emission, n)
               PROVE  findLongestPrefixMatch(FibFor(n), n) = findLongestPrefixMatch(routes, n)
    BY DEF LookupDuringEmission
  <2>1. computeWorkerId(n) \in Workers /\ emission.next \in Workers
    BY WorkerOfName, IdleVerb, FibAssumption DEF IInv, TypeOK
  <2>2. StillDue(computeWorkerId(n)) => ~Concerns(emission, n)
    BY <2>1, WorkerAssumption DEF StillDue, Workers
  <2> QED
    BY <2>2, LookupAgrees
<1> QED
  BY <1>1, InitInv, NextInv, PTL DEF Spec

-----------------------------------------------------------------------------
(* PacketDispatch.                                                           *)

\* Entries are only made, and tokens only written, by the worker of the
\* Interest's name.
EntriesHomed ==
    /\ \A w \in Workers : \A k \in pit[w] : computeWorkerId(k.name) = w
    /\ \A a \in asked : computeWorkerId(a.key.name) = a.token

\* What waits in a queue is with the worker of its Interest's name.
InterestsHomed ==
    \A i \in Inputs, w \in Workers :
        \A j \in 1 .. Len(interestQ[i][w]) :
            computeWorkerId(interestQ[i][w][j].key.name) = w

DataHomed ==
    \A i \in Inputs, w \in Workers :
        \A j \in 1 .. Len(dataQ[i][w]) :
            Promised(dataQ[i][w][j]) => computeWorkerId(dataQ[i][w][j].key.name) = w

PacketInv == PacketTypeOK /\ EntriesHomed /\ InterestsHomed /\ DataHomed

-----------------------------------------------------------------------------
\* The worker dissectNdnPacket finds for an answer is the worker of the
\* Interest's name, by its token or by the Data's own name.
LEMMA AnswerSharesWorker ==
    ASSUME NEW a \in [key : Key, token : Workers],
           computeWorkerId(a.key.name) = a.token,
           NEW p \in Answers(a), Promised(p)
    PROVE  DataWorker(p) = computeWorkerId(p.key.name)
<1>1. PICK d \in DataNames, t \in {a.token, NoToken} :
        Matches(a.key, d) /\ p = [name |-> d, key |-> a.key, token |-> t]
  BY DEF Answers
<1>2. a.key.name \in Name /\ d \in Name /\ a.key.canBePrefix \in BOOLEAN
  BY PacketAssumption DEF Key
<1>3. CASE p.token # NoToken
  BY <1>1, <1>3 DEF DataWorker
<1>4. CASE p.token = NoToken
  <2>1. p.name = d /\ p.key = a.key
    BY <1>1
  <2>2. computeWorkerId(a.key.name) = computeWorkerId(d)
    <3>1. CASE a.key.canBePrefix
      <4>1. IsPrefixOf(a.key.name, d)
        BY <1>1, <3>1 DEF Matches
      <4>2. Len(a.key.name) >= PrefixLength
        BY <1>4, <2>1, <3>1 DEF Promised
      <4> QED
        BY <1>2, <4>1, <4>2, PrefixSharesWorker
    <3>2. CASE ~ a.key.canBePrefix
      BY <1>1, <3>2 DEF Matches
    <3> QED
      BY <3>1, <3>2
  <2> QED
    BY <1>4, <2>1, <2>2 DEF DataWorker
<1> QED
  BY <1>3, <1>4

LEMMA AnswerTyped ==
    ASSUME NEW a \in [key : Key, token : Workers], NEW p \in Answers(a)
    PROVE  p \in DataPacket
BY DEF Answers, DataPacket

\* What try_enqueue leaves in the queues of one kind.
LEMMA EnqueuedTyped ==
    ASSUME NEW P, NEW q \in [Inputs -> [Workers -> Seq(P)]],
           NEW i \in Inputs, NEW w, NEW p \in P
    PROVE  Enqueued(q, i, w, p) \in [Inputs -> [Workers -> Seq(P)]]
<1>1. CASE w \in Workers
  <2>1. Append(q[i][w], p) \in Seq(P)
    BY <1>1
  <2> QED
    BY <1>1, <2>1 DEF Enqueued
<1>2. CASE w \notin Workers
  BY <1>2 DEF Enqueued
<1> QED
  BY <1>1, <1>2

\* What taking the head leaves in the queues of one kind.
LEMMA TakenTyped ==
    ASSUME NEW P, NEW q \in [Inputs -> [Workers -> Seq(P)]],
           NEW i \in Inputs, NEW w \in Workers, q[i][w] # <<>>
    PROVE  /\ [q EXCEPT ![i][w] = Tail(@)] \in [Inputs -> [Workers -> Seq(P)]]
           /\ 1 \in 1 .. Len(q[i][w])
           /\ Head(q[i][w]) = q[i][w][1]
           /\ Head(q[i][w]) \in P
<1>1. q[i][w] \in Seq(P)
  OBVIOUS
<1>2. Tail(q[i][w]) \in Seq(P) /\ 1 \in 1 .. Len(q[i][w])
  BY <1>1
<1>3. Head(q[i][w]) = q[i][w][1] /\ Head(q[i][w]) \in P
  BY <1>1, <1>2
<1> QED
  BY <1>2, <1>3

-----------------------------------------------------------------------------
LEMMA PacketInitInv == PacketInit => PacketInv
BY DEF PacketInit, PacketInv, PacketTypeOK, EntriesHomed, InterestsHomed, DataHomed

LEMMA ReceiveInterestPacketInv ==
    ASSUME PacketInv, NEW i \in Inputs, NEW p \in InterestPacket,
           interestQ' = Enqueued(interestQ, i, InterestWorker(p), p),
           UNCHANGED <<dataQ, pit, asked>>
    PROVE  PacketInv'
<1>1. interestQ' \in [Inputs -> [Workers -> Seq(InterestPacket)]]
  BY EnqueuedTyped, Zenon DEF PacketInv, PacketTypeOK
<1>2. InterestsHomed'
  <2> SUFFICES ASSUME NEW h \in Inputs, NEW v \in Workers,
                      NEW j \in 1 .. Len(interestQ'[h][v])
               PROVE  computeWorkerId(interestQ'[h][v][j].key.name) = v
    BY DEF InterestsHomed
  <2>1. \/ j \in 1 .. Len(interestQ[h][v]) /\ interestQ'[h][v][j] = interestQ[h][v][j]
        \/ v = InterestWorker(p) /\ interestQ'[h][v][j] = p
    <3>1. interestQ[h][v] \in Seq(InterestPacket)
      BY DEF PacketInv, PacketTypeOK
    <3>2. \/ interestQ'[h][v] = interestQ[h][v]
          \/ v = InterestWorker(p) /\ interestQ'[h][v] = Append(interestQ[h][v], p)
      BY DEF PacketInv, PacketTypeOK, Enqueued
    <3>3. CASE interestQ'[h][v] = interestQ[h][v]
      BY <3>3
    <3>4. CASE v = InterestWorker(p) /\ interestQ'[h][v] = Append(interestQ[h][v], p)
      <4>1. Len(interestQ'[h][v]) = Len(interestQ[h][v]) + 1
        BY <3>1, <3>4
      <4> QED
        BY <3>1, <3>4, <4>1
    <3> QED
      BY <3>2, <3>3, <3>4
  <2> QED
    BY <2>1 DEF PacketInv, InterestsHomed, InterestWorker
<1>3. PacketTypeOK'
  BY <1>1 DEF PacketInv, PacketTypeOK
<1>4. EntriesHomed'
  BY DEF PacketInv, EntriesHomed
<1>5. DataHomed'
  BY Zenon DEF PacketInv, DataHomed, Promised
<1> QED
  BY <1>2, <1>3, <1>4, <1>5 DEF PacketInv

LEMMA ReceiveDataInv ==
    ASSUME PacketInv, NEW i \in Inputs, NEW a \in asked, NEW p \in Answers(a),
           receiveData(i, p)
    PROVE  PacketInv'
<1>1. a \in [key : Key, token : Workers] /\ computeWorkerId(a.key.name) = a.token
  BY DEF PacketInv, PacketTypeOK, EntriesHomed
<1>2. p \in DataPacket
  BY <1>1, AnswerTyped
<1>3. Promised(p) => DataWorker(p) = computeWorkerId(p.key.name)
  BY <1>1, AnswerSharesWorker
<1>4. dataQ' \in [Inputs -> [Workers -> Seq(DataPacket)]]
  BY <1>2, EnqueuedTyped, Zenon DEF PacketInv, PacketTypeOK, receiveData
<1>5. DataHomed'
  <2> SUFFICES ASSUME NEW h \in Inputs, NEW v \in Workers,
                      NEW j \in 1 .. Len(dataQ'[h][v]), Promised(dataQ'[h][v][j])
               PROVE  computeWorkerId(dataQ'[h][v][j].key.name) = v
    BY Zenon DEF DataHomed, Promised
  <2>1. \/ j \in 1 .. Len(dataQ[h][v]) /\ dataQ'[h][v][j] = dataQ[h][v][j]
        \/ v = DataWorker(p) /\ dataQ'[h][v][j] = p
    <3>1. dataQ[h][v] \in Seq(DataPacket)
      BY DEF PacketInv, PacketTypeOK
    <3>2. \/ dataQ'[h][v] = dataQ[h][v]
          \/ v = DataWorker(p) /\ dataQ'[h][v] = Append(dataQ[h][v], p)
      BY Zenon DEF PacketInv, PacketTypeOK, Enqueued, receiveData
    <3> QED
      BY <1>2, <3>1, <3>2
  <2> QED
    BY <1>3, <2>1 DEF PacketInv, DataHomed
<1>6. UNCHANGED <<interestQ, pit, asked>>
  BY DEF receiveData
<1>7. PacketTypeOK'
  BY <1>4, <1>6 DEF PacketInv, PacketTypeOK
<1>8. EntriesHomed' /\ InterestsHomed'
  BY <1>6, Zenon DEF PacketInv, EntriesHomed, InterestsHomed
<1> QED
  BY <1>5, <1>7, <1>8 DEF PacketInv

LEMMA TakeInterestInv ==
    ASSUME PacketInv, NEW i \in Inputs, NEW w \in Workers, takeInterest(i, w)
    PROVE  PacketInv'
<1> DEFINE p == Head(interestQ[i][w])
<1>1. interestQ \in [Inputs -> [Workers -> Seq(InterestPacket)]]
  BY DEF PacketInv, PacketTypeOK
<1>2. interestQ[i][w] # <<>> /\ interestQ' = [interestQ EXCEPT ![i][w] = Tail(@)]
  BY DEF takeInterest
<1>3. interestQ' \in [Inputs -> [Workers -> Seq(InterestPacket)]]
  BY <1>1, <1>2, TakenTyped
<1>4. p \in InterestPacket /\ computeWorkerId(p.key.name) = w
  <2>1. 1 \in 1 .. Len(interestQ[i][w]) /\ p = interestQ[i][w][1] /\ p \in InterestPacket
    BY <1>1, <1>2, TakenTyped
  <2> QED
    BY <2>1 DEF PacketInv, InterestsHomed
<1>5. InterestsHomed'
  <2>1. \A h \in Inputs, v \in Workers : \A j \in 1 .. Len(interestQ'[h][v]) :
          \E l \in 1 .. Len(interestQ[h][v]) : interestQ'[h][v][j] = interestQ[h][v][l]
    <3> TAKE h \in Inputs, v \in Workers
    <3> TAKE j \in 1 .. Len(interestQ'[h][v])
    <3>1. interestQ[h][v] \in Seq(InterestPacket)
      BY <1>1
    <3>2. \/ interestQ'[h][v] = interestQ[h][v]
          \/ interestQ[h][v] # <<>> /\ interestQ'[h][v] = Tail(interestQ[h][v])
      BY <1>1, <1>2
    <3>3. CASE interestQ'[h][v] = interestQ[h][v]
      BY <3>3
    <3>4. CASE interestQ[h][v] # <<>> /\ interestQ'[h][v] = Tail(interestQ[h][v])
      <4>1. j + 1 \in 1 .. Len(interestQ[h][v]) /\ interestQ'[h][v][j] = interestQ[h][v][j + 1]
        BY <3>1, <3>4
      <4> QED
        BY <4>1
    <3> QED
      BY <3>2, <3>3, <3>4
  <2>2. ASSUME NEW h \in Inputs, NEW v \in Workers, NEW j \in 1 .. Len(interestQ'[h][v])
        PROVE  computeWorkerId(interestQ'[h][v][j].key.name) = v
    <3>1. PICK l \in 1 .. Len(interestQ[h][v]) : interestQ'[h][v][j] = interestQ[h][v][l]
      BY <2>1
    <3>2. computeWorkerId(interestQ[h][v][l].key.name) = v
      BY DEF PacketInv, InterestsHomed
    <3> QED
      BY <3>1, <3>2
  <2> QED
    BY <2>2 DEF InterestsHomed
<1>6. pit' \in [Workers -> SUBSET Key] /\ asked' \subseteq [key : Key, token : Workers]
  BY <1>4 DEF takeInterest, TokenOf, PacketInv, PacketTypeOK, InterestPacket
<1>7. EntriesHomed'
  <2>1. \A v \in Workers : \A k \in pit'[v] : computeWorkerId(k.name) = v
    <3>1. pit' \in {pit, [pit EXCEPT ![w] = @ \ {p.key}], [pit EXCEPT ![w] = @ \cup {p.key}]}
      BY DEF takeInterest
    <3>2. \A v \in Workers : \A k \in pit'[v] : k \in pit[v] \/ (v = w /\ k = p.key)
      BY <3>1 DEF PacketInv, PacketTypeOK
    <3> QED
      BY <1>4, <3>2 DEF PacketInv, EntriesHomed
  <2>2. \A a \in asked' : computeWorkerId(a.key.name) = a.token
    BY <1>4 DEF takeInterest, TokenOf, PacketInv, EntriesHomed
  <2> QED
    BY <2>1, <2>2 DEF EntriesHomed
<1>8. dataQ' = dataQ
  BY DEF takeInterest
<1>9. PacketTypeOK'
  BY <1>3, <1>6, <1>8 DEF PacketInv, PacketTypeOK
<1>10. DataHomed'
  BY <1>8, Zenon DEF PacketInv, DataHomed, Promised
<1> QED
  BY <1>5, <1>7, <1>9, <1>10 DEF PacketInv

LEMMA TakeDataInv ==
    ASSUME PacketInv, NEW i \in Inputs, NEW w \in Workers, takeData(i, w)
    PROVE  PacketInv'
<1>1. dataQ \in [Inputs -> [Workers -> Seq(DataPacket)]]
  BY DEF PacketInv, PacketTypeOK
<1>2. dataQ[i][w] # <<>> /\ dataQ' = [dataQ EXCEPT ![i][w] = Tail(@)]
  BY DEF takeData
<1>3. dataQ' \in [Inputs -> [Workers -> Seq(DataPacket)]]
  BY <1>1, <1>2, TakenTyped
<1>4. \A h \in Inputs, v \in Workers : \A j \in 1 .. Len(dataQ'[h][v]) :
        \E l \in 1 .. Len(dataQ[h][v]) : dataQ'[h][v][j] = dataQ[h][v][l]
  <2> TAKE h \in Inputs, v \in Workers
  <2> TAKE j \in 1 .. Len(dataQ'[h][v])
  <2>1. dataQ[h][v] \in Seq(DataPacket)
    BY <1>1
  <2>2. \/ dataQ'[h][v] = dataQ[h][v]
        \/ dataQ[h][v] # <<>> /\ dataQ'[h][v] = Tail(dataQ[h][v])
    BY <1>1, <1>2
  <2>3. CASE dataQ'[h][v] = dataQ[h][v]
    BY <2>3
  <2>4. CASE dataQ[h][v] # <<>> /\ dataQ'[h][v] = Tail(dataQ[h][v])
    <3>1. j + 1 \in 1 .. Len(dataQ[h][v]) /\ dataQ'[h][v][j] = dataQ[h][v][j + 1]
      BY <2>1, <2>4
    <3> QED
      BY <3>1
  <2> QED
    BY <2>2, <2>3, <2>4
<1>5. DataHomed'
  <2> SUFFICES ASSUME NEW h \in Inputs, NEW v \in Workers,
                      NEW j \in 1 .. Len(dataQ'[h][v]), Promised(dataQ'[h][v][j])
               PROVE  computeWorkerId(dataQ'[h][v][j].key.name) = v
    BY DEF DataHomed, Promised
  <2>1. PICK l \in 1 .. Len(dataQ[h][v]) : dataQ'[h][v][j] = dataQ[h][v][l]
    BY <1>4
  <2>2. Promised(dataQ[h][v][l])
    BY <2>1
  <2>3. computeWorkerId(dataQ[h][v][l].key.name) = v
    BY <2>2 DEF PacketInv, DataHomed
  <2> QED
    BY <2>1, <2>3
<1>6. pit' \in [Workers -> SUBSET Key]
  BY DEF takeData, PacketInv, PacketTypeOK
<1>7. EntriesHomed'
  BY DEF takeData, PacketInv, PacketTypeOK, EntriesHomed
<1>8. UNCHANGED <<interestQ, asked>>
  BY DEF takeData
<1>9. PacketTypeOK'
  BY <1>3, <1>6, <1>8 DEF PacketInv, PacketTypeOK
<1>10. InterestsHomed'
  BY <1>8 DEF PacketInv, InterestsHomed
<1> QED
  BY <1>5, <1>7, <1>9, <1>10 DEF PacketInv

LEMMA ExpireInv ==
    ASSUME PacketInv, NEW w \in Workers, NEW k, expire(w, k)
    PROVE  PacketInv'
<1>1. pit' \in [Workers -> SUBSET Key]
  BY DEF expire, PacketInv, PacketTypeOK
<1>2. EntriesHomed'
  BY DEF expire, PacketInv, PacketTypeOK, EntriesHomed
<1>3. UNCHANGED <<interestQ, dataQ, asked>>
  BY DEF expire
<1>4. PacketTypeOK'
  BY <1>1, <1>3 DEF PacketInv, PacketTypeOK
<1>5. InterestsHomed'
  BY <1>3 DEF PacketInv, InterestsHomed
<1>6. DataHomed'
  BY <1>3, Zenon DEF PacketInv, DataHomed, Promised
<1> QED
  BY <1>2, <1>4, <1>5, <1>6 DEF PacketInv

LEMMA PacketNextInv == PacketInv /\ [PacketNext]_packetVars => PacketInv'
<1> SUFFICES ASSUME PacketInv, [PacketNext]_packetVars PROVE PacketInv'
  OBVIOUS
<1>1. ASSUME NEW i \in Inputs, NEW k \in Key, receiveInterest(i, k) PROVE PacketInv'
  BY <1>1, ReceiveInterestPacketInv DEF receiveInterest, InterestPacket
<1>2. ASSUME NEW i \in Inputs, NEW a \in asked, receiveNack(i, a) PROVE PacketInv'
  <2>1. [type |-> "nack", key |-> a.key] \in InterestPacket
    BY DEF PacketInv, PacketTypeOK, InterestPacket
  <2> QED
    BY <1>2, <2>1, ReceiveInterestPacketInv DEF receiveNack
<1>3. CASE UNCHANGED packetVars
  <2>1. UNCHANGED <<interestQ, dataQ, pit, asked>>
    BY <1>3 DEF packetVars
  <2>2. PacketTypeOK' /\ EntriesHomed'
    BY <2>1 DEF PacketInv, PacketTypeOK, EntriesHomed
  <2>3. InterestsHomed'
    BY <2>1 DEF PacketInv, InterestsHomed
  <2>4. DataHomed'
    BY <2>1 DEF PacketInv, DataHomed, Promised
  <2> QED
    BY <2>2, <2>3, <2>4 DEF PacketInv
<1> QED
  BY <1>1, <1>2, <1>3, ReceiveDataInv, TakeInterestInv, TakeDataInv, ExpireInv, Zenon DEF PacketNext

-----------------------------------------------------------------------------
LEMMA PacketInvAlways == PacketSpec => []PacketInv
BY PacketInitInv, PacketNextInv, PTL DEF PacketSpec

\* The queues hold packets of their kind, the tokens name workers.
THEOREM PacketTypeCorrect == PacketSpec => []PacketTypeOK
<1>1. PacketInv => PacketTypeOK
  BY DEF PacketInv
<1> QED
  BY <1>1, PacketInvAlways, PTL

\* Every answer is given to the one worker that may hold the entry of its
\* Interest (dissectNdnPacket, Strategy::sendInterest).
THEOREM AnswersGoHomeAlways == PacketSpec => []AnswersGoHome
<1>1. PacketInv => AnswersGoHome
  <2> SUFFICES ASSUME PacketInv PROVE AnswersGoHome
    OBVIOUS
  <2>1. \A k : AtHome(k, computeWorkerId(k.name))
    BY DEF PacketInv, EntriesHomed, AtHome
  <2>2. ASSUME NEW a \in asked, NEW p \in Answers(a), Promised(p)
        PROVE  AtHome(p.key, DataWorker(p))
    <3>1. a \in [key : Key, token : Workers] /\ computeWorkerId(a.key.name) = a.token
      BY DEF PacketInv, PacketTypeOK, EntriesHomed
    <3> QED
      BY <2>1, <2>2, <3>1, AnswerSharesWorker
  <2>3. ASSUME NEW i \in Inputs, NEW w \in Workers, NEW j \in 1 .. Len(interestQ[i][w])
        PROVE  AtHome(interestQ[i][w][j].key, w)
    BY <2>1 DEF PacketInv, InterestsHomed
  <2>4. ASSUME NEW i \in Inputs, NEW w \in Workers, NEW j \in 1 .. Len(dataQ[i][w]),
               Promised(dataQ[i][w][j])
        PROVE  AtHome(dataQ[i][w][j].key, w)
    BY <2>1, <2>4 DEF PacketInv, DataHomed
  <2> QED
    BY <2>1, <2>2, <2>3, <2>4, Zenon DEF AnswersGoHome
<1> QED
  BY <1>1, PacketInvAlways, PTL
=============================================================================
