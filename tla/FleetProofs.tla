---------------------------- MODULE FleetProofs ----------------------------
(***************************************************************************)
(* Fleet's invariants, proved for any number of addresses, processes and   *)
(* pushing goroutines.  On the side of Connect the inductive invariant     *)
(* adds that each of two living processes of one address knows the other   *)
(* and that only a process on its way out has removed an address; on the   *)
(* side of Task, which stages of the shutdown can still see awaited        *)
(* goroutines and which have closed anything.                              *)
(***************************************************************************)
EXTENDS Fleet, TLAPS

\* Living processes of one address have been recorded as living side by side.
RivalsKnown ==
  \A p, q \in Procs :
    ServerOf[p] = ServerOf[q] /\ Alive(p) /\ Alive(q) => q \in beside[p]

\* Only a process that is leaving or has left has removed its address.
RemovedLeaves == \A p \in removed : proc[p] \in {"stopping", "dead"}

\* Registration comes first in a process's life, and only the SREM of a process
\* beside it takes the address away again.
AliveRegistered ==
  \A p \in Procs : Alive(p) => ServerOf[p] \in nodes \/ beside[p] \cap removed # {}

ConnectInv == RivalsKnown /\ RemovedLeaves /\ AliveRegistered /\ NoGhostNode

Entries == {pool[v] : v \in Servers} \ {None}

\* Nothing is closed before the consumer groups are, and nobody is awaited
\* afterwards; what is being closed has left the pool.
Shutdown ==
  /\ phase \in {"run", "cancelled", "drained"} => closing = {} /\ closed = {}
  /\ phase \in {"drained", "closing", "exited"} =>
       \A w \in Workers : worker[w].at = "rest" \/ worker[w].stray
  /\ phase = "exited" => \A w \in Workers : worker[w].at = "rest"
  /\ closing \cap Entries = {}

TaskInv == Shutdown /\ NoLeakedClient

IInv == TypeOK /\ ConnectInv /\ TaskInv

-----------------------------------------------------------------------------
LEMMA InitIInv == Init => IInv
  <1> SUFFICES ASSUME Init PROVE IInv
    OBVIOUS
  <1>1. TypeOK
    BY FleetAssumption DEF Init, TypeOK, Resting
  <1>2. ConnectInv
    BY DEF Init, ConnectInv, RivalsKnown, RemovedLeaves, AliveRegistered, NoGhostNode, Alive
  <1>3. 1 .. dialled = {}
    BY DEF Init
  <1>4. TaskInv
    BY <1>3 DEF Init, TaskInv, Shutdown, NoLeakedClient, Entries, Resting
  <1> QED BY <1>1, <1>2, <1>4 DEF IInv

LEMMA NextTypeOK == IInv /\ [Next]_vars => TypeOK'
  <1> SUFFICES ASSUME IInv, TypeOK, [Next]_vars PROVE TypeOK'
    BY DEF IInv
  <1> USE FleetAssumption DEF TypeOK, Resting
  <1>1. ASSUME NEW p \in Procs, Start(p) PROVE TypeOK'
    <2>1. Rivals(p) \subseteq Procs
      BY DEF Rivals
    <2>2. beside' \in [Procs -> SUBSET Procs]
      BY <1>1, <2>1 DEF Start
    <2> QED BY <1>1, <2>2 DEF Start, clientPool
  <1>2. ASSUME NEW p \in Procs, StartFails(p) PROVE TypeOK'
    BY <1>2 DEF StartFails, clientPool
  <1>3. ASSUME NEW p \in Procs, NEW port \in Ports, Listen(p, port) PROVE TypeOK'
    BY <1>3 DEF Listen, clientPool
  <1>4. ASSUME NEW p \in Procs, Die(p) \/ End(p) PROVE TypeOK'
    <2>1. dirty' \subseteq Servers
      BY <1>4 DEF Die, End, Ends
    <2>2. proc' \in [Procs -> {"off", "started", "stopping", "dead"}]
      BY <1>4 DEF Die, End, Ends
    <2>3. bound' \in [Procs -> SUBSET Ports] /\ beside' \in [Procs -> SUBSET Procs]
      BY <1>4 DEF Die, End, Ends
    <2>4. UNCHANGED <<nodes, removed, phase, worker, clientPool>>
      BY <1>4 DEF Die, End, Ends
    <2> QED BY <2>1, <2>2, <2>3, <2>4 DEF clientPool
  <1>5. ASSUME NEW p \in Procs, Signal(p) PROVE TypeOK'
    BY <1>5 DEF Signal, clientPool
  <1>6. ASSUME NEW p \in Procs, Unregister(p) PROVE TypeOK'
    BY <1>6 DEF Unregister, clientPool
  <1>7. ASSUME NEW w \in Workers, NEW v \in Servers, Push(w, v) PROVE TypeOK'
    BY <1>7 DEF Push, clientPool, registry
  <1>8. ASSUME NEW w \in Workers, Get(w) PROVE TypeOK'
    BY <1>8 DEF Get, WorkerGoes, clientPool, registry
  <1>9. ASSUME NEW w \in Workers, Create(w) PROVE TypeOK'
    <2>1. CASE UNCHANGED clientPool
      BY <1>9, <2>1 DEF Create, WorkerGoes, clientPool, registry
    <2>2. CASE pool[worker[w].server] = None
      <3>1. dialled + 1 \in Clients
        BY <1>9, <2>2 DEF Create, Clients, WorkerGoes, clientPool
      <3>2. worker' \in [Workers ->
              {Resting} \cup [at : {"get", "miss", "use"}, server : Servers,
                              client : Clients \cup {None}, stray : BOOLEAN]]
        BY <1>9, <3>1, <2>2 DEF Create, WorkerGoes
      <3>3. pool' \in [Servers -> Clients \cup {None}] /\ dialled' \in 0 .. MaxClients
        BY <1>9, <3>1, <2>2 DEF Create, Clients, clientPool
      <3>4. closing' = closing /\ closed' = closed /\ dialled' \in {dialled, dialled + 1}
        BY <1>9 DEF Create, clientPool
      <3>5. closing' \subseteq Clients /\ closed' \subseteq 1 .. dialled'
        <4>1. \A c \in closed : c \in 1 .. dialled'
          BY <3>4
        <4> QED BY <3>4, <4>1
      <3> QED BY <1>9, <3>2, <3>3, <3>5 DEF Create, registry
    <2> QED BY <1>9, <2>1, <2>2 DEF Create
  <1>10. ASSUME NEW w \in Workers, Finish(w) PROVE TypeOK'
    BY <1>10 DEF Finish, Resting, clientPool, registry
  <1>11. ASSUME NEW w \in Workers, Abandon(w) PROVE TypeOK'
    <2> DEFINE T == [at : {"get", "miss", "use"}, server : Servers,
                     client : Clients \cup {None}, stray : BOOLEAN]
    <2>1. worker[w] \in T
      BY <1>11 DEF Abandon
    <2>2. [worker[w] EXCEPT !.stray = TRUE] \in T
      BY <2>1
    <2>3. worker' = [worker EXCEPT ![w] = [worker[w] EXCEPT !.stray = TRUE]]
      BY <1>11 DEF Abandon
    <2>4. worker' \in [Workers -> {Resting} \cup T]
      BY <2>2, <2>3
    <2> QED BY <1>11, <2>4 DEF Abandon, clientPool, registry
  <1>12. CASE Cancel \/ CloseGroups
    BY <1>12 DEF Cancel, CloseGroups, clientPool, registry
  <1>13. CASE CloseAll
    BY <1>13 DEF CloseAll, registry
  <1>14. ASSUME NEW c \in Clients, CloseConn(c) PROVE TypeOK'
    <2>1. c \in 1 .. dialled
      BY <1>14 DEF CloseConn, IInv, TaskInv, NoLeakedClient
    <2> QED BY <1>14, <2>1 DEF CloseConn, clientPool, registry
  <1>15. CASE Exit
    BY <1>15 DEF Exit, Resting, registry
  <1>16. CASE UNCHANGED vars
    BY <1>16 DEF vars, registry, clientPool
  <1> QED
    BY <1>1, <1>2, <1>3, <1>4, <1>5, <1>6, <1>7, <1>8, <1>9, <1>10, <1>11, <1>12, <1>13, <1>14,
       <1>15, <1>16 DEF Next, ConnectNext, TaskNext

\* The Connect side: only the actions of a Connect process matter.
LEMMA NextConnectInv == IInv /\ [Next]_vars => ConnectInv'
  <1> SUFFICES ASSUME IInv, [Next]_vars PROVE ConnectInv'
    OBVIOUS
  <1> USE FleetAssumption DEF IInv, TypeOK, ConnectInv
  <1>1. ASSUME NEW p \in Procs, Start(p) PROVE ConnectInv'
    <2>1. \A q \in Procs : Alive(q)' <=> Alive(q) \/ q = p
      BY <1>1 DEF Start, Alive
    <2>2. /\ nodes' = nodes \cup {ServerOf[p]} /\ removed' = removed /\ dirty' = dirty
          /\ \A q \in Procs : beside[q] \subseteq beside'[q]
      BY <1>1 DEF Start
    <2>3. p \in beside'[p]
      BY <1>1 DEF Start
    <2>4. \A q \in Procs \ {p} : ServerOf[q] = ServerOf[p] /\ Alive(q) =>
            p \in beside'[q] /\ q \in beside'[p]
      BY <1>1 DEF Start, Rivals
    <2>5. RivalsKnown'
      BY <2>1, <2>2, <2>3, <2>4 DEF RivalsKnown
    <2>6. RemovedLeaves'
      BY <1>1, <2>2 DEF Start, RemovedLeaves
    <2>7. AliveRegistered'
      BY <2>1, <2>2 DEF AliveRegistered
    <2>8. p \notin removed
      BY <1>1 DEF Start, RemovedLeaves
    <2>9. NoGhostNode'
      BY <2>1, <2>2, <2>8 DEF NoGhostNode
    <2> QED BY <2>5, <2>6, <2>7, <2>9
  <1>2. ASSUME NEW p \in Procs, StartFails(p) \/ Signal(p) \/ \E port \in Ports : Listen(p, port)
        PROVE  ConnectInv'
    <2>1. \A q \in Procs : Alive(q)' <=> Alive(q)
      BY <1>2 DEF StartFails, Signal, Listen, Alive
    <2>2. UNCHANGED <<nodes, beside, removed, dirty>>
      BY <1>2 DEF StartFails, Signal, Listen
    <2>3. RemovedLeaves'
      BY <1>2, <2>2 DEF StartFails, Signal, Listen, RemovedLeaves
    <2> QED BY <2>1, <2>2, <2>3 DEF RivalsKnown, AliveRegistered, NoGhostNode
  <1>3. ASSUME NEW p \in Procs, Die(p) \/ End(p) PROVE ConnectInv'
    <2>1. \A q \in Procs : Alive(q)' <=> Alive(q) /\ q # p
      BY <1>3 DEF Die, End, Ends, Alive
    <2>2. /\ nodes' = nodes /\ removed' = removed
          /\ dirty' = IF p \in removed THEN dirty ELSE dirty \cup {ServerOf[p]}
          /\ \A q \in Procs \ {p} : beside'[q] = beside[q]
      BY <1>3 DEF Die, End, Ends
    <2>3. RemovedLeaves'
      BY <1>3, <2>2 DEF Die, End, Ends, RemovedLeaves
    <2>4. RivalsKnown' /\ AliveRegistered'
      BY <2>1, <2>2 DEF RivalsKnown, AliveRegistered
    <2>5. NoGhostNode'
      BY <2>1, <2>2 DEF NoGhostNode
    <2> QED BY <2>3, <2>4, <2>5
  <1>4. ASSUME NEW p \in Procs, Unregister(p) PROVE ConnectInv'
    <2>1. \A q \in Procs : Alive(q)' <=> Alive(q)
      BY <1>4 DEF Unregister, Alive
    <2>2. /\ nodes' = nodes \ {ServerOf[p]} /\ removed' = removed \cup {p} /\ beside' = beside
          /\ dirty' = dirty \ {ServerOf[p]}
      BY <1>4 DEF Unregister
    <2>3. Alive(p) /\ RemovedLeaves'
      BY <1>4 DEF Unregister, Alive, RemovedLeaves
    <2>4. \A q \in Procs : Alive(q) /\ ServerOf[q] = ServerOf[p] => p \in beside[q]
      BY <2>3 DEF RivalsKnown
    <2>5. RivalsKnown'
      BY <2>1, <2>2 DEF RivalsKnown
    <2>6. AliveRegistered'
      BY <2>1, <2>2, <2>4 DEF AliveRegistered
    <2>7. NoGhostNode'
      BY <2>1, <2>2 DEF NoGhostNode
    <2> QED BY <2>3, <2>5, <2>6, <2>7
  <1>5. CASE UNCHANGED registry
    <2>1. \A q \in Procs : Alive(q)' <=> Alive(q)
      BY <1>5 DEF registry, Alive
    <2> QED BY <1>5, <2>1 DEF registry, RivalsKnown, RemovedLeaves, AliveRegistered, NoGhostNode
  <1>6. TaskNext \/ UNCHANGED vars => UNCHANGED registry
    BY DEF TaskNext, vars, Push, Get, Create, Finish, Abandon, Cancel, CloseGroups, CloseAll,
           CloseConn, Exit
  <1> QED
    BY <1>1, <1>2, <1>3, <1>4, <1>5, <1>6 DEF Next, ConnectNext

\* What the pool's bookkeeping says, in the shape the steps below change it.
LEMMA NextTaskInv == IInv /\ [Next]_vars => TaskInv'
  <1> SUFFICES ASSUME IInv, [Next]_vars PROVE TaskInv'
    OBVIOUS
  <1> USE FleetAssumption DEF IInv, TaskInv
  <1>1. ASSUME NEW w \in Workers, NEW v \in Servers, Push(w, v) PROVE TaskInv'
    <2>1. Shutdown'
      BY <1>1 DEF Push, Shutdown, Entries, clientPool, TypeOK
    <2>2. NoLeakedClient'
      BY <1>1 DEF Push, NoLeakedClient, clientPool
    <2> QED BY <2>1, <2>2
  <1>2. ASSUME NEW w \in Workers, Get(w) \/ Finish(w) \/ Abandon(w) PROVE TaskInv'
    <2>1. /\ \A x \in Workers \ {w} : worker'[x] = worker[x]
          /\ worker[w].at # "rest"
          /\ worker'[w].at = "rest" \/ (worker[w].stray => worker'[w].stray)
          /\ UNCHANGED <<phase, clientPool>>
      BY <1>2 DEF Get, Finish, Abandon, WorkerGoes, Resting, TypeOK
    <2>2. Shutdown'
      BY <2>1 DEF Shutdown, Entries, clientPool
    <2>3. NoLeakedClient'
      BY <2>1 DEF NoLeakedClient, clientPool
    <2> QED BY <2>2, <2>3
  <1>3. ASSUME NEW w \in Workers, Create(w) PROVE TaskInv'
    <2> DEFINE v == worker[w].server
               c == dialled + 1
    <2>1. /\ \A x \in Workers \ {w} : worker'[x] = worker[x]
          /\ worker[w].at # "rest"
          /\ worker[w].stray => worker'[w].stray
          /\ UNCHANGED phase
      <3>1. PICK e : WorkerGoes(w, "use", e)
        BY <1>3 DEF Create
      <3>2. /\ \A x \in Workers \ {w} : worker'[x] = worker[x]
            /\ worker[w].stray => worker'[w].stray
        BY <1>3, <3>1 DEF Create, WorkerGoes, TypeOK, Resting
      <3> QED BY <1>3, <3>2 DEF Create
    <2>2. CASE UNCHANGED clientPool
      <3>1. Shutdown'
        BY <2>1, <2>2 DEF Shutdown, Entries, clientPool
      <3>2. NoLeakedClient'
        BY <2>2 DEF NoLeakedClient, clientPool
      <3> QED BY <3>1, <3>2
    <2>3. CASE /\ pool[v] = None /\ dialled < MaxClients /\ dialled' = c
               /\ pool' = [pool EXCEPT ![v] = c] /\ UNCHANGED <<closing, closed>>
      <3>1. v \in Servers /\ dialled \in Nat /\ c \in Clients
        BY <1>3, <2>3 DEF Create, TypeOK, Clients, Resting
      <3>2. \A e \in 1 .. dialled : e # c
        BY <3>1
      <3>3. Entries \cup closing \subseteq 1 .. dialled
        BY DEF NoLeakedClient, Entries
      <3>4. c \notin Entries /\ c \notin closing /\ c \notin closed /\ c # None
        BY <3>1, <3>2, <3>3 DEF TypeOK
      <3>5. \A x \in Servers : pool'[x] = IF x = v THEN c ELSE pool[x]
        BY <2>3, <3>1 DEF TypeOK
      <3>6. Entries' = Entries \cup {c}
        BY <2>3, <3>1, <3>4, <3>5 DEF Entries
      <3>7. 1 .. dialled' = (1 .. dialled) \cup {c}
        BY <2>3, <3>1
      <3>8. Shutdown'
        BY <2>1, <2>3, <3>4, <3>6 DEF Shutdown
      <3>9. ((1 .. dialled) \ closed = Entries \cup closing)'
        BY <2>3, <3>4, <3>6, <3>7 DEF NoLeakedClient, Entries
      <3>10. \A x, y \in Servers : pool'[x] = pool'[y] /\ pool'[x] # None => x = y
        <4>1. \A x \in Servers \ {v} : pool'[x] = pool[x] /\ pool'[x] # c
          BY <3>4, <3>5 DEF Entries
        <4>2. pool'[v] = c
          BY <3>1, <3>5
        <4> QED BY <4>1, <4>2 DEF NoLeakedClient
      <3> QED BY <3>8, <3>9, <3>10 DEF NoLeakedClient, Entries
    <2> QED BY <1>3, <2>2, <2>3 DEF Create
  <1>4. CASE Cancel \/ CloseGroups
    <2>1. Shutdown'
      BY <1>4 DEF Cancel, CloseGroups, Shutdown, Entries, clientPool
    <2>2. NoLeakedClient'
      BY <1>4 DEF Cancel, CloseGroups, NoLeakedClient, clientPool
    <2> QED BY <2>1, <2>2
  <1>5. CASE CloseAll
    <2>1. closing = {} /\ closing' = Entries /\ UNCHANGED <<worker, dialled, closed>>
      BY <1>5 DEF CloseAll, Shutdown, Entries
    <2>2. Entries' = {} /\ \A v \in Servers : pool'[v] = None
      BY <1>5 DEF CloseAll, Entries
    <2>3. Shutdown'
      BY <1>5, <2>1, <2>2 DEF CloseAll, Shutdown
    <2>4. NoLeakedClient'
      BY <2>1, <2>2 DEF NoLeakedClient, Entries
    <2> QED BY <2>3, <2>4
  <1>6. ASSUME NEW c \in Clients, CloseConn(c) PROVE TaskInv'
    <2>1. UNCHANGED <<phase, worker, pool, dialled>> /\ Entries' = Entries
      BY <1>6 DEF CloseConn, Entries
    <2>2. c \in closing /\ closing' = closing \ {c} /\ closed' = closed \cup {c} /\ c \notin Entries
      BY <1>6 DEF CloseConn, Shutdown
    <2>3. Shutdown'
      BY <2>1, <2>2 DEF Shutdown
    <2>4. ((1 .. dialled) \ closed = Entries \cup closing)'
      BY <2>1, <2>2 DEF NoLeakedClient, Entries
    <2> QED BY <2>1, <2>3, <2>4 DEF NoLeakedClient, Entries
  <1>7. CASE Exit
    <2>1. Entries' = {} /\ (\A v \in Servers : pool'[v] = None) /\ closing' = {}
      BY <1>7 DEF Exit, Entries
    <2>2. \A w \in Workers : worker'[w].at = "rest"
      BY <1>7 DEF Exit, Resting
    <2>3. Shutdown'
      BY <1>7, <2>1, <2>2 DEF Exit, Shutdown
    <2>4. NoLeakedClient'
      BY <1>7, <2>1 DEF Exit, NoLeakedClient, Entries
    <2> QED BY <2>3, <2>4
  <1>8. CASE UNCHANGED <<phase, worker, clientPool>>
    <2>1. Shutdown'
      BY <1>8 DEF Shutdown, Entries, clientPool
    <2>2. NoLeakedClient'
      BY <1>8 DEF NoLeakedClient, clientPool
    <2> QED BY <2>1, <2>2
  <1>9. ConnectNext \/ UNCHANGED vars => UNCHANGED <<phase, worker, clientPool>>
    BY DEF ConnectNext, vars, Start, StartFails, Listen, Die, Signal,
           Unregister, End, Ends
  <1> QED
    BY <1>1, <1>2, <1>3, <1>4, <1>5, <1>6, <1>7, <1>8, <1>9 DEF Next, TaskNext

\* The inductive invariant holds in every reachable state.
THEOREM SpecIInv == Spec => []IInv
  <1>1. IInv /\ [Next]_vars => IInv'
    BY NextTypeOK, NextConnectInv, NextTaskInv DEF IInv
  <1> QED BY <1>1, InitIInv, PTL DEF Spec

\* Every variable of Fleet keeps its type.
THEOREM FleetTypeOK == Spec => []TypeOK
  BY SpecIInv, PTL DEF IInv

\* A node that serves is in connect_nodes: until an SREM of a process that lives
\* or lived beside it, or its own, has taken effect.
THEOREM FleetServingRegistered == Spec => []ServingRegistered
  <1>1. IInv => ServingRegistered
    BY DEF IInv, ConnectInv, AliveRegistered, ServingRegistered, Serving
  <1> QED BY <1>1, SpecIInv, PTL

\* What connect_nodes: holds without a living process was left by one that died
\* or failed to unregister, and no SREM has come since.
THEOREM FleetNoGhostNode == Spec => []NoGhostNode
  BY SpecIInv, PTL DEF IInv, ConnectInv

\* The pool loses no connection, however many goroutines miss at once.
THEOREM FleetNoLeakedClient == Spec => []NoLeakedClient
  BY SpecIInv, PTL DEF IInv, TaskInv

\* The shutdown closes no connection under a push that is awaited.
THEOREM FleetClosedUnused == Spec => []ClosedUnused
  <1>1. IInv => ClosedUnused
    <2> SUFFICES ASSUME IInv, NEW w \in Workers, worker[w].at = "use", ~worker[w].stray
                 PROVE  worker[w].client \notin closing \cup closed
      BY DEF ClosedUnused
    <2>1. phase \in {"run", "cancelled"}
      BY DEF IInv, TypeOK, TaskInv, Shutdown
    <2> QED BY <2>1 DEF IInv, TaskInv, Shutdown
  <1> QED BY <1>1, SpecIInv, PTL

=============================================================================
