------------------------------- MODULE Fleet -------------------------------
(***************************************************************************)
(* Which Connect nodes there are, and how a Task process reaches them:     *)
(* the life of the Connect processes with the Redis set connect_nodes:     *)
(* (cmd/connect/main.go, internal/connect/registry.go), and Task's pool of *)
(* gRPC clients with its shutdown (internal/task/rpc_client.go,            *)
(* cmd/task/main.go).                                                      *)
(*                                                                         *)
(* log.Fatalf ends a process without its deferred calls.  Two processes    *)
(* with one configuration have the same address and the same ports, as     *)
(* when a node is restarted before its predecessor has gone.  go-redis     *)
(* sends a command again when the reply does not come, so one SADD or SREM *)
(* may take effect several times, always within the life of its process.   *)
(***************************************************************************)
EXTENDS Integers, FiniteSets

CONSTANTS
  Servers,     \* addresses of Connect nodes (ServerID)
  Procs,       \* Connect processes
  ServerOf,    \* the address a process is configured with
  Workers,     \* goroutines of Task that push to a node
  MaxClients,  \* bound: clients dialled
  None

Clients == 1 .. MaxClients
Ports == {"grpc", "http"}

ASSUME FleetAssumption ==
  /\ ServerOf \in [Procs -> Servers]
  /\ MaxClients \in Nat
  /\ None \notin Clients /\ None \notin Servers

VARIABLES
  nodes,      \* the set connect_nodes:
  proc,       \* the stage of each Connect process
  bound,      \* the ports a process listens on
  beside,     \* history: those of its address that a living process lived beside, itself too
  removed,    \* history: processes whose SREM took effect
  dirty,      \* history: addresses some process ended with, and no SREM since
  phase,      \* Task's main: "run", then the stages of its shutdown
  worker,     \* the pushing goroutines
  pool,       \* ConnectClientPool.clients
  closing,    \* the entries CloseAll has taken out and not closed yet
  dialled,    \* clients made so far
  closed      \* clients whose connection was closed

registry == <<nodes, proc, bound, beside, removed, dirty>>
clientPool == <<pool, closing, dialled, closed>>
vars == <<registry, phase, worker, clientPool>>

Resting == [at |-> "rest", server |-> None, client |-> None, stray |-> FALSE]

\* A process that has sent its SADD and has not ended.
Alive(p) == proc[p] \in {"started", "stopping"}
Rivals(p) == {q \in Procs \ {p} : ServerOf[q] = ServerOf[p]}
Serving(p) == Alive(p) /\ bound[p] = Ports

TypeOK ==
  /\ nodes \subseteq Servers
  /\ proc \in [Procs -> {"off", "started", "stopping", "dead"}]
  /\ bound \in [Procs -> SUBSET Ports]
  /\ beside \in [Procs -> SUBSET Procs]
  /\ removed \subseteq Procs
  /\ dirty \subseteq Servers
  /\ phase \in {"run", "cancelled", "drained", "closing", "exited"}
  /\ worker \in [Workers ->
       {Resting} \cup [at : {"get", "miss", "use"}, server : Servers,
                       client : Clients \cup {None}, stray : BOOLEAN]]
  /\ pool \in [Servers -> Clients \cup {None}]
  /\ closing \subseteq Clients
  /\ dialled \in 0 .. MaxClients
  /\ closed \subseteq 1 .. dialled

Init ==
  /\ nodes = {}
  /\ proc = [p \in Procs |-> "off"]
  /\ bound = [p \in Procs |-> {}]
  /\ beside = [p \in Procs |-> {}]
  /\ removed = {}
  /\ dirty = {}
  /\ phase = "run"
  /\ worker = [w \in Workers |-> Resting]
  /\ pool = [v \in Servers |-> None]
  /\ closing = {}
  /\ dialled = 0
  /\ closed = {}

-----------------------------------------------------------------------------
(***************************************************************************)
(* A Connect process.                                                      *)
(***************************************************************************)

\* The process is gone; an address it did not remove stays behind.
Ends(p) ==
  /\ proc' = [proc EXCEPT ![p] = "dead"]
  /\ bound' = [bound EXCEPT ![p] = {}]
  /\ beside' = [beside EXCEPT ![p] = {}]
  /\ dirty' = IF p \in removed THEN dirty ELSE dirty \cup {ServerOf[p]}
  /\ UNCHANGED <<nodes, removed, phase, worker, clientPool>>

\* RegisterConnectNode, before anything listens: SADD takes effect, and again
\* while its reply is awaited.
Start(p) ==
  LET others == {q \in Rivals(p) : Alive(q)} IN
  /\ proc[p] = "off" \/ (proc[p] = "started" /\ bound[p] = {})
  /\ proc' = [proc EXCEPT ![p] = "started"]
  /\ nodes' = nodes \cup {ServerOf[p]}
  /\ beside' = [q \in Procs |-> IF q = p THEN beside[p] \cup others \cup {p}
                                ELSE IF q \in others THEN beside[q] \cup {p}
                                ELSE beside[q]]
  /\ UNCHANGED <<bound, removed, dirty, phase, worker, clientPool>>

\* It fails without having taken effect: log.Fatalf.
StartFails(p) ==
  /\ proc[p] = "off"
  /\ proc' = [proc EXCEPT ![p] = "dead"]
  /\ UNCHANGED <<nodes, bound, beside, removed, dirty, phase, worker, clientPool>>

\* Each listener in its own goroutine.
Listen(p, port) ==
  /\ Alive(p) /\ port \notin bound[p]
  /\ \A q \in Rivals(p) : port \notin bound[q]
  /\ bound' = [bound EXCEPT ![p] = @ \cup {port}]
  /\ UNCHANGED <<nodes, proc, beside, removed, dirty, phase, worker, clientPool>>

\* The process ends without its deferred calls: SADD failed although it took
\* effect, the port is taken, the client of Logic cannot be made or a server
\* fails (all log.Fatalf), or the process is killed.
Die(p) == Alive(p) /\ Ends(p)

\* SIGINT or SIGTERM: main returns; the listeners run on until the process ends.
Signal(p) ==
  /\ proc[p] = "started"
  /\ proc' = [proc EXCEPT ![p] = "stopping"]
  /\ UNCHANGED <<nodes, bound, beside, removed, dirty, phase, worker, clientPool>>

\* Mutant of Unregister: the wrong member is removed.
UnregisterNothing(p) ==
  /\ proc[p] = "stopping"
  /\ removed' = removed \cup {p}
  /\ dirty' = dirty \ {ServerOf[p]}
  /\ UNCHANGED <<nodes, proc, bound, beside, phase, worker, clientPool>>

\* Mutant of Unregister: a node clears the set when it leaves.
UnregisterAll(p) ==
  /\ proc[p] = "stopping"
  /\ nodes' = {}
  /\ removed' = removed \cup {p}
  /\ dirty' = dirty \ {ServerOf[p]}
  /\ UNCHANGED <<proc, bound, beside, phase, worker, clientPool>>

\* The deferred UnregisterConnectNode: SREM takes effect, whoever uses the
\* address by now, and again when the reply was lost.  The process still serves.
Unregister(p) ==
  /\ proc[p] = "stopping"
  /\ nodes' = nodes \ {ServerOf[p]}
  /\ removed' = removed \cup {p}
  /\ dirty' = dirty \ {ServerOf[p]}
  /\ UNCHANGED <<proc, bound, beside, phase, worker, clientPool>>

\* It has returned, in vain perhaps, which is only logged: main is over.
End(p) == proc[p] = "stopping" /\ Ends(p)

-----------------------------------------------------------------------------
(***************************************************************************)
(* Task's clients.                                                         *)
(***************************************************************************)
WorkerGoes(w, at, c) == worker' = [worker EXCEPT ![w].at = at, ![w].client = c]

\* A consumer pushes to a node that Redis named (a route or connect_nodes:).
Push(w, v) ==
  /\ phase \in {"run", "cancelled"}
  /\ worker[w].at = "rest"
  /\ worker' = [worker EXCEPT ![w] = [at |-> "get", server |-> v, client |-> None, stray |-> FALSE]]
  /\ UNCHANGED <<registry, phase, clientPool>>

\* GetClient under the read lock.
Get(w) ==
  /\ worker[w].at = "get"
  /\ IF pool[worker[w].server] # None
     THEN WorkerGoes(w, "use", pool[worker[w].server])
     ELSE WorkerGoes(w, "miss", None)
  /\ UNCHANGED <<registry, phase, clientPool>>

\* Mutant of Create: no second look.
CreateUnchecked(w) ==
  LET v == worker[w].server IN
  /\ worker[w].at = "miss"
  /\ dialled < MaxClients
  /\ dialled' = dialled + 1
  /\ pool' = [pool EXCEPT ![v] = dialled + 1]
  /\ WorkerGoes(w, "use", dialled + 1)
  /\ UNCHANGED <<registry, phase, closing, closed>>

\* After a miss, under the write lock: a second look, then a new client.
Create(w) ==
  LET v == worker[w].server IN
  /\ worker[w].at = "miss"
  /\ \/ /\ pool[v] # None
        /\ WorkerGoes(w, "use", pool[v])
        /\ UNCHANGED clientPool
     \/ /\ pool[v] = None
        /\ dialled < MaxClients
        /\ dialled' = dialled + 1
        /\ pool' = [pool EXCEPT ![v] = dialled + 1]
        /\ WorkerGoes(w, "use", dialled + 1)
        /\ UNCHANGED <<closing, closed>>
  /\ UNCHANGED <<registry, phase>>

\* The call returns, or no client could be made.
Finish(w) ==
  /\ worker[w].at \in {"use", "miss"}
  /\ worker' = [worker EXCEPT ![w] = Resting]
  /\ UNCHANGED <<registry, phase, clientPool>>

\* The consumer's context ends and it does not wait for its goroutine any more.
Abandon(w) ==
  /\ worker[w].at # "rest"
  /\ worker' = [worker EXCEPT ![w].stray = TRUE]
  /\ UNCHANGED <<registry, phase, clientPool>>

-----------------------------------------------------------------------------
(***************************************************************************)
(* The end of Task's main: its deferred calls, last one first.             *)
(***************************************************************************)
Cancel ==
  /\ phase = "run"
  /\ phase' = "cancelled"
  /\ UNCHANGED <<registry, worker, clientPool>>

\* Mutant of CloseGroups: the consumer groups are not closed before the pool.
CloseGroupsSkipped ==
  /\ phase = "cancelled"
  /\ phase' = "drained"
  /\ UNCHANGED <<registry, worker, clientPool>>

\* Close of the consumer groups waits for every ConsumeClaim to return.
CloseGroups ==
  /\ phase = "cancelled"
  /\ \A w \in Workers : worker[w].at = "rest" \/ worker[w].stray
  /\ phase' = "drained"
  /\ UNCHANGED <<registry, worker, clientPool>>

\* CloseAll: the entries are taken out under the lock ...
CloseAll ==
  /\ phase = "drained"
  /\ phase' = "closing"
  /\ closing' = {pool[v] : v \in Servers} \ {None}
  /\ pool' = [v \in Servers |-> None]
  /\ UNCHANGED <<registry, worker, dialled, closed>>

\* ... and closed without it.
CloseConn(c) ==
  /\ c \in closing
  /\ closing' = closing \ {c}
  /\ closed' = closed \cup {c}
  /\ UNCHANGED <<registry, phase, worker, pool, dialled>>

Exit ==
  /\ phase = "closing" /\ closing = {}
  /\ phase' = "exited"
  /\ worker' = [w \in Workers |-> Resting]
  /\ pool' = [v \in Servers |-> None]
  /\ closed' = 1 .. dialled
  /\ UNCHANGED <<registry, closing, dialled>>

ConnectNext ==
  \E p \in Procs :
    \/ Start(p)
    \/ StartFails(p)
    \/ \E port \in Ports : Listen(p, port)
    \/ Die(p)
    \/ Signal(p)
    \/ Unregister(p)
    \/ End(p)

TaskNext ==
  \/ \E w \in Workers :
       \/ \E v \in Servers : Push(w, v)
       \/ Get(w)
       \/ Create(w)
       \/ Finish(w)
       \/ Abandon(w)
  \/ Cancel
  \/ CloseGroups
  \/ CloseAll
  \/ \E c \in Clients : CloseConn(c)
  \/ Exit

Next == ConnectNext \/ TaskNext

Spec == Init /\ [][Next]_vars

-----------------------------------------------------------------------------
(***************************************************************************)
(* Properties.                                                             *)
(***************************************************************************)

\* A node that serves is in the set the room broadcasts are sent along until an
\* SREM of a process of its address that lives or lived beside it takes effect:
\* its own, from when on it serves unregistered, or a predecessor's that comes
\* after its SADD.  Crashes, stale entries, failed starts and what other
\* addresses do leave it there (RegisterConnectNode before the listeners,
\* UnregisterConnectNode).
ServingRegistered ==
  \A p \in Procs : Serving(p) => ServerOf[p] \in nodes \/ beside[p] \cap removed # {}

\* An address in the set has a living process that has not unregistered, or is
\* what a process left that died or whose SREM failed.  One SREM that takes
\* effect, of whichever process of the address, heals all that is left of it.
NoGhostNode ==
  \A v \in nodes \ dirty :
    \E p \in Procs : Alive(p) /\ ServerOf[p] = v /\ p \notin removed

\* Every connection that was dialled and not closed is still in the pool or in
\* CloseAll's hands, and no two entries share one: concurrent misses do not
\* leave a client behind (the double check in GetClient, CloseAll).
NoLeakedClient ==
  /\ (1 .. dialled) \ closed = ({pool[v] : v \in Servers} \ {None}) \cup closing
  /\ \A v, x \in Servers : pool[v] = pool[x] /\ pool[v] # None => v = x

\* A push that its consumer waits for never has its connection closed under
\* it: main closes the consumer groups before the pool.  Only a goroutine left
\* behind by an early return can meet a closed client.
ClosedUnused ==
  \A w \in Workers :
    worker[w].at = "use" /\ ~worker[w].stray => worker[w].client \notin closing \cup closed

=============================================================================
