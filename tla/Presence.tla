------------------------------ MODULE Presence ------------------------------
(***************************************************************************)
(* The Connect layer's WebSocket connections (internal/connect/            *)
(* ws_handler.go) and the routing table the Task layer pushes by           *)
(* (internal/connect/registry.go).                                         *)
(*                                                                         *)
(* Every Connect node keeps a pool, ConnectionManager.Clients, from user   *)
(* to the user's latest connection on that node.  Redis keeps, for all     *)
(* nodes together, user_server:<user> -> node.  ServeWS adds a connection  *)
(* to the pool, closes the one it displaces, registers the route and       *)
(* starts a reader and a writer goroutine; the reader's deferred cleanup   *)
(* takes the connection out of the pool and deletes the route.             *)
(*                                                                         *)
(* One action is one critical section, one Redis command or one channel    *)
(* or socket operation, so the goroutines of different connections         *)
(* interleave everywhere the locks allow.                                  *)
(***************************************************************************)
EXTENDS Naturals

CONSTANTS
  Users,
  Nodes,         \* Connect processes
  Conns,         \* Client objects, one per accepted WebSocket
  None

ASSUME PresenceAssumption ==
  None \notin Users /\ None \notin Nodes /\ None \notin Conns

VARIABLES
  route,     \* Redis user_server:<user> -> node
  clients,   \* ConnectionManager.Clients of each node
  user,      \* Client.UserID
  node,      \* the node that accepted the connection
  pc,        \* ServeWS, then readPump and its deferred cleanup
  writer,    \* writePump
  old,       \* the connection that AddClient displaced (its local variable)
  done,      \* Client.done is closed (closeOnce has fired)
  closed     \* Client.Conn is closed on our side

vars == <<route, clients, user, node, pc, writer, old, done, closed>>

Stages == {"free", "accepted", "swapped", "added", "refused", "dropped",
           "serving", "leaving", "unpooled", "unlisting", "gone"}

TypeOK ==
  /\ route \in [Users -> Nodes \cup {None}]
  /\ clients \in [Nodes -> [Users -> Conns \cup {None}]]
  /\ user \in [Conns -> Users \cup {None}]
  /\ node \in [Conns -> Nodes \cup {None}]
  /\ \A c \in Conns : pc[c] # "free" => user[c] \in Users /\ node[c] \in Nodes
  /\ pc \in [Conns -> Stages]
  /\ writer \in [Conns -> {"none", "running", "exited"}]
  /\ old \in [Conns -> Conns \cup {None}]
  /\ done \in [Conns -> BOOLEAN]
  /\ closed \in [Conns -> BOOLEAN]

Init ==
  /\ route = [u \in Users |-> None]
  /\ clients = [n \in Nodes |-> [u \in Users |-> None]]
  /\ user = [c \in Conns |-> None]
  /\ node = [c \in Conns |-> None]
  /\ pc = [c \in Conns |-> "free"]
  /\ writer = [c \in Conns |-> "none"]
  /\ old = [c \in Conns |-> None]
  /\ done = [c \in Conns |-> FALSE]
  /\ closed = [c \in Conns |-> FALSE]

Pooled(c) == pc[c] # "free" /\ clients[node[c]][user[c]] = c

Move(c, from, to) == pc[c] = from /\ pc' = [pc EXCEPT ![c] = to]

\* closeConn: once per connection, close the done channel and the socket.
CloseConn(c) ==
  /\ done' = [done EXCEPT ![c] = TRUE]
  /\ closed' = [closed EXCEPT ![c] = TRUE]

-----------------------------------------------------------------------------
(***************************************************************************)
(* ServeWS.                                                                *)
(***************************************************************************)

\* The session is verified, the socket upgraded and the Client constructed.
Accept(c, u, n) ==
  /\ Move(c, "free", "accepted")
  /\ user' = [user EXCEPT ![c] = u]
  /\ node' = [node EXCEPT ![c] = n]
  /\ UNCHANGED <<route, clients, writer, old, done, closed>>

\* AddClient under the lock: replace the user's entry, remember the old one.
AddClientSwap(c) ==
  /\ Move(c, "accepted", "swapped")
  /\ old' = [old EXCEPT ![c] = clients[node[c]][user[c]]]
  /\ clients' = [clients EXCEPT ![node[c]][user[c]] = c]
  /\ UNCHANGED <<route, user, node, writer, done, closed>>

\* Mutant of AddClientClose: the displaced connection is only overwritten.
AddClientCloseSkipped(c) ==
  /\ Move(c, "swapped", "added")
  /\ UNCHANGED <<route, clients, user, node, writer, old, done, closed>>

\* AddClient after the lock: close the displaced connection.
AddClientClose(c) ==
  /\ Move(c, "swapped", "added")
  /\ IF old[c] = None THEN UNCHANGED <<done, closed>> ELSE CloseConn(old[c])
  /\ UNCHANGED <<route, clients, user, node, writer, old>>

\* RegisterUser succeeds; ServeWS starts both pumps and returns.
Register(c) ==
  /\ Move(c, "added", "serving")
  /\ route' = [route EXCEPT ![user[c]] = node[c]]
  /\ writer' = [writer EXCEPT ![c] = "running"]
  /\ UNCHANGED <<clients, user, node, old, done, closed>>

\* RegisterUser returns an error; the SET may or may not have reached Redis.
RegisterFails(c) ==
  /\ Move(c, "added", "refused")
  /\ \/ UNCHANGED route
     \/ route' = [route EXCEPT ![user[c]] = node[c]]
  /\ UNCHANGED <<clients, user, node, writer, old, done, closed>>

\* Mutant of RemoveIfMatch: the entry is deleted whoever it belongs to.
RemoveIfMatchBlind(c, from, matched) ==
  /\ Move(c, from, matched)
  /\ clients' = [clients EXCEPT ![node[c]][user[c]] = None]
  /\ UNCHANGED <<route, user, node, writer, old, done, closed>>

\* Mutant of RemoveIfMatch: the entry is never deleted.
RemoveIfMatchKeeps(c, from, matched) ==
  /\ Move(c, from, matched)
  /\ UNCHANGED <<route, clients, user, node, writer, old, done, closed>>

\* RemoveClientIfMatch under the lock: delete the entry if it is still c.
RemoveIfMatch(c, from, matched) ==
  /\ \/ /\ Move(c, from, matched)
        /\ Pooled(c)
        /\ clients' = [clients EXCEPT ![node[c]][user[c]] = None]
     \/ /\ Move(c, from, "gone")
        /\ ~Pooled(c)
        /\ UNCHANGED clients
  /\ UNCHANGED <<route, user, node, writer, old, done, closed>>

\* ServeWS gives up the connection whose registration failed.
RefusedRemove(c) == RemoveIfMatch(c, "refused", "dropped")

\* RemoveClientIfMatch after the lock.
RefusedClose(c) ==
  /\ Move(c, "dropped", "gone")
  /\ CloseConn(c)
  /\ UNCHANGED <<route, clients, user, node, writer, old>>

-----------------------------------------------------------------------------
(***************************************************************************)
(* readPump and writePump.                                                 *)
(***************************************************************************)

\* ReadMessage returns an error: the peer left, the pong deadline passed, or
\* the socket was closed on our side.
ReadError(c) ==
  /\ Move(c, "serving", "leaving")
  /\ UNCHANGED <<route, clients, user, node, writer, old, done, closed>>

\* The deferred cleanup: leave the pool ...
ReaderRemove(c) == RemoveIfMatch(c, "leaving", "unpooled")

\* ... close the connection ...
ReaderClose(c) ==
  /\ Move(c, "unpooled", "unlisting")
  /\ CloseConn(c)
  /\ UNCHANGED <<route, clients, user, node, writer, old>>

\* ... and, having been the pooled connection, delete the user's route.  An
\* error of the DEL is ignored.
Unregister(c) ==
  /\ Move(c, "unlisting", "gone")
  /\ \/ route' = [route EXCEPT ![user[c]] = None]
     \/ UNCHANGED route
  /\ UNCHANGED <<clients, user, node, writer, old, done, closed>>

\* writePump returns on done, or when a write or a ping fails, and closes the
\* socket.
WriterExit(c) ==
  /\ writer[c] = "running"
  /\ writer' = [writer EXCEPT ![c] = "exited"]
  /\ closed' = [closed EXCEPT ![c] = TRUE]
  /\ UNCHANGED <<route, clients, user, node, pc, old, done>>

-----------------------------------------------------------------------------
(***************************************************************************)
(* What happens around the connections.                                    *)
(***************************************************************************)

\* The Connect process ends (crash or signal: main does not clean up its
\* connections) and starts again with an empty pool: its connections are over,
\* and Redis keeps their routes.
Restart(n) ==
  LET lost == {c \in Conns : node[c] = n} IN
  /\ lost # {}
  /\ clients' = [clients EXCEPT ![n] = [u \in Users |-> None]]
  /\ pc' = [c \in Conns |-> IF c \in lost THEN "gone" ELSE pc[c]]
  /\ writer' = [c \in Conns |-> IF c \in lost /\ writer[c] = "running" THEN "exited" ELSE writer[c]]
  /\ done' = [c \in Conns |-> c \in lost \/ done[c]]
  /\ closed' = [c \in Conns |-> c \in lost \/ closed[c]]
  /\ UNCHANGED <<route, user, node, old>>

\* The TTL of a route runs out; nothing renews it while the user is connected.
ExpireRoute(u) ==
  /\ route[u] # None
  /\ route' = [route EXCEPT ![u] = None]
  /\ UNCHANGED <<clients, user, node, pc, writer, old, done, closed>>

Handler(c) ==
  \/ AddClientSwap(c)
  \/ AddClientClose(c)
  \/ Register(c)
  \/ RegisterFails(c)
  \/ RefusedRemove(c)
  \/ RefusedClose(c)

Cleanup(c) ==
  \/ ReaderRemove(c)
  \/ ReaderClose(c)
  \/ Unregister(c)

Next ==
  \/ \E c \in Conns :
       \/ \E u \in Users, n \in Nodes : Accept(c, u, n)
       \/ Handler(c)
       \/ ReadError(c)
       \/ Cleanup(c)
       \/ WriterExit(c)
  \/ \E n \in Nodes : Restart(n)
  \/ \E u \in Users : ExpireRoute(u)

Spec == Init /\ [][Next]_vars

(***************************************************************************)
(* Goroutines are scheduled, a read on a closed socket returns, and        *)
(* writePump's select sees a closed done channel.  Peers, Redis failures   *)
(* and restarts are under no obligation.                                   *)
(***************************************************************************)
Fairness ==
  \A c \in Conns :
    /\ WF_vars(Handler(c))
    /\ WF_vars(Cleanup(c))
    /\ WF_vars(closed[c] /\ ReadError(c))
    /\ WF_vars(done[c] /\ WriterExit(c))

FairSpec == Spec /\ Fairness

-----------------------------------------------------------------------------
(***************************************************************************)
(* Properties.                                                             *)
(***************************************************************************)

\* A connection in the pool is never closed: whoever closes a connection
\* (AddClient, RemoveClientIfMatch) has taken it out of the pool first, so a
\* push that looks a client up finds one that has not been given up.
PooledNotDone ==
  \A n \in Nodes, u \in Users :
    LET c == clients[n][u] IN
    c # None => ~done[c] /\ pc[c] \notin {"dropped", "unpooled", "unlisting", "gone"}

\* No connection is leaked (the concern of AddClient's comment): one that ever
\* entered the pool is in it, or is closed, or somebody is about to close it:
\* itself, or the ServeWS that displaced it.
NoLeakedConn ==
  \A c \in Conns : pc[c] \notin {"free", "accepted"} =>
    \/ Pooled(c)
    \/ done[c]
    \/ pc[c] \in {"dropped", "unpooled"}
    \/ \E d \in Conns : pc[d] = "swapped" /\ old[d] = c

\* A connection that another one displaced never deletes the user's route: its
\* deferred cleanup finds another entry in the pool and stops there.
DisplacedNeverUnregisters ==
  \A d \in Conns : old[d] # None => pc[old[d]] \notin {"unpooled", "unlisting", "dropped"}

\* A connection that is displaced, that the peer left or whose socket failed
\* ends: ServeWS and both pumps return and their resources are freed.
ConnectionEnds ==
  \A c \in Conns :
    (closed[c] \/ pc[c] = "leaving" \/ \E d \in Conns : old[d] = c)
      ~> (pc[c] = "gone" /\ writer[c] # "running")

\* What readPump's comment promises: the cleanup of an old connection does not
\* delete the state of a newer one, that is, UnregisterUser never removes the
\* route while another connection of the user is pooled and served.
CleanupSparesNewer ==
  [][\A c, d \in Conns :
       pc[c] = "unlisting" /\ pc'[c] = "gone" /\ c # d
       /\ pc[d] = "serving" /\ Pooled(d) /\ user[d] = user[c] /\ route[user[c]] = node[d]
         => route'[user[c]] = node[d]]_vars

-----------------------------------------------------------------------------
(***************************************************************************)
(* The refinement.  A connection that was displaced while it was served is *)
(* over for those who push; it only has to notice it.                      *)
(***************************************************************************)
Life(c) ==
  CASE pc[c] \in {"free", "accepted"} -> "new"
    [] pc[c] \in {"swapped", "added", "refused"} -> IF Pooled(c) THEN "pooled" ELSE "displaced"
    [] pc[c] \in {"serving", "leaving"} -> IF Pooled(c) THEN "online" ELSE "gone"
    [] pc[c] \in {"unpooled", "unlisting"} -> "done"
    [] pc[c] \in {"dropped", "gone"} -> "gone"

Lifes == [c \in Conns |-> Life(c)]

Ro == INSTANCE Roster WITH conn <- Lifes

\* The pool and the route of a connection change only in the order that pushes
\* rely on: a connection is pooled before its route is set, the reader that
\* took it out of the pool is the only one that deletes the route, and one that
\* was displaced comes back to neither (ServeWS, AddClient, readPump).
ImplementsRoster == Ro!Spec

=============================================================================
