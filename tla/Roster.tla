------------------------------- MODULE Roster -------------------------------
(***************************************************************************)
(* What the Connect nodes and Redis show to those who push: which          *)
(* connections are in their node's pool, and the node each user's route    *)
(* names.  Pools, sockets, goroutines and closed channels are left out.    *)
(* Module Presence implements this; module Push takes the steps of its     *)
(* connections from here.                                                  *)
(*                                                                         *)
(* A connection is "new" until AddClient, then "pooled" and, once its      *)
(* route is set, "online".  When its reader ends it is "done" until        *)
(* UnregisterUser and "gone" after.  One that is displaced while ServeWS   *)
(* still runs is "displaced": its registration is yet to come.             *)
(***************************************************************************)
CONSTANTS Users, Nodes, Conns, None

VARIABLES
  route,   \* user_server:<user>
  conn,    \* the life of a connection
  user,    \* the user of a connection
  node     \* the node that accepted it

vars == <<route, conn, user, node>>

Lives == {"new", "pooled", "online", "displaced", "done", "gone"}

Init ==
  /\ route = [u \in Users |-> None]
  /\ conn = [c \in Conns |-> "new"]
  /\ user = [c \in Conns |-> None]
  /\ node = [c \in Conns |-> None]

InPool(c) == conn[c] \in {"pooled", "online"}

Become(c, life) == conn' = [conn EXCEPT ![c] = life]

SetRoute(c) == route' = [route EXCEPT ![user[c]] = node[c]]

\* ServeWS accepts a connection.
Accept(c, u, n) ==
  /\ conn[c] = "new" /\ node[c] = None
  /\ user' = [user EXCEPT ![c] = u]
  /\ node' = [node EXCEPT ![c] = n]
  /\ UNCHANGED <<route, conn>>

\* AddClient: it displaces the user's former connection on this node.
Arrive(c) ==
  /\ conn[c] = "new" /\ node[c] # None
  /\ conn' = [d \in Conns |->
       IF d = c THEN "pooled"
       ELSE IF InPool(d) /\ user[d] = user[c] /\ node[d] = node[c]
       THEN IF conn[d] = "pooled" THEN "displaced" ELSE "gone"
       ELSE conn[d]]
  /\ UNCHANGED <<route, user, node>>

\* RegisterUser, which a displaced connection's ServeWS still calls.
Register(c) ==
  /\ \/ conn[c] = "pooled" /\ Become(c, "online")
     \/ conn[c] = "displaced" /\ Become(c, "gone")
  /\ SetRoute(c)
  /\ UNCHANGED <<user, node>>

\* RegisterUser returns an error although the route was set.
RegisterLate(c) ==
  /\ conn[c] \in {"pooled", "displaced"}
  /\ SetRoute(c)
  /\ UNCHANGED <<conn, user, node>>

\* ServeWS gives up a connection that it could not register.
Refuse(c) ==
  /\ conn[c] \in {"pooled", "displaced"}
  /\ Become(c, "gone")
  /\ UNCHANGED <<route, user, node>>

\* readPump's cleanup: out of the pool ...
Close(c) ==
  /\ conn[c] = "online"
  /\ Become(c, "done")
  /\ UNCHANGED <<route, user, node>>

\* ... and then UnregisterUser, whatever the route names by now; the DEL may
\* fail.
Unregister(c) ==
  /\ conn[c] = "done"
  /\ Become(c, "gone")
  /\ UNCHANGED route \/ route' = [route EXCEPT ![user[c]] = None]
  /\ UNCHANGED <<user, node>>

\* The Connect process ends, with its connections; the routes stay.
NodeEnds(n, lost) ==
  /\ {c \in Conns : node[c] = n /\ conn[c] # "new"} \subseteq lost
  /\ \A c \in lost : node[c] = n
  /\ conn' = [c \in Conns |-> IF c \in lost THEN "gone" ELSE conn[c]]
  /\ UNCHANGED <<route, user, node>>

\* The TTL of a route runs out.
ExpireRoute(u) ==
  /\ route' = [route EXCEPT ![u] = None]
  /\ UNCHANGED <<conn, user, node>>

Next ==
  \/ \E c \in Conns :
       \/ \E u \in Users, n \in Nodes : Accept(c, u, n)
       \/ Arrive(c) \/ Register(c) \/ RegisterLate(c) \/ Refuse(c)
       \/ Close(c) \/ Unregister(c)
  \/ \E n \in Nodes, lost \in SUBSET Conns : NodeEnds(n, lost)
  \/ \E u \in Users : ExpireRoute(u)

Spec == Init /\ [][Next]_vars

=============================================================================
