--------------------------- MODULE PresenceProofs ---------------------------
(***************************************************************************)
(* Presence, for any users, nodes and number of connections: the pool only *)
(* holds open connections, no connection is leaked, a displaced connection *)
(* never deletes its user's route, and pools and routes change only as     *)
(* Roster's do.                                                            *)
(*                                                                         *)
(* None of the three is inductive by itself.  That nobody closes a pooled  *)
(* connection rests on PoolOwner (an entry is at its owner's own place and *)
(* no connection that is still pooled has been displaced) and on Displaced *)
(* (a displaced connection is past AddClient, so it cannot enter the pool  *)
(* a second time).                                                         *)
(***************************************************************************)
EXTENDS Presence, TLAPS

\* Where a connection can stand while it is the pooled one.
PoolStages == {"swapped", "added", "refused", "serving", "leaving"}

\* An entry of a pool belongs there, is open and has not been displaced.
PoolOwner ==
  \A n \in Nodes, u \in Users : clients[n][u] # None =>
    /\ node[clients[n][u]] = n
    /\ user[clients[n][u]] = u
    /\ pc[clients[n][u]] \in PoolStages
    /\ ~done[clients[n][u]]
    /\ \A d \in Conns : old[d] # clients[n][u]

\* A displaced connection has been in the pool of the same node and is not
\* taken out of it by its own cleanup.
Displaced ==
  \A d \in Conns : old[d] # None =>
    /\ pc[old[d]] \in PoolStages \cup {"gone"}
    /\ node[old[d]] = node[d]

\* Before ServeWS a connection is on no node, before AddClient it has displaced
\* nothing.
Fresh ==
  \A c \in Conns :
    /\ pc[c] = "free" => node[c] = None
    /\ pc[c] \in {"free", "accepted"} => old[c] = None

\* Nobody closes a connection that has not entered the pool yet.
Unclosed ==
  \A c \in Conns : pc[c] \in {"free", "accepted"} => ~done[c]

IInv == TypeOK /\ PoolOwner /\ Displaced /\ Fresh /\ Unclosed /\ NoLeakedConn

\* The initial state satisfies the inductive invariant.
LEMMA InitIInv == Init => IInv
  BY PresenceAssumption
  DEF Init, IInv, TypeOK, PoolOwner, Displaced, Fresh, Unclosed, NoLeakedConn, Stages

\* An assignment to one entry of one pool, and what it does.
Assign(n, u, v) == clients' = [clients EXCEPT ![n][u] = v]

LEMMA PoolUpdate ==
  ASSUME TypeOK, NEW n \in Nodes, NEW u \in Users, NEW v \in Conns \cup {None},
         Assign(n, u, v)
  PROVE  /\ clients' \in [Nodes -> [Users -> Conns \cup {None}]]
         /\ clients'[n][u] = v
         /\ \A m \in Nodes, w \in Users : m # n \/ w # u => clients'[m][w] = clients[m][w]
  BY DEF TypeOK, Assign

\* AddClient's critical section keeps the inductive invariant.
LEMMA SwapIInv ==
  ASSUME IInv, NEW c \in Conns, AddClientSwap(c)
  PROVE  IInv'
<1> DEFINE n == node[c]
           u == user[c]
<1>1. /\ pc[c] = "accepted" /\ pc' = [pc EXCEPT ![c] = "swapped"]
      /\ n \in Nodes /\ u \in Users
      /\ old' = [old EXCEPT ![c] = clients[n][u]]
      /\ UNCHANGED <<route, user, node, writer, done, closed>>
  BY DEF AddClientSwap, Move, IInv, TypeOK
<1>2. /\ clients' \in [Nodes -> [Users -> Conns \cup {None}]]
      /\ clients'[n][u] = c
      /\ \A m \in Nodes, w \in Users : m # n \/ w # u => clients'[m][w] = clients[m][w]
  <2>1. TypeOK /\ Assign(n, u, c)
    BY DEF AddClientSwap, Assign, IInv
  <2>2. n \in Nodes /\ u \in Users /\ c \in Conns \cup {None}
    BY <1>1
  <2> HIDE DEF n, u
  <2> QED
    BY <2>1, <2>2, PoolUpdate
<1>3. /\ \A m \in Nodes, w \in Users : clients[m][w] # c
      /\ \A d \in Conns : old[d] # c
      /\ ~done[c]
  BY <1>1, PresenceAssumption DEF IInv, PoolOwner, Displaced, PoolStages, Unclosed
<1> HIDE DEF n, u
<1>4. TypeOK'
  BY <1>1, <1>2 DEF IInv, TypeOK, Stages
<1>5. PoolOwner'
  <2> SUFFICES ASSUME NEW m \in Nodes, NEW w \in Users, clients'[m][w] # None
               PROVE  /\ node'[clients'[m][w]] = m
                      /\ user'[clients'[m][w]] = w
                      /\ pc'[clients'[m][w]] \in PoolStages
                      /\ ~done'[clients'[m][w]]
                      /\ \A d \in Conns : old'[d] # clients'[m][w]
    BY DEF PoolOwner
  <2>1. CASE m = n /\ w = u
    BY <1>1, <1>2, <1>3, <2>1 DEF IInv, TypeOK, PoolStages, n, u
  <2>2. CASE m # n \/ w # u
    <3>1. clients'[m][w] = clients[m][w] /\ clients[m][w] \in Conns \ {c}
      BY <1>2, <1>3, <2>2 DEF IInv, TypeOK
    <3>2. clients[m][w] # clients[n][u]
      BY <1>1, <2>2, <3>1, PresenceAssumption DEF IInv, PoolOwner
    <3> QED
      BY <1>1, <3>1, <3>2 DEF IInv, TypeOK, PoolOwner
  <2> QED
    BY <2>1, <2>2
<1>6. Displaced'
  <2>1. clients[n][u] # None => pc[clients[n][u]] \in PoolStages /\ node[clients[n][u]] = node[c]
    BY <1>1 DEF IInv, PoolOwner, n
  <2>2. clients[n][u] \in Conns \cup {None}
    BY <1>1 DEF IInv, TypeOK
  <2> QED
    BY <1>1, <2>1, <2>2 DEF IInv, TypeOK, Displaced, PoolStages
<1>8. Fresh' /\ Unclosed'
  BY <1>1 DEF IInv, TypeOK, Fresh, Unclosed
<1>7. NoLeakedConn'
  BY <1>1, <1>2, <1>3 DEF IInv, TypeOK, NoLeakedConn, Pooled, n, u
<1> QED
  BY <1>4, <1>5, <1>6, <1>7, <1>8 DEF IInv

\* RemoveClientIfMatch's critical section keeps the inductive invariant,
\* whether ServeWS or readPump calls it.
LEMMA RemoveIInv ==
  ASSUME IInv, NEW c \in Conns,
         NEW from \in {"refused", "leaving"}, NEW matched \in {"dropped", "unpooled"},
         RemoveIfMatch(c, from, matched)
  PROVE  IInv'
<1>1. /\ pc[c] = from /\ node[c] \in Nodes /\ user[c] \in Users
      /\ UNCHANGED <<route, user, node, writer, old, done, closed>>
  BY DEF RemoveIfMatch, Move, IInv, TypeOK
<1>2. CASE /\ pc' = [pc EXCEPT ![c] = matched]
           /\ Pooled(c)
           /\ clients' = [clients EXCEPT ![node[c]][user[c]] = None]
  <2>1. /\ clients' \in [Nodes -> [Users -> Conns \cup {None}]]
        /\ clients'[node[c]][user[c]] = None
        /\ \A m \in Nodes, w \in Users :
             m # node[c] \/ w # user[c] => clients'[m][w] = clients[m][w]
    <3>1. TypeOK /\ node[c] \in Nodes /\ user[c] \in Users /\ None \in Conns \cup {None}
      BY <1>1 DEF IInv
    <3>2. Assign(node[c], user[c], None)
      BY <1>2 DEF Assign
    <3> QED
      BY <3>1, <3>2, PoolUpdate
  <2>2. \A d \in Conns : old[d] # c
    BY <1>1, <1>2, PresenceAssumption DEF IInv, PoolOwner, Pooled
  <2>3. TypeOK'
    BY <1>1, <1>2, <2>1 DEF IInv, TypeOK, Stages
  <2>4. PoolOwner'
    BY <1>1, <1>2, <2>1, PresenceAssumption DEF IInv, TypeOK, PoolOwner, PoolStages
  <2>5. Displaced' /\ Fresh' /\ Unclosed'
    BY <1>1, <1>2, <2>2 DEF IInv, TypeOK, Displaced, Fresh, Unclosed, PoolStages
  <2>6. NoLeakedConn'
    BY <1>1, <1>2, <2>1 DEF IInv, TypeOK, NoLeakedConn, Pooled, PoolOwner
  <2> QED
    BY <2>3, <2>4, <2>5, <2>6 DEF IInv
<1>3. CASE /\ pc' = [pc EXCEPT ![c] = "gone"]
           /\ ~Pooled(c)
           /\ UNCHANGED clients
  <2>1. \A m \in Nodes, w \in Users : clients[m][w] # c
    BY <1>1, <1>3, PresenceAssumption DEF IInv, PoolOwner, Pooled
  <2>2. TypeOK'
    BY <1>1, <1>3 DEF IInv, TypeOK, Stages
  <2>3. PoolOwner'
    BY <1>1, <1>3, <2>1 DEF IInv, TypeOK, PoolOwner
  <2>4. Displaced' /\ Fresh' /\ Unclosed'
    BY <1>1, <1>3 DEF IInv, TypeOK, Displaced, Fresh, Unclosed
  <2>5. NoLeakedConn'
    BY <1>1, <1>3, <2>1 DEF IInv, TypeOK, NoLeakedConn, Pooled
  <2> QED
    BY <2>2, <2>3, <2>4, <2>5 DEF IInv
<1> QED
  BY <1>2, <1>3 DEF RemoveIfMatch, Move

\* Closing a displaced connection keeps the inductive invariant: it is in no
\* pool any more.
LEMMA AddCloseIInv ==
  ASSUME IInv, NEW c \in Conns, AddClientClose(c)
  PROVE  IInv'
<1>1. /\ pc[c] = "swapped" /\ pc' = [pc EXCEPT ![c] = "added"]
      /\ UNCHANGED <<route, clients, user, node, writer, old>>
      /\ done' = [d \in Conns |-> d = old[c] \/ done[d]]
      /\ closed' = [d \in Conns |-> d = old[c] \/ closed[d]]
  <2>1. CASE old[c] = None
    BY <2>1, PresenceAssumption DEF AddClientClose, Move, IInv, TypeOK
  <2>2. CASE old[c] # None
    <3>1. done \in [Conns -> BOOLEAN] /\ closed \in [Conns -> BOOLEAN]
      BY DEF IInv, TypeOK
    <3> QED
      BY <2>2, <3>1 DEF AddClientClose, Move, CloseConn
  <2> QED
    BY <2>1, <2>2
<1>2. TypeOK'
  BY <1>1 DEF IInv, TypeOK, Stages
<1>3. PoolOwner'
  BY <1>1 DEF IInv, TypeOK, PoolOwner, PoolStages
<1>4. Displaced' /\ Fresh' /\ Unclosed'
  BY <1>1, PresenceAssumption DEF IInv, TypeOK, Displaced, Fresh, Unclosed, PoolStages
<1>5. NoLeakedConn'
  BY <1>1 DEF IInv, TypeOK, NoLeakedConn, Pooled
<1> QED
  BY <1>2, <1>3, <1>4, <1>5 DEF IInv

\* A restart keeps the inductive invariant: a connection and the one that is
\* about to close it live and end with the same process.
LEMMA RestartIInv ==
  ASSUME IInv, NEW n \in Nodes, Restart(n)
  PROVE  IInv'
<1>1. /\ clients' = [clients EXCEPT ![n] = [u \in Users |-> None]]
      /\ pc' = [c \in Conns |-> IF node[c] = n THEN "gone" ELSE pc[c]]
      /\ writer' \in [Conns -> {"none", "running", "exited"}]
      /\ done' = [c \in Conns |-> node[c] = n \/ done[c]]
      /\ closed' = [c \in Conns |-> node[c] = n \/ closed[c]]
      /\ UNCHANGED <<route, user, node, old>>
  BY DEF Restart, IInv, TypeOK
<1>2. TypeOK'
  <2>1. \A c \in Conns : node[c] = n => pc[c] # "free"
    BY PresenceAssumption DEF IInv, Fresh
  <2> QED
    BY <1>1, <2>1 DEF IInv, TypeOK, Stages
<1>3. PoolOwner'
  BY <1>1 DEF IInv, TypeOK, PoolOwner
<1>4. Displaced' /\ Fresh' /\ Unclosed'
  BY <1>1 DEF IInv, TypeOK, Displaced, Fresh, Unclosed
<1>5. NoLeakedConn'
  <2> SUFFICES ASSUME NEW c \in Conns, pc'[c] \notin {"free", "accepted"}, node[c] # n
               PROVE  \/ Pooled(c)'
                      \/ done'[c]
                      \/ pc'[c] \in {"dropped", "unpooled"}
                      \/ \E d \in Conns : pc'[d] = "swapped" /\ old'[d] = c
    BY <1>1 DEF NoLeakedConn
  <2>1. pc'[c] = pc[c] /\ pc[c] \notin {"free", "accepted"}
    BY <1>1
  <2>2. CASE Pooled(c)
    BY <1>1, <2>1, <2>2 DEF IInv, TypeOK, Pooled
  <2>3. ASSUME NEW d \in Conns, pc[d] = "swapped", old[d] = c
        PROVE  pc'[d] = "swapped" /\ old'[d] = c
    BY <1>1, <2>3, PresenceAssumption DEF IInv, TypeOK, Displaced
  <2>4. CASE done[c]
    BY <1>1, <2>4
  <2> QED
    BY <2>1, <2>2, <2>3, <2>4 DEF IInv, NoLeakedConn
<1> QED
  BY <1>2, <1>3, <1>4, <1>5 DEF IInv

\* Every step keeps the inductive invariant: one case for each action.
LEMMA NextIInv == IInv /\ [Next]_vars => IInv'
<1> SUFFICES ASSUME IInv, [Next]_vars PROVE IInv'
  OBVIOUS
<1> USE PresenceAssumption DEF IInv, TypeOK, PoolOwner, Displaced, Fresh, Unclosed, NoLeakedConn,
        Stages, PoolStages, Pooled
<1>1. ASSUME NEW c \in Conns, NEW u \in Users, NEW n \in Nodes, Accept(c, u, n)
      PROVE IInv'
  BY <1>1 DEF Accept, Move
<1>2. ASSUME NEW c \in Conns, AddClientSwap(c)
      PROVE IInv'
  BY ONLY IInv, <1>2, SwapIInv
<1>3. ASSUME NEW c \in Conns, AddClientClose(c)
      PROVE IInv'
  BY ONLY IInv, <1>3, AddCloseIInv
<1>4. ASSUME NEW c \in Conns, Register(c)
      PROVE IInv'
  BY <1>4 DEF Register, Move
<1>5. ASSUME NEW c \in Conns, RegisterFails(c)
      PROVE IInv'
  BY <1>5 DEF RegisterFails, Move
<1>6. ASSUME NEW c \in Conns, RefusedRemove(c)
      PROVE IInv'
  BY ONLY IInv, <1>6, RemoveIInv DEF RefusedRemove
<1>7. ASSUME NEW c \in Conns, RefusedClose(c)
      PROVE IInv'
  BY <1>7 DEF RefusedClose, Move, CloseConn
<1>8. ASSUME NEW c \in Conns, ReadError(c)
      PROVE IInv'
  BY <1>8 DEF ReadError, Move
<1>9. ASSUME NEW c \in Conns, ReaderRemove(c)
      PROVE IInv'
  BY ONLY IInv, <1>9, RemoveIInv DEF ReaderRemove
<1>10. ASSUME NEW c \in Conns, ReaderClose(c)
       PROVE IInv'
  BY <1>10 DEF ReaderClose, Move, CloseConn
<1>11. ASSUME NEW c \in Conns, Unregister(c)
       PROVE IInv'
  <2>1. /\ pc[c] = "unlisting" /\ pc' = [pc EXCEPT ![c] = "gone"]
        /\ route' \in [Users -> Nodes \cup {None}]
        /\ UNCHANGED <<clients, user, node, writer, old, done, closed>>
    BY ONLY TypeOK, <1>11 DEF TypeOK, Unregister, Move
  <2> QED
    BY <2>1
<1>12. ASSUME NEW c \in Conns, WriterExit(c)
       PROVE IInv'
  BY <1>12 DEF WriterExit
<1>13. ASSUME NEW n \in Nodes, Restart(n)
       PROVE IInv'
  BY ONLY IInv, <1>13, RestartIInv
<1>14. ASSUME NEW u \in Users, ExpireRoute(u)
       PROVE IInv'
  BY <1>14 DEF ExpireRoute
<1>15. CASE UNCHANGED vars
  BY <1>15 DEF vars
<1> QED
  BY ONLY <1>1, <1>2, <1>3, <1>4, <1>5, <1>6, <1>7, <1>8, <1>9, <1>10, <1>11, <1>12, <1>13,
     <1>14, <1>15, [Next]_vars DEF Next, Handler, Cleanup

\* The inductive invariant holds throughout.
THEOREM SpecIInv == Spec => []IInv
  BY InitIInv, NextIInv, PTL DEF Spec

\* Type correctness of the pools, the routes and the connections' stages.
THEOREM PresenceTypeOK == Spec => []TypeOK
<1>1. IInv => TypeOK
  BY DEF IInv
<1> QED
  BY <1>1, SpecIInv, PTL

\* A pooled connection is open, on every node and for any number of
\* concurrent ServeWS and readPump goroutines.
THEOREM PresencePooledNotDone == Spec => []PooledNotDone
<1>1. IInv => PooledNotDone
  BY DEF IInv, PoolOwner, PoolStages, PooledNotDone
<1> QED
  BY <1>1, SpecIInv, PTL

\* No connection is leaked: AddClient's replacement always closes, or is about
\* to close, the connection it took out of the pool.
THEOREM PresenceNoLeakedConn == Spec => []NoLeakedConn
<1>1. IInv => NoLeakedConn
  BY DEF IInv
<1> QED
  BY <1>1, SpecIInv, PTL

\* A displaced connection's deferred cleanup never reaches UnregisterUser.
THEOREM PresenceDisplaced == Spec => []DisplacedNeverUnregisters
<1>1. IInv => DisplacedNeverUnregisters
  BY DEF IInv, Displaced, PoolStages, DisplacedNeverUnregisters
<1> QED
  BY <1>1, SpecIInv, PTL

-----------------------------------------------------------------------------
(***************************************************************************)
(* The refinement of Roster.                                               *)
(***************************************************************************)

\* The life of a connection, stage by stage.
LEMMA LifeIs ==
  ASSUME NEW c \in Conns
  PROVE  /\ pc[c] \in {"free", "accepted"} => Life(c) = "new"
         /\ pc[c] \in {"swapped", "added", "refused"} /\ Pooled(c) => Life(c) = "pooled"
         /\ pc[c] \in {"swapped", "added", "refused"} /\ ~Pooled(c) => Life(c) = "displaced"
         /\ pc[c] \in {"serving", "leaving"} /\ Pooled(c) => Life(c) = "online"
         /\ pc[c] \in {"serving", "leaving"} /\ ~Pooled(c) => Life(c) = "gone"
         /\ pc[c] \in {"unpooled", "unlisting"} => Life(c) = "done"
         /\ pc[c] \in {"dropped", "gone"} => Life(c) = "gone"
  BY DEF Life

\* The same of the next state.
LEMMA LifeWillBe ==
  ASSUME NEW c \in Conns
  PROVE  /\ pc'[c] \in {"free", "accepted"} => Life(c)' = "new"
         /\ pc'[c] \in {"swapped", "added", "refused"} /\ Pooled(c)' => Life(c)' = "pooled"
         /\ pc'[c] \in {"swapped", "added", "refused"} /\ ~Pooled(c)' => Life(c)' = "displaced"
         /\ pc'[c] \in {"serving", "leaving"} /\ Pooled(c)' => Life(c)' = "online"
         /\ pc'[c] \in {"serving", "leaving"} /\ ~Pooled(c)' => Life(c)' = "gone"
         /\ pc'[c] \in {"unpooled", "unlisting"} => Life(c)' = "done"
         /\ pc'[c] \in {"dropped", "gone"} => Life(c)' = "gone"
  BY DEF Life

\* A connection's life is its own stage and its own place in the pool.
LEMMA LifeSame ==
  ASSUME IInv, NEW c \in Conns, pc'[c] = pc[c], Pooled(c)' <=> Pooled(c)
  PROVE  Life(c)' = Life(c)
  BY LifeIs, LifeWillBe DEF IInv, TypeOK, Stages

\* A step of one connection changes one life.
LEMMA LifesStep ==
  ASSUME IInv, NEW c \in Conns, NEW life, Life(c)' = life,
         \A d \in Conns : d # c => pc'[d] = pc[d] /\ (Pooled(d)' <=> Pooled(d))
  PROVE  Lifes' = [Lifes EXCEPT ![c] = life]
<1>1. \A d \in Conns : d # c => Life(d)' = Life(d)
  BY LifeSame
<1> QED
  BY <1>1 DEF Lifes

\* A step that leaves the pools alone leaves the others' lives alone.
LEMMA OthersStay ==
  ASSUME IInv, NEW c \in Conns, NEW p, pc' = [pc EXCEPT ![c] = p], UNCHANGED <<clients, user, node>>
  PROVE  /\ pc'[c] = p
         /\ \A d \in Conns : d # c => pc'[d] = pc[d] /\ (Pooled(d)' <=> Pooled(d))
         /\ pc[c] # "free" /\ p # "free" => (Pooled(c)' <=> Pooled(c))
  BY DEF IInv, TypeOK, Pooled

\* Steps between two stages that look the same leave all lives alone.
LEMMA LifesSame ==
  ASSUME IInv, NEW c \in Conns, NEW p,
         pc' = [pc EXCEPT ![c] = p], UNCHANGED <<clients, user, node>>,
         \/ pc[c] = "swapped" /\ p = "added"
         \/ pc[c] = "added" /\ p = "refused"
         \/ pc[c] = "dropped" /\ p = "gone"
         \/ pc[c] = "serving" /\ p = "leaving"
         \/ pc[c] = "unpooled" /\ p = "unlisting"
  PROVE  UNCHANGED Lifes
<1>1. /\ pc'[c] = p /\ (Pooled(c)' <=> Pooled(c))
      /\ \A d \in Conns : d # c => pc'[d] = pc[d] /\ (Pooled(d)' <=> Pooled(d))
  BY OthersStay
<1>2. Life(c)' = Life(c)
  BY <1>1, LifeIs, LifeWillBe
<1>3. Lifes' = [Lifes EXCEPT ![c] = Life(c)]
  BY <1>1, <1>2, LifesStep
<1> QED
  BY <1>3 DEF Lifes

\* ServeWS accepts.
LEMMA AcceptRefines ==
  ASSUME IInv, NEW c \in Conns, NEW u \in Users, NEW n \in Nodes, Accept(c, u, n)
  PROVE  Ro!Accept(c, u, n)
<1>1. /\ pc[c] = "free" /\ pc' = [pc EXCEPT ![c] = "accepted"] /\ node[c] = None
      /\ user' = [user EXCEPT ![c] = u] /\ node' = [node EXCEPT ![c] = n]
      /\ UNCHANGED <<route, clients>>
  BY DEF Accept, Move, IInv, Fresh
<1>2. \A d \in Conns : d # c => pc'[d] = pc[d] /\ (Pooled(d)' <=> Pooled(d))
  BY <1>1 DEF IInv, TypeOK, Pooled
<1>3. Life(c) = "new" /\ Life(c)' = "new"
  BY <1>1, LifeIs, LifeWillBe DEF IInv, TypeOK
<1>4. Lifes' = [Lifes EXCEPT ![c] = "new"]
  BY <1>2, <1>3, LifesStep
<1>5. Lifes[c] = "new"
  BY <1>3 DEF Lifes
<1>6. UNCHANGED Lifes
  BY <1>4, <1>5 DEF Lifes
<1> QED
  BY <1>1, <1>5, <1>6 DEF Ro!Accept

\* AddClient's critical section: the displaced connection is the pool's.
LEMMA SwapRefines ==
  ASSUME IInv, NEW c \in Conns, AddClientSwap(c)
  PROVE  Ro!Arrive(c)
<1> DEFINE n == node[c]
           u == user[c]
<1>1. /\ pc[c] = "accepted" /\ pc' = [pc EXCEPT ![c] = "swapped"]
      /\ n \in Nodes /\ u \in Users
      /\ UNCHANGED <<route, user, node>>
  BY DEF AddClientSwap, Move, IInv, TypeOK
<1>2. /\ clients'[n][u] = c
      /\ \A m \in Nodes, w \in Users : m # n \/ w # u => clients'[m][w] = clients[m][w]
  <2>1. TypeOK /\ Assign(n, u, c)
    BY DEF AddClientSwap, Assign, IInv
  <2>2. n \in Nodes /\ u \in Users /\ c \in Conns \cup {None}
    BY <1>1
  <2> HIDE DEF n, u
  <2> QED
    BY <2>1, <2>2, PoolUpdate
<1>3. Life(c) = "new" /\ Life(c)' = "pooled"
  <2>1. pc'[c] = "swapped" /\ Pooled(c)'
    BY <1>1, <1>2 DEF IInv, TypeOK, Pooled
  <2> QED
    BY <1>1, <2>1, LifeIs, LifeWillBe
<1>4. ASSUME NEW d \in Conns, d # c
      PROVE  Life(d)' = IF Ro!InPool(d) /\ user[d] = user[c] /\ node[d] = node[c]
                        THEN IF Lifes[d] = "pooled" THEN "displaced" ELSE "gone"
                        ELSE Lifes[d]
  <2>1. pc'[d] = pc[d] /\ Lifes[d] = Life(d)
    BY <1>1, <1>4 DEF IInv, TypeOK, Lifes
  <2>2. Ro!InPool(d) <=> Pooled(d)
    <3>1. Pooled(d) => pc[d] \in PoolStages
      BY PresenceAssumption DEF IInv, TypeOK, PoolOwner, Pooled
    <3> QED
      BY <2>1, <3>1, LifeIs DEF Ro!InPool, PoolStages, IInv, TypeOK, Stages
  <2>3. CASE Pooled(d) /\ user[d] = u /\ node[d] = n
    <3>1. ~Pooled(d)'
      BY <1>1, <1>2, <1>4, <2>3 DEF Pooled
    <3>2. pc[d] \in PoolStages
      BY <2>3, PresenceAssumption DEF IInv, TypeOK, PoolOwner, Pooled
    <3> QED
      BY <2>1, <2>2, <2>3, <3>1, <3>2, LifeIs, LifeWillBe DEF PoolStages
  <2>4. CASE ~(Pooled(d) /\ user[d] = u /\ node[d] = n)
    <3>1. Pooled(d)' <=> Pooled(d)
      BY <1>1, <1>2, <1>4, <2>1, <2>4 DEF IInv, TypeOK, Pooled
    <3>2. Life(d)' = Life(d)
      BY <2>1, <3>1, LifeSame
    <3> QED
      BY <2>1, <2>2, <2>4, <3>2
  <2> QED
    BY <2>3, <2>4
<1>5. Lifes[c] = "new"
  BY <1>3 DEF Lifes
<1>6. Lifes' = [d \in Conns |-> Life(d)']
  BY DEF Lifes
<1> QED
  BY <1>1, <1>3, <1>4, <1>5, <1>6, PresenceAssumption DEF Ro!Arrive

\* RegisterUser succeeds.
LEMMA RegisterRefines ==
  ASSUME IInv, NEW c \in Conns, Register(c)
  PROVE  Ro!Register(c)
<1>1. /\ pc[c] = "added" /\ pc' = [pc EXCEPT ![c] = "serving"]
      /\ route' = [route EXCEPT ![user[c]] = node[c]]
      /\ UNCHANGED <<clients, user, node>>
  BY DEF Register, Move
<1>2. /\ pc'[c] = "serving" /\ (Pooled(c)' <=> Pooled(c))
      /\ \A d \in Conns : d # c => pc'[d] = pc[d] /\ (Pooled(d)' <=> Pooled(d))
  BY <1>1, OthersStay
<1>3. CASE Pooled(c)
  <2>1. Life(c) = "pooled" /\ Life(c)' = "online"
    BY <1>1, <1>2, <1>3, LifeIs, LifeWillBe
  <2>2. Lifes' = [Lifes EXCEPT ![c] = "online"] /\ Lifes[c] = "pooled"
    BY <1>2, <2>1, LifesStep DEF Lifes
  <2> QED
    BY <1>1, <2>2 DEF Ro!Register, Ro!Become, Ro!SetRoute
<1>4. CASE ~Pooled(c)
  <2>1. Life(c) = "displaced" /\ Life(c)' = "gone"
    BY <1>1, <1>2, <1>4, LifeIs, LifeWillBe
  <2>2. Lifes' = [Lifes EXCEPT ![c] = "gone"] /\ Lifes[c] = "displaced"
    BY <1>2, <2>1, LifesStep DEF Lifes
  <2> QED
    BY <1>1, <2>2 DEF Ro!Register, Ro!Become, Ro!SetRoute
<1> QED
  BY <1>3, <1>4

\* RegisterUser fails, before or after the SET.
LEMMA RegisterFailsRefines ==
  ASSUME IInv, NEW c \in Conns, RegisterFails(c)
  PROVE  Ro!RegisterLate(c) \/ UNCHANGED Ro!vars
<1>1. /\ pc[c] = "added" /\ pc' = [pc EXCEPT ![c] = "refused"]
      /\ UNCHANGED <<clients, user, node>>
      /\ route' = route \/ route' = [route EXCEPT ![user[c]] = node[c]]
  BY DEF RegisterFails, Move
<1>2. UNCHANGED Lifes
  BY <1>1, LifesSame
<1>3. Lifes[c] \in {"pooled", "displaced"}
  BY <1>1, LifeIs DEF Lifes
<1> QED
  BY <1>1, <1>2, <1>3 DEF Ro!RegisterLate, Ro!SetRoute, Ro!vars

\* Who is in the pool after RemoveClientIfMatch: the others as before.
LEMMA RemoveEffect ==
  ASSUME IInv, NEW c \in Conns, NEW from \in {"refused", "leaving"},
         NEW matched \in {"dropped", "unpooled"}, RemoveIfMatch(c, from, matched)
  PROVE  /\ pc[c] = from /\ UNCHANGED <<route, user, node>>
         /\ pc'[c] = IF Pooled(c) THEN matched ELSE "gone"
         /\ \A d \in Conns : d # c => pc'[d] = pc[d] /\ (Pooled(d)' <=> Pooled(d))
<1>1. /\ pc[c] = from /\ UNCHANGED <<route, user, node>>
      /\ node[c] \in Nodes /\ user[c] \in Users
  BY DEF RemoveIfMatch, Move, IInv, TypeOK
<1>2. CASE /\ pc' = [pc EXCEPT ![c] = matched] /\ Pooled(c)
           /\ clients' = [clients EXCEPT ![node[c]][user[c]] = None]
  <2>1. /\ clients'[node[c]][user[c]] = None
        /\ \A m \in Nodes, w \in Users : m # node[c] \/ w # user[c] => clients'[m][w] = clients[m][w]
    BY <1>1, <1>2 DEF IInv, TypeOK
  <2>2. pc'[c] = matched /\ \A d \in Conns : d # c => pc'[d] = pc[d]
    BY <1>2 DEF IInv, TypeOK
  <2>3. ASSUME NEW d \in Conns, d # c PROVE Pooled(d)' <=> Pooled(d)
    <3>1. CASE pc[d] = "free"
      BY <2>2, <2>3, <3>1 DEF Pooled
    <3>2. CASE pc[d] # "free"
      BY <1>1, <1>2, <2>1, <2>2, <2>3, <3>2, PresenceAssumption DEF IInv, TypeOK, Pooled
    <3> QED
      BY <3>1, <3>2
  <2> QED
    BY <1>1, <1>2, <2>2, <2>3
<1>3. CASE pc' = [pc EXCEPT ![c] = "gone"] /\ ~Pooled(c) /\ UNCHANGED clients
  BY <1>1, <1>3, OthersStay
<1> QED
  BY <1>2, <1>3 DEF RemoveIfMatch, Move

\* ServeWS gives up.
LEMMA RefusedRemoveRefines ==
  ASSUME IInv, NEW c \in Conns, RefusedRemove(c)
  PROVE  Ro!Refuse(c)
<1>1. /\ pc[c] = "refused" /\ UNCHANGED <<route, user, node>>
      /\ pc'[c] \in {"dropped", "gone"}
      /\ \A d \in Conns : d # c => pc'[d] = pc[d] /\ (Pooled(d)' <=> Pooled(d))
  BY RemoveEffect DEF RefusedRemove
<1>2. Life(c) \in {"pooled", "displaced"} /\ Life(c)' = "gone"
  BY <1>1, LifeIs, LifeWillBe
<1>3. Lifes' = [Lifes EXCEPT ![c] = "gone"] /\ Lifes[c] \in {"pooled", "displaced"}
  BY <1>1, <1>2, LifesStep DEF Lifes
<1> QED
  BY <1>1, <1>3 DEF Ro!Refuse, Ro!Become

\* readPump's cleanup takes the connection out of the pool, or finds that it is
\* displaced.
LEMMA ReaderRemoveRefines ==
  ASSUME IInv, NEW c \in Conns, ReaderRemove(c)
  PROVE  Ro!Close(c) \/ UNCHANGED Ro!vars
<1>1. /\ pc[c] = "leaving" /\ UNCHANGED <<route, user, node>>
      /\ pc'[c] = IF Pooled(c) THEN "unpooled" ELSE "gone"
      /\ \A d \in Conns : d # c => pc'[d] = pc[d] /\ (Pooled(d)' <=> Pooled(d))
  BY RemoveEffect DEF ReaderRemove
<1>2. CASE Pooled(c)
  <2>1. Life(c) = "online" /\ Life(c)' = "done"
    BY <1>1, <1>2, LifeIs, LifeWillBe
  <2>2. Lifes' = [Lifes EXCEPT ![c] = "done"] /\ Lifes[c] = "online"
    BY <1>1, <2>1, LifesStep DEF Lifes
  <2> QED
    BY <1>1, <2>2 DEF Ro!Close, Ro!Become
<1>3. CASE ~Pooled(c)
  <2>1. Life(c) = "gone" /\ Life(c)' = "gone"
    BY <1>1, <1>3, LifeIs, LifeWillBe
  <2>2. Lifes' = [Lifes EXCEPT ![c] = "gone"]
    BY <1>1, <2>1, LifesStep
  <2>3. UNCHANGED Lifes
    BY <2>1, <2>2 DEF Lifes
  <2> QED
    BY <1>1, <2>3 DEF Ro!vars
<1> QED
  BY <1>2, <1>3

\* UnregisterUser.
LEMMA UnregisterRefines ==
  ASSUME IInv, NEW c \in Conns, Unregister(c)
  PROVE  Ro!Unregister(c)
<1>1. /\ pc[c] = "unlisting" /\ pc' = [pc EXCEPT ![c] = "gone"]
      /\ UNCHANGED <<clients, user, node>>
      /\ UNCHANGED route \/ route' = [route EXCEPT ![user[c]] = None]
  BY DEF Unregister, Move
<1>2. /\ pc'[c] = "gone"
      /\ \A d \in Conns : d # c => pc'[d] = pc[d] /\ (Pooled(d)' <=> Pooled(d))
  BY <1>1, OthersStay
<1>3. Life(c) = "done" /\ Life(c)' = "gone"
  BY <1>1, <1>2, LifeIs, LifeWillBe
<1>4. Lifes' = [Lifes EXCEPT ![c] = "gone"] /\ Lifes[c] = "done"
  BY <1>2, <1>3, LifesStep DEF Lifes
<1> QED
  BY <1>1, <1>4 DEF Ro!Unregister, Ro!Become

\* The end of a Connect process.
LEMMA RestartRefines ==
  ASSUME IInv, NEW n \in Nodes, Restart(n)
  PROVE  \E lost \in SUBSET Conns : Ro!NodeEnds(n, lost)
<1> DEFINE lost == {c \in Conns : node[c] = n}
<1>1. /\ clients' = [clients EXCEPT ![n] = [u \in Users |-> None]]
      /\ pc' = [c \in Conns |-> IF node[c] = n THEN "gone" ELSE pc[c]]
      /\ UNCHANGED <<route, user, node>>
  BY DEF Restart
<1>2. ASSUME NEW c \in Conns, node[c] = n PROVE Life(c)' = "gone"
  BY <1>1, <1>2, LifeWillBe
<1>3. ASSUME NEW c \in Conns, node[c] # n PROVE Life(c)' = Life(c)
  <2>1. pc'[c] = pc[c] /\ (Pooled(c)' <=> Pooled(c))
    BY <1>1, <1>3 DEF IInv, TypeOK, Pooled
  <2> QED
    BY <2>1, LifeSame
<1>4. Lifes' = [c \in Conns |-> IF c \in lost THEN "gone" ELSE Lifes[c]]
  BY <1>2, <1>3 DEF Lifes
<1>5. Ro!NodeEnds(n, lost)
  BY <1>1, <1>4 DEF Ro!NodeEnds
<1> QED
  BY <1>5

\* Every step is one of the roster, or not visible.
LEMMA NextRefines == IInv /\ [Next]_vars => [Ro!Next]_(Ro!vars)
<1> SUFFICES ASSUME IInv, [Next]_vars PROVE [Ro!Next]_(Ro!vars)
  OBVIOUS
<1>1. ASSUME NEW c \in Conns, NEW u \in Users, NEW n \in Nodes, Accept(c, u, n)
      PROVE  Ro!Next
  BY <1>1, AcceptRefines DEF Ro!Next
<1>2. ASSUME NEW c \in Conns, Handler(c)
      PROVE  [Ro!Next]_(Ro!vars)
  <2>1. CASE AddClientSwap(c)
    BY <2>1, SwapRefines DEF Ro!Next
  <2>2. CASE AddClientClose(c) \/ RefusedClose(c)
    BY <2>2, LifesSame DEF AddClientClose, RefusedClose, Move, Ro!vars
  <2>3. CASE Register(c)
    BY <2>3, RegisterRefines DEF Ro!Next
  <2>4. CASE RegisterFails(c)
    BY <2>4, RegisterFailsRefines DEF Ro!Next
  <2>5. CASE RefusedRemove(c)
    BY <2>5, RefusedRemoveRefines DEF Ro!Next
  <2> QED
    BY <1>2, <2>1, <2>2, <2>3, <2>4, <2>5 DEF Handler
<1>3. ASSUME NEW c \in Conns, ReadError(c) \/ ReaderClose(c)
      PROVE  UNCHANGED Ro!vars
  BY <1>3, LifesSame DEF ReadError, ReaderClose, Move, Ro!vars
<1>4. ASSUME NEW c \in Conns, ReaderRemove(c) \/ Unregister(c)
      PROVE  [Ro!Next]_(Ro!vars)
  BY <1>4, ReaderRemoveRefines, UnregisterRefines DEF Ro!Next
<1>5. ASSUME NEW n \in Nodes, Restart(n)
      PROVE  Ro!Next
  BY <1>5, RestartRefines DEF Ro!Next
<1>6. UNCHANGED <<pc, clients, user, node>> => UNCHANGED Lifes
  BY DEF Lifes, Life, Pooled
<1>7. ASSUME NEW u \in Users, ExpireRoute(u)
      PROVE  Ro!Next
  <2>1. Ro!ExpireRoute(u)
    BY <1>6, <1>7 DEF ExpireRoute, Ro!ExpireRoute
  <2> QED
    BY <2>1 DEF Ro!Next
<1>8. ASSUME NEW c \in Conns, WriterExit(c)
      PROVE  UNCHANGED Ro!vars
  BY <1>6, <1>8 DEF WriterExit, Ro!vars
<1>9. CASE UNCHANGED vars
  BY <1>6, <1>9 DEF vars, Ro!vars
<1> QED
  BY <1>1, <1>2, <1>3, <1>4, <1>5, <1>7, <1>8, <1>9 DEF Next, Cleanup

\* The connections and routes that pushes meet are those of the roster, for any
\* number of users, nodes and connections.
THEOREM PresenceImplementsRoster == Spec => ImplementsRoster
<1>1. Init => Ro!Init
  <2> SUFFICES ASSUME Init PROVE Ro!Init
    OBVIOUS
  <2>1. Lifes = [c \in Conns |-> "new"]
    BY LifeIs DEF Init, Lifes
  <2> QED
    BY <2>1 DEF Init, Ro!Init
<1> QED
  BY <1>1, NextRefines, SpecIInv, PTL DEF Spec, ImplementsRoster, Ro!Spec

=============================================================================
