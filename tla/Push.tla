-------------------------------- MODULE Push --------------------------------
(***************************************************************************)
(* How a message gets from Kafka to the WebSockets of its receivers: the   *)
(* three push consumers of Task (internal/task/consumer.go: single, group  *)
(* and room chat), the calls they make to the Connect nodes, and the       *)
(* handlers there (internal/connect/grpcserver.go, trySend).               *)
(*                                                                         *)
(* One consumer works on one partition of its topic.  The three consumer   *)
(* groups share nothing that a property below is about, so the topic is    *)
(* chosen once, in Init.  A record is its position in Log[topic].          *)
(*                                                                         *)
(* The consumer's context ends with its session or, for groups and rooms,  *)
(* after 2 seconds.  A gRPC call that its caller has given up may still be *)
(* served: the handlers do not look at their context.  Everything that     *)
(* goes wrong or changes from outside (a timeout, a refused lookup, a list *)
(* that lacks somebody, a lost call, the end of a session, a crash, a      *)
(* connection that comes or goes) spends one unit of a common budget,      *)
(* MaxDisturb.                                                             *)
(***************************************************************************)
EXTENDS Integers, Sequences, FiniteSets

CONSTANTS
  Users, Nodes, Conns,
  UserOf, NodeOf,    \* the user and the Connect node of a connection
  Log,               \* the records of each topic's partition
  Garbage,           \* a record that proto.Unmarshal refuses
  Members,           \* the group's members, and the users who join the room
  SendCap,           \* capacity of Client.Send (256)
  SemCap,            \* tokens of the semaphore (10 for a group, 100 for a room)
  Online,            \* connections that are up at the start
  MaxDisturb,
  None

Topics == {"single", "group", "room"}

ASSUME PushAssumption ==
  /\ UserOf \in [Conns -> Users]
  /\ NodeOf \in [Conns -> Nodes]
  /\ Log \in [Topics -> Seq([from : Users, to : Users] \cup {Garbage})]
  /\ Garbage \notin [from : Users, to : Users]
  /\ Members \subseteq Users
  /\ SendCap \in Nat \ {0} /\ SemCap \in Nat \ {0} /\ MaxDisturb \in Nat
  /\ None \notin Nodes
  /\ IsFiniteSet(Nodes)
  /\ Online \subseteq Conns
  /\ \A c, d \in Online : UserOf[c] = UserOf[d] => c = d

VARIABLES
  topic,
  session,    \* the consumer group session: "on", or its context has ended
  pos,        \* the record ConsumeClaim took last
  mark,       \* the record MarkMessage was called for last
  committed,  \* the group's offset in Kafka, which it has from before the first record (0)
  at,         \* where ConsumeClaim is
  expired,    \* the handler's 2 second context has ended
  todo,       \* nodeTargetMap: the users to push to, per node not yet called
  rpc,        \* calls on their way to a Connect node or in its handler
  route,      \* user_server:<uid>
  conn,       \* life of a connection, as Roster has it
  room,       \* its channel stands in the room's table of its node
  sent,       \* history of Client.Send: the records put in it, and their attempts
  written,    \* how many of them writePump has taken out
  disturb,    \* units of the budget spent
  quiet,      \* history: nothing has disturbed the current attempt
  refused,    \* history: connections that the current attempt could not reach
  tries,      \* history: attempts made at each record
  late        \* history: a call was given up, or a session started again

claim == <<session, pos, mark, committed>>
users == <<route, conn, room>>
channels == <<sent, written>>
budget == <<disturb, quiet>>
history == <<refused, tries, late>>
vars == <<topic, claim, at, expired, todo, rpc, users, channels, budget, history>>

Records == DOMAIN Log[topic]
Msg == Log[topic][pos]
Nobody == [n \in Nodes |-> {}]
Awaited == {r \in rpc : r.waited}

\* The connections: Roster, of which each has its user and node from the start.
Ro == INSTANCE Roster WITH user <- UserOf, node <- NodeOf

\* The context of the current attempt has ended.
Cut == session = "ending" \/ expired

Disturb == disturb < MaxDisturb /\ disturb' = disturb + 1 /\ quiet' = FALSE

\* Something goes wrong for the connections cs alone.  The pushes to the others
\* must not suffer from it, so the attempt still counts as undisturbed.
Misses(cs) ==
  /\ disturb < MaxDisturb /\ disturb' = disturb + 1
  /\ refused' = refused \cup cs
  /\ UNCHANGED quiet

\* The call to node n fails before the context ends.
NodeFails(n) == Misses({c \in Conns : NodeOf[c] = n})

\* The users a record is for; a group and a room leave out the sender.
To(t, msg) ==
  CASE t = "single" -> {msg.to}
    [] t \in {"group", "room"} -> Members \ {msg.from}

Audience == To(topic, Msg)

Calls ==
  [node : Nodes, msg : Nat, users : SUBSET Users, try : Nat,
   stage : {"sent", "run"}, to : SUBSET Conns, waited : BOOLEAN]

\* What a call leaves in a channel.
Entries == [msg : Nat, try : Nat]
Entry(r) == [msg |-> r.msg, try |-> r.try]

TypeOK ==
  /\ topic \in Topics
  /\ session \in {"on", "ending"}
  /\ pos \in 0 .. Len(Log[topic])
  /\ mark \in 0 .. pos /\ committed \in 0 .. mark
  /\ at \in {"idle", "load", "refresh", "fan", "sleep", "done", "left"}
  /\ at \in {"load", "refresh", "fan", "sleep"} => pos \in Records /\ Msg # Garbage
  /\ expired \in BOOLEAN
  /\ todo \in [Nodes -> SUBSET Users]
  /\ rpc \subseteq Calls
  /\ route \in [Users -> Nodes \cup {None}]
  /\ conn \in [Conns -> Ro!Lives]
  /\ room \in [Conns -> {"out", "in", "over"}]
  /\ sent \in [Conns -> Seq(Entries)]
  /\ written \in [Conns -> Nat]
  /\ \A c \in Conns : Len(sent[c]) - written[c] \in 0 .. SendCap
  /\ disturb \in 0 .. MaxDisturb
  /\ quiet \in BOOLEAN
  /\ refused \subseteq Conns
  /\ tries \in [Records -> Nat]
  /\ late \in BOOLEAN

Init ==
  /\ topic \in Topics
  /\ session = "on" /\ pos = 0 /\ mark = 0 /\ committed = 0
  /\ at = "idle"
  /\ expired = FALSE
  /\ todo = Nobody
  /\ rpc = {}
  /\ route = [u \in Users |->
       IF \E c \in Online : UserOf[c] = u THEN NodeOf[CHOOSE c \in Online : UserOf[c] = u] ELSE None]
  /\ conn = [c \in Conns |-> IF c \in Online THEN "online" ELSE "new"]
  /\ room = [c \in Conns |->
       CASE topic # "room" -> "over"
         [] topic = "room" /\ c \in Online /\ UserOf[c] \in Members -> "in"
         [] OTHER -> "out"]
  /\ sent = [c \in Conns |-> <<>>]
  /\ written = [c \in Conns |-> 0]
  /\ disturb = 0
  /\ quiet = FALSE
  /\ refused = {}
  /\ tries = [m \in Records |-> 0]
  /\ late = FALSE

Goto(from, to) == at = from /\ at' = to

-----------------------------------------------------------------------------
(***************************************************************************)
(* ConsumeClaim.                                                           *)
(***************************************************************************)

\* The next record of the claim.  After the end of the session the channel may
\* still hold records, and the loop takes them all the same.
Take ==
  /\ at = "idle"
  /\ pos < Len(Log[topic])
  /\ pos' = pos + 1
  /\ at' = IF Log[topic][pos + 1] = Garbage THEN "done" ELSE "load"
  /\ expired' = FALSE
  /\ quiet' = (session = "on")
  /\ refused' = {}
  /\ tries' = [tries EXCEPT ![pos + 1] = @ + 1]
  /\ UNCHANGED <<topic, session, mark, committed, todo, rpc, users, channels, disturb, late>>

\* MarkMessage, whatever became of the pushes.
Mark ==
  /\ Goto("done", "idle")
  /\ mark' = pos
  /\ UNCHANGED <<topic, session, pos, committed, expired, todo, rpc, users, channels, budget, history>>

\* getOnlineRoutingMap: the users with a route, by the node it names.
RoutingMap(us) == [n \in Nodes |-> {u \in us : route[u] = n}]

\* The node and the users of each call: one node for a single chat (none when
\* the receiver has no route) ...
LookupRoute ==
  /\ topic = "single" /\ ~Cut
  /\ Goto("load", "fan")
  /\ todo' = RoutingMap(Audience)
  /\ UNCHANGED <<topic, claim, expired, rpc, users, channels, budget, history>>

\* A list of the group's members was read, which may be behind the table
\* (GroupCache) and in the worst case be the placeholder.
ReadMembers(list) ==
  /\ at' = "fan"
  /\ todo' = RoutingMap(list \ {Msg.from})
  /\ IF list = Members THEN UNCHANGED <<budget, refused>>
     ELSE Misses({c \in Conns : UserOf[c] \notin list})

\* ... for a group the nodes of its members without the sender.  The members
\* come from the cache, or from RefreshGroupMembersCache when the key is missing.
LoadMembers ==
  /\ topic = "group" /\ ~Cut
  /\ at = "load"
  /\ \/ \E list \in SUBSET Members : ReadMembers(list)
     \/ at' = "refresh" /\ UNCHANGED <<todo, budget, refused>>
  /\ UNCHANGED <<topic, claim, expired, rpc, users, channels, tries, late>>

RefreshMembers ==
  /\ topic = "group" /\ ~Cut
  /\ at = "refresh"
  /\ \E list \in SUBSET Members : ReadMembers(list)
  /\ UNCHANGED <<topic, claim, expired, rpc, users, channels, tries, late>>

\* ... and for a room the nodes in connect_nodes:, which may lack one (Fleet).
LoadNodes ==
  /\ topic = "room" /\ ~Cut
  /\ Goto("load", "fan")
  /\ \E list \in SUBSET Nodes :
       /\ todo' = [n \in Nodes |-> IF n \in list THEN Audience ELSE {}]
       /\ IF list = Nodes THEN UNCHANGED <<budget, refused>>
          ELSE Misses({c \in Conns : NodeOf[c] \notin list})
  /\ UNCHANGED <<topic, claim, expired, rpc, users, channels, tries, late>>

\* A lookup or the refresh fails: the group consumer waits and tries again, the
\* others give the record up.
LoadFails ==
  /\ at \in {"load", "refresh"}
  /\ at' = IF topic = "group" THEN "sleep" ELSE "done"
  /\ IF Cut THEN UNCHANGED budget ELSE Disturb
  /\ UNCHANGED <<topic, claim, expired, todo, rpc, users, channels, history>>

\* Mutant of Spawn: the call is made in the background, nobody waits for it.
SpawnUnawaited(n) ==
  /\ at = "fan" /\ todo[n] # {} /\ ~Cut
  /\ todo' = [todo EXCEPT ![n] = {}]
  /\ rpc' = rpc \cup {[node |-> n, msg |-> pos, users |-> todo[n], try |-> tries[pos],
                       stage |-> "sent", to |-> {}, waited |-> FALSE]}
  /\ UNCHANGED <<topic, claim, at, expired, users, channels, budget, history>>

\* A token of the semaphore, a client of the pool, and the call to one node.
Spawn(n) ==
  /\ at = "fan" /\ todo[n] # {} /\ ~Cut
  /\ Cardinality(Awaited) < SemCap
  /\ todo' = [todo EXCEPT ![n] = {}]
  /\ rpc' = rpc \cup {[node |-> n, msg |-> pos, users |-> todo[n], try |-> tries[pos],
                       stage |-> "sent", to |-> {}, waited |-> TRUE]}
  /\ UNCHANGED <<topic, claim, at, expired, users, channels, budget, history>>

\* GetClient fails, or the context has ended and the call fails at once (the
\* select takes the free token although the context is done): only logged.
SpawnFails(n) ==
  /\ at = "fan" /\ todo[n] # {}
  /\ Cardinality(Awaited) < SemCap
  /\ todo' = [todo EXCEPT ![n] = {}]
  /\ IF Cut THEN UNCHANGED <<budget, refused>> ELSE NodeFails(n)
  /\ UNCHANGED <<topic, claim, at, expired, rpc, users, channels, tries, late>>

\* The select sees the end of the context: the loop is left without waiting for
\* the calls under way, which end with the context.
EarlyReturn ==
  /\ topic # "single"
  /\ at = "fan" /\ todo # Nobody /\ Cut
  /\ at' = IF topic = "group" THEN "sleep" ELSE "done"
  /\ todo' = Nobody
  /\ rpc' = {[r EXCEPT !.waited = FALSE] : r \in rpc}
  /\ late' = TRUE
  /\ UNCHANGED <<topic, claim, expired, users, channels, budget, refused, tries>>

\* Mutant of Wait: g.Wait is missing, the record is done with calls under way.
WaitForNone ==
  /\ Goto("fan", "done")
  /\ todo = Nobody
  /\ rpc' = {[r EXCEPT !.waited = FALSE] : r \in rpc}
  /\ UNCHANGED <<topic, claim, expired, todo, users, channels, budget, history>>

\* Every call has returned (g.Wait); what it returned does not matter.
Wait ==
  /\ Goto("fan", "done")
  /\ todo = Nobody
  /\ Awaited = {}
  /\ UNCHANGED <<topic, claim, expired, todo, rpc, users, channels, budget, history>>

\* Mutant of Retry: one context for all attempts, made outside the loop.
RetrySameContext ==
  /\ session = "on"
  /\ Goto("sleep", "load")
  /\ UNCHANGED <<topic, claim, expired, todo, rpc, users, channels, budget, history>>

\* The group consumer tries the same record again after a second.
Retry ==
  /\ session = "on"
  /\ Goto("sleep", "load")
  /\ expired' = FALSE
  /\ quiet' = TRUE
  /\ refused' = {}
  /\ tries' = [tries EXCEPT ![pos] = @ + 1]
  /\ UNCHANGED <<topic, claim, todo, rpc, users, channels, disturb, late>>

\* The 2 second context of a group or room record ends.
Expire ==
  /\ topic # "single"
  /\ at \in {"load", "refresh", "fan"}
  /\ ~expired
  /\ expired' = TRUE
  /\ Disturb
  /\ UNCHANGED <<topic, claim, at, todo, rpc, users, channels, history>>

-----------------------------------------------------------------------------
(***************************************************************************)
(* The calls.                                                              *)
(***************************************************************************)

Replace(r, s) == rpc' = (rpc \ {r}) \cup {s}

\* The connections that a handler on the node finds for these users: in the
\* pool or, for a broadcast, in the room's own table.
Found(n, us) ==
  {c \in Conns : NodeOf[c] = n /\ UserOf[c] \in us
                 /\ IF topic = "room" THEN room[c] = "in" ELSE Ro!InPool(c)}

\* Mutant of Lookup: the handler takes everybody it finds.
LookupAll(r) ==
  /\ r.stage = "sent"
  /\ Replace(r, [r EXCEPT !.stage = "run", !.to = Found(r.node, Users)])
  /\ UNCHANGED <<topic, claim, at, expired, todo, users, channels, budget, history>>

\* PushMsg, PushMsgToUsers: the pool is read once, under its lock.  Room.Broadcast
\* copies the channels of the room, under its lock.
Lookup(r) ==
  /\ r.stage = "sent"
  /\ Replace(r, [r EXCEPT !.stage = "run", !.to = Found(r.node, r.users)])
  /\ UNCHANGED <<topic, claim, at, expired, todo, users, channels, budget, history>>

\* Mutant of TrySend: the target stays on the list.
TrySendAgain(r, c) ==
  /\ r.stage = "run" /\ c \in r.to
  /\ Len(sent[c]) - written[c] < SendCap
  /\ sent' = [sent EXCEPT ![c] = Append(@, Entry(r))]
  /\ UNCHANGED <<topic, claim, at, expired, todo, rpc, users, written, budget, history>>

\* trySend: the record is put in the channel or, when that is full, dropped.
\* Of a closed connection either case may be selected.
TrySend(r, c) ==
  /\ r.stage = "run" /\ c \in r.to
  /\ Replace(r, [r EXCEPT !.to = @ \ {c}])
  /\ \/ /\ Len(sent[c]) - written[c] < SendCap
        /\ sent' = [sent EXCEPT ![c] = Append(@, Entry(r))]
        /\ UNCHANGED refused
     \/ /\ Len(sent[c]) - written[c] = SendCap \/ (~Ro!InPool(c) /\ topic # "room")
        /\ refused' = IF r.msg = pos /\ r.try = tries[pos] THEN refused \cup {c} ELSE refused
        /\ UNCHANGED sent
  /\ UNCHANGED <<topic, claim, at, expired, todo, users, written, budget, tries, late>>

\* The handler returns; the reply ends the caller's wait.
Reply(r) ==
  /\ r.stage = "run" /\ r.to = {}
  /\ rpc' = rpc \ {r}
  /\ UNCHANGED <<topic, claim, at, expired, todo, users, channels, budget, history>>

\* The caller's deadline passes or its context ends; the call goes on.
GiveUp(r) ==
  /\ r.waited
  /\ Replace(r, [r EXCEPT !.waited = FALSE])
  /\ late' = TRUE
  /\ IF Cut THEN UNCHANGED <<budget, refused>> ELSE NodeFails(r.node)
  /\ UNCHANGED <<topic, claim, at, expired, todo, users, channels, tries>>

\* The request never reaches its node; whoever waits for it gets an error.
Lost(r) ==
  /\ r.stage = "sent"
  /\ rpc' = rpc \ {r}
  /\ IF r.waited THEN NodeFails(r.node) ELSE UNCHANGED <<budget, refused>>
  /\ UNCHANGED <<topic, claim, at, expired, todo, users, channels, tries, late>>

-----------------------------------------------------------------------------
(***************************************************************************)
(* The connections: the steps of Roster, which Presence implements.        *)
(***************************************************************************)

\* What the consumer and the calls keep while a connection or a route changes.
consumer == <<topic, claim, at, expired, todo, channels, history>>

\* A connection comes, goes, or is refused ...
ArriveOrClose(c) ==
  /\ Disturb
  /\ \/ Ro!Arrive(c) /\ UNCHANGED room
     \/ Ro!Close(c) /\ room[c] = "over" /\ UNCHANGED room
     \/ Ro!Refuse(c) /\ room' = [room EXCEPT ![c] = "over"]
  /\ UNCHANGED <<consumer, rpc>>

\* ... and its route follows.
FollowRoute(c) ==
  /\ Ro!Register(c) \/ Ro!RegisterLate(c) \/ Ro!Unregister(c)
  /\ quiet' = FALSE
  /\ UNCHANGED <<consumer, rpc, room, disturb>>

ExpireRoute(u) ==
  /\ Disturb
  /\ Ro!ExpireRoute(u)
  /\ UNCHANGED <<consumer, rpc, room>>

\* A Connect process ends, and with it the handlers that run there.
NodeEnds(n) ==
  /\ Disturb
  /\ \E lost \in SUBSET {c \in Conns : NodeOf[c] = n} :
       /\ Ro!NodeEnds(n, lost)
       /\ room' = [c \in Conns |-> IF c \in lost THEN "over" ELSE room[c]]
  /\ rpc' = {r \in rpc : r.node = n => r.stage = "sent"}
  /\ UNCHANGED consumer

(***************************************************************************)
(* The room, as RoomSet has it: a table from users to channels on each     *)
(* node.  A reader that has been served may be at a command although its   *)
(* connection has been displaced.                                          *)
(***************************************************************************)
Reads(c) == conn[c] \in {"online", "gone"}

\* Room.Join: the channel takes the place of the user's other one (a join that
\* finds itself there changes nothing).
JoinRoom(c) ==
  /\ Reads(c) /\ UserOf[c] \in Members
  /\ room[c] = "out"
  /\ room' = [d \in Conns |->
       IF d = c THEN "in"
       ELSE IF room[d] = "in" /\ UserOf[d] = UserOf[c] /\ NodeOf[d] = NodeOf[c] THEN "out"
       ELSE room[d]]
  /\ quiet' = FALSE
  /\ UNCHANGED <<consumer, rpc, route, conn, disturb>>

\* Room.Leave, for a command or in leaveAllRooms, after which the reader ends.
LeaveRoom(c) ==
  /\ Disturb
  /\ Reads(c)
  /\ \/ room[c] = "in" /\ room' = [room EXCEPT ![c] = "out"]
     \/ room[c] # "over" /\ room' = [room EXCEPT ![c] = "over"]
  /\ UNCHANGED <<consumer, rpc, route, conn>>

\* writePump takes a record out of the channel.
Drain(c) ==
  /\ Ro!InPool(c)
  /\ written[c] < Len(sent[c])
  /\ written' = [written EXCEPT ![c] = @ + 1]
  /\ UNCHANGED <<topic, claim, at, expired, todo, rpc, users, sent, budget, history>>

-----------------------------------------------------------------------------
(***************************************************************************)
(* The session of the consumer group.                                      *)
(***************************************************************************)

\* sarama commits the marks from time to time.
Commit ==
  /\ session = "on"
  /\ committed < mark
  /\ committed' = mark
  /\ UNCHANGED <<topic, session, pos, mark, at, expired, todo, rpc, users, channels, budget, history>>

\* A rebalance, or the shutdown of the process, ends the session's context.
End ==
  /\ session = "on"
  /\ session' = "ending"
  /\ Disturb
  /\ UNCHANGED <<topic, pos, mark, committed, at, expired, todo, rpc, users, channels, history>>

\* ConsumeClaim returns: between two records, or instead of a retry, which
\* leaves the record unmarked.
Leave ==
  /\ session = "ending"
  /\ Goto("idle", "left") \/ Goto("sleep", "left")
  /\ UNCHANGED <<topic, claim, expired, todo, rpc, users, channels, budget, history>>

\* The marks are committed on release (or that fails), and the partition's next
\* session starts there.
Restart ==
  /\ Goto("left", "idle")
  /\ session' = "on"
  /\ committed' \in {committed, mark}
  /\ pos' = committed' /\ mark' = committed'
  /\ late' = TRUE
  /\ UNCHANGED <<topic, expired, todo, rpc, users, channels, budget, refused, tries>>

\* The Task process dies; its calls may still be served.
Crash ==
  /\ Disturb
  /\ session' = "on"
  /\ at' = "idle"
  /\ pos' = committed /\ mark' = committed
  /\ todo' = Nobody
  /\ rpc' = {[r EXCEPT !.waited = FALSE] : r \in rpc}
  /\ late' = TRUE
  /\ UNCHANGED <<topic, committed, expired, users, channels, refused, tries>>

Consume ==
  \/ Take
  \/ Mark
  \/ LookupRoute
  \/ LoadMembers
  \/ RefreshMembers
  \/ LoadNodes
  \/ LoadFails
  \/ \E n \in Nodes : Spawn(n)
  \/ \E n \in Nodes : SpawnFails(n)
  \/ EarlyReturn
  \/ Wait
  \/ Retry
  \/ Leave
  \/ Restart

Serve(r) ==
  \/ Lookup(r)
  \/ \E c \in Conns : TrySend(r, c)
  \/ Reply(r)

Next ==
  \/ Consume
  \/ Expire
  \/ \E r \in rpc : Serve(r) \/ GiveUp(r) \/ Lost(r)
  \/ \E c \in Conns : ArriveOrClose(c) \/ FollowRoute(c) \/ JoinRoom(c) \/ LeaveRoom(c) \/ Drain(c)
  \/ \E u \in Users : ExpireRoute(u)
  \/ \E n \in Nodes : NodeEnds(n)
  \/ Commit
  \/ End
  \/ Crash

Spec == Init /\ [][Next]_vars

(***************************************************************************)
(* The consumer's goroutine runs and Connect's handlers do.  Nobody has to *)
(* drain a channel.                                                        *)
(***************************************************************************)
FairSpec ==
  /\ Spec
  /\ WF_vars(Consume)
  /\ WF_vars(\E r \in rpc : Serve(r))

-----------------------------------------------------------------------------
(***************************************************************************)
(* Properties.                                                             *)
(***************************************************************************)

\* The connection can be found: it is in its node's pool and the route of its
\* user leads there, or it stands in the room's table of its node.
Reachable(c) ==
  IF topic = "room" THEN room[c] = "in"
  ELSE conn[c] = "online" /\ route[UserOf[c]] = NodeOf[c]

\* When a record gets marked, be it after a retry, this attempt at it is in the
\* channel of every reachable connection it is for, unless that channel was
\* full, the call to that connection's own node failed, or the list of members or
\* nodes that Task read lacked its user or node: a dead node, a lost or slow call,
\* a full channel, an incomplete list or a handler left over from an earlier
\* attempt harms nobody else, and no routing, fan-out, semaphore or handler
\* forgets whoever the list has (ConsumeClaim, handleSmallGroupMessage,
\* handleRoomBroadcast, PushMsgToUsers, Room.Broadcast).  What the lists may lack
\* is in GroupCache and Fleet, who may stand in a room's table in Rooms.
QuietDelivered ==
  at = "done" /\ quiet /\ Msg # Garbage =>
    \A c \in Conns : Reachable(c) /\ UserOf[c] \in Audience =>
      \/ c \in refused
      \/ \E i \in DOMAIN sent[c] : sent[c][i] = [msg |-> pos, try |-> tries[pos]]

\* A retried or repeated record reaches a connection at most once per attempt:
\* neither late handlers nor early returns multiply it further (the retry loop
\* of GroupChatHandler.ConsumeClaim, trySend).
OncePerAttempt ==
  \A c \in Conns : \A i, j \in DOMAIN sent[c] : sent[c][i] = sent[c][j] => i = j

\* As long as no call has been given up and no session started again, a
\* connection gets the records in the partition's order and each once (the
\* consumers wait for every call of a record before they take the next).
InOrder ==
  ~late => \A c \in Conns : \A i, j \in DOMAIN sent[c] : i < j => sent[c][i].msg < sent[c][j].msg

\* What SendMessage's comment promises of the partition key: the messages to
\* one user keep their order.
StrictOrder ==
  topic = "single" =>
    \A c \in Conns : \A i, j \in DOMAIN sent[c] : i < j => sent[c][i].msg <= sent[c][j].msg

\* No record holds up its partition for ever: when the disturbances end, every
\* record is marked, although the group consumer retries without a limit.
PartitionDrains == <>[](mark = Len(Log[topic]))

-----------------------------------------------------------------------------
(***************************************************************************)
(* The refinement: of all this, Delivery sees the attempts, the channels   *)
(* and whether something was given up.                                     *)
(***************************************************************************)
Addressees ==
  [t \in Topics |-> [m \in DOMAIN Log[t] |-> IF Log[t][m] = Garbage THEN {} ELSE To(t, Log[t][m])]]

De == INSTANCE Delivery

\* A push reaches nobody but those the record is for, once per attempt, in
\* order until something is given up, and no record is passed over, although
\* calls outlive their attempts and records are retried and repeated
\* (ConsumeClaim, handleSmallGroupMessage, PushMsgToUsers, trySend).
ImplementsDelivery == De!Spec

=============================================================================
