# LikeGoChat: a TLA+ verification project

This directory models the concurrent core of LikeGoChat, a chat system of four
layers (`API`, `Logic`, `Task`, `Connect`) around Kafka, Redis and MySQL. The
modules are translated from the Go source, checked by TLC on small instances
and, where the argument is inductive, proved with TLAPS for every value of the
constants. `PROJECT.json` maps every definition to the lines it stands for.

## 1. Inventory

### 1.1 The parts

| part | source | state | operations |
|---|---|---|---|
| API handlers | `internal/api/*.go`, `cmd/api` | one goroutine per HTTP request | refuse, verify the session, one gRPC call to Logic, answer |
| accounts and group tables | `auth.go`, `groupserver.go`, `common/db.go` | MySQL `users`, `groups` (with `member_count`), `group_members` | Register, CreateGroup, AddGroup, ListUserSmallGroups |
| Session store | `internal/logic/auth.go`, `store.go` | Redis `sess:<sid>`, `user_sess:<uid>` | Register, Login, Verify, Logout |
| Group membership | `groupserver.go`, `store.go` (IsGroupMember) | MySQL `groups`, `group_members`; Redis `group_members:<gid>`; one `singleflight.Group` per Logic process | CreateGroup, AddGroup (double delete), IsGroupMember, RefreshGroupMembersCache |
| Message production | `chatserver.go`, `producer.go` | process-local `localMsgSeq`; Kafka topics | SendMessage, SendGroupMessage, SendRoomMessage |
| Connection pool and presence | `ws_handler.go`, `registry.go`, `grpcserver.go` | `ConnectionManager.Clients`, one `Client` per WebSocket; Redis `user_server:<uid>` | ServeWS, readPump, writePump, PushMsg, PushMsgToUsers |
| Rooms | `room.go`, `room_manager.go`, `ws_handler.go` | buckets of `Room` objects, `Client.rooms` | JoinRoom, LeaveRoom, leaveAllRooms, BroadcastRoom |
| Connect node registry | `cmd/connect/main.go`, `registry.go` | Redis `connect_nodes:` | RegisterConnectNode, UnregisterConnectNode |
| Task consumers | `internal/task/consumer.go`, `cmd/task` | offsets of the Kafka consumer groups; MySQL `messages`, `group_messages` | single, group and room push; persistence |
| Connect client pool | `internal/task/rpc_client.go` | map of gRPC clients | GetClient, CloseClient, CloseAll |
| plumbing | `internal/common/*`, generated `*.pb.go` | configuration, loggers, connections | none that a property depends on |

### 1.2 How they interact

A client logs in through API and Logic and gets a session id. It opens a
WebSocket to a Connect node, which asks Logic to verify the session, puts the
connection in its pool, closes the connection it displaces and writes the
route `user_server:<uid>`. A message goes HTTP -> Logic -> Kafka; three
consumer groups of Task push it to the Connect nodes that hold the receivers
(found through the routes, the group member cache and `connect_nodes:`), and
one more stores it in MySQL. The layers share no memory: they meet in Redis,
MySQL and Kafka, and inside one process goroutines meet at mutexes and
channels.

### 1.3 What is hard, and what makes each part correct

* **Session store.** Login and Logout change two keys with a Lua script each,
  but Verify reads them with two commands and Logout reads before its script;
  the Redis client repeats a script whose reply was lost. Correct: both
  indexes always describe the same logins, nobody is logged in twice, a dead
  session stays dead, a logout hits no newer login.
* **Presence.** Each connection has a handler, a reader and a writer; a new
  connection of the user closes the old one outside the pool's lock, and the
  old reader cleans up the pool and the route in two steps. Correct: the pool
  holds open connections only, none is leaked, an old connection does not
  take down a newer one, and what is closed ends.
* **Rooms.** LeaveRoom drops the bucket lock between its lookup, the removal
  and the deletion of the empty room. Correct: nobody's join is lost, empty
  rooms do not pile up, an ended connection is a member of nothing, commands
  and broadcasts end.
* **Group cache.** A load reads MySQL and writes Redis later, racing with the
  deletes of a join. Correct: nobody is admitted by mistake, the cache
  converges, loads are bounded, every waiting call is answered.
* **Persistence.** Records repeat, sessions overlap, end or crash between
  insert, mark and commit. Correct: what is committed is stored, the offset
  does not go back, an acknowledged message is stored in the end.
* **Push.** A consumer looks its receivers up, calls several nodes at once and
  stops waiting when a context ends; the handlers run on. The lists it reads may
  be incomplete, sessions end and records come again. Correct: one node's
  failure or one missing member harms no other, an attempt
  delivers at most once, the order holds, no record blocks its partition.
* **Nodes and clients.** Processes register, crash, overlap in a restart;
  goroutines share a client pool that main closes at the end. Correct: a
  serving node is registered, the set names no node without a reason, no client
  is leaked or closed under a push.
* **Gateway.** A handler verifies a session and writes later, and answers at
  its deadline while Logic is still at work; clients repeat requests. Correct:
  no dead session writes, a success means done, counts match rows, ids do not
  repeat, requests are answered unless the client or Logic holds them up.

`PROJECT.json` lists the hazards line by line with the properties that address
them; those without a property carry the reason.

## 2. Plan, and what is left of it

The modules in their order, the most important behaviour first: `Session`,
`Presence`, `Rooms`, `GroupCache`, `Persist`, then `Push`, `Fleet` and
`Gateway` with the message ids and the group tables. Five of them have an
abstract specification, which says in one step what the code does in several:

| detailed | abstract | what the abstract one leaves out |
|---|---|---|
| `Session` | `SingleLogin` | the two keys, scripts that run twice, the reads of Verify and Logout |
| `Presence` | `Roster` | pool entries, sockets, pumps, closed channels |
| `Rooms` | `RoomSet` | Room objects, bucket locks, the double check |
| `Persist` | `MessageStore` | producers, retries, sessions, marks, repeated records |
| `Push` | `Delivery` | lookups, fan-out, calls, contexts, sessions, nodes and routes |

Each of the five refinements is checked by a run and proved. Two of them are
built on: `Gateway` takes its session steps from an instance of `SingleLogin`,
and `Push` the steps of its connections, routes and nodes from an instance of
`Roster` (Push gives every connection its user and node from the start, and
some connections are up when it begins). So every order of logins, pools and
routes that the code below produces is one that Gateway and Push allow, and
what is proved of them holds over it. What `Push` reads from others may be
wrong as they may be: the member list may lack members (`GroupCache`), the node
list nodes (`Fleet`), and a room's table may have the channel of a connection
that was displaced (`Rooms`).

Left: a theorem that the prover could only reach through ENABLED
(`BroadcastWaitFree`) stays with TLC.

## 3. The modules and the code

One action is one step that other goroutines or processes can see half of: a
Redis command or script, a SQL transaction, a critical section, a channel
operation. Everything the code does between two such steps belongs to the
step.

### Session

`sess` and `userSess` are the two Redis indexes; `call[c]` is a gRPC handler
between two round trips. `RefreshScript` and `DeleteScript` are the two Lua
scripts; `LoginRefresh` and `LogoutDelete` run them and choose between an
answer that arrives, one that is lost and repeated, and an error after the
effect; the `...Fails` actions are errors without effect. `Expire` removes
both keys of a login, which one script wrote with one TTL. `owner`, `issued`
and `ended` are history. Uuids do not repeat. The bcrypt check and Register
only decide whether a Login starts.

`ImplementsSingleLogin` maps the two indexes to the one `login` of each user
and a Verify to the instant of its second read.

### SingleLogin

The service that the layers above see: `Draw`, `Grant`, `Issue`, `Accept`,
`Drop` and `End` are atomic, a user has one login, and a session that a client
holds is never granted again.

### Presence

`clients` is `ConnectionManager.Clients` of each node, `route` the Redis key.
`pc[c]` follows ServeWS (`Accept`, `AddClientSwap`, `AddClientClose`,
`Register` or `RegisterFails` and the removal) and then the reader
(`ReadError`, `ReaderRemove`, `ReaderClose`, `Unregister`); `writer[c]` is
writePump. `done` is the closed channel of `closeConn`, `closed` the socket.
`Restart` ends a process, whose routes stay in Redis; `ExpireRoute` is the TTL
that nothing renews. `RemoveClient` has no caller and is left out.

`Life` maps a connection to what `Roster` calls it. A connection that was
displaced while it was served is over at that moment for those who push,
although its reader notices later; one that was displaced while ServeWS was
still between AddClient and RegisterUser is `"displaced"`, since it will still
set the route.

### Roster

The connections and routes as a push sees them. `Arrive` is AddClient with the
displacement, `Register` and `RegisterLate` set the route (the latter reports
an error all the same), `Refuse` drops a connection that could not be
registered, `Close` and `Unregister` are the two halves of the reader's
cleanup, `NodeEnds` the end of a Connect process, `ExpireRoute` the TTL. What
Presence promises by implementing it: a route is set only by a connection that
was pooled first, deleted only by the reader that took the connection out of
the pool, and a connection that left the pool never returns to it.

### Rooms

`rooms` is the map of all buckets, `members[o]` the index of a Room object,
`lock` the bucket's lock while JoinRoom holds it over two critical sections;
the other critical sections are one action, guarded by the lock being free.
Room objects have an identity, so a goroutine may hold one that the map no
longer leads to. `newest` repeats the pool of `Presence` as far as rooms need
it. The hash of a room id is the constant function `Bucket`. `BroadcastSend`
is the non-blocking send, `queued` the length of the channel. `BroadcastWaitFree`
says that a broadcast can take its next step in every state.

`Slots` reads the table of `RoomSet` off the Rooms that the map leads to. A
JoinRoom takes effect in Room.Join, a LeaveRoom in Room.Leave, or in its lookup
when there is no Room, or in Room.Leave of a Room that the map has lost, which
is empty. A BroadcastRoom takes effect when it copies the members or, if its
Room is deleted first, at that deletion (`Casting`): the Room was empty then,
and so were the members it would have copied. One `LeaveRoomCollect` may so
complete several broadcasts, which is why `RoomSet` has `CastTake(bs)`.

### RoomSet

A room is a table from users to connections; `Join`, `Leave` and `CastTake` are
instants between `Call` and `Return`, `CastBegin` and `CastReturn`. `End` has
the guard that the connection is a member of no room.

### GroupCache

One group: its rows in MySQL (`members`), its Redis key (`cache`, `{}` for the
placeholder `{-1}`), the pending deletes of each AddGroup (`add`), the
IsGroupMember calls, the leader of each node's singleflight (`flight`), the
ConsumeClaim goroutines of Task (`claim`) and Logic's refresh handlers
(`refresh`). A failed delete (`RedisFails`) also stands for a Logic process
that dies before its delayed delete. A goroutine of Task that finds no key
(`TaskMiss`) enters the singleflight of its process (`TaskEnter`): it sends the
request or waits for the one under way. At `TaskTimeout` the leader's context
ends and the flight with it; the handler in Logic runs on, through
`RefreshQuery` and `RefreshFill`, beside the refresh that Task asks for next.
So `Readme.md:75`, at most N + 1 loads for N Logic nodes, is true of one Task
process while it waits; `LoadsBounded` says N plus the number of Task
processes, and a refresh that was given up comes on top. `clean` is
history: the users for whom a delete succeeded with no older load under way.
Two weaknesses of the design are in the model and bound what can be stated: a
key that appears between SISMEMBER and EXISTS makes IsGroupMember deny a member
(`store.go:211`), and a load that read before the join and writes after the
second delete leaves a cache without the member until its TTL
(`groupserver.go:102`). `NoStaleDenial` and `CleanStaysClean` are what holds
in spite of them, `EventuallyConsistent` says that the TTL repairs the rest.

### Persist

One partition and one table. `send` is SendMessage (SendGroupMessage is alike),
`log` the partition, `rows` the table with its two unique keys. A Task process
is a member with a session: `Take`, `SkipBad`, `InsertOk`, `InsertFails`,
`Retry`, `Mark` and `Quit` are ConsumeClaim; `Start`, `Commit`, `Release`,
`Cancel`, `Evict`, `Notice` and `Crash` are what sarama and the broker do with
a session. The message ids of `Persist` are distinct, which `IdsDistinct` of
`Gateway` shows of one Logic process. A broker that appends a record after the
producer has given up is not modelled. Offsets count from 1, and 0 says that the group has not
committed: `Init` has both a group with an offset and a new one. Without an
offset a session starts behind the newest record (`OffsetNewest`,
`cmd/task/main.go:119`), so that what an earlier session took and did not
commit is never seen again; `floor` is history and says where the last such
start was. `CommittedStored` and `AckedStored` speak of the records from there
on, and once there is an offset `floor` stays.

### MessageStore

The log, the table, the offset and the acknowledgements without anybody who
works on them. `Store` takes a message of the log into the table if neither its
id nor the client's key is there, `Advance` moves the offset over what is
stored or cannot be decoded, `Skip` is the start without an offset, which
leaves the log so far behind (`base`), `Ack` is for what is in the log. In `Persist` an
insert that finds the row, a mark, a session that starts or ends, and a crash
leave all of it unchanged.

### Push

One partition of one of the three topics, chosen in `Init`. `at` is where
ConsumeClaim stands: `Take`, then the lookup (`LookupRoute`, `LoadMembers` and
`RefreshMembers`, `LoadNodes`, or `LoadFails`), the fan-out (`Spawn` or
`SpawnFails` per node under the semaphore, `EarlyReturn` when the context
ends, `Wait` for all), `Retry` for the group consumer, and `Mark`. `rpc` holds
the calls: `Lookup` is the one read of the pool, `TrySend` one send, `Reply`
the end; `GiveUp` ends the caller's wait and leaves the handler running,
`Lost` is a request that does not arrive. `ArriveOrClose`, `FollowRoute`,
`ExpireRoute` and `NodeEnds` are the steps of `Roster`, with the budget; a node
that ends takes its running handlers with it. `JoinRoom` and `LeaveRoom` are
the commands that change a room's table, as `RoomSet` has them: the reader of a
displaced connection may still join, and leaves before its connection is
closed. The lists that a lookup reads may be incomplete; whom they lack is in
`refused` (`Misses`), next to those whose channel was full or whose node
failed. `Found` is what a handler finds: for a broadcast the room's table, else
the pool. `Commit`, `End`,
`Leave`, `Restart` and `Crash` are the session's. `quiet`, `refused`, `tries`
and `late` are history; `quiet` and `refused` are about the current attempt and
begin anew with every `Take` and `Retry`. The group has an offset, in front of the
first record, when the model begins; what a new group skips is in `Persist`.

### Delivery

The channels as a client sees them. `Begin` is an attempt at a record, which
leaves out none before it; `Deliver` puts an attempt, the current one or one
that was given up, into the channel of a connection of somebody the record is
for, if that attempt is not there yet and, while nothing was given up, behind
earlier records only; `GiveUp` is a caller that stops waiting or a session that
starts again. In `Push`, `Take` and `Retry` are `Begin`, a `TrySend` that finds
room is `Deliver`, and `EarlyReturn`, `GiveUp`, `Restart` and `Crash` are
`GiveUp` the first time; all else leaves the channels and attempts as they are.

### Fleet

`nodes` is the Redis set `connect_nodes:`; a Connect process goes through
`Start` (SADD), `Listen`, `Signal`, `Unregister` (the deferred SREM) and `End`,
or `Die`, which is a kill or any `log.Fatalf`, without the deferred call. SADD
and SREM may take effect more than once, because the Redis client repeats a
command whose reply was lost, and between `Unregister` and `End` the node still
serves; `End` without `Unregister` is an SREM that failed. Either command takes
effect while its process lives, or not at all. `beside`, `removed` and `dirty`
are history: who lived beside whom, whose SREM took effect, and which addresses
were left behind by a process that ended without one. `pool` is
ConnectClientPool, whose GetClient is `Get` under the read lock and `Create`
under the write lock. `phase` is the end of Task's main: `Cancel`,
`CloseGroups`, `CloseAll` with `CloseConn`, `Exit`, in the order of its
deferred calls. A goroutine that an early return leaves behind is `stray`.

### Gateway

`request[k]` is an HTTP handler, `logic[k]` the gRPC call it makes: `Receive`,
`VerifyOk` or `VerifyFails`, for the two handlers that read their body only now
`ReadBody`, then `CallLogic` and `Return`, `Timeout` or
`Disconnect`, while Logic works on its own (`LoginDraw`, `LoginGrant`, which may run again,
`LoginList`, `CreateUser`, `CreateGroup`, `AddGroup`, `DrawId`, `Produce` or
`LogicFails`). A SQL transaction is one action. `MessageId` is nextMessageID
with `SeqSpan` for 2^20; the clock may read anything in `Clock`, backwards
too. `ListUserSmallGroups` selects what the SQL selects. A handler that begins with
its body has it when `Receive` happens: before that nothing has begun that a
property speaks of. The verify handler's Verify
is one step, as SingleLogin has it.

## 4. The runs

| run | constants | checks |
|---|---|---|
| `session` | 2 users, 3 sessions, 3 handlers | `DoubleIndex`, `LoggedOutStaysOut`, `ImplementsSingleLogin`, `NoResurrection`, `LogoutSparesOthers` |
| `presence` | 1 user, 2 nodes, 3 connections, fair | `PooledNotDone`, `NoLeakedConn`, `ConnectionEnds`, `ImplementsRoster` |
| `presence_cleanup` | 1 user, 1 node, 2 connections | `CleanupSparesNewer`: **violated** |
| `rooms` | 2 users, 2 connections, 1 room, 1 broadcast, channel of 1, fair | `NoOrphanRoom`, `EmptyRoomCollected`, `EndedLeftRooms`, `ListAgrees`, `BroadcastWaitFree`, `CommandEnds`, `ImplementsRoomSet` |
| `rooms_newest` | 1 user, 2 connections, 1 room | `NewestIsMember`: **violated** |
| `group_cache` | 2 users, 1 Logic node, 1 Task with 2 goroutines, 2 refresh handlers, 2 calls, Redis may fail, fair | `NoFalseAdmission`, `CleanStaysClean`, `LoadsBounded`, `WaitersHaveLeader`, `NoStaleDenial`, `EventuallyConsistent`, `CallsAnswered` |
| `persist` | 2 Task processes, 2 ids, 2 keys, log of 2, 1 fault, with and without an offset at the start, fair | `CommittedStored`, `AckedStored`, `ImplementsMessageStore` |
| `push` | 3 users, 2 nodes, 4 connections, 3 single-chat records, 1 group and 1 room record, channel and semaphore of 1, 2 disturbances, fair | `QuietDelivered`, `OncePerAttempt`, `InOrder`, `PartitionDrains`, `ImplementsDelivery` |
| `push_order` | the same, 1 disturbance | `StrictOrder`: **violated** |
| `fleet` | 3 Connect processes on 2 addresses, 2 goroutines, 2 clients | `ServingRegistered`, `NoGhostNode`, `NoLeakedClient`, `ClosedUnused` |
| `gateway` | 2 requests, 3 names, 3 sessions, 3 groups, ids of 2 per millisecond, fair | `DeadSessionHarmless`, `OkMeansDone`, `CountMatches`, `IdsDistinct`, `Answered` |
| `login_groups` | the same | `LoginListsGroups`: **violated** |

The type invariants are theorems (section 5), and no run repeats them; nor
`VerifySound`, `DisplacedNeverUnregisters` and `CommitAdvances`, which are
theorems too and part of what `ImplementsSingleLogin`, `ImplementsRoster` and
`ImplementsMessageStore` say. No run checks for deadlock: a server whose clients
are silent, or whose model has used up its connections, ids or log, may stop.

**Bounds.** Three sessions let one user log in twice while another is logged
in; three handlers let a login and a logout run inside a third call. Three
connections of one user give a displaced, a displacing and a third one, on the
same node or on two; users share nothing but their node's end. In `Rooms`,
`Objs` has (room ids - 1) + (connections - 1) + broadcasts + 1 objects: every
other room, reader and broadcast may hold one and there is still one to
allocate, so the bound never blocks a join. `Cap = 1` makes a channel full
after one message. In `GroupCache` two calls make a leader and a waiter, two
goroutines of Task do so too, and two handlers are a refresh beside one that
was given up. In `Persist` a log of two has a
record behind a repeated one, and one fault (`MaxFaults`) is one cancelled,
evicted or crashed session: an eviction is the case in which two sessions
overlap. In `Push` two single-chat records to one user have one between them
that does not decode; a group and a room have one record, which is retried,
repeated after a restart and delivered late all the same. A group has a member
on each of two nodes; one of them
may connect twice to the other node, so that routes move and a connection can
be displaced before it is registered, and a displaced reader join the room
after the newer one. A semaphore of one makes the fan-out
wait; two disturbances are, for example, a call that is given up and a session
that ends, or a list without a member and a node that fails. In `Fleet` two
processes have the same address, and two clients are enough for a second one to
the same node. In `Gateway` the accounts, logins and a group exist at the
start, so that two requests suffice for a race (two logins, two joins, a login
against a message), and a span of two ids wraps. The theorems of section 5 remove all these bounds for the safety properties.

**Fairness.** Only what the runtime and the code's own loops guarantee:
goroutines that can run do run; in `Presence` a read on a closed socket
returns and writePump sees a closed `done`; in `Rooms` strong fairness of a
reader inside a command, because a Go mutex does not starve a waiter, and
nothing of writePump or of broadcasts; in `GroupCache` calls are answered or
time out and a TTL runs out; in `Persist` a session
works, a replaced one hears of it, and MySQL does not refuse an insert for
ever (strong fairness of `InsertOk`; ConsumeClaim retries without end); in
`Push` the consumer's goroutine and Connect's handlers run, and nobody has to
drain a channel, while the disturbances end because their budget does; in
`Gateway` a handler and its timers run, and Logic may hang for ever, as may a
client that owes its body (`ReadBody` is not part of `Handle`). Clients,
peers, commits, Redis failures, restarts and crashes are under no obligation.

**What the four violated runs show.**

* `presence_cleanup`: readPump leaves the pool, the user's new connection is
  pooled and registered, and then the old reader's unconditional DEL removes
  the new route. The comment at `ws_handler.go:192` promises the opposite.
* `rooms_newest`: a joinRoom that a displaced connection had already read runs
  after the new connection's and puts the dead channel back (`room.go:30`).
* `push_order`: a PushMsg is given up after a second, the next message is
  pushed, and then the first handler puts its message in the channel
  (`chatserver.go:67` promises a strict order). `InOrder` says that this, or a
  new session, is the only way.
* `login_groups`: ListUserSmallGroups compares the user's id with the primary
  key of `group_members` (`auth.go:162`), so that a login returns the group of
  whatever row has that number.

## 5. What is proved

Each proof module states an inductive invariant `IInv`, proves
`Init => IInv` and `IInv /\ [Next]_vars => IInv'`, one step per action, and
derives the properties (in `PushProofs` one invariant per property). A
refinement has one lemma per action, which says which abstract step it is, or
that it leaves the abstract state unchanged. The
assumptions are the named `ASSUME`s of the
modules: `None` is no user, session, node or other value, the sets that are
counted are finite, capacities and bounds are numbers.

| module | theorems | what the invariant adds |
|---|---|---|
| `SessionProofs` | `SessionTypeOK`, `SessionDoubleIndex`, `SessionLoggedOut`, `SessionVerifySound`, `SessionNoResurrection`, `SessionLogoutSparesOthers`, `SessionImplementsSingleLogin` | who drew a session id (`Owned`), that one Login at most can still write it and none once it is issued (`OneWriter`), that an ended session has no key (`EndedGone`). Without `OneWriter` a repeated script could revive a session |
| `PresenceProofs` | `PresenceTypeOK`, `PresencePooledNotDone`, `PresenceNoLeakedConn`, `PresenceDisplaced`, `PresenceImplementsRoster` | a pool entry stands at its owner's place and has not been displaced (`PoolOwner`); a displaced connection is past AddClient (`Displaced`), so it never comes back into the pool. The refinement needs both: a connection that leaves the pool by itself was not displaced before |
| `RoomsProofs` | `RoomsTypeOK`, `RoomsNoOrphanRoom`, `RoomsEmptyCollected`, `RoomsEndedLeft`, `RoomsListAgrees`, `RoomsImplementRoomSet` | while JoinRoom holds the lock its Room is the map's (`JoinerLocks`); a Room has one id (`OneIdPerRoom`); a connection sits only in rooms its own goroutine still has on a list (`Tracked`). The refinement adds that a broadcast has no targets before its copy (`NoTargets`) and rests on `NoOrphanRoom`: a Room that the map has lost is empty |
| `GroupCacheProofs` | `GroupCacheTypeOK`, `GroupCacheNoFalseAdmission`, `GroupCacheCleanStaysClean`, `GroupCacheWaitersHaveLeader`, `GroupCacheLoadsBounded`, `GroupCacheNoStaleDenial` | what a load under way has read is part of the table and has every clean user (`SnapsGood`); a call loads exactly while it leads (`OneLeader`) and a Task process waits for one refresh at most (`OneRefresh`), which gives the bound by cardinality |
| `PersistProofs` | `PersistTypeOK`, `PersistCommittedStored`, `PersistCommitAdvances`, `PersistImplementsMessageStore` | an id has one key (`OneKey`), a mark is the session's position and the recognised session is not behind the commit (`Places`), everything before a session's position is stored (`Behind`); for the refinement, that a send that waits for its answer has its record in the log (`Written`) |
| `PushProofs` | `PushTypeOK`, `PushOncePerAttempt`, `PushInOrder`, `PushQuietDelivered`, `PushImplementsDelivery` | an attempt calls a node once and what a call may still deliver is not in the channel yet (`AttemptInv`); while nothing was given up every call is of the current record and whoever it may reach has only earlier ones (`OrderInv`); whoever an undisturbed attempt is for has it, could not be reached by it (a full channel, a failed call, an incomplete list), is in `todo` or is within reach of an awaited call (`QuietInv`). The refinement needs the first two and adds that every record up to the position was tried (`Tried`) and that calls and fan-out name addressees only (`Addressed`) |
| `FleetProofs` | `FleetTypeOK`, `FleetServingRegistered`, `FleetNoGhostNode`, `FleetNoLeakedClient`, `FleetClosedUnused` | processes of one address that live together know each other (`RivalsKnown`), only a leaving one has removed its address (`RemovedLeaves`), a living one is registered unless that happened beside it (`AliveRegistered`); what the pool holds in each phase of the shutdown (`Shutdown`) |
| `GatewayProofs` | `GatewayTypeOK`, `GatewayDeadSessionHarmless`, `GatewayOkMeansDone`, `GatewayCountMatches`, `GatewayIdsDistinct` | the sessions' invariant of SingleLogin (`SessionInv`), how far a request and its Logic call can be apart (`Course`), what a call that got so far has left in the tables (`LeftInv`), in whose name rows and records are (`Written`), one row per member and fresh row ids (`TableInv`), and that the n-th id ends in n modulo the span (`IdInv`) |

`PersistCommittedStored` and `PersistImplementsMessageStore` hold of a new
group as well as of one with an offset. What makes the difference is in the
statements: both speak of the records from `floor` on, and the invariant says
that `floor` moves only while there is no offset, never past the position of
the session that may commit, and that nothing before a session's position and
from `floor` on is missing.

Only model-checked: the liveness properties `ConnectionEnds`, `CommandEnds`,
`EventuallyConsistent`, `CallsAnswered`, `AckedStored`, `PartitionDrains` and
`Answered`, and `BroadcastWaitFree`, since the prover handles neither fairness
nor ENABLED.

## 6. Not modelled

* Plumbing and generated code: configuration, logging, dialling, records and
  stubs; no state that a property depends on.
* Functions without a caller: RevokeActiveSessionForUser, CreateSession and
  GetUserByUsername (`store.go`), RemoveClient (`ws_handler.go`), CloseClient
  (`rpc_client.go`), pushToUser and getUserServerID (`consumer.go`).
* Several Logic processes drawing message ids: they share no counter, so two
  of them may draw the same id in the same millisecond; within one process
  `IdsDistinct` holds.
* A group message with group id 0: RefreshGroupMembersCache refuses it each
  time (`groupserver.go:111`) and the group consumer would retry it for ever;
  SendGroupMessage refuses such an id, so that no record has it.
* A room command that is the JSON `null`: the decoded pointer is nil, and
  `in.Op` (`ws_handler.go:222`) panics and ends the process. Such an end is
  `Restart` in `Presence` and `NodeEnds` in `Push`; `Rooms` is about the life of
  one process.
* The bcrypt comparison: one outcome or the other.
* Message contents, JSON, HTTP and gRPC encodings and log texts, except that a
  Kafka record may fail to decode (`Garbage`) and a body may be refused
  (`Reject`).
