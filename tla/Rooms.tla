------------------------------- MODULE Rooms -------------------------------
(***************************************************************************)
(* Chat rooms on one Connect node (internal/connect/room.go,               *)
(* room_manager.go and the room commands of ws_handler.go's readPump).     *)
(*                                                                         *)
(* RoomManager hashes a room id to a bucket; a bucket has a lock and a map *)
(* from room id to Room object; a Room has a lock of its own and, for each *)
(* member user, the send channel of one connection.  A connection's reader *)
(* goroutine executes the peer's joinRoom and leaveRoom commands one after *)
(* another, and leaves all its rooms when the connection ends.  gRPC       *)
(* goroutines broadcast.                                                   *)
(*                                                                         *)
(* LeaveRoom and BroadcastRoom release the bucket lock between finding a   *)
(* Room and using it, so one action is one critical section.  Room objects *)
(* have an identity: one that nothing refers to may be allocated again.    *)
(* A send channel is named by its connection.                              *)
(***************************************************************************)
EXTENDS Naturals

CONSTANTS
  Users, Conns, RoomIds,
  Objs,          \* Room objects
  Broadcasts,    \* BroadcastRoom calls in progress at the same time
  Buckets, Bucket,  \* bucketByRoomID's result for every room id
  Cap,           \* capacity of Client.Send (256)
  None

ASSUME RoomsAssumption ==
  /\ Bucket \in [RoomIds -> Buckets]
  /\ Cap \in Nat \ {0}
  /\ None \notin Users \cup Conns \cup RoomIds \cup Objs

VARIABLES
  rooms,     \* RoomBucket.rooms of all buckets
  members,   \* Room.index and Room.members: user -> the connection's channel
  lock,      \* the connection whose JoinRoom holds the bucket's mu
  user,      \* Client.UserID
  newest,    \* the user's connection in ConnectionManager.Clients
  pc, arg, ref,  \* the reader goroutine: stage, the room id and the Room it works on
  joined,    \* Client.rooms
  ending,    \* the reader is in leaveAllRooms
  todo,      \* roomIDs still to be left by leaveAllRooms
  queued,    \* len(Client.Send)
  cast       \* the BroadcastRoom calls: stage, sender, Room, targets left

readers == <<user, newest, pc, arg, ref, joined, ending, todo>>
vars == <<rooms, members, lock, readers, queued, cast>>

Idle == [at |-> "idle", from |-> None, ref |-> None, targets |-> {}]

Casts == [at : {"idle", "found", "sending"},
          from : Users \cup {None}, ref : Objs \cup {None}, targets : SUBSET Conns]

\* Stages in which the reader goroutine holds a Room in a local variable.
Holding == {"joining", "leaving", "collect"}

TypeOK ==
  /\ rooms \in [RoomIds -> Objs \cup {None}]
  /\ members \in [Objs -> [Users -> Conns \cup {None}]]
  /\ lock \in [Buckets -> Conns \cup {None}]
  /\ user \in [Conns -> Users \cup {None}]
  /\ newest \in [Users -> Conns \cup {None}]
  /\ pc \in [Conns -> {"free", "reading", "join", "joined", "leave", "left", "drain", "gone"} \cup Holding]
  /\ arg \in [Conns -> RoomIds \cup {None}]
  /\ ref \in [Conns -> Objs \cup {None}]
  /\ joined \in [Conns -> SUBSET RoomIds]
  /\ ending \in [Conns -> BOOLEAN]
  /\ todo \in [Conns -> SUBSET RoomIds]
  /\ queued \in [Conns -> 0 .. Cap]
  /\ cast \in [Broadcasts -> Casts]
  /\ \A c \in Conns :
       /\ pc[c] # "free" => user[c] \in Users
       /\ pc[c] \in {"join", "joined", "leave", "left"} \cup Holding => arg[c] \in RoomIds
       /\ pc[c] \in Holding => ref[c] \in Objs
  /\ \A b \in Broadcasts : cast[b].at = "found" => cast[b].ref \in Objs /\ cast[b].from \in Users

Init ==
  /\ rooms = [r \in RoomIds |-> None]
  /\ members = [o \in Objs |-> [u \in Users |-> None]]
  /\ lock = [b \in Buckets |-> None]
  /\ user = [c \in Conns |-> None]
  /\ newest = [u \in Users |-> None]
  /\ pc = [c \in Conns |-> "free"]
  /\ arg = [c \in Conns |-> None]
  /\ ref = [c \in Conns |-> None]
  /\ joined = [c \in Conns |-> {}]
  /\ ending = [c \in Conns |-> FALSE]
  /\ todo = [c \in Conns |-> {}]
  /\ queued = [c \in Conns |-> 0]
  /\ cast = [b \in Broadcasts |-> Idle]

Move(c, from, to) == pc[c] = from /\ pc' = [pc EXCEPT ![c] = to]

Unlocked(r) == lock[Bucket[r]] = None

Empty(o) == \A u \in Users : members[o][u] = None

\* An object that no map, reader or broadcast refers to.
Unused(o) ==
  /\ \A r \in RoomIds : rooms[r] # o
  /\ \A c \in Conns : ref[c] # o
  /\ \A b \in Broadcasts : cast[b].ref # o

\* NewRoom allocates; which of the unused objects makes no difference.
NewRoom == CHOOSE o \in Objs : Unused(o)

-----------------------------------------------------------------------------
(***************************************************************************)
(* A connection and its commands.                                          *)
(***************************************************************************)

\* ServeWS: the connection becomes the user's newest one and is being read.
Connect(c, u) ==
  /\ Move(c, "free", "reading")
  /\ user' = [user EXCEPT ![c] = u]
  /\ newest' = [newest EXCEPT ![u] = c]
  /\ UNCHANGED <<rooms, members, lock, arg, ref, joined, ending, todo, queued, cast>>

\* readPump reads a joinRoom or leaveRoom command with a valid room id.  A
\* connection that was displaced and closed can still deliver what was read
\* into its buffer.
Command(c, op, r) ==
  /\ Move(c, "reading", op)
  /\ arg' = [arg EXCEPT ![c] = r]
  /\ UNCHANGED <<rooms, members, lock, user, newest, ref, joined, ending, todo, queued, cast>>

\* JoinRoom locks the bucket and finds or creates the Room ...
JoinRoomFind(c) ==
  /\ Move(c, "join", "joining")
  /\ Unlocked(arg[c])
  /\ lock' = [lock EXCEPT ![Bucket[arg[c]]] = c]
  /\ \/ /\ rooms[arg[c]] # None
        /\ ref' = [ref EXCEPT ![c] = rooms[arg[c]]]
        /\ UNCHANGED <<rooms, members>>
     \/ /\ rooms[arg[c]] = None
        /\ \E o \in Objs :
             /\ Unused(o) /\ o = NewRoom
             /\ rooms' = [rooms EXCEPT ![arg[c]] = o]
             /\ members' = [members EXCEPT ![o] = [u \in Users |-> None]]
             /\ ref' = [ref EXCEPT ![c] = o]
  /\ UNCHANGED <<user, newest, arg, joined, ending, todo, queued, cast>>

\* Mutant of JoinRoomJoin: the bucket stays locked.
JoinRoomJoinLocked(c) ==
  /\ Move(c, "joining", "joined")
  /\ members' = [members EXCEPT ![ref[c]][user[c]] = c]
  /\ ref' = [ref EXCEPT ![c] = None]
  /\ UNCHANGED <<rooms, lock, user, newest, arg, joined, ending, todo, queued, cast>>

\* ... and Room.Join sets the user's channel; the bucket is unlocked.
JoinRoomJoin(c) ==
  /\ Move(c, "joining", "joined")
  /\ members' = [members EXCEPT ![ref[c]][user[c]] = c]
  /\ lock' = [lock EXCEPT ![Bucket[arg[c]]] = None]
  /\ ref' = [ref EXCEPT ![c] = None]
  /\ UNCHANGED <<rooms, user, newest, arg, joined, ending, todo, queued, cast>>

\* Mutant of AddRoom: the connection does not remember the room.
AddRoomForgets(c) ==
  /\ Move(c, "joined", "reading")
  /\ arg' = [arg EXCEPT ![c] = None]
  /\ UNCHANGED <<rooms, members, lock, user, newest, ref, joined, ending, todo, queued, cast>>

\* addRoom.
AddRoom(c) ==
  /\ Move(c, "joined", "reading")
  /\ joined' = [joined EXCEPT ![c] = @ \cup {arg[c]}]
  /\ arg' = [arg EXCEPT ![c] = None]
  /\ UNCHANGED <<rooms, members, lock, user, newest, ref, ending, todo, queued, cast>>

\* LeaveRoom looks the Room up under the bucket's read lock.
LeaveRoomFind(c) ==
  /\ pc[c] = "leave"
  /\ Unlocked(arg[c])
  /\ pc' = [pc EXCEPT ![c] = IF rooms[arg[c]] = None THEN "left" ELSE "leaving"]
  /\ ref' = [ref EXCEPT ![c] = rooms[arg[c]]]
  /\ UNCHANGED <<rooms, members, lock, user, newest, arg, joined, ending, todo, queued, cast>>

\* Mutant of LeaveRoomLeave: the emptied Room is left in the map.
LeaveRoomLeaveOnly(c) ==
  /\ Move(c, "leaving", "left")
  /\ members' = [members EXCEPT ![ref[c]][user[c]] = IF @ = c THEN None ELSE @]
  /\ ref' = [ref EXCEPT ![c] = None]
  /\ UNCHANGED <<rooms, lock, user, newest, arg, joined, ending, todo, queued, cast>>

\* Room.Leave removes the user if the channel is this connection's own; if
\* the Room is then empty LeaveRoom goes on to delete it.
LeaveRoomLeave(c) ==
  LET own == members[ref[c]][user[c]] = c IN
  /\ pc[c] = "leaving"
  /\ members' = [members EXCEPT ![ref[c]][user[c]] = IF own THEN None ELSE @]
  /\ \/ /\ \A u \in Users : members'[ref[c]][u] = None
        /\ pc' = [pc EXCEPT ![c] = "collect"]
        /\ UNCHANGED ref
     \/ /\ \E u \in Users : members'[ref[c]][u] # None
        /\ pc' = [pc EXCEPT ![c] = "left"]
        /\ ref' = [ref EXCEPT ![c] = None]
  /\ UNCHANGED <<rooms, lock, user, newest, arg, joined, ending, todo, queued, cast>>

\* Mutant of LeaveRoomCollect: emptiness is not checked a second time.
LeaveRoomCollectBlind(c) ==
  /\ Move(c, "collect", "left")
  /\ Unlocked(arg[c])
  /\ rooms' = [rooms EXCEPT ![arg[c]] = IF @ = ref[c] THEN None ELSE @]
  /\ ref' = [ref EXCEPT ![c] = None]
  /\ UNCHANGED <<members, lock, user, newest, arg, joined, ending, todo, queued, cast>>

\* Under the bucket's lock LeaveRoom deletes the Room if it is still the one
\* of this id and still empty.
LeaveRoomCollect(c) ==
  /\ Move(c, "collect", "left")
  /\ Unlocked(arg[c])
  /\ rooms' = [rooms EXCEPT ![arg[c]] = IF @ = ref[c] /\ Empty(ref[c]) THEN None ELSE @]
  /\ ref' = [ref EXCEPT ![c] = None]
  /\ UNCHANGED <<members, lock, user, newest, arg, joined, ending, todo, queued, cast>>

\* After LeaveRoom: removeRoom for a command, the next room of leaveAllRooms.
LeaveDone(c) ==
  /\ pc[c] = "left"
  /\ IF ending[c]
     THEN /\ pc' = [pc EXCEPT ![c] = "drain"]
          /\ UNCHANGED joined
     ELSE /\ pc' = [pc EXCEPT ![c] = "reading"]
          /\ joined' = [joined EXCEPT ![c] = @ \ {arg[c]}]
  /\ arg' = [arg EXCEPT ![c] = None]
  /\ UNCHANGED <<rooms, members, lock, user, newest, ref, ending, todo, queued, cast>>

\* Mutant of ReadError: the reader ends without leaving its rooms.
ReadErrorStays(c) ==
  /\ Move(c, "reading", "drain")
  /\ ending' = [ending EXCEPT ![c] = TRUE]
  /\ UNCHANGED <<rooms, members, lock, user, newest, arg, ref, joined, todo, queued, cast>>

\* ReadMessage fails: leaveAllRooms takes the connection's room ids ...
ReadError(c) ==
  /\ Move(c, "reading", "drain")
  /\ ending' = [ending EXCEPT ![c] = TRUE]
  /\ todo' = [todo EXCEPT ![c] = joined[c]]
  /\ joined' = [joined EXCEPT ![c] = {}]
  /\ UNCHANGED <<rooms, members, lock, user, newest, arg, ref, queued, cast>>

\* ... and leaves them one by one, in the map's order, which is arbitrary.
LeaveNext(c, r) ==
  /\ Move(c, "drain", "leave")
  /\ r \in todo[c]
  /\ todo' = [todo EXCEPT ![c] = @ \ {r}]
  /\ arg' = [arg EXCEPT ![c] = r]
  /\ UNCHANGED <<rooms, members, lock, user, newest, ref, joined, ending, queued, cast>>

\* readPump returns; its cleanup takes the connection out of the pool.
Quit(c) ==
  /\ Move(c, "drain", "gone")
  /\ todo[c] = {}
  /\ newest' = [newest EXCEPT ![user[c]] = IF @ = c THEN None ELSE @]
  /\ UNCHANGED <<rooms, members, lock, user, arg, ref, joined, ending, todo, queued, cast>>

\* writePump takes a message from the channel.
Drain(c) ==
  /\ pc[c] # "gone"
  /\ queued[c] > 0
  /\ queued' = [queued EXCEPT ![c] = @ - 1]
  /\ UNCHANGED <<rooms, members, lock, readers, cast>>

-----------------------------------------------------------------------------
(***************************************************************************)
(* BroadcastRoom.                                                          *)
(***************************************************************************)

\* The Room is looked up under the bucket's read lock.
BroadcastFind(b, r, u) ==
  /\ cast[b].at = "idle"
  /\ Unlocked(r)
  /\ rooms[r] # None
  /\ cast' = [cast EXCEPT ![b] = [at |-> "found", from |-> u, ref |-> rooms[r], targets |-> {}]]
  /\ UNCHANGED <<rooms, members, lock, readers, queued>>

\* Room.Broadcast copies the channels of the members other than the sender.
BroadcastSnapshot(b) ==
  /\ cast[b].at = "found"
  /\ cast' = [cast EXCEPT ![b] =
       [Idle EXCEPT !.at = "sending",
                    !.targets = {members[cast[b].ref][u] : u \in Users \ {cast[b].from}} \ {None}]]
  /\ UNCHANGED <<rooms, members, lock, readers, queued>>

\* Mutant of BroadcastSend: the send blocks while the channel is full.
BroadcastSendBlocking(b, c) ==
  /\ cast[b].at = "sending"
  /\ c \in cast[b].targets
  /\ queued[c] < Cap
  /\ queued' = [queued EXCEPT ![c] = @ + 1]
  /\ cast' = [cast EXCEPT ![b].targets = @ \ {c}]
  /\ UNCHANGED <<rooms, members, lock, readers>>

\* A non-blocking send to one target: a full channel is skipped.
BroadcastSend(b, c) ==
  /\ cast[b].at = "sending"
  /\ c \in cast[b].targets
  /\ queued' = [queued EXCEPT ![c] = IF @ < Cap THEN @ + 1 ELSE @]
  /\ cast' = [cast EXCEPT ![b].targets = @ \ {c}]
  /\ UNCHANGED <<rooms, members, lock, readers>>

BroadcastReturn(b) ==
  /\ cast[b].at = "sending"
  /\ cast[b].targets = {}
  /\ cast' = [cast EXCEPT ![b] = Idle]
  /\ UNCHANGED <<rooms, members, lock, readers, queued>>

\* The steps of a reader that is inside JoinRoom, LeaveRoom or leaveAllRooms.
Working(c) ==
  \/ JoinRoomFind(c)
  \/ JoinRoomJoin(c)
  \/ AddRoom(c)
  \/ LeaveRoomFind(c)
  \/ LeaveRoomLeave(c)
  \/ LeaveRoomCollect(c)
  \/ LeaveDone(c)
  \/ \E r \in RoomIds : LeaveNext(c, r)
  \/ Quit(c)

\* The steps of a broadcast after its lookup.
Fanout(b) ==
  \/ BroadcastSnapshot(b)
  \/ \E c \in Conns : BroadcastSend(b, c)
  \/ BroadcastReturn(b)

Next ==
  \/ \E c \in Conns :
       \/ \E u \in Users : Connect(c, u)
       \/ \E op \in {"join", "leave"}, r \in RoomIds : Command(c, op, r)
       \/ ReadError(c)
       \/ Working(c)
       \/ Drain(c)
  \/ \E b \in Broadcasts :
       \/ \E r \in RoomIds, u \in Users : BroadcastFind(b, r, u)
       \/ Fanout(b)

Spec == Init /\ [][Next]_vars

(***************************************************************************)
(* Readers that can run do run, and a Go mutex does not starve a waiter    *)
(* (hence the strong fairness: a bucket lock is awaited).  Nothing is      *)
(* assumed of the peers and nothing of writePump.                          *)
(***************************************************************************)
Fairness == \A c \in Conns : SF_vars(Working(c))

FairSpec == Spec /\ Fairness

-----------------------------------------------------------------------------
(***************************************************************************)
(* Properties.                                                             *)
(***************************************************************************)

\* A Room with members is the one its bucket's map leads to: LeaveRoom's
\* double check never deletes a Room that somebody joined in the meantime, so
\* a goroutine whose Room is out of date (LeaveRoom, BroadcastRoom) misses
\* nobody.
NoOrphanRoom ==
  \A o \in Objs : ~Empty(o) => \E r \in RoomIds : rooms[r] = o

\* Empty rooms are not leaked: one that is in the map has just been created by
\* a JoinRoom that is about to add its member, or a LeaveRoom that found it
\* empty is about to delete it.
EmptyRoomCollected ==
  \A r \in RoomIds : rooms[r] # None /\ Empty(rooms[r]) =>
    \E c \in Conns : pc[c] \in {"joining", "collect"} /\ arg[c] = r /\ ref[c] = rooms[r]

\* A connection whose reader has returned is a member of no room: its channel,
\* which nobody drains any more, receives no broadcasts.
EndedLeftRooms ==
  \A c \in Conns : pc[c] = "gone" => \A o \in Objs, u \in Users : members[o][u] # c

\* The connection's own list agrees with the rooms: a user with a single
\* connection is a member of exactly the rooms in that connection's list.
ListAgrees ==
  \A c \in Conns :
    pc[c] = "reading" /\ (\A d \in Conns \ {c} : user[d] # user[c]) =>
      \A r \in RoomIds :
        r \in joined[c] <=> rooms[r] # None /\ members[rooms[r]][user[c]] = c

\* A broadcast under way can always go on, although its member's channel is
\* full, nobody drains it and other goroutines hold locks (the slow-connection
\* protection of Room.Broadcast).
BroadcastWaitFree ==
  \A b \in Broadcasts : cast[b].at # "idle" => ENABLED Fanout(b)

\* Every JoinRoom and LeaveRoom call returns, although all wait for one bucket
\* lock, and a reader whose connection ended leaves all its rooms and returns.
CommandEnds ==
  \A c \in Conns : []<>(pc[c] \in {"free", "reading", "gone"})

\* What Join's comment promises of a reconnecting user: the newest connection,
\* once it has joined, is the member.
NewestIsMember ==
  \A u \in Users :
    LET c == newest[u] IN
    c # None /\ pc[c] = "reading" =>
      \A r \in joined[c] : rooms[r] # None /\ members[rooms[r]][u] = c

-----------------------------------------------------------------------------
(***************************************************************************)
(* The refinement.  The Rooms that the map leads to are the table, and a   *)
(* LeaveRoom has taken effect when Room.Leave has, or when there is no     *)
(* Room.  A BroadcastRoom whose Room was deleted before it could copy the  *)
(* members took effect at the deletion: the Room was empty then.           *)
(***************************************************************************)
RoomOf(o) == CHOOSE r \in RoomIds : rooms[r] = o

Slots == [r \in RoomIds |-> IF rooms[r] = None THEN [u \in Users |-> None] ELSE members[rooms[r]]]

\* The command that a reader at stage p executes for room r.
Executes(p, r) ==
  CASE p \in {"join", "joining"} -> [op |-> "join", room |-> r]
    [] p \in {"leave", "leaving"} -> [op |-> "leave", room |-> r]
    [] p \in {"joined", "collect", "left"} -> [op |-> "done", room |-> r]
    [] OTHER -> [op |-> "none", room |-> None]

Casting ==
  [b \in Broadcasts |->
     IF cast[b].at = "found" /\ \E r \in RoomIds : rooms[r] = cast[b].ref
     THEN [at |-> "called", room |-> RoomOf(cast[b].ref), from |-> cast[b].from, targets |-> {}]
     ELSE [at |-> IF cast[b].at = "idle" THEN "idle" ELSE "sending",
           room |-> None, from |-> None, targets |-> cast[b].targets]]

Calls == [c \in Conns |-> Executes(pc[c], arg[c])]

Over == {c \in Conns : pc[c] = "gone"}

RS == INSTANCE RoomSet WITH member <- Slots, call <- Calls, ended <- Over, cast <- Casting

\* To its callers a room is one table: every join, leave and broadcast takes
\* effect in one instant between its call and its return, although a Room is
\* looked up, used and deleted under different locks (JoinRoom, LeaveRoom,
\* BroadcastRoom).
ImplementsRoomSet == RS!Spec

=============================================================================
