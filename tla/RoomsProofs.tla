---------------------------- MODULE RoomsProofs ----------------------------
(***************************************************************************)
(* Rooms, for any number of users, connections, rooms, buckets and         *)
(* broadcasts: LeaveRoom's double check never loses a member and never     *)
(* leaks an empty Room, an ended connection is a member nowhere, and the   *)
(* operations are those of RoomSet.                                        *)
(*                                                                         *)
(* The invariant follows a Room object from the map to the goroutines that *)
(* still refer to it: a reference may be out of date, but then the object  *)
(* is not the map's any more and, by NoOrphanRoom, is empty; and the slot  *)
(* of a connection lies in a room the connection's own goroutine still     *)
(* has on its list (Tracked).                                              *)
(***************************************************************************)
EXTENDS Rooms, TLAPS

\* While JoinRoom holds the bucket's lock, its Room stays the map's.
JoinerLocks ==
  \A c \in Conns : pc[c] = "joining" => lock[Bucket[arg[c]]] = c /\ rooms[arg[c]] = ref[c]

\* A Room is the map's under one id, the id its users know it by.
OneIdPerRoom ==
  /\ \A r, s \in RoomIds : rooms[r] # None /\ rooms[r] = rooms[s] => r = s
  /\ \A c \in Conns, r \in RoomIds : pc[c] \in Holding /\ rooms[r] = ref[c] => r = arg[c]

\* References to Rooms are dropped when their use is over.
RefsDropped ==
  \A c \in Conns : pc[c] \notin Holding => ref[c] = None

\* The reader goroutine of c knows that c may still be a member of room r.
Listed(c, r) ==
  \/ r \in joined[c]
  \/ r \in todo[c]
  \/ pc[c] \in {"joined", "leave", "leaving"} /\ arg[c] = r

\* A connection sits in the slot of its own user, in a Room of a listed id.
Tracked ==
  \A o \in Objs, u \in Users : members[o][u] # None =>
    /\ user[members[o][u]] = u
    /\ \E r \in RoomIds : rooms[r] = o /\ Listed(members[o][u], r)

\* LeaveRoom works on the Room the connection sits in, and after Room.Leave
\* the connection does not sit in the room it left.
LeaveFindsOwn ==
  \A c \in Conns, o \in Objs, u \in Users :
    members[o][u] = c /\ pc[c] \in {"leaving", "collect", "left"} /\ rooms[arg[c]] = o =>
      pc[c] = "leaving" /\ ref[c] = o

\* What the reader's stages say about its lists.
Lists ==
  \A c \in Conns :
    /\ pc[c] = "free" => user[c] = None
    /\ pc[c] \in {"free", "gone"} => joined[c] = {} /\ todo[c] = {}
    /\ ending[c] => joined[c] = {} /\ pc[c] \in {"drain", "leave", "leaving", "collect", "left", "gone"}
    /\ ~ending[c] => todo[c] = {} /\ pc[c] \notin {"drain", "gone"}

\* The only connection of its user.
Sole(c) == pc[c] # "free" /\ \A d \in Conns \ {c} : user[d] # user[c]

\* The only connection of a user sits in every room of its list.
SoleSits ==
  \A c \in Conns, r \in RoomIds :
    /\ Sole(c)
    /\ r \in joined[c] \/ (pc[c] = "joined" /\ arg[c] = r)
    /\ ~(pc[c] \in {"collect", "left"} /\ arg[c] = r)
    => rooms[r] # None /\ members[rooms[r]][user[c]] = c

IInv ==
  /\ TypeOK
  /\ JoinerLocks
  /\ OneIdPerRoom
  /\ RefsDropped
  /\ Tracked
  /\ LeaveFindsOwn
  /\ Lists
  /\ EmptyRoomCollected
  /\ SoleSits

\* What JoinRoom's lookup does, whether it finds or creates the Room.
FindEffect(c) ==
  /\ pc[c] = "join" /\ pc' = [pc EXCEPT ![c] = "joining"]
  /\ arg[c] \in RoomIds
  /\ lock' = [lock EXCEPT ![Bucket[arg[c]]] = c]
  /\ ref' \in [Conns -> Objs \cup {None}]
  /\ ref' = [ref EXCEPT ![c] = rooms'[arg[c]]]
  /\ rooms' \in [RoomIds -> Objs \cup {None}]
  /\ rooms'[arg[c]] \in Objs
  /\ \A r \in RoomIds : r # arg[c] => rooms'[r] = rooms[r] /\ rooms'[arg[c]] # rooms[r]
  /\ rooms[arg[c]] # None => rooms'[arg[c]] = rooms[arg[c]]
  /\ rooms[arg[c]] = None => \A d \in Conns : ref[d] # rooms'[arg[c]]
  /\ members' \in [Objs -> [Users -> Conns \cup {None}]]
  /\ \A o \in Objs : o # rooms'[arg[c]] => members'[o] = members[o]
  /\ \A o \in Objs, u \in Users : members'[o][u] # None => members'[o][u] = members[o][u]
  /\ UNCHANGED <<user, newest, arg, joined, ending, todo, queued, cast>>

\* A new connection keeps the inductive invariant.
LEMMA ConnectIInv ==
  ASSUME IInv, NEW c \in Conns, NEW u \in Users, Connect(c, u)
  PROVE  IInv'
<1>1. TypeOK'
  BY RoomsAssumption DEF IInv, TypeOK, Holding, Connect, Move
<1>2. JoinerLocks'
  BY RoomsAssumption DEF IInv, TypeOK, JoinerLocks, Connect, Move
<1>3. OneIdPerRoom'
  BY RoomsAssumption DEF IInv, TypeOK, OneIdPerRoom, RefsDropped, Holding, Connect, Move
<1>4. RefsDropped'
  BY RoomsAssumption DEF IInv, TypeOK, RefsDropped, Holding, Connect, Move
<1>5. Tracked'
  BY RoomsAssumption DEF IInv, TypeOK, Tracked, Listed, Lists, OneIdPerRoom, LeaveFindsOwn, Holding, Connect, Move
<1>6. LeaveFindsOwn'
  BY RoomsAssumption DEF IInv, TypeOK, LeaveFindsOwn, Tracked, OneIdPerRoom, Holding, Listed, Connect, Move
<1>7. Lists'
  BY RoomsAssumption DEF IInv, TypeOK, Lists, Holding, Connect, Move
<1>8. EmptyRoomCollected'
  BY RoomsAssumption DEF IInv, TypeOK, EmptyRoomCollected, OneIdPerRoom, JoinerLocks, Holding, Empty, Connect, Move
<1>9. SoleSits'
  BY RoomsAssumption DEF IInv, TypeOK, SoleSits, Sole, Tracked, OneIdPerRoom, Holding, Lists, JoinerLocks, Empty, Connect, Move
<1> QED
  BY <1>1, <1>2, <1>3, <1>4, <1>5, <1>6, <1>7, <1>8, <1>9 DEF IInv

\* Reading a command keeps the inductive invariant.
LEMMA CommandIInv ==
  ASSUME IInv, NEW c \in Conns, NEW op \in {"join", "leave"}, NEW r \in RoomIds, Command(c, op, r)
  PROVE  IInv'
<1>1. TypeOK'
  BY RoomsAssumption DEF IInv, TypeOK, Holding, Command, Move
<1>2. JoinerLocks'
  BY RoomsAssumption DEF IInv, TypeOK, JoinerLocks, Command, Move
<1>3. OneIdPerRoom'
  BY RoomsAssumption DEF IInv, TypeOK, OneIdPerRoom, RefsDropped, Holding, Command, Move
<1>4. RefsDropped'
  BY RoomsAssumption DEF IInv, TypeOK, RefsDropped, Holding, Command, Move
<1>5. Tracked'
  BY RoomsAssumption, SMTT(20) DEF IInv, TypeOK, Tracked, Listed, Lists, OneIdPerRoom, LeaveFindsOwn, Holding, Command, Move
<1>6. LeaveFindsOwn'
  BY RoomsAssumption DEF IInv, TypeOK, LeaveFindsOwn, Tracked, OneIdPerRoom, Holding, Listed, Command, Move
<1>7. Lists'
  BY RoomsAssumption DEF IInv, TypeOK, Lists, Holding, Command, Move
<1>8. EmptyRoomCollected'
  BY RoomsAssumption DEF IInv, TypeOK, EmptyRoomCollected, OneIdPerRoom, JoinerLocks, Holding, Empty, Command, Move
<1>9. SoleSits'
  BY RoomsAssumption DEF IInv, TypeOK, SoleSits, Sole, Tracked, OneIdPerRoom, Holding, Lists, JoinerLocks, Empty, Command, Move
<1> QED
  BY <1>1, <1>2, <1>3, <1>4, <1>5, <1>6, <1>7, <1>8, <1>9 DEF IInv

\* The end of a connection keeps the inductive invariant.
LEMMA ReadErrorIInv ==
  ASSUME IInv, NEW c \in Conns, ReadError(c)
  PROVE  IInv'
<1>1. TypeOK'
  BY RoomsAssumption DEF IInv, TypeOK, Holding, ReadError, Move
<1>2. JoinerLocks'
  BY RoomsAssumption DEF IInv, TypeOK, JoinerLocks, ReadError, Move
<1>3. OneIdPerRoom'
  BY RoomsAssumption DEF IInv, TypeOK, OneIdPerRoom, RefsDropped, Holding, ReadError, Move
<1>4. RefsDropped'
  BY RoomsAssumption DEF IInv, TypeOK, RefsDropped, Holding, ReadError, Move
<1>5. Tracked'
  <2>1. \A d \in Conns, r1 \in RoomIds : Listed(d, r1) => Listed(d, r1)'
    BY RoomsAssumption DEF IInv, TypeOK, Lists, Listed, Holding, ReadError, Move
  <2>2. UNCHANGED <<rooms, members, user>>
    BY DEF ReadError
  <2> QED
    BY <2>1, <2>2 DEF IInv, TypeOK, Tracked
<1>6. LeaveFindsOwn'
  BY RoomsAssumption DEF IInv, TypeOK, LeaveFindsOwn, Tracked, OneIdPerRoom, Holding, Listed, ReadError, Move
<1>7. Lists'
  BY RoomsAssumption DEF IInv, TypeOK, Lists, Holding, ReadError, Move
<1>8. EmptyRoomCollected'
  BY RoomsAssumption DEF IInv, TypeOK, EmptyRoomCollected, OneIdPerRoom, JoinerLocks, Holding, Empty, ReadError, Move
<1>9. SoleSits'
  BY RoomsAssumption DEF IInv, TypeOK, SoleSits, Sole, Tracked, OneIdPerRoom, Holding, Lists, JoinerLocks, Empty, ReadError, Move
<1> QED
  BY <1>1, <1>2, <1>3, <1>4, <1>5, <1>6, <1>7, <1>8, <1>9 DEF IInv

\* JoinRoom's lookup or creation keeps the inductive invariant.
LEMMA JoinRoomFindIInv ==
  ASSUME IInv, NEW c \in Conns, JoinRoomFind(c)
  PROVE  IInv'
<1>0. FindEffect(c)
  <2>1. /\ pc[c] = "join" /\ pc' = [pc EXCEPT ![c] = "joining"]
        /\ arg[c] \in RoomIds
        /\ lock' = [lock EXCEPT ![Bucket[arg[c]]] = c]
        /\ UNCHANGED <<user, newest, arg, joined, ending, todo, queued, cast>>
    BY DEF JoinRoomFind, Move, IInv, TypeOK
  <2>2. CASE /\ rooms[arg[c]] # None
             /\ ref' = [ref EXCEPT ![c] = rooms[arg[c]]]
             /\ UNCHANGED <<rooms, members>>
    BY <2>1, <2>2 DEF IInv, TypeOK, OneIdPerRoom, FindEffect
  <2>3. ASSUME rooms[arg[c]] = None, NEW o \in Objs, Unused(o),
               rooms' = [rooms EXCEPT ![arg[c]] = o],
               members' = [members EXCEPT ![o] = [u \in Users |-> None]],
               ref' = [ref EXCEPT ![c] = o]
        PROVE  FindEffect(c)
    BY <2>1, <2>3 DEF IInv, TypeOK, Unused, FindEffect
  <2> QED
    BY <2>2, <2>3 DEF JoinRoomFind
<1>1. TypeOK'
  BY <1>0, RoomsAssumption DEF IInv, TypeOK, Holding, FindEffect
<1>2. JoinerLocks'
  BY RoomsAssumption, SMTT(20) DEF IInv, TypeOK, JoinerLocks, JoinRoomFind, Move, Unused, Unlocked
<1>3. OneIdPerRoom'
  <2>1. \A r, s \in RoomIds : rooms'[r] # None /\ rooms'[r] = rooms'[s] => r = s
    BY <1>0 DEF IInv, OneIdPerRoom, FindEffect
  <2>2. ASSUME NEW d \in Conns, NEW r \in RoomIds, pc'[d] \in Holding, rooms'[r] = ref'[d]
        PROVE  r = arg'[d]
    <3>1. CASE d = c
      BY <1>0, <2>1, <2>2, <3>1, RoomsAssumption DEF IInv, TypeOK, FindEffect
    <3>2. CASE d # c
      <4>1. pc'[d] = pc[d] /\ ref'[d] = ref[d] /\ arg'[d] = arg[d]
        BY <1>0, <3>2 DEF IInv, TypeOK, FindEffect
      <4>2. rooms'[r] = rooms[r]
        BY <1>0, <2>2, <4>1 DEF FindEffect
      <4> QED
        BY <2>2, <4>1, <4>2 DEF IInv, OneIdPerRoom
    <3> QED
      BY <3>1, <3>2
  <2> QED
    BY <2>1, <2>2 DEF OneIdPerRoom
<1>4. RefsDropped'
  BY RoomsAssumption DEF IInv, TypeOK, RefsDropped, Holding, JoinRoomFind, Move, Unused, Unlocked
<1>5. Tracked'
  <2>1. \A d \in Conns, r \in RoomIds : Listed(d, r) => Listed(d, r)'
    BY <1>0 DEF IInv, TypeOK, Listed, FindEffect
  <2> SUFFICES ASSUME NEW o \in Objs, NEW u \in Users, members'[o][u] # None
               PROVE  /\ user'[members'[o][u]] = u
                      /\ \E r \in RoomIds : rooms'[r] = o /\ Listed(members[o][u], r)'
    BY DEF Tracked
  <2>2. members'[o][u] = members[o][u] /\ members[o][u] \in Conns
    BY <1>0 DEF IInv, TypeOK, FindEffect
  <2>3. PICK r \in RoomIds : rooms[r] = o /\ Listed(members[o][u], r)
    BY <2>2 DEF IInv, Tracked
  <2>4. rooms'[r] = o
    BY <1>0, <2>3, RoomsAssumption DEF IInv, TypeOK, FindEffect
  <2> QED
    BY <1>0, <2>1, <2>2, <2>3, <2>4 DEF IInv, Tracked, Listed, FindEffect
<1>6. LeaveFindsOwn'
  BY RoomsAssumption DEF IInv, TypeOK, LeaveFindsOwn, Tracked, OneIdPerRoom, Holding, Listed, JoinRoomFind, Move, Unused, Unlocked
<1>7. Lists'
  BY RoomsAssumption DEF IInv, TypeOK, Lists, Holding, JoinRoomFind, Move, Unused, Unlocked
<1>8. EmptyRoomCollected'
  <2> SUFFICES ASSUME NEW r \in RoomIds, rooms'[r] # None, Empty(rooms[r])'
               PROVE  \E d \in Conns : pc'[d] \in {"joining", "collect"} /\ arg'[d] = r /\ ref'[d] = rooms'[r]
    BY DEF EmptyRoomCollected
  <2>1. CASE r = arg[c]
    BY <1>0, <2>1 DEF IInv, TypeOK, FindEffect
  <2>2. CASE r # arg[c]
    <3>1. rooms'[r] = rooms[r] /\ rooms[r] \in Objs
      BY <1>0, <2>2 DEF IInv, TypeOK, FindEffect
    <3>2. members'[rooms[r]] = members[rooms[r]]
      BY <1>0, <2>2, <3>1 DEF IInv, TypeOK, FindEffect
    <3>3. PICK d \in Conns : pc[d] \in {"joining", "collect"} /\ arg[d] = r /\ ref[d] = rooms[r]
      BY <3>1, <3>2 DEF IInv, EmptyRoomCollected, Empty
    <3> QED
      BY <1>0, <3>1, <3>3 DEF IInv, TypeOK, FindEffect
  <2> QED
    BY <2>1, <2>2
<1>9. SoleSits'
  BY RoomsAssumption DEF IInv, TypeOK, SoleSits, Sole, Tracked, OneIdPerRoom, Holding, Lists, JoinerLocks, Empty, JoinRoomFind, Move, Unused, Unlocked
<1> QED
  BY <1>1, <1>2, <1>3, <1>4, <1>5, <1>6, <1>7, <1>8, <1>9 DEF IInv

\* Room.Join under the bucket lock keeps the inductive invariant.
LEMMA JoinRoomJoinIInv ==
  ASSUME IInv, NEW c \in Conns, JoinRoomJoin(c)
  PROVE  IInv'
<1>0. /\ pc[c] = "joining" /\ pc' = [pc EXCEPT ![c] = "joined"]
      /\ arg[c] \in RoomIds /\ ref[c] \in Objs /\ user[c] \in Users
      /\ members' = [members EXCEPT ![ref[c]][user[c]] = c]
      /\ UNCHANGED <<rooms, user, newest, arg, joined, ending, todo, queued, cast>>
  BY DEF JoinRoomJoin, Move, IInv, TypeOK, Holding
<1>1. TypeOK'
  BY RoomsAssumption DEF IInv, TypeOK, Holding, JoinRoomJoin, Move
<1>2. JoinerLocks'
  BY RoomsAssumption DEF IInv, TypeOK, JoinerLocks, JoinRoomJoin, Move
<1>3. OneIdPerRoom'
  BY RoomsAssumption DEF IInv, TypeOK, OneIdPerRoom, RefsDropped, Holding, JoinRoomJoin, Move
<1>4. RefsDropped'
  BY RoomsAssumption DEF IInv, TypeOK, RefsDropped, Holding, JoinRoomJoin, Move
<1>5. Tracked'
  <2> SUFFICES ASSUME NEW o \in Objs, NEW u \in Users, members'[o][u] # None
               PROVE  /\ user'[members'[o][u]] = u
                      /\ \E r \in RoomIds : rooms'[r] = o /\ Listed(members[o][u], r)'
    BY DEF Tracked
  <2>1. CASE o = ref[c] /\ u = user[c]
    <3>1. members'[o][u] = c /\ user'[c] = u
      BY <1>0, <2>1 DEF IInv, TypeOK
    <3>2. rooms'[arg[c]] = o /\ arg[c] \in RoomIds /\ pc'[c] = "joined" /\ arg'[c] = arg[c]
      BY <1>0, <2>1 DEF IInv, TypeOK, JoinerLocks
    <3> QED
      BY <3>1, <3>2 DEF Listed
  <2>2. CASE ~(o = ref[c] /\ u = user[c])
    <3>1. members'[o][u] = members[o][u] /\ members[o][u] \in Conns
      BY <1>0, <2>2 DEF IInv, TypeOK
    <3>2. \A d \in Conns, r \in RoomIds : Listed(d, r) => Listed(d, r)'
      BY <1>0 DEF IInv, TypeOK, Listed
    <3> QED
      BY <1>0, <3>1, <3>2 DEF IInv, Tracked, Listed
  <2> QED
    BY <2>1, <2>2
<1>6. LeaveFindsOwn'
  BY RoomsAssumption DEF IInv, TypeOK, LeaveFindsOwn, Tracked, OneIdPerRoom, Holding, Listed, JoinRoomJoin, Move
<1>7. Lists'
  BY RoomsAssumption DEF IInv, TypeOK, Lists, Holding, JoinRoomJoin, Move
<1>8. EmptyRoomCollected'
  BY RoomsAssumption DEF IInv, TypeOK, EmptyRoomCollected, OneIdPerRoom, JoinerLocks, Holding, Empty, JoinRoomJoin, Move
<1>9. SoleSits'
  BY RoomsAssumption DEF IInv, TypeOK, SoleSits, Sole, Tracked, OneIdPerRoom, Holding, Lists, JoinerLocks, Empty, JoinRoomJoin, Move
<1> QED
  BY <1>1, <1>2, <1>3, <1>4, <1>5, <1>6, <1>7, <1>8, <1>9 DEF IInv

\* addRoom keeps the inductive invariant.
LEMMA AddRoomIInv ==
  ASSUME IInv, NEW c \in Conns, AddRoom(c)
  PROVE  IInv'
<1>1. TypeOK'
  BY RoomsAssumption DEF IInv, TypeOK, Holding, AddRoom, Move
<1>2. JoinerLocks'
  BY RoomsAssumption DEF IInv, TypeOK, JoinerLocks, AddRoom, Move
<1>3. OneIdPerRoom'
  BY RoomsAssumption DEF IInv, TypeOK, OneIdPerRoom, RefsDropped, Holding, AddRoom, Move
<1>4. RefsDropped'
  BY RoomsAssumption DEF IInv, TypeOK, RefsDropped, Holding, AddRoom, Move
<1>5. Tracked'
  BY RoomsAssumption DEF IInv, TypeOK, Tracked, Listed, Lists, OneIdPerRoom, LeaveFindsOwn, Holding, AddRoom, Move
<1>6. LeaveFindsOwn'
  BY RoomsAssumption DEF IInv, TypeOK, LeaveFindsOwn, Tracked, OneIdPerRoom, Holding, Listed, AddRoom, Move
<1>7. Lists'
  BY RoomsAssumption DEF IInv, TypeOK, Lists, Holding, AddRoom, Move
<1>8. EmptyRoomCollected'
  BY RoomsAssumption DEF IInv, TypeOK, EmptyRoomCollected, OneIdPerRoom, JoinerLocks, Holding, Empty, AddRoom, Move
<1>9. SoleSits'
  BY RoomsAssumption DEF IInv, TypeOK, SoleSits, Sole, Tracked, OneIdPerRoom, Holding, Lists, JoinerLocks, Empty, AddRoom, Move
<1> QED
  BY <1>1, <1>2, <1>3, <1>4, <1>5, <1>6, <1>7, <1>8, <1>9 DEF IInv

\* LeaveRoom's lookup keeps the inductive invariant.
LEMMA LeaveRoomFindIInv ==
  ASSUME IInv, NEW c \in Conns, LeaveRoomFind(c)
  PROVE  IInv'
<1>1. TypeOK'
  BY RoomsAssumption DEF IInv, TypeOK, Holding, LeaveRoomFind, Unlocked
<1>2. JoinerLocks'
  BY RoomsAssumption DEF IInv, TypeOK, JoinerLocks, LeaveRoomFind, Unlocked
<1>3. OneIdPerRoom'
  BY RoomsAssumption DEF IInv, TypeOK, OneIdPerRoom, RefsDropped, Holding, LeaveRoomFind, Unlocked
<1>4. RefsDropped'
  BY RoomsAssumption DEF IInv, TypeOK, RefsDropped, Holding, LeaveRoomFind, Unlocked
<1>5. Tracked'
  BY RoomsAssumption DEF IInv, TypeOK, Tracked, Listed, Lists, OneIdPerRoom, LeaveFindsOwn, Holding, LeaveRoomFind, Unlocked
<1>6. LeaveFindsOwn'
  BY RoomsAssumption DEF IInv, TypeOK, LeaveFindsOwn, Tracked, OneIdPerRoom, Holding, Listed, LeaveRoomFind, Unlocked
<1>7. Lists'
  BY RoomsAssumption DEF IInv, TypeOK, Lists, Holding, LeaveRoomFind, Unlocked
<1>8. EmptyRoomCollected'
  BY RoomsAssumption DEF IInv, TypeOK, EmptyRoomCollected, OneIdPerRoom, JoinerLocks, Holding, Empty, LeaveRoomFind, Unlocked
<1>9. SoleSits'
  BY RoomsAssumption DEF IInv, TypeOK, SoleSits, Sole, Tracked, OneIdPerRoom, Holding, Lists, JoinerLocks, Empty, LeaveRoomFind, Unlocked
<1> QED
  BY <1>1, <1>2, <1>3, <1>4, <1>5, <1>6, <1>7, <1>8, <1>9 DEF IInv

\* Room.Leave keeps the inductive invariant.
LEMMA LeaveRoomLeaveIInv ==
  ASSUME IInv, NEW c \in Conns, LeaveRoomLeave(c)
  PROVE  IInv'
<1>0. /\ pc[c] = "leaving" /\ arg[c] \in RoomIds /\ ref[c] \in Objs /\ user[c] \in Users
      /\ members' \in [Objs -> [Users -> Conns \cup {None}]]
      /\ \A o \in Objs : o # ref[c] => members'[o] = members[o]
      /\ \/ /\ pc' = [pc EXCEPT ![c] = "collect"]
            /\ ref' = ref
         \/ /\ \E u \in Users : members'[ref[c]][u] # None
            /\ pc' = [pc EXCEPT ![c] = "left"]
            /\ ref' = [ref EXCEPT ![c] = None]
      /\ UNCHANGED <<rooms, lock, user, newest, arg, joined, ending, todo, queued, cast>>
  BY RoomsAssumption DEF LeaveRoomLeave, IInv, TypeOK, Holding
<1>1. TypeOK'
  <2>1. /\ pc' \in [Conns -> {"free", "reading", "join", "joined", "leave", "left", "drain", "gone"} \cup Holding]
        /\ ref' \in [Conns -> Objs \cup {None}]
    BY <1>0 DEF IInv, TypeOK, Holding
  <2>2. \A d \in Conns \ {c} : pc'[d] = pc[d] /\ ref'[d] = ref[d]
    BY <1>0 DEF IInv, TypeOK
  <2>3. pc'[c] = "left" \/ (pc'[c] = "collect" /\ ref'[c] = ref[c])
    BY <1>0 DEF IInv, TypeOK
  <2>4. \A d \in Conns :
          /\ pc'[d] # "free" => user'[d] \in Users
          /\ pc'[d] \in {"join", "joined", "leave", "left"} \cup Holding => arg'[d] \in RoomIds
          /\ pc'[d] \in Holding => ref'[d] \in Objs
    BY <1>0, <2>2, <2>3 DEF IInv, TypeOK, Holding
  <2> QED
    BY <1>0, <2>1, <2>4 DEF IInv, TypeOK
<1>2. JoinerLocks'
  BY RoomsAssumption DEF IInv, TypeOK, JoinerLocks, LeaveRoomLeave
<1>3. OneIdPerRoom'
  BY RoomsAssumption DEF IInv, TypeOK, OneIdPerRoom, RefsDropped, Holding, LeaveRoomLeave
<1>4. RefsDropped'
  BY RoomsAssumption DEF IInv, TypeOK, RefsDropped, Holding, LeaveRoomLeave
<1>5. Tracked'
  BY RoomsAssumption DEF IInv, TypeOK, Tracked, Listed, Lists, OneIdPerRoom, LeaveFindsOwn, Holding, LeaveRoomLeave
<1>6. LeaveFindsOwn'
  BY RoomsAssumption DEF IInv, TypeOK, LeaveFindsOwn, Tracked, OneIdPerRoom, Holding, Listed, LeaveRoomLeave
<1>7. Lists'
  BY RoomsAssumption DEF IInv, TypeOK, Lists, Holding, LeaveRoomLeave
<1>8. EmptyRoomCollected'
  <2> SUFFICES ASSUME NEW r \in RoomIds, rooms'[r] # None, Empty(rooms[r])'
               PROVE  \E d \in Conns : pc'[d] \in {"joining", "collect"} /\ arg'[d] = r /\ ref'[d] = rooms'[r]
    BY DEF EmptyRoomCollected
  <2>1. rooms[r] \in Objs /\ rooms'[r] = rooms[r]
    BY <1>0 DEF IInv, TypeOK
  <2>2. CASE rooms[r] = ref[c]
    <3>1. r = arg[c]
      BY <1>0, <2>2 DEF IInv, OneIdPerRoom, Holding
    <3>2. pc'[c] = "collect" /\ ref'[c] = ref[c]
      BY <1>0, <2>1, <2>2 DEF IInv, TypeOK, Empty
    <3> QED
      BY <1>0, <2>1, <2>2, <3>1, <3>2
  <2>3. CASE rooms[r] # ref[c]
    <3>1. members'[rooms[r]] = members[rooms[r]]
      BY <1>0, <2>1, <2>3 DEF IInv, TypeOK
    <3>2. PICK d \in Conns : pc[d] \in {"joining", "collect"} /\ arg[d] = r /\ ref[d] = rooms[r]
      BY <2>1, <3>1 DEF IInv, EmptyRoomCollected, Empty
    <3> QED
      BY <1>0, <2>1, <3>2 DEF IInv, TypeOK
  <2> QED
    BY <2>2, <2>3
<1>9. SoleSits'
  BY RoomsAssumption DEF IInv, TypeOK, SoleSits, Sole, Tracked, OneIdPerRoom, Holding, Lists, JoinerLocks, Empty, LeaveRoomLeave
<1> QED
  BY <1>1, <1>2, <1>3, <1>4, <1>5, <1>6, <1>7, <1>8, <1>9 DEF IInv

\* LeaveRoom's deletion of an empty Room keeps the inductive invariant.
LEMMA LeaveRoomCollectIInv ==
  ASSUME IInv, NEW c \in Conns, LeaveRoomCollect(c)
  PROVE  IInv'
<1>0. /\ pc[c] = "collect" /\ pc' = [pc EXCEPT ![c] = "left"]
      /\ arg[c] \in RoomIds /\ ref[c] \in Objs
      /\ rooms' = [rooms EXCEPT ![arg[c]] = IF @ = ref[c] /\ Empty(ref[c]) THEN None ELSE @]
      /\ ref' = [ref EXCEPT ![c] = None]
      /\ UNCHANGED <<members, lock, user, newest, arg, joined, ending, todo, queued, cast>>
  BY DEF LeaveRoomCollect, Move, IInv, TypeOK, Holding
<1>1. TypeOK'
  BY RoomsAssumption DEF IInv, TypeOK, Holding, LeaveRoomCollect, Move, Unlocked
<1>2. JoinerLocks'
  BY RoomsAssumption DEF IInv, TypeOK, JoinerLocks, LeaveRoomCollect, Move, Unlocked
<1>3. OneIdPerRoom'
  BY RoomsAssumption DEF IInv, TypeOK, OneIdPerRoom, RefsDropped, Holding, LeaveRoomCollect, Move, Unlocked
<1>4. RefsDropped'
  BY RoomsAssumption DEF IInv, TypeOK, RefsDropped, Holding, LeaveRoomCollect, Move, Unlocked
<1>5. Tracked'
  <2>1. \A d \in Conns, r \in RoomIds : Listed(d, r) => Listed(d, r)'
    BY <1>0 DEF IInv, TypeOK, Listed
  <2>2. \A o \in Objs, u \in Users, r \in RoomIds :
          members[o][u] # None /\ rooms[r] = o => rooms'[r] = o
    BY <1>0 DEF IInv, TypeOK, Empty
  <2> QED
    BY <1>0, <2>1, <2>2 DEF IInv, TypeOK, Tracked
<1>6. LeaveFindsOwn'
  BY RoomsAssumption DEF IInv, TypeOK, LeaveFindsOwn, Tracked, OneIdPerRoom, Holding, Listed, LeaveRoomCollect, Move, Unlocked
<1>7. Lists'
  BY RoomsAssumption DEF IInv, TypeOK, Lists, Holding, LeaveRoomCollect, Move, Unlocked
<1>8. EmptyRoomCollected'
  <2> SUFFICES ASSUME NEW r \in RoomIds, rooms'[r] # None, Empty(rooms[r])'
               PROVE  \E d \in Conns : pc'[d] \in {"joining", "collect"} /\ arg'[d] = r /\ ref'[d] = rooms'[r]
    BY DEF EmptyRoomCollected
  <2>1. rooms'[r] = rooms[r] /\ Empty(rooms[r])
    BY <1>0 DEF IInv, TypeOK, Empty
  <2>2. PICK d \in Conns : pc[d] \in {"joining", "collect"} /\ arg[d] = r /\ ref[d] = rooms[r]
    BY <2>1 DEF IInv, EmptyRoomCollected
  <2>3. d # c
    BY <1>0, <2>1, <2>2 DEF IInv, TypeOK
  <2> QED
    BY <1>0, <2>1, <2>2, <2>3 DEF IInv, TypeOK
<1>9. SoleSits'
  BY RoomsAssumption DEF IInv, TypeOK, SoleSits, Sole, Tracked, OneIdPerRoom, Holding, Lists, JoinerLocks, Empty, LeaveRoomCollect, Move, Unlocked
<1> QED
  BY <1>1, <1>2, <1>3, <1>4, <1>5, <1>6, <1>7, <1>8, <1>9 DEF IInv

\* removeRoom keeps the inductive invariant.
LEMMA LeaveDoneIInv ==
  ASSUME IInv, NEW c \in Conns, LeaveDone(c)
  PROVE  IInv'
<1>0. /\ pc[c] = "left" /\ arg[c] \in RoomIds
      /\ \/ pc' = [pc EXCEPT ![c] = "drain"] /\ joined' = joined
         \/ pc' = [pc EXCEPT ![c] = "reading"] /\ joined' = [joined EXCEPT ![c] = @ \ {arg[c]}]
      /\ arg' = [arg EXCEPT ![c] = None]
      /\ UNCHANGED <<rooms, members, lock, user, newest, ref, ending, todo, queued, cast>>
  BY DEF LeaveDone, IInv, TypeOK
<1>1. TypeOK'
  BY <1>0, RoomsAssumption, SMTT(20) DEF IInv, TypeOK, Holding
<1>2. JoinerLocks'
  BY RoomsAssumption DEF IInv, TypeOK, JoinerLocks, LeaveDone
<1>3. OneIdPerRoom'
  BY RoomsAssumption DEF IInv, TypeOK, OneIdPerRoom, RefsDropped, Holding, LeaveDone
<1>4. RefsDropped'
  BY RoomsAssumption DEF IInv, TypeOK, RefsDropped, Holding, LeaveDone
<1>5. Tracked'
  <2>1. \A d \in Conns, r \in RoomIds : Listed(d, r) => Listed(d, r)' \/ (d = c /\ r = arg[c])
    BY <1>0 DEF IInv, TypeOK, Listed
  <2>2. \A o \in Objs, u \in Users : members[o][u] = c => rooms[arg[c]] # o
    BY <1>0 DEF IInv, LeaveFindsOwn
  <2> QED
    BY <1>0, <2>1, <2>2 DEF IInv, TypeOK, Tracked
<1>6. LeaveFindsOwn'
  BY RoomsAssumption DEF IInv, TypeOK, LeaveFindsOwn, Tracked, OneIdPerRoom, Holding, Listed, LeaveDone
<1>7. Lists'
  BY RoomsAssumption DEF IInv, TypeOK, Lists, Holding, LeaveDone
<1>8. EmptyRoomCollected'
  <2> SUFFICES ASSUME NEW r \in RoomIds, rooms'[r] # None, Empty(rooms[r])'
               PROVE  \E d \in Conns : pc'[d] \in {"joining", "collect"} /\ arg'[d] = r /\ ref'[d] = rooms'[r]
    BY DEF EmptyRoomCollected
  <2>1. PICK d \in Conns : pc[d] \in {"joining", "collect"} /\ arg[d] = r /\ ref[d] = rooms[r]
    BY <1>0 DEF IInv, EmptyRoomCollected, Empty
  <2> QED
    BY <1>0, <2>1 DEF IInv, TypeOK
<1>9. SoleSits'
  BY RoomsAssumption DEF IInv, TypeOK, SoleSits, Sole, Tracked, OneIdPerRoom, Holding, Lists, JoinerLocks, Empty, LeaveDone
<1> QED
  BY <1>1, <1>2, <1>3, <1>4, <1>5, <1>6, <1>7, <1>8, <1>9 DEF IInv

\* A step of leaveAllRooms keeps the inductive invariant.
LEMMA LeaveNextIInv ==
  ASSUME IInv, NEW c \in Conns, NEW r \in RoomIds, LeaveNext(c, r)
  PROVE  IInv'
<1>1. TypeOK'
  BY RoomsAssumption DEF IInv, TypeOK, Holding, LeaveNext, Move
<1>2. JoinerLocks'
  BY RoomsAssumption DEF IInv, TypeOK, JoinerLocks, LeaveNext, Move
<1>3. OneIdPerRoom'
  BY RoomsAssumption DEF IInv, TypeOK, OneIdPerRoom, RefsDropped, Holding, LeaveNext, Move
<1>4. RefsDropped'
  BY RoomsAssumption DEF IInv, TypeOK, RefsDropped, Holding, LeaveNext, Move
<1>5. Tracked'
  <2>1. \A d \in Conns, r1 \in RoomIds : Listed(d, r1) => Listed(d, r1)'
    BY RoomsAssumption DEF IInv, TypeOK, Lists, Listed, Holding, LeaveNext, Move
  <2>2. UNCHANGED <<rooms, members, user>>
    BY DEF LeaveNext
  <2> QED
    BY <2>1, <2>2 DEF IInv, TypeOK, Tracked
<1>6. LeaveFindsOwn'
  BY RoomsAssumption DEF IInv, TypeOK, LeaveFindsOwn, Tracked, OneIdPerRoom, Holding, Listed, LeaveNext, Move
<1>7. Lists'
  BY RoomsAssumption DEF IInv, TypeOK, Lists, Holding, LeaveNext, Move
<1>8. EmptyRoomCollected'
  BY RoomsAssumption DEF IInv, TypeOK, EmptyRoomCollected, OneIdPerRoom, JoinerLocks, Holding, Empty, LeaveNext, Move
<1>9. SoleSits'
  BY RoomsAssumption DEF IInv, TypeOK, SoleSits, Sole, Tracked, OneIdPerRoom, Holding, Lists, JoinerLocks, Empty, LeaveNext, Move
<1> QED
  BY <1>1, <1>2, <1>3, <1>4, <1>5, <1>6, <1>7, <1>8, <1>9 DEF IInv

\* The reader's return keeps the inductive invariant.
LEMMA QuitIInv ==
  ASSUME IInv, NEW c \in Conns, Quit(c)
  PROVE  IInv'
<1>1. TypeOK'
  BY RoomsAssumption DEF IInv, TypeOK, Holding, Quit, Move
<1>2. JoinerLocks'
  BY RoomsAssumption DEF IInv, TypeOK, JoinerLocks, Quit, Move
<1>3. OneIdPerRoom'
  BY RoomsAssumption DEF IInv, TypeOK, OneIdPerRoom, RefsDropped, Holding, Quit, Move
<1>4. RefsDropped'
  BY RoomsAssumption DEF IInv, TypeOK, RefsDropped, Holding, Quit, Move
<1>5. Tracked'
  <2>1. \A d \in Conns, r1 \in RoomIds : Listed(d, r1) => Listed(d, r1)'
    BY RoomsAssumption DEF IInv, TypeOK, Lists, Listed, Holding, Quit, Move
  <2>2. UNCHANGED <<rooms, members, user>>
    BY DEF Quit
  <2> QED
    BY <2>1, <2>2 DEF IInv, TypeOK, Tracked
<1>6. LeaveFindsOwn'
  BY RoomsAssumption DEF IInv, TypeOK, LeaveFindsOwn, Tracked, OneIdPerRoom, Holding, Listed, Quit, Move
<1>7. Lists'
  BY RoomsAssumption DEF IInv, TypeOK, Lists, Holding, Quit, Move
<1>8. EmptyRoomCollected'
  BY RoomsAssumption DEF IInv, TypeOK, EmptyRoomCollected, OneIdPerRoom, JoinerLocks, Holding, Empty, Quit, Move
<1>9. SoleSits'
  BY RoomsAssumption DEF IInv, TypeOK, SoleSits, Sole, Tracked, OneIdPerRoom, Holding, Lists, JoinerLocks, Empty, Quit, Move
<1> QED
  BY <1>1, <1>2, <1>3, <1>4, <1>5, <1>6, <1>7, <1>8, <1>9 DEF IInv

\* A broadcast or writePump reads the Rooms and writes only the channels and
\* the broadcast's own variables.
LEMMA ChannelIInv ==
  ASSUME IInv, UNCHANGED <<rooms, members, lock, readers>>,
         queued' \in [Conns -> 0 .. Cap], cast' \in [Broadcasts -> Casts],
         \A b \in Broadcasts : cast'[b].at = "found" => cast'[b].ref \in Objs /\ cast'[b].from \in Users
  PROVE  IInv'
<1>1. TypeOK'
  BY DEF IInv, TypeOK, readers
<1>2. JoinerLocks' /\ OneIdPerRoom' /\ RefsDropped' /\ LeaveFindsOwn' /\ Lists'
  BY DEF IInv, JoinerLocks, OneIdPerRoom, RefsDropped, LeaveFindsOwn, Lists, readers
<1>3. Tracked' /\ EmptyRoomCollected' /\ SoleSits'
  BY DEF IInv, Tracked, Listed, EmptyRoomCollected, Empty, SoleSits, Sole, readers
<1> QED
  BY <1>1, <1>2, <1>3 DEF IInv

\* Every step keeps the inductive invariant: one case for each action.
LEMMA NextIInv == IInv /\ [Next]_vars => IInv'
<1> SUFFICES ASSUME IInv, [Next]_vars PROVE IInv'
  OBVIOUS
<1>1. ASSUME NEW c \in Conns, NEW u \in Users, Connect(c, u)
      PROVE  IInv'
  BY <1>1, ConnectIInv
<1>2. ASSUME NEW c \in Conns, NEW op \in {"join", "leave"}, NEW r \in RoomIds, Command(c, op, r)
      PROVE  IInv'
  BY <1>2, CommandIInv
<1>3. ASSUME NEW c \in Conns, ReadError(c)
      PROVE  IInv'
  BY <1>3, ReadErrorIInv
<1>4. ASSUME NEW c \in Conns, Working(c)
      PROVE  IInv'
  BY <1>4, JoinRoomFindIInv, JoinRoomJoinIInv, AddRoomIInv, LeaveRoomFindIInv, LeaveRoomLeaveIInv,
     LeaveRoomCollectIInv, LeaveDoneIInv, LeaveNextIInv, QuitIInv DEF Working
<1>5. ASSUME NEW c \in Conns, Drain(c)
      PROVE  IInv'
  <2>1. queued' \in [Conns -> 0 .. Cap]
    BY <1>5, RoomsAssumption DEF Drain, IInv, TypeOK
  <2> QED
    BY <1>5, <2>1, ChannelIInv DEF Drain, IInv, TypeOK
<1>6. ASSUME NEW b \in Broadcasts, NEW r \in RoomIds, NEW u \in Users, BroadcastFind(b, r, u)
      PROVE  IInv'
  <2>1. /\ queued' \in [Conns -> 0 .. Cap]
        /\ cast' \in [Broadcasts -> Casts]
        /\ \A a \in Broadcasts : cast'[a].at = "found" => cast'[a].ref \in Objs /\ cast'[a].from \in Users
    BY <1>6 DEF BroadcastFind, IInv, TypeOK, Casts
  <2> QED
    BY <1>6, <2>1, ChannelIInv DEF BroadcastFind
<1>7. ASSUME NEW b \in Broadcasts, BroadcastSnapshot(b)
      PROVE  IInv'
  <2> DEFINE T == {members[cast[b].ref][u] : u \in Users \ {cast[b].from}} \ {None}
  <2>1. T \subseteq Conns
    BY <1>7 DEF BroadcastSnapshot, IInv, TypeOK
  <2>2. cast' = [cast EXCEPT ![b] = [Idle EXCEPT !.at = "sending", !.targets = T]]
    BY <1>7 DEF BroadcastSnapshot
  <2> HIDE DEF T
  <2>3. /\ cast' \in [Broadcasts -> Casts]
        /\ \A a \in Broadcasts : cast'[a].at = "found" => cast'[a].ref \in Objs /\ cast'[a].from \in Users
    BY <2>1, <2>2 DEF IInv, TypeOK, Casts, Idle
  <2> QED
    BY <1>7, <2>3, ChannelIInv DEF BroadcastSnapshot, IInv, TypeOK
<1>8. ASSUME NEW b \in Broadcasts, NEW c \in Conns, BroadcastSend(b, c)
      PROVE  IInv'
  <2>1. queued' \in [Conns -> 0 .. Cap]
    BY <1>8, RoomsAssumption DEF BroadcastSend, IInv, TypeOK
  <2>2. /\ cast' \in [Broadcasts -> Casts]
        /\ \A a \in Broadcasts : cast'[a].at = "found" => cast'[a].ref \in Objs /\ cast'[a].from \in Users
    <3>1. cast \in [Broadcasts -> Casts]
      BY DEF IInv, TypeOK
    <3>2. /\ cast[b].at = "sending"
          /\ cast' = [cast EXCEPT ![b].targets = @ \ {c}]
      BY <1>8 DEF BroadcastSend
    <3>3. cast' \in [Broadcasts -> Casts] /\ cast'[b].at = "sending"
      BY <3>1, <3>2 DEF Casts
    <3>4. \A a \in Broadcasts \ {b} : cast'[a] = cast[a]
      BY <3>1, <3>2
    <3> QED
      BY <3>3, <3>4 DEF IInv, TypeOK
  <2> QED
    BY <1>8, <2>1, <2>2, ChannelIInv DEF BroadcastSend
<1>9. ASSUME NEW b \in Broadcasts, BroadcastReturn(b)
      PROVE  IInv'
  <2>1. /\ cast' \in [Broadcasts -> Casts]
        /\ \A a \in Broadcasts : cast'[a].at = "found" => cast'[a].ref \in Objs /\ cast'[a].from \in Users
    BY <1>9 DEF BroadcastReturn, IInv, TypeOK, Casts, Idle
  <2> QED
    BY <1>9, <2>1, ChannelIInv DEF BroadcastReturn, IInv, TypeOK
<1>10. CASE UNCHANGED vars
  BY <1>10, ChannelIInv DEF vars, IInv, TypeOK
<1> QED
  BY <1>1, <1>2, <1>3, <1>4, <1>5, <1>6, <1>7, <1>8, <1>9, <1>10 DEF Next, Fanout

\* The initial state satisfies the inductive invariant.
LEMMA InitIInv == Init => IInv
<1> SUFFICES ASSUME Init PROVE IInv
  OBVIOUS
<1>1. TypeOK
  BY RoomsAssumption DEF Init, TypeOK, Casts, Idle, Holding
<1>2. JoinerLocks /\ OneIdPerRoom /\ RefsDropped /\ LeaveFindsOwn /\ Lists
  BY RoomsAssumption DEF Init, JoinerLocks, OneIdPerRoom, RefsDropped, LeaveFindsOwn, Lists, Holding
<1>3. Tracked /\ EmptyRoomCollected /\ SoleSits
  BY DEF Init, Tracked, EmptyRoomCollected, SoleSits, Sole
<1> QED
  BY <1>1, <1>2, <1>3 DEF IInv

\* The inductive invariant holds throughout.
THEOREM SpecIInv == Spec => []IInv
  BY InitIInv, NextIInv, PTL DEF Spec

\* Type correctness of the rooms, the readers and the broadcasts.
THEOREM RoomsTypeOK == Spec => []TypeOK
<1>1. IInv => TypeOK
  BY DEF IInv
<1> QED
  BY <1>1, SpecIInv, PTL

\* LeaveRoom never deletes a Room that has a member.
THEOREM RoomsNoOrphanRoom == Spec => []NoOrphanRoom
<1>1. IInv => NoOrphanRoom
  BY DEF IInv, Tracked, NoOrphanRoom, Empty
<1> QED
  BY <1>1, SpecIInv, PTL

\* An empty Room in the map is always about to be filled or deleted.
THEOREM RoomsEmptyCollected == Spec => []EmptyRoomCollected
<1>1. IInv => EmptyRoomCollected
  BY DEF IInv
<1> QED
  BY <1>1, SpecIInv, PTL

\* leaveAllRooms is complete: a connection that has ended is in no room.
THEOREM RoomsEndedLeft == Spec => []EndedLeftRooms
<1>1. IInv => EndedLeftRooms
  BY RoomsAssumption DEF IInv, TypeOK, Tracked, Listed, Lists, EndedLeftRooms
<1> QED
  BY <1>1, SpecIInv, PTL

\* The list a connection keeps of its rooms is exact as long as the user has
\* no second connection.
THEOREM RoomsListAgrees == Spec => []ListAgrees
<1>1. ASSUME IInv, NEW c \in Conns, pc[c] = "reading", \A d \in Conns \ {c} : user[d] # user[c],
             NEW r \in RoomIds
      PROVE  r \in joined[c] <=> rooms[r] # None /\ members[rooms[r]][user[c]] = c
  <2>1. ASSUME r \in joined[c]
        PROVE  rooms[r] # None /\ members[rooms[r]][user[c]] = c
    BY <1>1, <2>1 DEF IInv, SoleSits, Sole
  <2>2. ASSUME rooms[r] # None, members[rooms[r]][user[c]] = c
        PROVE  r \in joined[c]
    <3>1. rooms[r] \in Objs /\ user[c] \in Users /\ c # None
      BY <1>1, <2>2, RoomsAssumption DEF IInv, TypeOK
    <3>2. PICK s \in RoomIds : rooms[s] = rooms[r] /\ Listed(c, s)
      BY <1>1, <2>2, <3>1 DEF IInv, Tracked
    <3>3. s = r
      BY <1>1, <2>2, <3>2 DEF IInv, OneIdPerRoom
    <3> QED
      BY <1>1, <3>2, <3>3 DEF IInv, Listed, Lists
  <2> QED
    BY <2>1, <2>2
<1>2. IInv => ListAgrees
  BY <1>1 DEF ListAgrees
<1> QED
  BY <1>2, SpecIInv, PTL

-----------------------------------------------------------------------------
(***************************************************************************)
(* The refinement of RoomSet.  The steps that take effect are Room.Join,   *)
(* Room.Leave, a lookup of LeaveRoom that finds no Room, a copy of the     *)
(* members by Room.Broadcast, and a deletion by LeaveRoom for the          *)
(* broadcasts that have found the Room and not yet copied its members.     *)
(***************************************************************************)

\* A broadcast has targets only while it sends.
NoTargets ==
  \A b \in Broadcasts : cast[b].at \in {"idle", "found"} => cast[b].targets = {}

RInv == IInv /\ NoTargets

\* Every step keeps the invariant that the refinement needs.
LEMMA NextRInv == RInv /\ [Next]_vars => RInv'
<1> SUFFICES ASSUME RInv, [Next]_vars PROVE NoTargets'
  BY NextIInv DEF RInv
<1>1. CASE UNCHANGED cast
  BY <1>1 DEF RInv, NoTargets
<1>2. ASSUME NEW b \in Broadcasts, NEW r \in RoomIds, NEW u \in Users, BroadcastFind(b, r, u)
      PROVE  NoTargets'
  BY <1>2 DEF BroadcastFind, RInv, IInv, TypeOK, NoTargets
<1>3. ASSUME NEW b \in Broadcasts, BroadcastSnapshot(b)
      PROVE  NoTargets'
  <2> DEFINE T == {members[cast[b].ref][u] : u \in Users \ {cast[b].from}} \ {None}
  <2>1. cast' = [cast EXCEPT ![b] = [Idle EXCEPT !.at = "sending", !.targets = T]]
    BY <1>3 DEF BroadcastSnapshot
  <2> HIDE DEF T
  <2> QED
    BY <2>1 DEF RInv, IInv, TypeOK, NoTargets, Idle
<1>4. ASSUME NEW b \in Broadcasts, NEW c \in Conns, BroadcastSend(b, c)
      PROVE  NoTargets'
  BY <1>4 DEF BroadcastSend, RInv, IInv, TypeOK, Casts, NoTargets
<1>5. ASSUME NEW b \in Broadcasts, BroadcastReturn(b)
      PROVE  NoTargets'
  BY <1>5 DEF BroadcastReturn, RInv, IInv, TypeOK, NoTargets, Idle
<1>6. ASSUME NEW c \in Conns,
             \/ \E u \in Users : Connect(c, u)
             \/ \E op \in {"join", "leave"}, r \in RoomIds : Command(c, op, r)
             \/ ReadError(c) \/ Working(c) \/ Drain(c)
      PROVE  UNCHANGED cast
  BY <1>6 DEF Connect, Command, ReadError, Drain, Working, JoinRoomFind, JoinRoomJoin, AddRoom,
     LeaveRoomFind, LeaveRoomLeave, LeaveRoomCollect, LeaveDone, LeaveNext, Quit
<1>7. UNCHANGED vars => UNCHANGED cast
  BY DEF vars
<1> QED
  BY <1>1, <1>2, <1>3, <1>4, <1>5, <1>6, <1>7 DEF Next, Fanout

\* The invariant that the refinement needs holds throughout.
LEMMA SpecRInv == Spec => []RInv
<1>1. Init => RInv
  BY InitIInv DEF Init, RInv, NoTargets, Idle
<1> QED
  BY <1>1, NextRInv, PTL DEF Spec

\* RoomOf finds the id of a Room of the map.
LEMMA RoomOfMapped ==
  ASSUME IInv, NEW r \in RoomIds, rooms[r] # None
  PROVE  RoomOf(rooms[r]) = r
<1>1. \E s \in RoomIds : rooms[s] = rooms[r]
  OBVIOUS
<1>2. RoomOf(rooms[r]) \in RoomIds /\ rooms[RoomOf(rooms[r])] = rooms[r]
  BY <1>1 DEF RoomOf
<1> QED
  BY <1>2 DEF IInv, OneIdPerRoom

\* The table depends on the Rooms alone ...
LEMMA SlotsSame == UNCHANGED <<rooms, members>> => UNCHANGED Slots
  BY DEF Slots

\* ... and the broadcasts' view on the map and the broadcasts.
LEMMA CastingSame == UNCHANGED <<rooms, cast>> => UNCHANGED Casting
  BY DEF Casting, RoomOf

\* The readers' commands depend on their stages and room ids.
LEMMA CallsSame == UNCHANGED <<pc, arg>> => UNCHANGED <<Calls, Over>>
  BY DEF Calls, Over

\* What a step of one reader does to its command.
LEMMA CallsStep ==
  ASSUME IInv, NEW c \in Conns, NEW p, NEW q,
         pc' = [pc EXCEPT ![c] = p], arg' = [arg EXCEPT ![c] = q]
  PROVE  Calls' = [Calls EXCEPT ![c] = Executes(p, q)]
  BY DEF Calls, IInv, TypeOK

\* A reader that goes on is not over.
LEMMA OverStep ==
  ASSUME IInv, NEW c \in Conns, NEW p,
         pc[c] # "gone", p # "gone", pc' = [pc EXCEPT ![c] = p]
  PROVE  UNCHANGED Over
  BY DEF Over, IInv, TypeOK

\* Leaving the room id alone is a special case of CallsStep.
LEMMA ArgSame ==
  ASSUME IInv, NEW c \in Conns, UNCHANGED arg
  PROVE  arg' = [arg EXCEPT ![c] = arg[c]]
  BY DEF IInv, TypeOK

\* A new connection is one for the callers too.
LEMMA ConnectRefines ==
  ASSUME RInv, NEW c \in Conns, NEW u \in Users, Connect(c, u)
  PROVE  RS!Connect(c, u)
<1>1. /\ pc[c] = "free" /\ pc' = [pc EXCEPT ![c] = "reading"]
      /\ user[c] = None /\ user' = [user EXCEPT ![c] = u]
      /\ UNCHANGED <<rooms, members, arg, cast>>
  BY DEF Connect, Move, RInv, IInv, Lists
<1>2. UNCHANGED <<Slots, Casting, Over>>
  BY <1>1, SlotsSame, CastingSame, OverStep DEF RInv
<1>3. UNCHANGED Calls
  BY <1>1 DEF Calls, Executes, RInv, IInv, TypeOK
<1> QED
  BY <1>1, <1>2, <1>3 DEF RS!Connect

\* A command that readPump has read is called.
LEMMA CommandRefines ==
  ASSUME RInv, NEW c \in Conns, NEW op \in {"join", "leave"}, NEW r \in RoomIds,
         pc[c] \in {"reading", "drain"}, pc' = [pc EXCEPT ![c] = op], arg' = [arg EXCEPT ![c] = r],
         UNCHANGED <<rooms, members, user, cast>>
  PROVE  RS!Call(c, op, r)
<1>1. UNCHANGED <<Slots, Casting, Over>>
  BY SlotsSame, CastingSame, OverStep DEF RInv
<1>2. Calls' = [Calls EXCEPT ![c] = Executes(op, r)]
  BY CallsStep DEF RInv
<1>3. Executes(op, r) = [op |-> op, room |-> r] /\ Executes(pc[c], arg[c]) = RS!NoCall
  BY DEF Executes, RS!NoCall
<1>4. Calls[c] = RS!NoCall
  BY <1>3 DEF Calls
<1>5. user[c] # None /\ c \notin Over
  BY RoomsAssumption DEF Over, RInv, IInv, TypeOK
<1> QED
  BY <1>1, <1>2, <1>3, <1>4, <1>5 DEF RS!Call

\* The lookup of JoinRoom, and the Room it may create, are not visible.
LEMMA JoinRoomFindRefines ==
  ASSUME RInv, NEW c \in Conns, JoinRoomFind(c)
  PROVE  UNCHANGED RS!vars
<1>1. /\ pc[c] = "join" /\ pc' = [pc EXCEPT ![c] = "joining"]
      /\ arg[c] \in RoomIds
      /\ UNCHANGED <<user, arg, cast>>
  BY DEF JoinRoomFind, Move, RInv, IInv, TypeOK
<1>2. UNCHANGED Over
  BY <1>1, OverStep DEF RInv
<1>3. UNCHANGED Calls
  BY <1>1 DEF Calls, Executes, RInv, IInv, TypeOK
<1>4. UNCHANGED <<Slots, Casting>>
  <2>1. CASE UNCHANGED <<rooms, members>>
    BY <1>1, <2>1, SlotsSame, CastingSame
  <2>2. ASSUME rooms[arg[c]] = None, NEW o \in Objs, Unused(o),
               rooms' = [rooms EXCEPT ![arg[c]] = o],
               members' = [members EXCEPT ![o] = [u \in Users |-> None]]
        PROVE  UNCHANGED <<Slots, Casting>>
    <3>1. rooms'[arg[c]] = o /\ members'[o] = [u \in Users |-> None] /\ o # None
      BY <1>1, <2>2, RoomsAssumption DEF RInv, IInv, TypeOK
    <3>2. \A r \in RoomIds : r # arg[c] =>
            rooms'[r] = rooms[r] /\ (rooms[r] # None => members'[rooms[r]] = members[rooms[r]])
      BY <1>1, <2>2 DEF RInv, IInv, TypeOK, Unused
    <3>3. UNCHANGED Slots
      BY <1>1, <2>2, <3>1, <3>2 DEF Slots
    <3>4. \A b \in Broadcasts, r \in RoomIds :
            cast[b].at = "found" => (rooms'[r] = cast[b].ref <=> rooms[r] = cast[b].ref)
      BY <1>1, <2>2, <3>1, <3>2, RoomsAssumption DEF RInv, IInv, TypeOK, Unused
    <3>5. ASSUME NEW b \in Broadcasts, cast[b].at = "found"
          PROVE  /\ RoomOf(cast[b].ref)' = RoomOf(cast[b].ref)
                 /\ (\E r \in RoomIds : rooms'[r] = cast[b].ref) <=> (\E r \in RoomIds : rooms[r] = cast[b].ref)
      BY <1>1, <3>4, <3>5 DEF RoomOf
    <3>6. UNCHANGED Casting
      BY <1>1, <3>5 DEF Casting
    <3> QED
      BY <3>3, <3>6
  <2> QED
    BY <2>1, <2>2 DEF JoinRoomFind
<1> QED
  BY <1>1, <1>2, <1>3, <1>4 DEF RS!vars

\* The command of a reader, stage by stage.
LEMMA ExecutesIs ==
  ASSUME NEW r
  PROVE  /\ \A p \in {"join", "joining"} : Executes(p, r) = [op |-> "join", room |-> r]
         /\ \A p \in {"leave", "leaving"} : Executes(p, r) = [op |-> "leave", room |-> r]
         /\ \A p \in {"joined", "collect", "left"} : Executes(p, r) = [op |-> "done", room |-> r]
  BY DEF Executes

\* A command takes effect, seen from the caller.
LEMMA CallsDone ==
  ASSUME IInv, NEW c \in Conns, NEW p \in {"joined", "collect", "left"},
         pc[c] \in {"join", "joining", "leave", "leaving"}, pc' = [pc EXCEPT ![c] = p], UNCHANGED arg
  PROVE  Calls' = [Calls EXCEPT ![c] = [op |-> "done", room |-> @.room]]
<1>1. Calls' = [Calls EXCEPT ![c] = Executes(p, arg[c])]
  BY ArgSame, CallsStep
<1>2. Executes(p, arg[c]) = [op |-> "done", room |-> arg[c]]
  BY ExecutesIs
<1>3. Calls[c] = Executes(pc[c], arg[c])
  BY DEF Calls
<1>4. Calls[c].room = arg[c]
  BY <1>3, ExecutesIs
<1> QED
  BY <1>1, <1>2, <1>4

\* Setting a slot of a Room sets the slot in the table.
LEMMA SlotsPut ==
  ASSUME IInv, NEW r \in RoomIds, NEW o \in Objs, rooms[r] = o, NEW u \in Users,
         \A q \in Objs : q # o => members'[q] = members[q],
         members'[o] = [v \in Users |-> members'[o][v]],
         \A v \in Users : v # u => members'[o][v] = members[o][v],
         UNCHANGED rooms
  PROVE  Slots' = [Slots EXCEPT ![r][u] = members'[o][u]]
<1>1. o # None /\ \A s \in RoomIds : s # r => rooms[s] # o
  BY RoomsAssumption DEF IInv, TypeOK, OneIdPerRoom
<1>2. ASSUME NEW s \in RoomIds, s # r PROVE Slots'[s] = Slots[s]
  BY <1>1, <1>2 DEF Slots, IInv, TypeOK
<1>3. Slots'[r] = members'[o] /\ Slots[r] = members[o]
  BY <1>1 DEF Slots, IInv, TypeOK
<1>4. members'[o] = [members[o] EXCEPT ![u] = members'[o][u]]
  BY DEF IInv, TypeOK
<1>5. Slots = [s \in RoomIds |-> Slots[s]] /\ Slots' = [s \in RoomIds |-> Slots'[s]]
  BY DEF Slots
<1> QED
  BY <1>2, <1>3, <1>4, <1>5

\* Room.Join takes effect: its Room is the map's while the bucket is locked.
LEMMA JoinRoomJoinRefines ==
  ASSUME RInv, NEW c \in Conns, JoinRoomJoin(c)
  PROVE  RS!Join(c)
<1>0. IInv
  BY DEF RInv
<1>1. /\ pc[c] = "joining" /\ pc' = [pc EXCEPT ![c] = "joined"]
      /\ arg[c] \in RoomIds /\ ref[c] \in Objs /\ user[c] \in Users
      /\ rooms[arg[c]] = ref[c]
      /\ members' = [members EXCEPT ![ref[c]][user[c]] = c]
      /\ UNCHANGED <<rooms, user, arg, cast>>
  BY DEF JoinRoomJoin, Move, RInv, IInv, TypeOK, Holding, JoinerLocks
<1>2. UNCHANGED <<Casting, Over>>
  BY <1>1, CastingSame, OverStep DEF RInv
<1>3. Calls[c].op = "join" /\ Calls[c].room = arg[c]
  BY <1>1, ExecutesIs DEF Calls
<1>4. Calls' = [Calls EXCEPT ![c] = [op |-> "done", room |-> @.room]]
  BY <1>1, CallsDone DEF RInv
<1>5. Slots' = [Slots EXCEPT ![arg[c]][user[c]] = c]
  <2>1. /\ \A q \in Objs : q # ref[c] => members'[q] = members[q]
        /\ members'[ref[c]] = [v \in Users |-> members'[ref[c]][v]]
        /\ \A v \in Users : v # user[c] => members'[ref[c]][v] = members[ref[c]][v]
        /\ members'[ref[c]][user[c]] = c
    BY <1>0, <1>1 DEF IInv, TypeOK
  <2>2. Slots' = [Slots EXCEPT ![arg[c]][user[c]] = members'[ref[c]][user[c]]]
    BY <1>0, <1>1, <2>1, SlotsPut
  <2> QED
    BY <2>1, <2>2
<1> QED
  BY <1>1, <1>2, <1>3, <1>4, <1>5 DEF RS!Join

\* addRoom and removeRoom return from a command that has taken effect.
LEMMA DoneRefines ==
  ASSUME RInv, NEW c \in Conns, NEW p \in {"reading", "drain"},
         pc[c] \in {"joined", "left"}, pc' = [pc EXCEPT ![c] = p], arg' = [arg EXCEPT ![c] = None],
         UNCHANGED <<rooms, members, user, cast>>
  PROVE  RS!Return(c)
<1>1. UNCHANGED <<Slots, Casting, Over>>
  BY SlotsSame, CastingSame, OverStep DEF RInv
<1>2. Calls' = [Calls EXCEPT ![c] = Executes(p, None)]
  BY CallsStep DEF RInv
<1>3. Executes(p, None) = RS!NoCall
  BY DEF Executes, RS!NoCall
<1>4. Calls[c].op = "done"
  BY ExecutesIs DEF Calls
<1> QED
  BY <1>1, <1>2, <1>3, <1>4 DEF RS!Return

\* LeaveRoom's lookup takes effect when there is no Room: nobody is a member.
LEMMA LeaveRoomFindRefines ==
  ASSUME RInv, NEW c \in Conns, LeaveRoomFind(c)
  PROVE  RS!Leave(c) \/ UNCHANGED RS!vars
<1>1. /\ pc[c] = "leave" /\ arg[c] \in RoomIds /\ user[c] \in Users
      /\ pc' = [pc EXCEPT ![c] = IF rooms[arg[c]] = None THEN "left" ELSE "leaving"]
      /\ UNCHANGED <<rooms, members, user, arg, cast>>
  BY DEF LeaveRoomFind, RInv, IInv, TypeOK
<1>2. UNCHANGED <<Slots, Casting, Over>>
  BY <1>1, SlotsSame, CastingSame, OverStep DEF RInv
<1>3. Calls[c].op = "leave" /\ Calls[c].room = arg[c]
  BY <1>1, ExecutesIs DEF Calls
<1>4. CASE rooms[arg[c]] # None
  <2>1. Calls' = [Calls EXCEPT ![c] = Executes("leaving", arg[c])]
    BY <1>1, <1>4, ArgSame, CallsStep DEF RInv
  <2>2. Calls[c] = Executes("leaving", arg[c])
    BY <1>1, ExecutesIs DEF Calls
  <2>3. UNCHANGED Calls
    BY <2>1, <2>2 DEF Calls
  <2> QED
    BY <1>1, <1>2, <2>3 DEF RS!vars
<1>5. CASE rooms[arg[c]] = None
  <2>1. Calls' = [Calls EXCEPT ![c] = [op |-> "done", room |-> @.room]]
    BY <1>1, <1>5, CallsDone DEF RInv
  <2>2. Slots[arg[c]] = [u \in Users |-> None]
    BY <1>1, <1>5 DEF Slots
  <2>3. Slots' = [Slots EXCEPT ![arg[c]][user[c]] = IF @ = c THEN None ELSE @]
    <3>1. Slots[arg[c]][user[c]] # c
      BY <1>1, <2>2, RoomsAssumption
    <3>2. Slots = [r \in RoomIds |-> Slots[r]] /\ Slots[arg[c]] = [u \in Users |-> Slots[arg[c]][u]]
      BY <1>1, <2>2 DEF Slots
    <3> QED
      BY <1>1, <1>2, <3>1, <3>2
  <2> QED
    BY <1>1, <1>2, <1>3, <2>1, <2>3 DEF RS!Leave
<1> QED
  BY <1>4, <1>5

\* Room.Leave takes effect.  A Room that the map has no more is empty, and the
\* connection sits in no other Room of the id.
LEMMA LeaveRoomLeaveRefines ==
  ASSUME RInv, NEW c \in Conns, LeaveRoomLeave(c)
  PROVE  RS!Leave(c)
<1>0. IInv
  BY DEF RInv
<1> DEFINE x == IF members[ref[c]][user[c]] = c THEN None ELSE members[ref[c]][user[c]]
<1>1. /\ pc[c] = "leaving" /\ arg[c] \in RoomIds /\ ref[c] \in Objs /\ user[c] \in Users
      /\ \E p \in {"collect", "left"} : pc' = [pc EXCEPT ![c] = p]
      /\ members' = [members EXCEPT ![ref[c]][user[c]] = x]
      /\ UNCHANGED <<rooms, user, arg, cast>>
  BY DEF LeaveRoomLeave, RInv, IInv, TypeOK, Holding
<1>2. UNCHANGED <<Casting, Over>>
  BY <1>1, CastingSame, OverStep DEF RInv
<1>3. Calls[c].op = "leave" /\ Calls[c].room = arg[c]
  BY <1>1, ExecutesIs DEF Calls
<1>4. Calls' = [Calls EXCEPT ![c] = [op |-> "done", room |-> @.room]]
  BY <1>1, CallsDone DEF RInv
<1>5. Slots' = [Slots EXCEPT ![arg[c]][user[c]] = IF @ = c THEN None ELSE @]
  <2>1. CASE rooms[arg[c]] = ref[c]
    <3>1. Slots[arg[c]][user[c]] = members[ref[c]][user[c]] /\ rooms[arg[c]] # None
      BY <1>1, <2>1, RoomsAssumption DEF Slots
    <3>2. /\ \A q \in Objs : q # ref[c] => members'[q] = members[q]
          /\ members'[ref[c]] = [v \in Users |-> members'[ref[c]][v]]
          /\ \A v \in Users : v # user[c] => members'[ref[c]][v] = members[ref[c]][v]
          /\ members'[ref[c]][user[c]] = x
      BY <1>0, <1>1 DEF IInv, TypeOK
    <3>3. Slots' = [Slots EXCEPT ![arg[c]][user[c]] = members'[ref[c]][user[c]]]
      BY <1>0, <1>1, <2>1, <3>2, SlotsPut
    <3> QED
      BY <3>1, <3>2, <3>3
  <2>2. CASE rooms[arg[c]] # ref[c]
    <3>1. \A r \in RoomIds : rooms[r] # ref[c]
      BY <1>1, <2>2 DEF RInv, IInv, OneIdPerRoom, Holding
    <3>2. members[ref[c]][user[c]] = None
      BY <1>1, <3>1 DEF RInv, IInv, Tracked
    <3>3. UNCHANGED members
      BY <1>1, <3>2, RoomsAssumption DEF RInv, IInv, TypeOK
    <3>4. UNCHANGED Slots
      BY <1>1, <3>3, SlotsSame
    <3>5. rooms[arg[c]] # None => members[rooms[arg[c]]][user[c]] # c
      BY <1>1, <2>2, RoomsAssumption DEF RInv, IInv, TypeOK, LeaveFindsOwn
    <3>6. Slots[arg[c]][user[c]] # c
      BY <1>1, <3>5, RoomsAssumption DEF Slots
    <3>7. Slots = [r \in RoomIds |-> Slots[r]] /\ Slots[arg[c]] = [u \in Users |-> Slots[arg[c]][u]]
      BY <1>1 DEF Slots, RInv, IInv, TypeOK
    <3> QED
      BY <1>1, <3>4, <3>6, <3>7
  <2> QED
    BY <2>1, <2>2
<1> QED
  BY <1>1, <1>2, <1>3, <1>4, <1>5 DEF RS!Leave

\* A deletion takes effect for the broadcasts that have found the Room: they
\* will copy nobody, and at this instant nobody is a member.
LEMMA LeaveRoomCollectRefines ==
  ASSUME RInv, NEW c \in Conns, LeaveRoomCollect(c)
  PROVE  (\E bs \in SUBSET Broadcasts : RS!CastTake(bs)) \/ UNCHANGED RS!vars
<1>1. /\ pc[c] = "collect" /\ pc' = [pc EXCEPT ![c] = "left"]
      /\ arg[c] \in RoomIds /\ ref[c] \in Objs
      /\ rooms' = [rooms EXCEPT ![arg[c]] = IF @ = ref[c] /\ Empty(ref[c]) THEN None ELSE @]
      /\ UNCHANGED <<members, user, arg, cast>>
  BY DEF LeaveRoomCollect, Move, RInv, IInv, TypeOK, Holding
<1>2. UNCHANGED Over
  BY <1>1, OverStep DEF RInv
<1>3. UNCHANGED Calls
  <2>1. Calls' = [Calls EXCEPT ![c] = Executes("left", arg[c])]
    BY <1>1, ArgSame, CallsStep DEF RInv
  <2>2. Calls[c] = Executes("left", arg[c])
    BY <1>1, ExecutesIs DEF Calls
  <2> QED
    BY <2>1, <2>2 DEF Calls
<1>4. CASE ~(rooms[arg[c]] = ref[c] /\ Empty(ref[c]))
  <2>1. UNCHANGED rooms
    BY <1>1, <1>4 DEF RInv, IInv, TypeOK
  <2> QED
    BY <1>1, <1>2, <1>3, <2>1, SlotsSame, CastingSame DEF RS!vars
<1>5. CASE rooms[arg[c]] = ref[c] /\ Empty(ref[c])
  <2> DEFINE bs == {b \in Broadcasts : cast[b].at = "found" /\ cast[b].ref = ref[c]}
  <2>1. rooms'[arg[c]] = None /\ \A r \in RoomIds : r # arg[c] => rooms'[r] = rooms[r] /\ rooms[r] # ref[c]
    BY <1>1, <1>5, RoomsAssumption DEF RInv, IInv, TypeOK, OneIdPerRoom
  <2>2. members[ref[c]] = [u \in Users |-> None]
    BY <1>1, <1>5 DEF Empty, RInv, IInv, TypeOK
  <2>3. Slots[arg[c]] = [u \in Users |-> None]
    BY <1>1, <1>5, <2>2 DEF Slots
  <2>4. UNCHANGED Slots
    BY <1>1, <2>1, <2>3 DEF Slots
  <2>5. ASSUME NEW b \in Broadcasts, b \in bs
        PROVE  /\ Casting[b].at = "called" /\ Casting[b].room = arg[c]
               /\ Casting'[b] = [at |-> "sending", room |-> None, from |-> None, targets |-> {}]
    <3>0. cast[b].at = "found" /\ cast[b].ref = ref[c]
      BY <2>5
    <3>1. RoomOf(cast[b].ref) = arg[c]
      BY <1>1, <1>5, <3>0, RoomOfMapped, RoomsAssumption DEF RInv
    <3>2. cast[b].targets = {}
      BY <3>0 DEF RInv, NoTargets
    <3>3. \A r \in RoomIds : rooms'[r] # ref[c]
      BY <1>1, <2>1, RoomsAssumption
    <3> HIDE DEF bs
    <3>4. Casting[b] = [at |-> "called", room |-> arg[c], from |-> cast[b].from, targets |-> {}]
      BY <1>1, <1>5, <3>0, <3>1 DEF Casting
    <3>5. Casting'[b] = [at |-> "sending", room |-> None, from |-> None, targets |-> {}]
      BY <1>1, <3>0, <3>2, <3>3 DEF Casting
    <3> QED
      BY <3>4, <3>5
  <2>6. ASSUME NEW b \in Broadcasts, b \notin bs
        PROVE  Casting'[b] = Casting[b]
    <3>1. CASE cast[b].at # "found"
      BY <1>1, <3>1 DEF Casting
    <3>2. CASE cast[b].at = "found"
      <4>1. cast[b].ref \in Objs /\ cast[b].ref # ref[c] /\ cast[b].ref # None
        BY <2>6, <3>2, RoomsAssumption DEF RInv, IInv, TypeOK
      <4>2. \A r \in RoomIds : rooms'[r] = cast[b].ref <=> rooms[r] = cast[b].ref
        BY <1>1, <1>5, <2>1, <4>1
      <4>3. RoomOf(cast[b].ref)' = RoomOf(cast[b].ref)
        BY <1>1, <4>2 DEF RoomOf
      <4> QED
        BY <1>1, <4>2, <4>3 DEF Casting
    <3> QED
      BY <3>1, <3>2
  <2>7. bs \in SUBSET Broadcasts
    OBVIOUS
  <2> HIDE DEF bs
  <2>8. ASSUME NEW b \in Broadcasts, b \in bs
        PROVE  RS!Audience(Casting[b].room, Casting[b].from) = {}
    <3>1. \A u \in Users : Slots[Casting[b].room][u] = None
      BY <2>3, <2>5, <2>8
    <3> QED
      BY <3>1 DEF RS!Audience
  <2>9. RS!CastTake(bs)
    <3>1. \A b \in bs : Casting[b].at = "called"
      BY <2>5, <2>7
    <3>2. Casting' = [b \in Broadcasts |-> Casting'[b]]
      BY DEF Casting
    <3>3. Casting' = [b \in Broadcasts |->
             IF b \in bs
             THEN [at |-> "sending", room |-> None, from |-> None,
                   targets |-> RS!Audience(Casting[b].room, Casting[b].from)]
             ELSE Casting[b]]
      BY <2>5, <2>6, <2>8, <3>2
    <3> QED
      BY <1>1, <1>2, <1>3, <2>4, <3>1, <3>3 DEF RS!CastTake, RS!Sending
  <2> QED
    BY <2>7, <2>9
<1> QED
  BY <1>4, <1>5

\* readPump's return ends the connection: it is in no Room of the map.
LEMMA QuitRefines ==
  ASSUME RInv, NEW c \in Conns, Quit(c)
  PROVE  RS!End(c)
<1>1. /\ pc[c] = "drain" /\ pc' = [pc EXCEPT ![c] = "gone"] /\ todo[c] = {}
      /\ user[c] \in Users
      /\ UNCHANGED <<rooms, members, user, arg, cast>>
  BY DEF Quit, Move, RInv, IInv, TypeOK
<1>2. UNCHANGED <<Slots, Casting>>
  BY <1>1, SlotsSame, CastingSame
<1>3. Executes("drain", arg[c]) = RS!NoCall /\ Executes("gone", arg[c]) = RS!NoCall
  BY DEF Executes, RS!NoCall
<1>4. Calls[c] = RS!NoCall
  BY <1>1, <1>3 DEF Calls
<1>5. UNCHANGED Calls
  <2>1. Calls' = [Calls EXCEPT ![c] = Executes("gone", arg[c])]
    BY <1>1, ArgSame, CallsStep DEF RInv
  <2> QED
    BY <1>3, <1>4, <2>1 DEF Calls
<1>6. Over' = Over \cup {c}
  BY <1>1 DEF Over, RInv, IInv, TypeOK
<1>7. joined[c] = {}
  BY <1>1 DEF RInv, IInv, TypeOK, Lists
<1>8. \A r \in RoomIds : ~Listed(c, r)
  BY <1>1, <1>7 DEF Listed
<1>9. \A r \in RoomIds, u \in Users : Slots[r][u] # c
  <2>1. \A o \in Objs, u \in Users : members[o][u] # c
    BY <1>8, RoomsAssumption DEF RInv, IInv, Tracked
  <2> QED
    BY <2>1, RoomsAssumption DEF Slots, RInv, IInv, TypeOK
<1> QED
  BY <1>1, <1>2, <1>4, <1>5, <1>6, <1>9, RoomsAssumption DEF RS!End

\* The end of the connection's messages begins leaveAllRooms; writePump takes
\* a message; neither is visible.
LEMMA ReadErrorRefines ==
  ASSUME RInv, NEW c \in Conns, ReadError(c)
  PROVE  UNCHANGED RS!vars
<1>1. /\ pc[c] = "reading" /\ pc' = [pc EXCEPT ![c] = "drain"]
      /\ UNCHANGED <<rooms, members, user, arg, cast>>
  BY DEF ReadError, Move
<1>2. Executes("reading", arg[c]) = Executes("drain", arg[c])
  BY DEF Executes
<1>3. Calls' = [Calls EXCEPT ![c] = Executes("drain", arg[c])]
  BY <1>1, ArgSame, CallsStep DEF RInv
<1>4. UNCHANGED Calls
  BY <1>1, <1>2, <1>3 DEF Calls
<1> QED
  BY <1>1, <1>4, SlotsSame, CastingSame, OverStep DEF RS!vars, RInv

\* The lookup of BroadcastRoom begins a broadcast.
LEMMA BroadcastFindRefines ==
  ASSUME RInv, NEW b \in Broadcasts, NEW r \in RoomIds, NEW u \in Users, BroadcastFind(b, r, u)
  PROVE  RS!CastBegin(b, r, u)
<1>1. /\ cast[b].at = "idle" /\ rooms[r] # None
      /\ cast' = [cast EXCEPT ![b] = [at |-> "found", from |-> u, ref |-> rooms[r], targets |-> {}]]
      /\ UNCHANGED <<rooms, members, user, pc, arg>>
  BY DEF BroadcastFind, readers
<1>2. UNCHANGED <<user, Slots, Calls, Over>>
  BY <1>1, SlotsSame, CallsSame
<1>3. Casting[b] = RS!NoCast
  <2>1. cast[b].targets = {}
    BY <1>1 DEF RInv, NoTargets
  <2> QED
    BY <1>1, <2>1 DEF Casting, RS!NoCast
<1>4. cast'[b] = [at |-> "found", from |-> u, ref |-> rooms[r], targets |-> {}]
  BY <1>1 DEF RInv, IInv, TypeOK
<1>5. \A a \in Broadcasts : a # b => cast'[a] = cast[a]
  BY <1>1 DEF RInv, IInv, TypeOK
<1>6. RoomOf(rooms[r])' = r
  BY <1>1, RoomOfMapped DEF RInv, RoomOf
<1>7. Casting'[b] = [at |-> "called", room |-> r, from |-> u, targets |-> {}]
  BY <1>1, <1>4, <1>6 DEF Casting
<1>8. \A a \in Broadcasts : a # b => Casting'[a] = Casting[a]
  BY <1>1, <1>5 DEF Casting, RoomOf
<1>9. Casting = [a \in Broadcasts |-> Casting[a]] /\ Casting' = [a \in Broadcasts |-> Casting'[a]]
  BY DEF Casting
<1>10. Casting' = [Casting EXCEPT ![b] = [at |-> "called", room |-> r, from |-> u, targets |-> {}]]
  BY <1>7, <1>8, <1>9
<1> QED
  BY <1>2, <1>3, <1>10 DEF RS!CastBegin

\* A copy of the members takes effect, unless the Room has been deleted: then
\* the broadcast took effect at the deletion, and copies nobody.
LEMMA BroadcastSnapshotRefines ==
  ASSUME RInv, NEW b \in Broadcasts, BroadcastSnapshot(b)
  PROVE  RS!CastTake({b}) \/ UNCHANGED RS!vars
<1> DEFINE o == cast[b].ref
           T == {members[o][u] : u \in Users \ {cast[b].from}} \ {None}
<1>1. /\ cast[b].at = "found" /\ o \in Objs
      /\ cast' = [cast EXCEPT ![b] = [Idle EXCEPT !.at = "sending", !.targets = T]]
      /\ UNCHANGED <<rooms, members, user, pc, arg>>
  BY DEF BroadcastSnapshot, readers, RInv, IInv, TypeOK
<1>2. UNCHANGED <<user, Slots, Calls, Over>>
  BY <1>1, SlotsSame, CallsSame
<1>3. cast[b].targets = {}
  BY <1>1 DEF RInv, NoTargets
<1>4. cast'[b].at = "sending" /\ cast'[b].targets = T
  <2> HIDE DEF T
  <2> QED
    BY <1>1 DEF Idle, RInv, IInv, TypeOK
<1>5. \A a \in Broadcasts : a # b => cast'[a] = cast[a]
  BY <1>1 DEF RInv, IInv, TypeOK
<1>6. Casting'[b] = [at |-> "sending", room |-> None, from |-> None, targets |-> T]
  <2> HIDE DEF T
  <2> QED
    BY <1>4 DEF Casting
<1>7. \A a \in Broadcasts : a # b => Casting'[a] = Casting[a]
  BY <1>1, <1>5 DEF Casting, RoomOf
<1>8. Casting = [a \in Broadcasts |-> Casting[a]] /\ Casting' = [a \in Broadcasts |-> Casting'[a]]
  BY DEF Casting
<1>9. CASE \E r \in RoomIds : rooms[r] = o
  <2>1. PICK r \in RoomIds : rooms[r] = o
    BY <1>9
  <2>2. o # None /\ RoomOf(o) = r
    BY <1>1, <2>1, RoomOfMapped, RoomsAssumption DEF RInv
  <2>3. Casting[b] = [at |-> "called", room |-> r, from |-> cast[b].from, targets |-> {}]
    BY <1>1, <2>1, <2>2 DEF Casting
  <2>4. Slots[r] = members[o]
    BY <2>1, <2>2 DEF Slots
  <2>5. RS!Audience(Casting[b].room, Casting[b].from) = T
    <3>1. Casting[b].room = r /\ Casting[b].from = cast[b].from /\ Casting[b].at = "called"
      BY <2>3
    <3> QED
      BY <2>4, <3>1 DEF RS!Audience
  <2> HIDE DEF T
  <2>6. Casting' = [a \in Broadcasts |->
             IF a \in {b}
             THEN [at |-> "sending", room |-> None, from |-> None,
                   targets |-> RS!Audience(Casting[a].room, Casting[a].from)]
             ELSE Casting[a]]
    BY <1>6, <1>7, <1>8, <2>5
  <2>7. Casting[b].at = "called"
    BY <2>3
  <2> QED
    BY <1>2, <2>6, <2>7 DEF RS!CastTake, RS!Sending
<1>10. CASE ~\E r \in RoomIds : rooms[r] = o
  <2>1. \A u \in Users : members[o][u] = None
    BY <1>1, <1>10 DEF RInv, IInv, Tracked
  <2>2. T = {}
    BY <2>1
  <2>3. Casting[b] = [at |-> "sending", room |-> None, from |-> None, targets |-> {}]
    BY <1>1, <1>3, <1>10 DEF Casting
  <2>4. UNCHANGED Casting
    BY <1>6, <1>7, <1>8, <2>2, <2>3
  <2> QED
    BY <1>2, <2>4 DEF RS!vars
<1> QED
  BY <1>9, <1>10

\* A send, or the skip of a full channel, serves one target.
LEMMA BroadcastSendRefines ==
  ASSUME RInv, NEW b \in Broadcasts, NEW c \in Conns, BroadcastSend(b, c)
  PROVE  RS!CastSend(b, c)
<1>1. /\ cast[b].at = "sending" /\ c \in cast[b].targets
      /\ cast' = [cast EXCEPT ![b].targets = @ \ {c}]
      /\ UNCHANGED <<rooms, members, user, pc, arg>>
  BY DEF BroadcastSend, readers
<1>2. UNCHANGED <<user, Slots, Calls, Over>>
  BY <1>1, SlotsSame, CallsSame
<1>3. cast'[b].at = "sending" /\ cast'[b].targets = cast[b].targets \ {c}
  BY <1>1 DEF RInv, IInv, TypeOK, Casts
<1>4. \A a \in Broadcasts : a # b => cast'[a] = cast[a]
  BY <1>1 DEF RInv, IInv, TypeOK
<1>5. Casting[b] = [at |-> "sending", room |-> None, from |-> None, targets |-> cast[b].targets]
  BY <1>1 DEF Casting
<1>6. Casting'[b] = [at |-> "sending", room |-> None, from |-> None, targets |-> cast[b].targets \ {c}]
  BY <1>3 DEF Casting
<1>7. \A a \in Broadcasts : a # b => Casting'[a] = Casting[a]
  BY <1>1, <1>4 DEF Casting, RoomOf
<1>8. Casting = [a \in Broadcasts |-> Casting[a]] /\ Casting' = [a \in Broadcasts |-> Casting'[a]]
  BY DEF Casting
<1>9. Casting[b].at = "sending" /\ c \in Casting[b].targets
  BY <1>1, <1>5
<1>10. Casting' = [Casting EXCEPT ![b] = [at |-> "sending", room |-> None, from |-> None, targets |-> cast[b].targets \ {c}]]
  BY <1>6, <1>7, <1>8
<1> QED
  BY <1>2, <1>5, <1>9, <1>10 DEF RS!CastSend, RS!Sending

\* BroadcastRoom's return ends the broadcast.
LEMMA BroadcastReturnRefines ==
  ASSUME RInv, NEW b \in Broadcasts, BroadcastReturn(b)
  PROVE  RS!CastReturn(b)
<1>1. /\ cast[b].at = "sending" /\ cast[b].targets = {}
      /\ cast' = [cast EXCEPT ![b] = Idle]
      /\ UNCHANGED <<rooms, members, user, pc, arg>>
  BY DEF BroadcastReturn, readers
<1>2. UNCHANGED <<user, Slots, Calls, Over>>
  BY <1>1, SlotsSame, CallsSame
<1>3. cast'[b].at = "idle" /\ cast'[b].targets = {}
  BY <1>1 DEF RInv, IInv, TypeOK, Idle
<1>4. \A a \in Broadcasts : a # b => cast'[a] = cast[a]
  BY <1>1 DEF RInv, IInv, TypeOK
<1>5. Casting[b].at = "sending" /\ Casting[b].targets = {}
  BY <1>1 DEF Casting
<1>6. Casting'[b] = RS!NoCast
  BY <1>3 DEF Casting, RS!NoCast
<1>7. \A a \in Broadcasts : a # b => Casting'[a] = Casting[a]
  BY <1>1, <1>4 DEF Casting, RoomOf
<1>8. Casting = [a \in Broadcasts |-> Casting[a]] /\ Casting' = [a \in Broadcasts |-> Casting'[a]]
  BY DEF Casting
<1> QED
  BY <1>2, <1>5, <1>6, <1>7, <1>8 DEF RS!CastReturn

\* The initial state is a table without members.
LEMMA InitRefines == Init => RS!Init
<1> SUFFICES ASSUME Init PROVE RS!Init
  OBVIOUS
<1>1. Slots = [r \in RoomIds |-> [u \in Users |-> None]]
  BY DEF Init, Slots
<1>2. Executes("free", None) = RS!NoCall
  BY DEF Executes, RS!NoCall
<1>3. Calls = [c \in Conns |-> RS!NoCall]
  BY <1>2 DEF Init, Calls
<1>4. Over = {}
  BY DEF Init, Over
<1>5. Casting = [b \in Broadcasts |-> RS!NoCast]
  BY DEF Init, Casting, Idle, RS!NoCast
<1> QED
  BY <1>1, <1>3, <1>4, <1>5 DEF Init, RS!Init

\* Every step is one of the table, or not visible.
LEMMA NextRefines == RInv /\ [Next]_vars => [RS!Next]_(RS!vars)
<1> SUFFICES ASSUME RInv, [Next]_vars PROVE [RS!Next]_(RS!vars)
  OBVIOUS
<1>1. ASSUME NEW c \in Conns, NEW u \in Users, Connect(c, u)
      PROVE  RS!Next
  BY <1>1, ConnectRefines DEF RS!Next
<1>2. ASSUME NEW c \in Conns, NEW op \in {"join", "leave"}, NEW r \in RoomIds, Command(c, op, r)
      PROVE  RS!Next
  <2>1. RS!Call(c, op, r)
    BY <1>2, CommandRefines DEF Command, Move
  <2> QED
    BY <2>1 DEF RS!Next
<1>3. ASSUME NEW c \in Conns, ReadError(c)
      PROVE  UNCHANGED RS!vars
  BY <1>3, ReadErrorRefines
<1>4. ASSUME NEW c \in Conns, Working(c)
      PROVE  [RS!Next]_(RS!vars)
  <2>1. CASE JoinRoomFind(c)
    BY <2>1, JoinRoomFindRefines
  <2>2. CASE JoinRoomJoin(c)
    BY <2>2, JoinRoomJoinRefines DEF RS!Next
  <2>3. CASE AddRoom(c)
    <3>1. RS!Return(c)
      BY <2>3, DoneRefines DEF AddRoom, Move
    <3> QED
      BY <3>1 DEF RS!Next
  <2>4. CASE LeaveRoomFind(c)
    BY <2>4, LeaveRoomFindRefines DEF RS!Next
  <2>5. CASE LeaveRoomLeave(c)
    BY <2>5, LeaveRoomLeaveRefines DEF RS!Next
  <2>6. CASE LeaveRoomCollect(c)
    BY <2>6, LeaveRoomCollectRefines DEF RS!Next
  <2>7. CASE LeaveDone(c)
    <3>1. RS!Return(c)
      BY <2>7, DoneRefines DEF LeaveDone
    <3> QED
      BY <3>1 DEF RS!Next
  <2>8. ASSUME NEW r \in RoomIds, LeaveNext(c, r)
        PROVE  RS!Next
    <3>1. RS!Call(c, "leave", r)
      BY <2>8, CommandRefines DEF LeaveNext, Move
    <3> QED
      BY <3>1 DEF RS!Next
  <2>9. CASE Quit(c)
    BY <2>9, QuitRefines DEF RS!Next
  <2> QED
    BY <1>4, <2>1, <2>2, <2>3, <2>4, <2>5, <2>6, <2>7, <2>8, <2>9 DEF Working
<1>5. ASSUME NEW c \in Conns, Drain(c)
      PROVE  UNCHANGED RS!vars
  BY <1>5, SlotsSame, CallsSame, CastingSame DEF Drain, readers, RS!vars
<1>6. ASSUME NEW b \in Broadcasts, NEW r \in RoomIds, NEW u \in Users, BroadcastFind(b, r, u)
      PROVE  RS!Next
  BY <1>6, BroadcastFindRefines DEF RS!Next
<1>7. ASSUME NEW b \in Broadcasts, BroadcastSnapshot(b)
      PROVE  [RS!Next]_(RS!vars)
  <2>1. {b} \in SUBSET Broadcasts
    OBVIOUS
  <2> QED
    BY <1>7, <2>1, BroadcastSnapshotRefines DEF RS!Next
<1>8. ASSUME NEW b \in Broadcasts, NEW c \in Conns, BroadcastSend(b, c)
      PROVE  RS!Next
  BY <1>8, BroadcastSendRefines DEF RS!Next
<1>9. ASSUME NEW b \in Broadcasts, BroadcastReturn(b)
      PROVE  RS!Next
  BY <1>9, BroadcastReturnRefines DEF RS!Next
<1>10. CASE UNCHANGED vars
  BY <1>10, SlotsSame, CallsSame, CastingSame DEF vars, readers, RS!vars
<1> QED
  BY <1>1, <1>2, <1>3, <1>4, <1>5, <1>6, <1>7, <1>8, <1>9, <1>10 DEF Next, Fanout

\* JoinRoom, LeaveRoom and BroadcastRoom are atomic operations on one table,
\* for any number of connections, rooms, buckets and broadcasts.
THEOREM RoomsImplementRoomSet == Spec => ImplementsRoomSet
  BY InitRefines, NextRefines, SpecRInv, PTL DEF Spec, ImplementsRoomSet, RS!Spec

=============================================================================
