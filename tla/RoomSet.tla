------------------------------ MODULE RoomSet ------------------------------
(***************************************************************************)
(* What the rooms of a Connect node promise to those who call them: a room *)
(* is a table with one connection per user, there are no Room objects and  *)
(* no locks, and a JoinRoom, a LeaveRoom and a BroadcastRoom each take     *)
(* effect in one instant between their call and their return.  Module      *)
(* Rooms implements this with objects that are looked up in one critical   *)
(* section and used in the next, and deleted when they are found empty.    *)
(***************************************************************************)
CONSTANTS Users, Conns, RoomIds, Broadcasts, None

VARIABLES
  user,     \* the user of a connection
  member,   \* the connection that stands for the user in the room
  call,     \* the room command that a connection executes
  ended,    \* the connections that are over
  cast      \* the broadcasts under way

vars == <<user, member, call, ended, cast>>

NoCall == [op |-> "none", room |-> None]
NoCast == [at |-> "idle", room |-> None, from |-> None, targets |-> {}]

\* A broadcast that has taken effect and must still serve these connections.
Sending(conns) == [at |-> "sending", room |-> None, from |-> None, targets |-> conns]

Init ==
  /\ user = [c \in Conns |-> None]
  /\ member = [r \in RoomIds |-> [u \in Users |-> None]]
  /\ call = [c \in Conns |-> NoCall]
  /\ ended = {}
  /\ cast = [b \in Broadcasts |-> NoCast]

Connect(c, u) ==
  /\ user[c] = None
  /\ user' = [user EXCEPT ![c] = u]
  /\ UNCHANGED <<member, call, ended, cast>>

\* A command is called ...
Call(c, op, r) ==
  /\ user[c] # None /\ c \notin ended
  /\ call[c] = NoCall
  /\ call' = [call EXCEPT ![c] = [op |-> op, room |-> r]]
  /\ UNCHANGED <<user, member, ended, cast>>

\* ... takes effect: the connection stands for its user ...
Join(c) ==
  /\ call[c].op = "join"
  /\ member' = [member EXCEPT ![call[c].room][user[c]] = c]
  /\ call' = [call EXCEPT ![c] = [op |-> "done", room |-> @.room]]
  /\ UNCHANGED <<user, ended, cast>>

\* ... or no longer does, unless another connection has taken its place ...
Leave(c) ==
  /\ call[c].op = "leave"
  /\ member' = [member EXCEPT ![call[c].room][user[c]] = IF @ = c THEN None ELSE @]
  /\ call' = [call EXCEPT ![c] = [op |-> "done", room |-> @.room]]
  /\ UNCHANGED <<user, ended, cast>>

\* ... and returns.
Return(c) ==
  /\ call[c].op = "done"
  /\ call' = [call EXCEPT ![c] = NoCall]
  /\ UNCHANGED <<user, member, ended, cast>>

\* A connection is over only when it has left all rooms.
End(c) ==
  /\ user[c] # None /\ call[c] = NoCall
  /\ \A r \in RoomIds, u \in Users : member[r][u] # c
  /\ ended' = ended \cup {c}
  /\ UNCHANGED <<user, member, call, cast>>

CastBegin(b, r, u) ==
  /\ cast[b] = NoCast
  /\ cast' = [cast EXCEPT ![b] = [at |-> "called", room |-> r, from |-> u, targets |-> {}]]
  /\ UNCHANGED <<user, member, call, ended>>

\* The members other than the sender, at this instant.
Audience(r, u) == {member[r][v] : v \in Users \ {u}} \ {None}

\* Broadcasts take effect: each has the members of its room at one instant.
CastTake(bs) ==
  /\ \A b \in bs : cast[b].at = "called"
  /\ cast' = [b \in Broadcasts |->
       IF b \in bs THEN Sending(Audience(cast[b].room, cast[b].from)) ELSE cast[b]]
  /\ UNCHANGED <<user, member, call, ended>>

\* One of them is served, or skipped because its channel is full.
CastSend(b, c) ==
  /\ cast[b].at = "sending" /\ c \in cast[b].targets
  /\ cast' = [cast EXCEPT ![b] = Sending(@.targets \ {c})]
  /\ UNCHANGED <<user, member, call, ended>>

CastReturn(b) ==
  /\ cast[b].at = "sending" /\ cast[b].targets = {}
  /\ cast' = [cast EXCEPT ![b] = NoCast]
  /\ UNCHANGED <<user, member, call, ended>>

Next ==
  \/ \E c \in Conns :
       \/ \E u \in Users : Connect(c, u)
       \/ \E op \in {"join", "leave"}, r \in RoomIds : Call(c, op, r)
       \/ Join(c) \/ Leave(c) \/ Return(c) \/ End(c)
  \/ \E b \in Broadcasts :
       \/ \E r \in RoomIds, u \in Users : CastBegin(b, r, u)
       \/ \E c \in Conns : CastSend(b, c)
       \/ CastReturn(b)
  \/ \E bs \in SUBSET Broadcasts : CastTake(bs)

Spec == Init /\ [][Next]_vars

=============================================================================
