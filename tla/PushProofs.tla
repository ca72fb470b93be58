----------------------------- MODULE PushProofs -----------------------------
(***************************************************************************)
(* What is proved of Push, for any users, nodes, connections and records:  *)
(* its types, that an attempt delivers at most once, that the order holds  *)
(* until a call is given up, and that an undisturbed attempt reaches every *)
(* connection it is for.                                                   *)
(***************************************************************************)
EXTENDS Push, TLAPS

\* The attempt under way, as it will stand in the channels.
Now == [msg |-> pos, try |-> tries[pos]]

\* The handler of r may still put its record in c's channel.
Reaches(r, c) ==
  /\ NodeOf[c] = r.node
  /\ \/ r.stage = "sent" /\ UserOf[c] \in r.users
     \/ r.stage = "run" /\ c \in r.to

\* The current attempt may still call node n.
Unspent(n) == at \in {"load", "refresh"} \/ (at = "fan" /\ todo[n] # {})

-----------------------------------------------------------------------------
(***************************************************************************)
(* Types.                                                                  *)
(***************************************************************************)
LEMMA InitTypeOK == Init => TypeOK
  <1> SUFFICES ASSUME Init PROVE TypeOK
    OBVIOUS
  <1>1. topic \in Topics /\ Log[topic] \in Seq([from : Users, to : Users] \cup {Garbage})
    BY PushAssumption DEF Init
  <1>2. route \in [Users -> Nodes \cup {None}]
    <2> SUFFICES ASSUME NEW u \in Users PROVE
          (IF \E c \in Online : UserOf[c] = u THEN NodeOf[CHOOSE c \in Online : UserOf[c] = u] ELSE None)
            \in Nodes \cup {None}
      BY DEF Init
    <2>1. CASE \E c \in Online : UserOf[c] = u
      <3>1. (CHOOSE c \in Online : UserOf[c] = u) \in Online
        BY <2>1
      <3> QED BY <3>1, <2>1, PushAssumption
    <2> QED BY <2>1
  <1>3. todo \in [Nodes -> SUBSET Users] /\ rpc \subseteq Calls
    BY DEF Init, Nobody
  <1>4. sent \in [Conns -> Seq(Entries)] /\ written \in [Conns -> Nat]
    BY DEF Init
  <1>5. \A c \in Conns : Len(sent[c]) - written[c] \in 0 .. SendCap
    BY PushAssumption DEF Init
  <1>6. tries \in [Records -> Nat] /\ conn \in [Conns -> Ro!Lives]
    BY DEF Init, Ro!Lives
  <1>7. Len(Log[topic]) \in Nat
    BY <1>1
  <1>8. expired \in BOOLEAN /\ quiet \in BOOLEAN /\ late \in BOOLEAN
    BY DEF Init
  <1>9. disturb \in 0 .. MaxDisturb /\ refused \subseteq Conns
    BY PushAssumption DEF Init
  <1>10. session \in {"on", "ending"} /\ pos \in 0 .. Len(Log[topic]) /\ mark \in 0 .. pos /\ committed \in 0 .. mark
    BY <1>7 DEF Init
  <1>11. at = "idle"
    BY DEF Init
  <1>12. room \in [Conns -> {"out", "in", "over"}]
    BY DEF Init
  <1> QED BY <1>1, <1>2, <1>3, <1>4, <1>5, <1>6, <1>8, <1>9, <1>10, <1>11, <1>12 DEF TypeOK

\* A connection, a route or the room changes.
ConnStep ==
  \/ \E c \in Conns : ArriveOrClose(c) \/ FollowRoute(c) \/ JoinRoom(c) \/ LeaveRoom(c)
  \/ \E u \in Users : ExpireRoute(u)
  \/ \E n \in Nodes : NodeEnds(n)

\* It disturbs the current record, and leaves the consumer, the channels and all
\* calls but those that die with their node as they are.
LEMMA ConnStepKeeps ==
  ASSUME ConnStep
  PROVE  /\ UNCHANGED <<topic, session, pos, mark, committed, at, expired, todo>>
         /\ UNCHANGED <<sent, written, refused, tries, late>>
         /\ rpc' \subseteq rpc
         /\ quiet' = FALSE
         /\ disturb' = disturb \/ (disturb < MaxDisturb /\ disturb' = disturb + 1)
  <1> USE DEF Disturb, consumer, claim, channels, history
  <1>1. ASSUME NEW c \in Conns, ArriveOrClose(c)
        PROVE UNCHANGED <<consumer, rpc>> /\ Disturb
    BY <1>1 DEF ArriveOrClose
  <1>2. ASSUME NEW c \in Conns, FollowRoute(c)
        PROVE UNCHANGED <<consumer, rpc, disturb>> /\ quiet' = FALSE
    BY <1>2 DEF FollowRoute
  <1>3. ASSUME NEW u \in Users, ExpireRoute(u)
        PROVE UNCHANGED <<consumer, rpc>> /\ Disturb
    BY <1>3 DEF ExpireRoute
  <1>4. ASSUME NEW n \in Nodes, NodeEnds(n)
        PROVE UNCHANGED consumer /\ rpc' \subseteq rpc /\ Disturb
    BY <1>4 DEF NodeEnds
  <1>5. ASSUME NEW c \in Conns, JoinRoom(c)
        PROVE UNCHANGED <<consumer, rpc, disturb>> /\ quiet' = FALSE
    BY <1>5 DEF JoinRoom
  <1>6. ASSUME NEW c \in Conns, LeaveRoom(c)
        PROVE UNCHANGED <<consumer, rpc>> /\ Disturb
    BY <1>6 DEF LeaveRoom
  <1> QED BY <1>1, <1>2, <1>3, <1>4, <1>5, <1>6 DEF ConnStep

\* The steps, one by one.
LEMMA NextCases ==
  ASSUME [Next]_vars
  PROVE  \/ Take \/ Mark \/ LookupRoute \/ LoadMembers \/ RefreshMembers \/ LoadNodes
         \/ LoadFails \/ EarlyReturn \/ Wait \/ Retry \/ Expire \/ Commit \/ End \/ Leave \/ Restart \/ Crash
         \/ \E n \in Nodes : Spawn(n) \/ SpawnFails(n)
         \/ \E r \in rpc : Lookup(r) \/ Reply(r) \/ GiveUp(r) \/ Lost(r)
         \/ \E r \in rpc, c \in Conns : TrySend(r, c)
         \/ \E c \in Conns : Drain(c)
         \/ ConnStep
         \/ UNCHANGED vars
  BY DEF Next, Consume, Serve, ConnStep

\* TypeOK in five parts.
TypePlace ==
  /\ topic \in Topics
  /\ session \in {"on", "ending"}
  /\ pos \in 0 .. Len(Log[topic])
  /\ mark \in 0 .. pos /\ committed \in 0 .. mark
  /\ at \in {"idle", "load", "refresh", "fan", "sleep", "done", "left"}
  /\ at \in {"load", "refresh", "fan", "sleep"} => pos \in Records /\ Msg # Garbage
TypeCalls == todo \in [Nodes -> SUBSET Users] /\ rpc \subseteq Calls
TypeUsers ==
  /\ route \in [Users -> Nodes \cup {None}]
  /\ conn \in [Conns -> Ro!Lives]
  /\ room \in [Conns -> {"out", "in", "over"}]
TypeChannels ==
  /\ sent \in [Conns -> Seq(Entries)]
  /\ written \in [Conns -> Nat]
  /\ \A c \in Conns : Len(sent[c]) - written[c] \in 0 .. SendCap
TypeHistory ==
  /\ expired \in BOOLEAN /\ quiet \in BOOLEAN /\ late \in BOOLEAN
  /\ disturb \in 0 .. MaxDisturb
  /\ refused \subseteq Conns
  /\ tries \in [Records -> Nat]

LEMMA TypeParts == TypeOK <=> TypePlace /\ TypeCalls /\ TypeUsers /\ TypeChannels /\ TypeHistory
  BY DEF TypeOK, TypePlace, TypeCalls, TypeUsers, TypeChannels, TypeHistory

LEMMA LogType == \A t \in Topics : Len(Log[t]) \in Nat /\ DOMAIN Log[t] = 1 .. Len(Log[t])
  BY PushAssumption

\* The topic is chosen once.
LEMMA TopicStays == [Next]_vars => topic' = topic /\ Records' = Records
  <1> SUFFICES ASSUME [Next]_vars PROVE topic' = topic
    BY DEF Records
  <1>1. CASE Take \/ Mark \/ LookupRoute \/ LoadMembers \/ RefreshMembers \/ LoadNodes
    BY <1>1 DEF Take, Mark, LookupRoute, LoadMembers, RefreshMembers, LoadNodes
  <1>2. CASE LoadFails \/ EarlyReturn \/ Wait \/ Retry \/ Expire \/ Commit \/ End \/ Leave \/ Restart \/ Crash
    BY <1>2 DEF LoadFails, EarlyReturn, Wait, Retry, Expire, Commit, End, Leave, Restart, Crash
  <1>3. ASSUME NEW n \in Nodes, Spawn(n) \/ SpawnFails(n) PROVE topic' = topic
    BY <1>3 DEF Spawn, SpawnFails
  <1>4. ASSUME NEW r \in rpc, Lookup(r) \/ Reply(r) \/ GiveUp(r) \/ Lost(r) PROVE topic' = topic
    BY <1>4 DEF Lookup, Reply, GiveUp, Lost
  <1>5. ASSUME NEW r \in rpc, NEW c \in Conns, TrySend(r, c) PROVE topic' = topic
    BY <1>5 DEF TrySend
  <1>6. ASSUME NEW c \in Conns, Drain(c) PROVE topic' = topic
    BY <1>6 DEF Drain
  <1>7. CASE UNCHANGED vars
    BY <1>7 DEF vars
  <1>8. CASE ConnStep
    BY <1>8, ConnStepKeeps
  <1> QED BY <1>1, <1>2, <1>3, <1>4, <1>5, <1>6, <1>7, <1>8, NextCases

LEMMA NextTypePlace == TypeOK /\ [Next]_vars => TypePlace'
  <1> SUFFICES ASSUME TypePlace, [Next]_vars PROVE TypePlace'
    BY TypeParts
  <1> USE LogType DEF TypePlace, Records, Msg
  <1>0. topic' = topic
    BY TopicStays
  <1>1. CASE Take
    BY <1>0, <1>1 DEF Take
  <1>2. CASE Mark
    BY <1>0, <1>2 DEF Mark, Goto
  <1>3. CASE LookupRoute \/ LoadMembers \/ RefreshMembers \/ LoadNodes
    BY <1>0, <1>3 DEF LookupRoute, LoadMembers, RefreshMembers, ReadMembers, LoadNodes, Goto, claim
  <1>4. CASE LoadFails \/ EarlyReturn \/ Wait \/ Retry \/ Leave
    BY <1>0, <1>4 DEF LoadFails, EarlyReturn, Wait, Retry, Leave, Goto, claim
  <1>5. CASE Commit \/ End \/ Expire
    BY <1>0, <1>5 DEF Commit, End, Expire, claim
  <1>6. CASE Restart \/ Crash
    BY <1>0, <1>6 DEF Restart, Crash, Goto
  <1>7. ASSUME NEW n \in Nodes, Spawn(n) \/ SpawnFails(n) PROVE TypePlace'
    BY <1>0, <1>7 DEF Spawn, SpawnFails, claim
  <1>8. ASSUME NEW r \in rpc, Lookup(r) \/ Reply(r) \/ GiveUp(r) \/ Lost(r) PROVE TypePlace'
    BY <1>0, <1>8 DEF Lookup, Reply, GiveUp, Lost, claim
  <1>9. ASSUME NEW r \in rpc, NEW c \in Conns, TrySend(r, c) PROVE TypePlace'
    BY <1>0, <1>9 DEF TrySend, claim
  <1>10. ASSUME NEW c \in Conns, Drain(c) PROVE TypePlace'
    BY <1>0, <1>10 DEF Drain, claim
  <1>11. CASE UNCHANGED vars
    BY <1>11 DEF vars, claim
  <1>12. CASE ConnStep
    BY <1>0, <1>12, ConnStepKeeps
  <1> QED BY <1>1, <1>2, <1>3, <1>4, <1>5, <1>6, <1>7, <1>8, <1>9, <1>10, <1>11, <1>12, NextCases

\* A record is for users.
LEMMA AudienceType ==
  ASSUME TypePlace, at \in {"load", "refresh", "fan", "sleep"}
  PROVE  Audience \subseteq Users
  <1>1. Msg \in [from : Users, to : Users]
    BY PushAssumption DEF TypePlace, Records, Msg
  <1> QED BY <1>1, PushAssumption DEF Audience, To, TypePlace, Topics

\* A lookup maps the users of the list it read; whom that lacks it counts as not
\* reached.
Listed(list) ==
  /\ todo' = RoutingMap(list \ {Msg.from})
  /\ \A c \in Conns : UserOf[c] \in Members => UserOf[c] \in list \/ c \in refused'
NodesListed(list) ==
  /\ todo' = [n \in Nodes |-> IF n \in list THEN Audience ELSE {}]
  /\ \A c \in Conns : NodeOf[c] \in list \/ c \in refused'

LEMMA LoadCases ==
  ASSUME LookupRoute \/ LoadMembers \/ RefreshMembers \/ LoadNodes
  PROVE  /\ UNCHANGED <<topic, pos, rpc, sent, tries, route, conn, room>> /\ at \in {"load", "refresh"}
         /\ \/ at' = "refresh" /\ todo' = todo
            \/ at' = "fan" /\ topic = "single" /\ todo' = RoutingMap(Audience)
            \/ at' = "fan" /\ topic = "group" /\ \E list \in SUBSET Members : Listed(list)
            \/ at' = "fan" /\ topic = "room" /\ \E list \in SUBSET Nodes : NodesListed(list)
  <1> USE DEF Goto, claim, channels, users, history
  <1>1. CASE LookupRoute
    BY <1>1 DEF LookupRoute
  <1>2. ASSUME NEW list \in SUBSET Members, ReadMembers(list) PROVE at' = "fan" /\ Listed(list)
    BY <1>2 DEF ReadMembers, Misses, Listed
  <1>3. CASE LoadMembers \/ RefreshMembers
    BY <1>2, <1>3 DEF LoadMembers, RefreshMembers
  <1>4. CASE LoadNodes
    <2>1. PICK list \in SUBSET Nodes :
            /\ todo' = [n \in Nodes |-> IF n \in list THEN Audience ELSE {}]
            /\ IF list = Nodes THEN UNCHANGED <<budget, refused>>
               ELSE Misses({c \in Conns : NodeOf[c] \notin list})
      BY <1>4 DEF LoadNodes
    <2>2. NodesListed(list)
      BY <2>1, PushAssumption DEF NodesListed, Misses
    <2> QED BY <1>4, <2>2 DEF LoadNodes
  <1> QED BY <1>1, <1>3, <1>4

\* So it maps nobody but those the record is for.
LEMMA LoadAddressed ==
  ASSUME TypePlace, LookupRoute \/ LoadMembers \/ RefreshMembers \/ LoadNodes, at' = "fan"
  PROVE  todo' \in [Nodes -> SUBSET Audience]
  <1>1. CASE topic = "single" /\ todo' = RoutingMap(Audience)
    BY <1>1 DEF RoutingMap
  <1>2. ASSUME topic = "group", NEW list \in SUBSET Members, Listed(list)
        PROVE  todo' \in [Nodes -> SUBSET Audience]
    <2>1. list \ {Msg.from} \subseteq Audience
      BY <1>2 DEF Audience, To
    <2> QED BY <1>2, <2>1 DEF Listed, RoutingMap
  <1>3. ASSUME NEW list \in SUBSET Nodes, NodesListed(list)
        PROVE  todo' \in [Nodes -> SUBSET Audience]
    BY <1>3 DEF NodesListed
  <1> QED BY <1>1, <1>2, <1>3, LoadCases

\* A call of which nobody waits any more is still a call.
LEMMA UnwaitedType == ASSUME rpc \subseteq Calls PROVE {[r EXCEPT !.waited = FALSE] : r \in rpc} \subseteq Calls
  BY DEF Calls

LEMMA NextTypeCalls == TypeOK /\ [Next]_vars => TypeCalls'
  <1> SUFFICES ASSUME TypePlace, TypeCalls, TypeHistory, [Next]_vars PROVE TypeCalls'
    BY TypeParts
  <1> USE DEF TypeCalls
  <1>1. CASE Take \/ Mark \/ LoadFails \/ Wait
    BY <1>1 DEF Take, Mark, LoadFails, Wait
  <1>2. CASE LookupRoute \/ LoadMembers \/ RefreshMembers \/ LoadNodes
    <2>1. rpc' = rpc /\ at \in {"load", "refresh"} /\ (todo' = todo \/ at' = "fan")
      BY <1>2, LoadCases
    <2>2. at' = "fan" => todo' \in [Nodes -> SUBSET Users]
      BY <1>2, <2>1, LoadAddressed, AudienceType
    <2> QED BY <2>1, <2>2
  <1>4. CASE EarlyReturn \/ Crash
    BY <1>4, UnwaitedType DEF EarlyReturn, Crash, Nobody
  <1>5. CASE Retry \/ Leave \/ Expire \/ Commit \/ End \/ Restart
    BY <1>5 DEF Retry, Leave, Expire, Commit, End, Restart
  <1>6. ASSUME NEW n \in Nodes, Spawn(n) PROVE TypeCalls'
    <2>1. pos \in Records /\ pos \in Nat
      BY <1>6, LogType DEF Spawn, TypePlace, Records
    <2>2. tries[pos] \in Nat
      BY <2>1 DEF TypeHistory
    <2>3. [node |-> n, msg |-> pos, users |-> todo[n], try |-> tries[pos],
           stage |-> "sent", to |-> {}, waited |-> TRUE] \in Calls
      BY <2>1, <2>2 DEF Calls
    <2> QED BY <1>6, <2>3 DEF Spawn
  <1>7. ASSUME NEW n \in Nodes, SpawnFails(n) PROVE TypeCalls'
    BY <1>7 DEF SpawnFails
  <1>8. ASSUME NEW r \in rpc, Lookup(r) PROVE TypeCalls'
    <2>1. [r EXCEPT !.stage = "run", !.to = Found(r.node, r.users)] \in Calls
      BY DEF Calls, Found
    <2> QED BY <1>8, <2>1 DEF Lookup, Replace
  <1>9. ASSUME NEW r \in rpc, Reply(r) \/ Lost(r) PROVE TypeCalls'
    BY <1>9 DEF Reply, Lost
  <1>10. ASSUME NEW r \in rpc, GiveUp(r) PROVE TypeCalls'
    <2>1. [r EXCEPT !.waited = FALSE] \in Calls
      BY DEF Calls
    <2> QED BY <1>10, <2>1 DEF GiveUp, Replace
  <1>11. ASSUME NEW r \in rpc, NEW c \in Conns, TrySend(r, c) PROVE TypeCalls'
    <2>1. [r EXCEPT !.to = @ \ {c}] \in Calls
      BY DEF Calls
    <2> QED BY <1>11, <2>1 DEF TrySend, Replace
  <1>12. ASSUME NEW c \in Conns, Drain(c) PROVE TypeCalls'
    BY <1>12 DEF Drain
  <1>13. CASE UNCHANGED vars
    BY <1>13 DEF vars
  <1>14. CASE ConnStep
    BY <1>14, ConnStepKeeps
  <1> QED BY <1>1, <1>2, <1>4, <1>5, <1>6, <1>7, <1>8, <1>9, <1>10, <1>11, <1>12, <1>13, <1>14, NextCases

LEMMA NextTypeUsers == TypeOK /\ [Next]_vars => TypeUsers'
  <1> SUFFICES ASSUME TypeUsers, [Next]_vars PROVE TypeUsers'
    BY TypeParts
  <1> USE PushAssumption DEF TypeUsers
  <1>1. ASSUME NEW c \in Conns, ArriveOrClose(c) PROVE TypeUsers'
    <2> USE DEF Ro!Lives, Ro!Become
    <2>1. CASE Ro!Arrive(c) /\ UNCHANGED room
      BY <2>1 DEF Ro!Arrive
    <2>2. CASE Ro!Close(c) /\ UNCHANGED room
      BY <2>2 DEF Ro!Close
    <2>3. CASE Ro!Refuse(c) /\ room' = [room EXCEPT ![c] = "over"]
      BY <2>3 DEF Ro!Refuse
    <2> QED BY <1>1, <2>1, <2>2, <2>3 DEF ArriveOrClose
  <1>2. ASSUME NEW c \in Conns, FollowRoute(c) PROVE TypeUsers'
    <2> USE DEF Ro!Lives, Ro!Become, Ro!SetRoute
    <2>0. UserOf[c] \in Users /\ NodeOf[c] \in Nodes /\ room' = room
      BY <1>2 DEF FollowRoute
    <2>1. CASE Ro!Register(c) \/ Ro!RegisterLate(c)
      <3>1. route' = [route EXCEPT ![UserOf[c]] = NodeOf[c]]
        BY <2>1 DEF Ro!Register, Ro!RegisterLate
      <3>2. conn' \in [Conns -> Ro!Lives]
        BY <2>1 DEF Ro!Register, Ro!RegisterLate
      <3> QED BY <2>0, <3>1, <3>2
    <2>2. CASE Ro!Unregister(c)
      BY <2>0, <2>2 DEF Ro!Unregister
    <2> QED BY <1>2, <2>1, <2>2 DEF FollowRoute
  <1>3. ASSUME NEW u \in Users, ExpireRoute(u) PROVE TypeUsers'
    BY <1>3 DEF ExpireRoute, Ro!ExpireRoute
  <1>4. ASSUME NEW n \in Nodes, NodeEnds(n) PROVE TypeUsers'
    <2>1. PICK lost \in SUBSET {c \in Conns : NodeOf[c] = n} :
            /\ Ro!NodeEnds(n, lost)
            /\ room' = [c \in Conns |-> IF c \in lost THEN "over" ELSE room[c]]
      BY <1>4 DEF NodeEnds
    <2> QED BY <2>1 DEF Ro!NodeEnds, Ro!Lives
  <1>12. ASSUME NEW c \in Conns, JoinRoom(c) \/ LeaveRoom(c) PROVE TypeUsers'
    BY <1>12 DEF JoinRoom, LeaveRoom
  <1>5. CASE UNCHANGED users
    BY <1>5 DEF users
  <1>6. CASE \/ Take \/ Mark \/ LookupRoute \/ LoadMembers \/ RefreshMembers \/ LoadNodes
             \/ LoadFails \/ EarlyReturn \/ Wait \/ Retry \/ Expire \/ Commit \/ End \/ Leave \/ Restart \/ Crash
    BY <1>5, <1>6 DEF Take, Mark, LookupRoute, LoadMembers, RefreshMembers, LoadNodes,
      LoadFails, EarlyReturn, Wait, Retry, Expire, Commit, End, Leave, Restart, Crash
  <1>7. ASSUME NEW n \in Nodes, Spawn(n) \/ SpawnFails(n) PROVE TypeUsers'
    BY <1>5, <1>7 DEF Spawn, SpawnFails
  <1>8. ASSUME NEW r \in rpc, Lookup(r) \/ Reply(r) \/ GiveUp(r) \/ Lost(r) PROVE TypeUsers'
    BY <1>5, <1>8 DEF Lookup, Reply, GiveUp, Lost
  <1>9. ASSUME NEW r \in rpc, NEW c \in Conns, TrySend(r, c) PROVE TypeUsers'
    BY <1>5, <1>9 DEF TrySend
  <1>10. ASSUME NEW c \in Conns, Drain(c) PROVE TypeUsers'
    BY <1>5, <1>10 DEF Drain
  <1>11. CASE UNCHANGED vars
    BY <1>5, <1>11 DEF vars
  <1> QED BY <1>1, <1>2, <1>3, <1>4, <1>6, <1>7, <1>8, <1>9, <1>10, <1>11, <1>12, NextCases DEF ConnStep

\* Only trySend writes a channel, and only writePump empties it.
LEMMA ChannelsStay ==
  ASSUME [Next]_vars
  PROVE  \/ UNCHANGED channels
         \/ \E r \in rpc, c \in Conns : TrySend(r, c)
         \/ \E c \in Conns : Drain(c)
  <1>1. CASE \/ Take \/ Mark \/ LookupRoute \/ LoadMembers \/ RefreshMembers \/ LoadNodes
             \/ LoadFails \/ EarlyReturn \/ Wait \/ Retry \/ Expire \/ Commit \/ End \/ Leave \/ Restart \/ Crash
    BY <1>1 DEF Take, Mark, LookupRoute, LoadMembers, RefreshMembers, LoadNodes,
      LoadFails, EarlyReturn, Wait, Retry, Expire, Commit, End, Leave, Restart, Crash
  <1>2. ASSUME NEW n \in Nodes, Spawn(n) \/ SpawnFails(n) PROVE UNCHANGED channels
    BY <1>2 DEF Spawn, SpawnFails
  <1>3. ASSUME NEW r \in rpc, Lookup(r) \/ Reply(r) \/ GiveUp(r) \/ Lost(r) PROVE UNCHANGED channels
    BY <1>3 DEF Lookup, Reply, GiveUp, Lost
  <1>4. CASE ConnStep
    BY <1>4, ConnStepKeeps DEF channels
  <1>5. CASE UNCHANGED vars
    BY <1>5 DEF vars
  <1> QED BY <1>1, <1>2, <1>3, <1>4, <1>5, NextCases

\* A TrySend that puts something in the channel, or drops it.
LEMMA TrySendCases ==
  ASSUME TypeChannels, NEW r \in rpc, rpc \subseteq Calls, NEW c \in Conns, TrySend(r, c)
  PROVE  \/ UNCHANGED sent
         \/ /\ Len(sent[c]) - written[c] < SendCap
            /\ sent' = [sent EXCEPT ![c] = Append(@, Entry(r))]
            /\ sent'[c] = Append(sent[c], Entry(r))
            /\ \A d \in Conns \ {c} : sent'[d] = sent[d]
            /\ Entry(r) \in Entries
  BY DEF TrySend, TypeChannels, Entry, Entries, Calls

LEMMA NextTypeChannels == TypeOK /\ [Next]_vars => TypeChannels'
  <1> SUFFICES ASSUME TypeChannels, rpc \subseteq Calls, [Next]_vars PROVE TypeChannels'
    BY TypeParts DEF TypeCalls
  <1>1. CASE UNCHANGED channels
    BY <1>1 DEF channels, TypeChannels
  <1>2. ASSUME NEW c \in Conns, Drain(c) PROVE TypeChannels'
    <2>1. \A d \in Conns : Len(sent[d]) \in Nat
      BY DEF TypeChannels
    <2>2. sent' = sent /\ written' = [written EXCEPT ![c] = @ + 1] /\ written[c] < Len(sent[c])
      BY <1>2 DEF Drain
    <2> QED BY <2>1, <2>2, PushAssumption DEF TypeChannels
  <1>3. ASSUME NEW r \in rpc, NEW c \in Conns, TrySend(r, c) PROVE TypeChannels'
    <2>0. written' = written
      BY <1>3 DEF TrySend
    <2>1. CASE UNCHANGED sent
      BY <2>0, <2>1 DEF TypeChannels
    <2>2. CASE /\ Len(sent[c]) - written[c] < SendCap
               /\ sent' = [sent EXCEPT ![c] = Append(@, Entry(r))]
               /\ sent'[c] = Append(sent[c], Entry(r))
               /\ \A d \in Conns \ {c} : sent'[d] = sent[d]
               /\ Entry(r) \in Entries
      <3>1. sent[c] \in Seq(Entries) /\ Len(sent[c]) \in Nat
        BY DEF TypeChannels
      <3>2. Append(sent[c], Entry(r)) \in Seq(Entries) /\ Len(Append(sent[c], Entry(r))) = Len(sent[c]) + 1
        BY <2>2, <3>1
      <3>3. sent' \in [Conns -> Seq(Entries)]
        BY <2>2, <3>2 DEF TypeChannels
      <3>4. Len(sent'[c]) - written[c] \in 0 .. SendCap
        BY <2>2, <3>1, <3>2, PushAssumption DEF TypeChannels
      <3> QED BY <2>0, <2>2, <3>3, <3>4 DEF TypeChannels
    <2> QED BY <1>3, <2>1, <2>2, TrySendCases
  <1> QED BY <1>1, <1>2, <1>3, ChannelsStay

\* The flags and counters that the steps of the model keep for the properties.
Flags == expired \in BOOLEAN /\ quiet \in BOOLEAN /\ late \in BOOLEAN

LEMMA NextFlags == Flags /\ [Next]_vars => Flags'
  <1> SUFFICES ASSUME Flags, [Next]_vars PROVE Flags'
    OBVIOUS
  <1> USE DEF Flags, Disturb, NodeFails, Misses, ReadMembers, budget, history
  <1>1. CASE Take
    BY <1>1 DEF Take
  <1>2. CASE Mark \/ LookupRoute \/ LoadMembers \/ RefreshMembers \/ LoadNodes \/ Wait \/ Commit \/ Leave
    BY <1>2 DEF Mark, LookupRoute, LoadMembers, RefreshMembers, LoadNodes, Wait, Commit, Leave
  <1>3. CASE LoadFails \/ Expire \/ End
    BY <1>3 DEF LoadFails, Expire, End
  <1>4. CASE EarlyReturn \/ Retry \/ Restart \/ Crash
    BY <1>4 DEF EarlyReturn, Retry, Restart, Crash
  <1>5. ASSUME NEW n \in Nodes, Spawn(n) \/ SpawnFails(n) PROVE Flags'
    BY <1>5 DEF Spawn, SpawnFails
  <1>6. ASSUME NEW r \in rpc, Lookup(r) \/ Reply(r) PROVE Flags'
    BY <1>6 DEF Lookup, Reply
  <1>7. ASSUME NEW r \in rpc, GiveUp(r) \/ Lost(r) PROVE Flags'
    BY <1>7 DEF GiveUp, Lost
  <1>8. ASSUME NEW r \in rpc, NEW c \in Conns, TrySend(r, c) PROVE Flags'
    BY <1>8 DEF TrySend
  <1>9. ASSUME NEW c \in Conns, Drain(c) PROVE Flags'
    BY <1>9 DEF Drain
  <1>10. CASE UNCHANGED vars
    BY <1>10 DEF vars
  <1>11. CASE ConnStep
    BY <1>11, ConnStepKeeps
  <1> QED BY <1>1, <1>2, <1>3, <1>4, <1>5, <1>6, <1>7, <1>8, <1>9, <1>10, <1>11, NextCases

Counters == disturb \in 0 .. MaxDisturb /\ refused \subseteq Conns /\ tries \in [Records -> Nat]

LEMMA NextCounters == TypeOK /\ [Next]_vars => Counters'
  <1> SUFFICES ASSUME TypePlace, Counters, [Next]_vars PROVE Counters'
    BY TypeParts DEF TypeHistory, Counters
  <1>0. Records' = Records
    BY TopicStays
  <1> USE <1>0, PushAssumption DEF Counters, Disturb, NodeFails, Misses, ReadMembers, budget, history
  <1>1. CASE Take
    <2>0. topic \in Topics /\ pos \in 0 .. Len(Log[topic]) /\ pos < Len(Log[topic])
      BY <1>1 DEF Take, TypePlace
    <2>1. pos + 1 \in Records
      <3> HIDE <1>0 DEF Counters, Disturb, NodeFails, Misses, ReadMembers, budget, history
      <3> QED BY <2>0, LogType DEF Records
    <2> QED BY <1>1, <2>1 DEF Take
  <1>2. CASE Mark \/ LookupRoute \/ Wait \/ Commit \/ Leave
    BY <1>2 DEF Mark, LookupRoute, Wait, Commit, Leave
  <1>13. ASSUME NEW cs \in SUBSET Conns, tries' = tries, UNCHANGED <<budget, refused>> \/ Misses(cs)
         PROVE  Counters'
    BY <1>13
  <1>14. CASE LoadMembers \/ RefreshMembers \/ LoadNodes
    <2>1. tries' = tries
      BY <1>14 DEF LoadMembers, RefreshMembers, LoadNodes
    <2>2. \E cs \in SUBSET Conns : UNCHANGED <<budget, refused>> \/ Misses(cs)
      <3> HIDE DEF Misses
      <3>1. \A list : {c \in Conns : UserOf[c] \notin list} \in SUBSET Conns
        OBVIOUS
      <3>2. \A list : {c \in Conns : NodeOf[c] \notin list} \in SUBSET Conns
        OBVIOUS
      <3>3. CASE LoadMembers \/ RefreshMembers
        BY <3>1, <3>3 DEF LoadMembers, RefreshMembers
      <3>4. CASE LoadNodes
        BY <3>2, <3>4 DEF LoadNodes
      <3> QED BY <1>14, <3>3, <3>4
    <2> QED BY <1>13, <2>1, <2>2
  <1>3. CASE LoadFails \/ Expire \/ End
    BY <1>3 DEF LoadFails, Expire, End
  <1>4. CASE EarlyReturn \/ Restart \/ Crash
    BY <1>4 DEF EarlyReturn, Restart, Crash
  <1>5. CASE Retry
    <2>1. pos \in Records
      BY <1>5 DEF Retry, TypePlace, Goto
    <2> QED BY <1>5, <2>1 DEF Retry
  <1>6. ASSUME NEW n \in Nodes, Spawn(n) \/ SpawnFails(n) PROVE Counters'
    BY <1>6 DEF Spawn, SpawnFails
  <1>7. ASSUME NEW r \in rpc, Lookup(r) \/ Reply(r) PROVE Counters'
    BY <1>7 DEF Lookup, Reply
  <1>8. ASSUME NEW r \in rpc, GiveUp(r) \/ Lost(r) PROVE Counters'
    BY <1>8 DEF GiveUp, Lost
  <1>9. ASSUME NEW r \in rpc, NEW c \in Conns, TrySend(r, c) PROVE Counters'
    BY <1>9 DEF TrySend
  <1>10. ASSUME NEW c \in Conns, Drain(c) PROVE Counters'
    BY <1>10 DEF Drain
  <1>11. CASE UNCHANGED vars
    BY <1>11 DEF vars
  <1>12. CASE ConnStep
    BY <1>12, ConnStepKeeps
  <1> QED BY <1>1, <1>2, <1>3, <1>4, <1>5, <1>6, <1>7, <1>8, <1>9, <1>10, <1>11, <1>12, <1>14, NextCases

LEMMA NextTypeOK == TypeOK /\ [Next]_vars => TypeOK'
  <1> SUFFICES ASSUME TypeOK, [Next]_vars PROVE TypeOK'
    OBVIOUS
  <1>1. Flags'
    BY NextFlags, TypeParts DEF TypeHistory, Flags
  <1>2. TypeHistory'
    BY <1>1, NextCounters DEF TypeHistory, Flags, Counters
  <1>3. TypePlace' /\ TypeCalls' /\ TypeUsers' /\ TypeChannels'
    BY NextTypePlace, NextTypeCalls, NextTypeUsers, NextTypeChannels
  <1> QED BY <1>2, <1>3, Zenon DEF TypeOK, TypePlace, TypeCalls, TypeUsers, TypeChannels, TypeHistory

\* The types of the consumer, its calls and the channels hold; with them: a
\* record that is worked on is one of the partition, marks and commits never
\* pass it, and no channel holds more than its capacity (trySend).
THEOREM PushTypeOK == Spec => []TypeOK
  BY InitTypeOK, NextTypeOK, PTL DEF Spec

-----------------------------------------------------------------------------
(***************************************************************************)
(* An attempt calls a node at most once, a call reaches a connection at    *)
(* most once, and no two attempts have the same number.                    *)
(***************************************************************************)
Has(c, e) == \E i \in DOMAIN sent[c] : sent[c][i] = e

\* Calls and channels name attempts that were made.
CallsMade ==
  \A r \in rpc : r.msg \in Records /\ r.try <= tries[r.msg] /\ \A c \in r.to : NodeOf[c] = r.node
EntriesMade ==
  \A c \in Conns : \A i \in DOMAIN sent[c] :
    sent[c][i].msg \in Records /\ sent[c][i].try <= tries[sent[c][i].msg]

\* What a call may still deliver is not there yet.
NotYetSent == \A r \in rpc, c \in Conns : Reaches(r, c) => ~Has(c, Entry(r))

\* An attempt has one call to a node.
OneCall == \A r, s \in rpc : r.node = s.node /\ Entry(r) = Entry(s) => r = s

\* A node that the current attempt may still call has had no call of it.
NotYetCalled ==
  \A n \in Nodes : Unspent(n) =>
    /\ \A r \in rpc : r.node = n => Entry(r) # Now
    /\ \A c \in Conns : NodeOf[c] = n => ~Has(c, Now)

AttemptInv == CallsMade /\ EntriesMade /\ NotYetSent /\ OneCall /\ NotYetCalled /\ OncePerAttempt

LEMMA InitAttempt == Init => AttemptInv
  BY DEF Init, AttemptInv, CallsMade, EntriesMade, NotYetSent, OneCall, NotYetCalled, OncePerAttempt,
    Unspent, Has

\* A step that makes no attempt, calls nobody and fills no channel.
LEMMA AttemptFrame ==
  ASSUME AttemptInv,
         UNCHANGED <<topic, sent, tries>>,
         \A n \in Nodes : Unspent(n)' => Unspent(n) /\ pos' = pos,
         \A s \in rpc' : \E r \in rpc :
           /\ s.node = r.node /\ s.msg = r.msg /\ s.try = r.try
           /\ \A c \in Conns : Reaches(s, c) => Reaches(r, c)
           /\ \A c \in s.to : NodeOf[c] = s.node,
         OneCall'
  PROVE  AttemptInv'
  <1>1. CallsMade'
    BY DEF AttemptInv, CallsMade, Records
  <1>2. EntriesMade'
    BY DEF AttemptInv, EntriesMade, Records
  <1>3. NotYetSent'
    <2> SUFFICES ASSUME NEW s \in rpc', NEW c \in Conns, Reaches(s, c) PROVE ~Has(c, Entry(s))'
      BY DEF NotYetSent, Reaches
    <2>1. PICK r \in rpc : s.msg = r.msg /\ s.try = r.try /\ Reaches(r, c)
      OBVIOUS
    <2>2. ~Has(c, Entry(r)) /\ Entry(s) = Entry(r)
      BY <2>1 DEF AttemptInv, NotYetSent, Entry
    <2> QED BY <2>2 DEF Has
  <1>4. NotYetCalled'
    <2> SUFFICES ASSUME NEW n \in Nodes, Unspent(n)'
                 PROVE  /\ \A r \in rpc' : r.node = n => Entry(r) # Now'
                        /\ \A c \in Conns : NodeOf[c] = n => ~Has(c, Now)'
      BY DEF NotYetCalled
    <2>1. Unspent(n) /\ Now' = Now
      BY DEF Now
    <2> QED BY <2>1 DEF AttemptInv, NotYetCalled, Has, Entry
  <1>5. OncePerAttempt'
    BY DEF AttemptInv, OncePerAttempt
  <1> QED BY <1>1, <1>2, <1>3, <1>4, <1>5 DEF AttemptInv

\* The same, and the calls stay as they are, or end.
LEMMA AttemptStays ==
  ASSUME AttemptInv,
         UNCHANGED <<topic, sent, tries>>, rpc' \subseteq rpc,
         \A n \in Nodes : Unspent(n)' => Unspent(n) /\ pos' = pos
  PROVE  AttemptInv'
  <1>1. OneCall'
    BY DEF AttemptInv, OneCall, Entry
  <1>2. \A s \in rpc' : \E r \in rpc :
           /\ s.node = r.node /\ s.msg = r.msg /\ s.try = r.try
           /\ \A c \in Conns : Reaches(s, c) => Reaches(r, c)
           /\ \A c \in s.to : NodeOf[c] = s.node
    BY DEF AttemptInv, CallsMade
  <1> QED BY <1>1, <1>2, AttemptFrame

\* A step of one call: it moves on, or it is over.
LEMMA AttemptCallMoves ==
  ASSUME AttemptInv, NEW r \in rpc, NEW s,
         s.node = r.node /\ s.msg = r.msg /\ s.try = r.try,
         \A c \in Conns : Reaches(s, c) => Reaches(r, c),
         \A c \in s.to : NodeOf[c] = s.node,
         rpc' \subseteq (rpc \ {r}) \cup {s},
         UNCHANGED <<topic, sent, tries, pos, at, todo>>
  PROVE  AttemptInv'
  <1>1. OneCall'
    BY DEF AttemptInv, OneCall, Entry
  <1>2. \A t \in rpc' : \E q \in rpc :
           /\ t.node = q.node /\ t.msg = q.msg /\ t.try = q.try
           /\ \A c \in Conns : Reaches(t, c) => Reaches(q, c)
           /\ \A c \in t.to : NodeOf[c] = t.node
    BY DEF AttemptInv, CallsMade
  <1> QED BY <1>1, <1>2, AttemptFrame DEF Unspent

\* A new attempt has a number of its own.
LEMMA AttemptBegins ==
  ASSUME AttemptInv, TypeOK, NEW p \in Records,
         pos' = p /\ tries' = [tries EXCEPT ![p] = @ + 1],
         UNCHANGED <<topic, rpc, sent>>
  PROVE  AttemptInv'
  <1>0. /\ tries \in [Records -> Nat] /\ rpc \subseteq Calls
        /\ \A c \in Conns : \A i \in DOMAIN sent[c] : sent[c][i] \in Entries
    BY DEF TypeOK
  <1>1. \A m \in Records : tries[m] \in Nat /\ tries'[m] \in Nat /\ tries[m] <= tries'[m]
    BY <1>0
  <1>2. CallsMade'
    BY <1>0, <1>1 DEF AttemptInv, CallsMade, Records, Calls
  <1>3. EntriesMade'
    BY <1>0, <1>1 DEF AttemptInv, EntriesMade, Records, Entries
  <1>4. NotYetSent' /\ OneCall' /\ OncePerAttempt'
    BY DEF AttemptInv, NotYetSent, OneCall, OncePerAttempt, Has, Entry
  <1>5. Now' = [msg |-> p, try |-> tries[p] + 1]
    BY <1>0 DEF Now
  <1>6. \A r \in rpc' : Entry(r) # Now'
    BY <1>0, <1>5 DEF AttemptInv, CallsMade, Entry, Calls
  <1>7. \A c \in Conns : ~Has(c, Now)'
    BY <1>0, <1>5 DEF AttemptInv, EntriesMade, Has, Entries
  <1>8. NotYetCalled'
    BY <1>6, <1>7 DEF NotYetCalled
  <1> QED BY <1>2, <1>3, <1>4, <1>8 DEF AttemptInv

LEMMA AttemptSpawn ==
  ASSUME AttemptInv, TypeOK, NEW n \in Nodes, Spawn(n)
  PROVE  AttemptInv'
  <1> DEFINE q == [node |-> n, msg |-> pos, users |-> todo[n], try |-> tries[pos],
                   stage |-> "sent", to |-> {}, waited |-> TRUE]
  <1>1. /\ rpc' = rpc \cup {q} /\ todo' = [todo EXCEPT ![n] = {}] /\ at = "fan" /\ todo[n] # {}
        /\ UNCHANGED <<topic, sent, tries, pos, at>>
    BY DEF Spawn, channels, history, claim
  <1>2. todo \in [Nodes -> SUBSET Users] /\ pos \in Records /\ tries[pos] \in Nat
    BY <1>1 DEF TypeOK
  <1>3. Entry(q) = Now /\ q.node = n /\ q.msg = pos /\ q.try = tries[pos] /\ q.to = {}
    BY DEF Entry, Now
  <1>4. (\A r \in rpc : r.node = n => Entry(r) # Now) /\ (\A c \in Conns : NodeOf[c] = n => ~Has(c, Now))
    BY <1>1 DEF AttemptInv, NotYetCalled, Unspent
  <1> HIDE DEF q
  <1>5. CallsMade'
    BY <1>1, <1>2, <1>3 DEF AttemptInv, CallsMade, Records
  <1>6. EntriesMade' /\ OncePerAttempt'
    BY <1>1 DEF AttemptInv, EntriesMade, OncePerAttempt, Records
  <1>7. NotYetSent'
    <2> SUFFICES ASSUME NEW s \in rpc', NEW c \in Conns, Reaches(s, c) PROVE ~Has(c, Entry(s))
      BY <1>1 DEF NotYetSent, Reaches, Has
    <2>1. CASE s \in rpc
      BY <2>1 DEF AttemptInv, NotYetSent
    <2>2. CASE s = q
      BY <2>2, <1>3, <1>4 DEF Reaches
    <2> QED BY <2>1, <2>2, <1>1
  <1>8. OneCall'
    <2> SUFFICES ASSUME NEW r \in rpc', NEW s \in rpc', r.node = s.node, Entry(r) = Entry(s) PROVE r = s
      BY DEF OneCall, Entry
    <2> QED BY <1>1, <1>3, <1>4 DEF AttemptInv, OneCall
  <1>9. NotYetCalled'
    <2> SUFFICES ASSUME NEW m \in Nodes, Unspent(m)'
                 PROVE  /\ \A r \in rpc' : r.node = m => Entry(r) # Now
                        /\ \A c \in Conns : NodeOf[c] = m => ~Has(c, Now)
      BY <1>1 DEF NotYetCalled, Has, Now
    <2>1. m # n /\ Unspent(m)
      BY <1>1, <1>2 DEF Unspent
    <2> QED BY <2>1, <1>1, <1>3 DEF AttemptInv, NotYetCalled
  <1> QED BY <1>5, <1>6, <1>7, <1>8, <1>9 DEF AttemptInv

LEMMA AttemptTrySend ==
  ASSUME AttemptInv, TypeOK, NEW r \in rpc, NEW c \in Conns, TrySend(r, c)
  PROVE  AttemptInv'
  <1> DEFINE s == [r EXCEPT !.to = @ \ {c}]
  <1>0. /\ rpc' = (rpc \ {r}) \cup {s} /\ r.stage = "run" /\ c \in r.to
        /\ UNCHANGED <<topic, tries, pos, at, todo>>
    BY DEF TrySend, Replace, claim
  <1>1. /\ s.node = r.node /\ s.msg = r.msg /\ s.try = r.try /\ s.stage = "run" /\ s.to = r.to \ {c}
        /\ r \in Calls
    BY <1>0 DEF TypeOK, Calls
  <1>2. \A d \in Conns : Reaches(s, d) => Reaches(r, d) /\ d # c
    BY <1>0, <1>1 DEF Reaches
  <1>3. \A d \in s.to : NodeOf[d] = s.node
    BY <1>1 DEF AttemptInv, CallsMade
  <1> HIDE DEF s
  <1>4. CASE UNCHANGED sent
    BY <1>0, <1>1, <1>2, <1>3, <1>4, AttemptCallMoves
  <1>5. CASE /\ sent'[c] = Append(sent[c], Entry(r))
             /\ \A d \in Conns \ {c} : sent'[d] = sent[d]
             /\ Entry(r) \in Entries
    <2>1. sent[c] \in Seq(Entries) /\ NodeOf[c] = r.node /\ Reaches(r, c)
      BY <1>0 DEF TypeOK, AttemptInv, CallsMade, Reaches
    <2>2. /\ DOMAIN sent'[c] = 1 .. Len(sent[c]) + 1 /\ DOMAIN sent[c] = 1 .. Len(sent[c])
          /\ Len(sent[c]) \in Nat
          /\ \A i \in DOMAIN sent[c] : sent'[c][i] = sent[c][i]
          /\ sent'[c][Len(sent[c]) + 1] = Entry(r)
      BY <1>5, <2>1
    <2>3. \A d \in Conns : \A e : Has(d, e)' => Has(d, e) \/ (d = c /\ e = Entry(r))
      BY <1>5, <2>2 DEF Has
    <2>4. ~Has(c, Entry(r))
      BY <2>1 DEF AttemptInv, NotYetSent
    <2>5. CallsMade'
      BY <1>0, <1>1, <1>3 DEF AttemptInv, CallsMade, Records
    <2>6. EntriesMade'
      <3> SUFFICES ASSUME NEW d \in Conns, NEW i \in DOMAIN sent'[d]
                   PROVE  sent'[d][i].msg \in Records /\ sent'[d][i].try <= tries[sent'[d][i].msg]
        BY <1>0 DEF EntriesMade, Records
      <3>1. CASE d # c
        BY <3>1, <1>5 DEF AttemptInv, EntriesMade
      <3>2. CASE d = c /\ i \in DOMAIN sent[c]
        BY <3>2, <2>2 DEF AttemptInv, EntriesMade
      <3>3. CASE d = c /\ i = Len(sent[c]) + 1
        BY <3>3, <2>2 DEF AttemptInv, CallsMade, Entry
      <3> QED BY <3>1, <3>2, <3>3, <2>2
    <2>7. OneCall'
      BY <1>0, <1>1 DEF AttemptInv, OneCall, Entry
    <2>8. NotYetSent'
      <3> SUFFICES ASSUME NEW t \in rpc', NEW d \in Conns, Reaches(t, d), Has(d, Entry(t))' PROVE FALSE
        BY DEF NotYetSent, Reaches, Entry
      <3>1. PICK q \in rpc : q.node = t.node /\ Entry(q) = Entry(t) /\ Reaches(q, d) /\ (q = r => d # c)
        BY <1>0, <1>1, <1>2 DEF Entry
      <3>2. ~Has(d, Entry(t))
        BY <3>1 DEF AttemptInv, NotYetSent
      <3>3. d = c /\ Entry(q) = Entry(r)
        BY <2>3, <3>1, <3>2
      <3>4. q.node = r.node
        BY <3>1, <3>3, <2>1 DEF Reaches
      <3> QED BY <3>1, <3>3, <3>4 DEF AttemptInv, OneCall
    <2>9. NotYetCalled'
      <3> SUFFICES ASSUME NEW n \in Nodes, Unspent(n)
                   PROVE  /\ \A t \in rpc' : t.node = n => Entry(t) # Now
                          /\ \A d \in Conns : NodeOf[d] = n => ~Has(d, Now)'
        BY <1>0 DEF NotYetCalled, Now, Unspent, Has
      <3>1. /\ \A t \in rpc : t.node = n => Entry(t) # Now
            /\ \A d \in Conns : NodeOf[d] = n => ~Has(d, Now)
        BY DEF AttemptInv, NotYetCalled
      <3>2. \A t \in rpc' : t.node = n => Entry(t) # Now
        BY <3>1, <1>0, <1>1 DEF Entry
      <3>3. Now' = Now
        BY <1>0 DEF Now
      <3> QED BY <3>1, <3>2, <3>3, <2>1, <2>3
    <2>10. OncePerAttempt'
      <3> SUFFICES ASSUME NEW d \in Conns, NEW i \in DOMAIN sent'[d], NEW j \in DOMAIN sent'[d],
                          sent'[d][i] = sent'[d][j]
                   PROVE  i = j
        BY DEF OncePerAttempt
      <3>1. CASE d # c
        BY <3>1, <1>5 DEF AttemptInv, OncePerAttempt
      <3>2. CASE d = c
        BY <3>2, <2>2, <2>4 DEF AttemptInv, OncePerAttempt, Has
      <3> QED BY <3>1, <3>2
    <2> QED BY <2>5, <2>6, <2>7, <2>8, <2>9, <2>10 DEF AttemptInv
  <1>6. TypeChannels /\ rpc \subseteq Calls
    BY TypeParts DEF TypeCalls
  <1> QED BY <1>4, <1>5, <1>6, TrySendCases

LEMMA NextAttempt == TypeOK /\ AttemptInv /\ [Next]_vars => AttemptInv'
  <1> SUFFICES ASSUME TypeOK, AttemptInv, [Next]_vars PROVE AttemptInv'
    OBVIOUS
  <1>1. CASE Take
    <2>1. pos + 1 \in Records
      BY <1>1, LogType DEF TypeOK, Take, Records
    <2> QED BY <1>1, <2>1, AttemptBegins DEF Take, channels
  <1>2. CASE Retry
    <2>1. pos \in Records
      BY <1>2 DEF TypeOK, Retry, Goto
    <2> QED BY <1>2, <2>1, AttemptBegins DEF Retry, channels, claim
  <1>3. CASE Mark \/ Wait \/ Leave \/ Restart
    <2>1. UNCHANGED <<topic, rpc, sent, tries>> /\ at' \in {"idle", "done", "left"}
      BY <1>3 DEF Mark, Wait, Leave, Restart, Goto, channels, history
    <2> QED BY <2>1, AttemptStays DEF Unspent
  <1>4. CASE LookupRoute \/ LoadMembers \/ RefreshMembers \/ LoadNodes
    <2>1. UNCHANGED <<topic, rpc, sent, tries, pos>> /\ at \in {"load", "refresh"}
      BY <1>4, LoadCases
    <2> QED BY <2>1, AttemptStays DEF Unspent
  <1>5. CASE LoadFails
    <2>1. UNCHANGED <<topic, rpc, sent, tries>> /\ at' \in {"sleep", "done"}
      BY <1>5 DEF LoadFails, Goto, channels, history
    <2> QED BY <2>1, AttemptStays DEF Unspent
  <1>6. CASE Expire \/ Commit \/ End
    <2>1. UNCHANGED <<topic, rpc, sent, tries, pos, at, todo>>
      BY <1>6 DEF Expire, Commit, End, channels, history, claim
    <2> QED BY <2>1, AttemptStays DEF Unspent
  <1>7. CASE EarlyReturn \/ Crash
    <2>1. /\ UNCHANGED <<topic, sent, tries>> /\ at' \in {"sleep", "done", "idle"}
          /\ rpc' = {[r EXCEPT !.waited = FALSE] : r \in rpc}
      BY <1>7 DEF EarlyReturn, Crash, channels
    <2>2. \A r \in rpc : LET s == [r EXCEPT !.waited = FALSE]
                         IN  /\ s.node = r.node /\ s.msg = r.msg /\ s.try = r.try
                             /\ s.to = r.to /\ s.stage = r.stage /\ s.users = r.users
      BY DEF TypeOK, Calls
    <2>3. \A s \in rpc' : \E r \in rpc :
            /\ s.node = r.node /\ s.msg = r.msg /\ s.try = r.try
            /\ \A c \in Conns : Reaches(s, c) => Reaches(r, c)
            /\ \A c \in s.to : NodeOf[c] = s.node
      <3> TAKE s \in rpc'
      <3>1. PICK r \in rpc : s = [r EXCEPT !.waited = FALSE]
        BY <2>1
      <3>2. /\ s.node = r.node /\ s.msg = r.msg /\ s.try = r.try
            /\ s.to = r.to /\ s.stage = r.stage /\ s.users = r.users
        BY <3>1, <2>2
      <3>3. \A c \in Conns : Reaches(s, c) => Reaches(r, c)
        BY <3>2 DEF Reaches
      <3>4. \A c \in s.to : NodeOf[c] = s.node
        BY <3>2 DEF AttemptInv, CallsMade
      <3> QED BY <3>2, <3>3, <3>4
    <2>4. OneCall'
      <3> SUFFICES ASSUME NEW s \in rpc', NEW t \in rpc', s.node = t.node, Entry(s) = Entry(t) PROVE s = t
        BY DEF OneCall, Entry
      <3>1. PICK q \in rpc : s = [q EXCEPT !.waited = FALSE]
        BY <2>1
      <3>2. PICK r \in rpc : t = [r EXCEPT !.waited = FALSE]
        BY <2>1
      <3>3. q.node = r.node /\ Entry(q) = Entry(r)
        BY <3>1, <3>2, <2>2 DEF Entry
      <3> QED BY <3>1, <3>2, <3>3 DEF AttemptInv, OneCall
    <2> QED BY <2>1, <2>3, <2>4, AttemptFrame DEF Unspent
  <1>8. ASSUME NEW n \in Nodes, Spawn(n) PROVE AttemptInv'
    BY <1>8, AttemptSpawn
  <1>9. ASSUME NEW n \in Nodes, SpawnFails(n) PROVE AttemptInv'
    <2>1. UNCHANGED <<topic, rpc, sent, tries, pos, at>> /\ todo' = [todo EXCEPT ![n] = {}]
      BY <1>9 DEF SpawnFails, channels, claim
    <2>2. todo \in [Nodes -> SUBSET Users]
      BY DEF TypeOK
    <2>3. \A m \in Nodes : Unspent(m)' => Unspent(m) /\ pos' = pos
      BY <2>1, <2>2 DEF Unspent
    <2> QED BY <2>1, <2>3, AttemptStays
  <1>10. ASSUME NEW r \in rpc, Lookup(r) PROVE AttemptInv'
    <2> DEFINE s == [r EXCEPT !.stage = "run", !.to = Found(r.node, r.users)]
    <2>1. /\ s.node = r.node /\ s.msg = r.msg /\ s.try = r.try /\ s.stage = "run" /\ r.stage = "sent"
          /\ s.to = Found(r.node, r.users)
      BY <1>10 DEF TypeOK, Calls, Lookup
    <2>2. rpc' = (rpc \ {r}) \cup {s} /\ UNCHANGED <<topic, sent, tries, pos, at, todo>>
      BY <1>10 DEF Lookup, Replace, channels, history, claim
    <2> HIDE DEF s
    <2>3. (\A c \in Conns : Reaches(s, c) => Reaches(r, c)) /\ \A c \in s.to : NodeOf[c] = s.node
      BY <2>1 DEF Reaches, Found
    <2> QED BY <2>1, <2>2, <2>3, AttemptCallMoves
  <1>11. ASSUME NEW r \in rpc, Reply(r) \/ Lost(r) PROVE AttemptInv'
    <2>1. rpc' = rpc \ {r} /\ UNCHANGED <<topic, sent, tries, pos, at, todo>>
      BY <1>11 DEF Reply, Lost, channels, history, claim
    <2>2. \A c \in r.to : NodeOf[c] = r.node
      BY DEF AttemptInv, CallsMade
    <2> QED BY <2>1, <2>2, AttemptCallMoves
  <1>12. ASSUME NEW r \in rpc, GiveUp(r) PROVE AttemptInv'
    <2> DEFINE s == [r EXCEPT !.waited = FALSE]
    <2>1. /\ s.node = r.node /\ s.msg = r.msg /\ s.try = r.try
          /\ s.stage = r.stage /\ s.to = r.to /\ s.users = r.users
      BY DEF TypeOK, Calls
    <2>2. rpc' = (rpc \ {r}) \cup {s} /\ UNCHANGED <<topic, sent, tries, pos, at, todo>>
      BY <1>12 DEF GiveUp, Replace, channels, claim
    <2> HIDE DEF s
    <2>3. \A c \in Conns : Reaches(s, c) => Reaches(r, c)
      BY <2>1 DEF Reaches
    <2>4. \A c \in s.to : NodeOf[c] = s.node
      BY <2>1 DEF AttemptInv, CallsMade
    <2> QED BY <2>1, <2>2, <2>3, <2>4, AttemptCallMoves
  <1>13. ASSUME NEW r \in rpc, NEW c \in Conns, TrySend(r, c) PROVE AttemptInv'
    BY <1>13, AttemptTrySend
  <1>14. ASSUME NEW c \in Conns, Drain(c) PROVE AttemptInv'
    <2>1. UNCHANGED <<topic, rpc, sent, tries, pos, at, todo>>
      BY <1>14 DEF Drain, channels, history, claim
    <2> QED BY <2>1, AttemptStays DEF Unspent
  <1>15. CASE ConnStep
    <2>1. UNCHANGED <<topic, sent, tries, pos, at, todo>> /\ rpc' \subseteq rpc
      BY <1>15, ConnStepKeeps
    <2> QED BY <2>1, AttemptStays DEF Unspent
  <1>16. CASE UNCHANGED vars
    BY <1>16, AttemptStays DEF vars, channels, history, claim, Unspent
  <1> QED BY <1>1, <1>2, <1>3, <1>4, <1>5, <1>6, <1>7, <1>8, <1>9, <1>10, <1>11, <1>12, <1>13, <1>14,
        <1>15, <1>16, NextCases

\* An attempt at a record reaches a connection at most once, however many calls
\* are given up, retried or served late and whenever the process dies
\* (ConsumeClaim's retry loop, PushMsgToUsers, trySend).
THEOREM PushOncePerAttempt == Spec => []OncePerAttempt
  <1>1. TypeOK /\ AttemptInv /\ [Next]_vars => (TypeOK /\ AttemptInv)'
    BY NextTypeOK, NextAttempt
  <1>2. AttemptInv => OncePerAttempt
    BY DEF AttemptInv
  <1> QED BY <1>1, <1>2, InitTypeOK, InitAttempt, PTL DEF Spec

-----------------------------------------------------------------------------
(***************************************************************************)
(* As long as every call has been waited for, all calls are of the current *)
(* record, and a connection that one of them may still reach has only      *)
(* earlier records.                                                        *)
(***************************************************************************)
Behind(c) == \A i \in DOMAIN sent[c] : sent[c][i].msg < pos

CallsCurrent == \A r \in rpc : r.waited /\ r.msg = pos /\ at = "fan" /\ ~Unspent(r.node)
EntriesPast == \A c \in Conns : \A i \in DOMAIN sent[c] : sent[c][i].msg <= pos
UncalledBehind == \A c \in Conns : Unspent(NodeOf[c]) \/ at = "sleep" => Behind(c)
CalledBehind == \A r \in rpc, c \in Conns : Reaches(r, c) => Behind(c)
OneCallPerNode == \A r, s \in rpc : r.node = s.node => r = s
Sorted == \A c \in Conns : \A i, j \in DOMAIN sent[c] : i < j => sent[c][i].msg < sent[c][j].msg

Orderly == CallsCurrent /\ EntriesPast /\ UncalledBehind /\ CalledBehind /\ OneCallPerNode /\ Sorted
OrderInv == ~late => Orderly

LEMMA InitOrder == Init => OrderInv
  BY DEF Init, OrderInv, Orderly, CallsCurrent, EntriesPast, UncalledBehind, CalledBehind, OneCallPerNode,
    Sorted, Behind

\* A step that fills no channel and calls nobody.
LEMMA OrderFrame ==
  ASSUME Orderly,
         UNCHANGED <<sent, pos>>,
         \A n \in Nodes : Unspent(n)' => Unspent(n) \/ at = "sleep",
         at' = "sleep" => at \in {"load", "refresh", "sleep"},
         \A s \in rpc' : \E r \in rpc :
           /\ s.node = r.node /\ s.msg = r.msg /\ s.waited = r.waited
           /\ \A c \in Conns : Reaches(s, c) => Reaches(r, c),
         \A s \in rpc' : at' = "fan" /\ s.node \in Nodes,
         OneCallPerNode'
  PROVE  Orderly'
  <1>0. \A c \in Conns : NodeOf[c] \in Nodes
    BY PushAssumption
  <1>1. CallsCurrent'
    <2> SUFFICES ASSUME NEW s \in rpc' PROVE s.waited /\ s.msg = pos /\ at' = "fan" /\ ~Unspent(s.node)'
      BY DEF CallsCurrent
    <2>1. PICK r \in rpc : s.node = r.node /\ s.msg = r.msg /\ s.waited = r.waited
      OBVIOUS
    <2>2. r.waited /\ r.msg = pos /\ at = "fan" /\ ~Unspent(r.node)
      BY DEF Orderly, CallsCurrent
    <2>3. ~Unspent(s.node)'
      BY <2>1, <2>2 DEF Unspent
    <2> QED BY <2>1, <2>2, <2>3
  <1>2. EntriesPast' /\ Sorted'
    BY DEF Orderly, EntriesPast, Sorted
  <1>3. UncalledBehind'
    <2> SUFFICES ASSUME NEW c \in Conns, Unspent(NodeOf[c])' \/ at' = "sleep" PROVE Behind(c)'
      BY DEF UncalledBehind
    <2>1. Unspent(NodeOf[c]) \/ at = "sleep"
      BY <1>0 DEF Unspent
    <2>2. Behind(c)
      BY <2>1 DEF Orderly, UncalledBehind
    <2> QED BY <2>2 DEF Behind
  <1>4. CalledBehind'
    <2> SUFFICES ASSUME NEW s \in rpc', NEW c \in Conns, Reaches(s, c) PROVE Behind(c)'
      BY DEF CalledBehind, Reaches
    <2>1. Behind(c)
      BY DEF Orderly, CalledBehind
    <2> QED BY <2>1 DEF Behind
  <1> QED BY <1>1, <1>2, <1>3, <1>4 DEF Orderly

LEMMA OrderStays ==
  ASSUME Orderly, rpc \subseteq Calls,
         UNCHANGED <<sent, pos>>, rpc' \subseteq rpc,
         \A n \in Nodes : Unspent(n)' => Unspent(n) \/ at = "sleep",
         at' = "sleep" => at \in {"load", "refresh", "sleep"},
         rpc = {} \/ at' = "fan"
  PROVE  Orderly'
  <1>1. OneCallPerNode'
    BY DEF Orderly, OneCallPerNode
  <1>2. \A s \in rpc' : at' = "fan" /\ s.node \in Nodes
    BY DEF Calls
  <1> QED BY <1>1, <1>2, OrderFrame

LEMMA OrderCallMoves ==
  ASSUME Orderly, rpc \subseteq Calls, NEW r \in rpc, NEW s,
         s.node = r.node /\ s.msg = r.msg /\ s.waited = r.waited,
         \A c \in Conns : Reaches(s, c) => Reaches(r, c),
         rpc' \subseteq (rpc \ {r}) \cup {s},
         UNCHANGED <<sent, pos, at, todo>>
  PROVE  Orderly'
  <1>1. OneCallPerNode'
    BY DEF Orderly, OneCallPerNode
  <1>2. \A t \in rpc' : at' = "fan" /\ t.node \in Nodes
    BY DEF Calls, Orderly, CallsCurrent
  <1>3. \A t \in rpc' : \E q \in rpc :
          /\ t.node = q.node /\ t.msg = q.msg /\ t.waited = q.waited
          /\ \A c \in Conns : Reaches(t, c) => Reaches(q, c)
    OBVIOUS
  <1>4. \A n \in Nodes : Unspent(n)' => Unspent(n) \/ at = "sleep"
    BY DEF Unspent
  <1> QED BY <1>1, <1>2, <1>3, <1>4, OrderFrame

\* Once a call has been given up the history keeps that.
LEMMA LateStays == [Next]_vars /\ ~late' => ~late
  <1> SUFFICES ASSUME [Next]_vars PROVE late' = late \/ late'
    OBVIOUS
  <1> USE DEF history
  <1>1. CASE Take \/ Mark \/ LookupRoute \/ LoadMembers \/ RefreshMembers \/ LoadNodes
    BY <1>1 DEF Take, Mark, LookupRoute, LoadMembers, RefreshMembers, LoadNodes
  <1>2. CASE LoadFails \/ EarlyReturn \/ Wait \/ Retry \/ Expire \/ Commit \/ End \/ Leave \/ Restart \/ Crash
    BY <1>2 DEF LoadFails, EarlyReturn, Wait, Retry, Expire, Commit, End, Leave, Restart, Crash
  <1>3. ASSUME NEW n \in Nodes, Spawn(n) \/ SpawnFails(n) PROVE late' = late \/ late'
    BY <1>3 DEF Spawn, SpawnFails
  <1>4. ASSUME NEW r \in rpc, Lookup(r) \/ Reply(r) \/ GiveUp(r) \/ Lost(r) PROVE late' = late \/ late'
    BY <1>4 DEF Lookup, Reply, GiveUp, Lost
  <1>5. ASSUME NEW r \in rpc, NEW c \in Conns, TrySend(r, c) PROVE late' = late \/ late'
    BY <1>5 DEF TrySend
  <1>6. ASSUME NEW c \in Conns, Drain(c) PROVE late' = late \/ late'
    BY <1>6 DEF Drain
  <1>7. CASE UNCHANGED vars
    BY <1>7 DEF vars
  <1>8. CASE ConnStep
    BY <1>8, ConnStepKeeps
  <1> QED BY <1>1, <1>2, <1>3, <1>4, <1>5, <1>6, <1>7, <1>8, NextCases

LEMMA OrderTake ==
  ASSUME TypeOK, Orderly, Take
  PROVE  Orderly'
  <1>1. /\ at = "idle" /\ pos' = pos + 1 /\ UNCHANGED <<sent, rpc>>
        /\ pos \in Nat
    BY LogType DEF Take, channels, TypeOK
  <1>2. rpc = {}
    BY <1>1 DEF Orderly, CallsCurrent
  <1>3. \A c \in Conns : \A i \in DOMAIN sent[c] : sent[c][i].msg \in Nat /\ sent[c][i].msg <= pos
    <2>1. \A c \in Conns : sent[c] \in Seq(Entries)
      BY DEF TypeOK
    <2>2. \A c \in Conns : \A i \in DOMAIN sent[c] : sent[c][i] \in Entries
      BY <2>1
    <2> QED BY <2>2 DEF Entries, Orderly, EntriesPast
  <1>4. \A c \in Conns : \A i \in DOMAIN sent'[c] : sent'[c][i].msg < pos' /\ sent'[c][i].msg <= pos'
    BY <1>1, <1>3
  <1>5. EntriesPast' /\ UncalledBehind'
    BY <1>4 DEF EntriesPast, UncalledBehind, Behind
  <1>6. CallsCurrent' /\ CalledBehind' /\ OneCallPerNode'
    BY <1>1, <1>2 DEF CallsCurrent, CalledBehind, OneCallPerNode
  <1>7. Sorted'
    BY <1>1 DEF Orderly, Sorted
  <1> QED BY <1>5, <1>6, <1>7 DEF Orderly

LEMMA OrderSpawn ==
  ASSUME TypeOK, Orderly, NEW n \in Nodes, Spawn(n)
  PROVE  Orderly'
  <1> DEFINE q == [node |-> n, msg |-> pos, users |-> todo[n], try |-> tries[pos],
                   stage |-> "sent", to |-> {}, waited |-> TRUE]
  <1>1. /\ rpc' = rpc \cup {q} /\ todo' = [todo EXCEPT ![n] = {}] /\ at = "fan" /\ todo[n] # {}
        /\ UNCHANGED <<sent, pos, at>>
    BY DEF Spawn, channels, claim
  <1>2. todo \in [Nodes -> SUBSET Users]
    BY DEF TypeOK
  <1>3. q.node = n /\ q.msg = pos /\ q.waited
    OBVIOUS
  <1>4. Unspent(n) /\ ~Unspent(n)' /\ \A m \in Nodes : Unspent(m)' => Unspent(m)
    BY <1>1, <1>2 DEF Unspent
  <1>5. \A r \in rpc : r.waited /\ r.msg = pos /\ r.node # n /\ r.node \in Nodes /\ ~Unspent(r.node)
    <2>1. \A r \in rpc : r.waited /\ r.msg = pos /\ ~Unspent(r.node)
      BY DEF Orderly, CallsCurrent
    <2>2. \A r \in rpc : r.node \in Nodes
      BY DEF TypeOK, Calls
    <2> QED BY <2>1, <2>2, <1>4
  <1> HIDE DEF q
  <1>6. CallsCurrent'
    <2> SUFFICES ASSUME NEW s \in rpc' PROVE s.waited /\ s.msg = pos /\ ~Unspent(s.node)'
      BY <1>1 DEF CallsCurrent
    <2> QED BY <1>1, <1>3, <1>4, <1>5
  <1>7. EntriesPast' /\ Sorted'
    BY <1>1 DEF Orderly, EntriesPast, Sorted
  <1>8. UncalledBehind'
    <2> SUFFICES ASSUME NEW c \in Conns, Unspent(NodeOf[c])' PROVE Behind(c)
      BY <1>1 DEF UncalledBehind, Behind
    <2> QED BY <1>4, PushAssumption DEF Orderly, UncalledBehind
  <1>9. CalledBehind'
    <2> SUFFICES ASSUME NEW s \in rpc', NEW c \in Conns, Reaches(s, c) PROVE Behind(c)
      BY <1>1 DEF CalledBehind, Behind, Reaches
    <2>1. CASE s \in rpc
      BY <2>1 DEF Orderly, CalledBehind
    <2>2. CASE s = q
      BY <2>2, <1>3, <1>4 DEF Reaches, Orderly, UncalledBehind
    <2> QED BY <1>1, <2>1, <2>2
  <1>10. OneCallPerNode'
    BY <1>1, <1>3, <1>5 DEF Orderly, OneCallPerNode
  <1> QED BY <1>6, <1>7, <1>8, <1>9, <1>10 DEF Orderly

LEMMA OrderTrySend ==
  ASSUME TypeOK, AttemptInv, Orderly, NEW r \in rpc, NEW c \in Conns, TrySend(r, c)
  PROVE  Orderly'
  <1> DEFINE s == [r EXCEPT !.to = @ \ {c}]
  <1>0. /\ rpc' = (rpc \ {r}) \cup {s} /\ r.stage = "run" /\ c \in r.to
        /\ UNCHANGED <<pos, at, todo>>
    BY DEF TrySend, Replace, claim
  <1>1. /\ s.node = r.node /\ s.msg = r.msg /\ s.waited = r.waited /\ s.stage = "run" /\ s.to = r.to \ {c}
        /\ r \in Calls /\ rpc \subseteq Calls
    BY <1>0 DEF TypeOK, Calls
  <1>2. \A d \in Conns : Reaches(s, d) => Reaches(r, d) /\ d # c
    BY <1>0, <1>1 DEF Reaches
  <1> HIDE DEF s
  <1>3. CASE UNCHANGED sent
    BY <1>0, <1>1, <1>2, <1>3, OrderCallMoves
  <1>4. CASE /\ sent'[c] = Append(sent[c], Entry(r))
             /\ \A d \in Conns \ {c} : sent'[d] = sent[d]
             /\ Entry(r) \in Entries
    <2>1. sent[c] \in Seq(Entries) /\ NodeOf[c] = r.node /\ Reaches(r, c)
      BY <1>0 DEF TypeOK, AttemptInv, CallsMade, Reaches
    <2>2. /\ DOMAIN sent'[c] = 1 .. Len(sent[c]) + 1 /\ DOMAIN sent[c] = 1 .. Len(sent[c])
          /\ Len(sent[c]) \in Nat
          /\ \A i \in DOMAIN sent[c] : sent'[c][i] = sent[c][i]
          /\ sent'[c][Len(sent[c]) + 1] = Entry(r)
      BY <1>4, <2>1
    <2>3. /\ Entry(r).msg = pos /\ pos \in Nat /\ at = "fan" /\ ~Unspent(NodeOf[c])
          /\ \A i \in DOMAIN sent[c] : sent[c][i].msg < pos
      BY <1>1, <2>1 DEF Orderly, CallsCurrent, CalledBehind, Behind, Entry, Calls
    <2>4. \A n \in Nodes : Unspent(n)' <=> Unspent(n)
      BY <1>0 DEF Unspent
    <2>5. CallsCurrent'
      <3> SUFFICES ASSUME NEW t \in rpc' PROVE t.waited /\ t.msg = pos /\ ~Unspent(t.node)'
        BY <1>0, <2>3 DEF CallsCurrent
      <3>1. PICK q \in rpc : t.waited = q.waited /\ t.msg = q.msg /\ t.node = q.node
        BY <1>0, <1>1
      <3> QED BY <3>1, <2>4, <1>1 DEF Orderly, CallsCurrent, Calls
    <2>6. EntriesPast'
      <3> SUFFICES ASSUME NEW d \in Conns, NEW i \in DOMAIN sent'[d] PROVE sent'[d][i].msg <= pos
        BY <1>0 DEF EntriesPast
      <3>1. CASE d # c
        BY <3>1, <1>4 DEF Orderly, EntriesPast
      <3>2. CASE d = c /\ i \in DOMAIN sent[c]
        BY <3>2, <2>2 DEF Orderly, EntriesPast
      <3>3. CASE d = c /\ i = Len(sent[c]) + 1
        BY <3>3, <2>2, <2>3
      <3> QED BY <3>1, <3>2, <3>3, <2>2
    <2>7. UncalledBehind'
      <3> SUFFICES ASSUME NEW d \in Conns, Unspent(NodeOf[d]) PROVE Behind(d)'
        BY <1>0, <2>3, <2>4, PushAssumption DEF UncalledBehind
      <3>1. d # c /\ Behind(d)
        BY <2>3 DEF Orderly, UncalledBehind
      <3> QED BY <3>1, <1>0, <1>4 DEF Behind
    <2>8. CalledBehind'
      <3> SUFFICES ASSUME NEW t \in rpc', NEW d \in Conns, Reaches(t, d) PROVE Behind(d)'
        BY DEF CalledBehind, Reaches
      <3>1. PICK q \in rpc : q.node = t.node /\ Reaches(q, d) /\ (q = r => d # c)
        BY <1>0, <1>1, <1>2
      <3>2. d # c
        BY <3>1, <2>1 DEF Reaches, Orderly, OneCallPerNode
      <3>3. Behind(d)
        BY <3>1 DEF Orderly, CalledBehind
      <3> QED BY <3>2, <3>3, <1>0, <1>4 DEF Behind
    <2>9. OneCallPerNode'
      BY <1>0, <1>1 DEF Orderly, OneCallPerNode
    <2>10. Sorted'
      <3> SUFFICES ASSUME NEW d \in Conns, NEW i \in DOMAIN sent'[d], NEW j \in DOMAIN sent'[d], i < j
                   PROVE  sent'[d][i].msg < sent'[d][j].msg
        BY DEF Sorted
      <3>1. CASE d # c
        BY <3>1, <1>4 DEF Orderly, Sorted
      <3>2. CASE d = c /\ j \in DOMAIN sent[c]
        <4>1. i \in DOMAIN sent[c]
          BY <3>2, <2>2
        <4> QED BY <3>2, <4>1, <2>2 DEF Orderly, Sorted
      <3>3. CASE d = c /\ j = Len(sent[c]) + 1
        <4>1. i \in DOMAIN sent[c]
          BY <3>3, <2>2
        <4> QED BY <3>3, <4>1, <2>2, <2>3
      <3> QED BY <3>1, <3>2, <3>3, <2>2
    <2> QED BY <2>5, <2>6, <2>7, <2>8, <2>9, <2>10 DEF Orderly
  <1>6. TypeChannels
    BY TypeParts
  <1> QED BY <1>1, <1>3, <1>4, <1>6, TrySendCases

LEMMA NextOrder == TypeOK /\ AttemptInv /\ OrderInv /\ [Next]_vars => OrderInv'
  <1> SUFFICES ASSUME TypeOK, AttemptInv, OrderInv, [Next]_vars, ~late' PROVE Orderly'
    BY DEF OrderInv
  <1>0. Orderly /\ rpc \subseteq Calls /\ (at # "fan" => rpc = {})
    BY LateStays DEF OrderInv, TypeOK, Orderly, CallsCurrent
  <1>1. CASE Take
    BY <1>0, <1>1, OrderTake
  <1>2. CASE Mark \/ Leave
    <2>1. UNCHANGED <<sent, pos, rpc>> /\ at # "fan" /\ at' \in {"idle", "left"}
      BY <1>2 DEF Mark, Leave, Goto, channels, claim
    <2> QED BY <1>0, <2>1, OrderStays DEF Unspent
  <1>3. CASE Wait
    <2>1. UNCHANGED <<sent, pos, rpc>> /\ at' = "done" /\ \A r \in rpc : ~r.waited
      BY <1>3 DEF Wait, Goto, channels, claim, Awaited
    <2>2. rpc = {}
      BY <1>0, <2>1 DEF Orderly, CallsCurrent
    <2> QED BY <1>0, <2>1, <2>2, OrderStays DEF Unspent
  <1>4. CASE LookupRoute \/ LoadMembers \/ RefreshMembers \/ LoadNodes \/ LoadFails
    <2>1. UNCHANGED <<sent, pos, rpc>> /\ at \in {"load", "refresh"}
      BY <1>4 DEF LookupRoute, LoadMembers, RefreshMembers, LoadNodes, LoadFails, Goto,
        channels, claim
    <2> QED BY <1>0, <2>1, OrderStays DEF Unspent
  <1>5. CASE Retry
    <2>1. UNCHANGED <<sent, pos, rpc>> /\ at = "sleep" /\ at' = "load"
      BY <1>5 DEF Retry, Goto, channels, claim
    <2> QED BY <1>0, <2>1, OrderStays
  <1>6. CASE Expire \/ Commit \/ End
    <2>1. UNCHANGED <<sent, pos, rpc, at, todo>>
      BY <1>6 DEF Expire, Commit, End, channels, claim
    <2> QED BY <1>0, <2>1, OrderStays DEF Unspent
  <1>7. CASE EarlyReturn \/ Restart \/ Crash
    BY <1>7 DEF EarlyReturn, Restart, Crash
  <1>8. ASSUME NEW n \in Nodes, Spawn(n) PROVE Orderly'
    BY <1>0, <1>8, OrderSpawn
  <1>9. ASSUME NEW n \in Nodes, SpawnFails(n) PROVE Orderly'
    <2>1. UNCHANGED <<sent, pos, rpc, at>> /\ at = "fan" /\ todo' = [todo EXCEPT ![n] = {}]
      BY <1>9 DEF SpawnFails, channels, claim
    <2>2. todo \in [Nodes -> SUBSET Users]
      BY DEF TypeOK
    <2>3. \A m \in Nodes : Unspent(m)' => Unspent(m)
      BY <2>1, <2>2 DEF Unspent
    <2> QED BY <1>0, <2>1, <2>3, OrderStays
  <1>10. ASSUME NEW r \in rpc, Lookup(r) PROVE Orderly'
    <2> DEFINE s == [r EXCEPT !.stage = "run", !.to = Found(r.node, r.users)]
    <2>1. /\ s.node = r.node /\ s.msg = r.msg /\ s.waited = r.waited /\ s.stage = "run" /\ r.stage = "sent"
          /\ s.to = Found(r.node, r.users)
      BY <1>0, <1>10 DEF Calls, Lookup
    <2>2. rpc' = (rpc \ {r}) \cup {s} /\ UNCHANGED <<sent, pos, at, todo>>
      BY <1>10 DEF Lookup, Replace, channels, claim
    <2> HIDE DEF s
    <2>3. \A c \in Conns : Reaches(s, c) => Reaches(r, c)
      BY <2>1 DEF Reaches, Found
    <2> QED BY <1>0, <2>1, <2>2, <2>3, OrderCallMoves
  <1>11. ASSUME NEW r \in rpc, Reply(r) \/ Lost(r) PROVE Orderly'
    <2>1. rpc' = rpc \ {r} /\ UNCHANGED <<sent, pos, at, todo>>
      BY <1>11 DEF Reply, Lost, channels, claim
    <2> QED BY <1>0, <2>1, OrderCallMoves
  <1>12. ASSUME NEW r \in rpc, GiveUp(r) PROVE Orderly'
    BY <1>12 DEF GiveUp
  <1>13. ASSUME NEW r \in rpc, NEW c \in Conns, TrySend(r, c) PROVE Orderly'
    BY <1>0, <1>13, OrderTrySend
  <1>14. ASSUME NEW c \in Conns, Drain(c) PROVE Orderly'
    <2>1. UNCHANGED <<sent, pos, rpc, at, todo>>
      BY <1>14 DEF Drain, channels, claim
    <2> QED BY <1>0, <2>1, OrderStays DEF Unspent
  <1>15. CASE ConnStep
    <2>1. UNCHANGED <<sent, pos, at, todo>> /\ rpc' \subseteq rpc
      BY <1>15, ConnStepKeeps
    <2> QED BY <1>0, <2>1, OrderStays DEF Unspent
  <1>16. CASE UNCHANGED vars
    <2>1. UNCHANGED <<sent, pos, rpc, at, todo>>
      BY <1>16 DEF vars, channels, claim
    <2> QED BY <1>0, <2>1, OrderStays DEF Unspent
  <1> QED BY <1>1, <1>2, <1>3, <1>4, <1>5, <1>6, <1>7, <1>8, <1>9, <1>10, <1>11, <1>12, <1>13, <1>14,
        <1>15, <1>16, NextCases

\* Until a call is given up or a session starts again, every connection gets
\* the records of the partition in their order: the consumers wait for all
\* calls of a record before they take the next (ConsumeClaim, g.Wait).
THEOREM PushInOrder == Spec => []InOrder
  <1>1. TypeOK /\ AttemptInv /\ OrderInv /\ [Next]_vars => (TypeOK /\ AttemptInv /\ OrderInv)'
    BY NextTypeOK, NextAttempt, NextOrder
  <1>2. OrderInv => InOrder
    BY DEF OrderInv, Orderly, Sorted, InOrder
  <1> QED BY <1>1, <1>2, InitTypeOK, InitAttempt, InitOrder, PTL DEF Spec

-----------------------------------------------------------------------------
(***************************************************************************)
(* A connection that the current record is for, and that can be found, has *)
(* got it in this attempt, could not be reached by it (a full channel, a   *)
(* failed call, an incomplete list), or is still to be called.             *)
(***************************************************************************)
Served(c) ==
  \/ c \in refused
  \/ Has(c, Now)
  \/ /\ at = "fan"
     /\ \/ UserOf[c] \in todo[NodeOf[c]]
        \/ \E r \in rpc : r.waited /\ Entry(r) = Now /\ Reaches(r, c)

Undisturbed == session = "on" /\ ~expired /\ at \notin {"sleep", "left"}
AllServed ==
  at \in {"fan", "done"} /\ Msg # Garbage =>
    \A c \in Conns : Reachable(c) /\ UserOf[c] \in Audience => Served(c)
QuietInv == quiet => Undisturbed /\ AllServed

LEMMA InitQuiet == Init => QuietInv
  BY DEF Init, QuietInv

\* A step that forgets nobody.
LEMMA QuietFrame ==
  ASSUME AllServed,
         UNCHANGED <<topic, pos, tries, route, conn, room>>,
         at' \in {"fan", "done"} => at = "fan" \/ at' = at,
         \A c \in Conns : Reachable(c) /\ Served(c) => Served(c)'
  PROVE  AllServed'
  <1> SUFFICES ASSUME at' \in {"fan", "done"}, Msg' # Garbage, NEW c \in Conns,
                      Reachable(c)', UserOf[c] \in Audience'
               PROVE  Served(c)'
    BY DEF AllServed
  <1>1. Msg' = Msg /\ Audience' = Audience /\ Reachable(c)
    BY DEF Msg, Audience, Reachable
  <1>2. Served(c)
    BY <1>1 DEF AllServed
  <1> QED BY <1>1, <1>2

\* A step of call r: what it reached, r's successor reaches or has delivered.
LEMMA QuietCall ==
  ASSUME AllServed, NEW r \in rpc, NEW s,
         rpc' = (rpc \ {r}) \cup {s} \/ rpc' = rpc \ {r},
         UNCHANGED <<topic, pos, tries, route, conn, room, at, todo>>,
         refused \subseteq refused',
         \A c \in Conns : Has(c, Now) => Has(c, Now)',
         \A c \in Conns : Reachable(c) /\ r.waited /\ Entry(r) = Now /\ Reaches(r, c) =>
           \/ c \in refused' \/ Has(c, Now)'
           \/ s \in rpc' /\ s.waited /\ Entry(s) = Now /\ Reaches(s, c)
  PROVE  AllServed'
  <1>1. Now' = Now
    BY DEF Now
  <1>2. ASSUME NEW c \in Conns, Reachable(c), Served(c) PROVE Served(c)'
    <2>1. CASE c \in refused
      BY <2>1 DEF Served
    <2>2. CASE Has(c, Now)
      BY <2>2 DEF Served
    <2>3. CASE at = "fan" /\ UserOf[c] \in todo[NodeOf[c]]
      BY <2>3 DEF Served
    <2>4. ASSUME at = "fan", NEW q \in rpc, q.waited, Entry(q) = Now, Reaches(q, c) PROVE Served(c)'
      <3>1. CASE q # r
        <4>1. q \in rpc' /\ q.waited /\ Entry(q) = Now' /\ Reaches(q, c) /\ at' = "fan"
          BY <3>1, <2>4, <1>1
        <4> QED BY <4>1 DEF Served, Entry, Reaches
      <3>2. CASE q = r
        <4>1. \/ c \in refused' \/ Has(c, Now)'
              \/ s \in rpc' /\ s.waited /\ Entry(s) = Now /\ Reaches(s, c)
          BY <3>2, <2>4, <1>2
        <4>2. CASE s \in rpc' /\ s.waited /\ Entry(s) = Now /\ Reaches(s, c)
          BY <4>2, <2>4, <1>1 DEF Served, Entry, Reaches
        <4>3. CASE c \in refused' \/ Has(c, Now)'
          BY <4>3 DEF Served
        <4> QED BY <4>1, <4>2, <4>3
      <3> QED BY <3>1, <3>2
    <2> QED BY <1>2, <2>1, <2>2, <2>3, <2>4 DEF Served
  <1> QED BY <1>2, QuietFrame

\* Of the disturbances only a failing node and an incomplete list leave the
\* attempt undisturbed.
LEMMA QuietStays ==
  ASSUME [Next]_vars, quiet' = TRUE, ~Take, ~Retry
  PROVE  quiet = TRUE /\ ~Disturb
  <1> USE DEF Disturb, budget, NodeFails, Misses, ReadMembers
  <1>1. CASE Mark \/ LookupRoute \/ LoadMembers \/ RefreshMembers \/ LoadNodes \/ LoadFails
    BY <1>1 DEF Mark, LookupRoute, LoadMembers, RefreshMembers, LoadNodes, LoadFails
  <1>2. CASE EarlyReturn \/ Wait \/ Expire \/ Commit \/ End \/ Leave \/ Restart \/ Crash
    BY <1>2 DEF EarlyReturn, Wait, Expire, Commit, End, Leave, Restart, Crash
  <1>3. ASSUME NEW n \in Nodes, Spawn(n) \/ SpawnFails(n) PROVE quiet = TRUE /\ ~Disturb
    BY <1>3 DEF Spawn, SpawnFails
  <1>4. ASSUME NEW r \in rpc, Lookup(r) \/ Reply(r) \/ GiveUp(r) \/ Lost(r) PROVE quiet = TRUE /\ ~Disturb
    BY <1>4 DEF Lookup, Reply, GiveUp, Lost
  <1>5. ASSUME NEW r \in rpc, NEW c \in Conns, TrySend(r, c) PROVE quiet = TRUE /\ ~Disturb
    BY <1>5 DEF TrySend
  <1>6. ASSUME NEW c \in Conns, Drain(c) PROVE quiet = TRUE /\ ~Disturb
    BY <1>6 DEF Drain
  <1>7. CASE UNCHANGED vars
    BY <1>7 DEF vars
  <1>8. CASE ConnStep
    BY <1>8, ConnStepKeeps
  <1> QED BY <1>1, <1>2, <1>3, <1>4, <1>5, <1>6, <1>7, <1>8, NextCases

\* The map of a fan-out has everybody the record is for, who can be found and whom
\* the list does not lack.
LEMMA QuietLoad ==
  ASSUME TypeOK, LookupRoute \/ LoadMembers \/ RefreshMembers \/ LoadNodes
  PROVE  AllServed'
  <1>1. UNCHANGED <<topic, pos, tries, route, conn, room>> /\ at' \in {"fan", "refresh"}
    BY LoadCases
  <1> SUFFICES ASSUME at' = "fan", NEW c \in Conns, Reachable(c)', UserOf[c] \in Audience'
               PROVE  c \in refused' \/ UserOf[c] \in todo'[NodeOf[c]]
    BY <1>1 DEF AllServed, Served
  <1>2. Audience' = Audience /\ UserOf[c] \in Audience /\ NodeOf[c] \in Nodes
    BY <1>1, PushAssumption DEF Audience, Msg
  <1>3. topic # "room" => route[UserOf[c]] = NodeOf[c]
    BY <1>1 DEF Reachable
  <1>4. CASE topic = "single" /\ todo' = RoutingMap(Audience)
    BY <1>2, <1>3, <1>4 DEF RoutingMap
  <1>5. ASSUME topic = "group", NEW list \in SUBSET Members, Listed(list)
        PROVE  c \in refused' \/ UserOf[c] \in todo'[NodeOf[c]]
    <2>1. UserOf[c] # Msg.from /\ UserOf[c] \in Members
      BY <1>2, <1>5 DEF Audience, To
    <2> QED BY <1>2, <1>3, <1>5, <2>1 DEF Listed, RoutingMap
  <1>6. ASSUME NEW list \in SUBSET Nodes, NodesListed(list)
        PROVE  c \in refused' \/ UserOf[c] \in todo'[NodeOf[c]]
    BY <1>2, <1>6 DEF NodesListed
  <1> QED BY <1>4, <1>5, <1>6, LoadCases

LEMMA QuietSpawn ==
  ASSUME TypeOK, AllServed, NEW n \in Nodes, Spawn(n)
  PROVE  AllServed'
  <1> DEFINE q == [node |-> n, msg |-> pos, users |-> todo[n], try |-> tries[pos],
                   stage |-> "sent", to |-> {}, waited |-> TRUE]
  <1>1. /\ rpc' = rpc \cup {q} /\ todo' = [todo EXCEPT ![n] = {}] /\ at = "fan"
        /\ UNCHANGED <<topic, sent, pos, at, tries, route, conn, room, refused>>
    BY DEF Spawn, channels, claim, users, history
  <1>2. todo \in [Nodes -> SUBSET Users] /\ Now' = Now
    BY <1>1 DEF TypeOK, Now
  <1>3. q.node = n /\ q.users = todo[n] /\ q.stage = "sent" /\ q.waited /\ Entry(q) = Now
    BY DEF Entry, Now
  <1> HIDE DEF q
  <1>4. ASSUME NEW c \in Conns, Served(c) PROVE Served(c)'
    <2>1. CASE c \in refused \/ Has(c, Now)
      BY <2>1, <1>1, <1>2 DEF Served, Has
    <2>2. CASE UserOf[c] \in todo[NodeOf[c]] /\ NodeOf[c] # n
      BY <2>2, <1>1, <1>2, PushAssumption DEF Served
    <2>3. CASE UserOf[c] \in todo[NodeOf[c]] /\ NodeOf[c] = n
      <3>1. Reaches(q, c) /\ q \in rpc' /\ q.waited /\ Entry(q) = Now'
        BY <2>3, <1>1, <1>2, <1>3 DEF Reaches
      <3> QED BY <3>1, <1>1 DEF Served, Entry, Reaches
    <2>4. CASE \E r \in rpc : r.waited /\ Entry(r) = Now /\ Reaches(r, c)
      BY <2>4, <1>1, <1>2 DEF Served, Entry, Reaches
    <2> QED BY <1>4, <2>1, <2>2, <2>3, <2>4 DEF Served
  <1> QED BY <1>1, <1>4, QuietFrame

LEMMA QuietSpawnFails ==
  ASSUME TypeOK, AllServed, NEW n \in Nodes, SpawnFails(n), ~Cut
  PROVE  AllServed'
  <1>1. /\ todo' = [todo EXCEPT ![n] = {}] /\ at = "fan"
        /\ refused' = refused \cup {c \in Conns : NodeOf[c] = n}
        /\ UNCHANGED <<topic, sent, pos, at, tries, route, conn, room, rpc>>
    BY DEF SpawnFails, NodeFails, Misses, channels, claim, users
  <1>2. todo \in [Nodes -> SUBSET Users] /\ Now' = Now
    BY <1>1 DEF TypeOK, Now
  <1>4. ASSUME NEW c \in Conns, Served(c) PROVE Served(c)'
    <2>1. CASE c \in refused \/ Has(c, Now) \/ NodeOf[c] = n
      BY <2>1, <1>1, <1>2 DEF Served, Has
    <2>2. CASE UserOf[c] \in todo[NodeOf[c]] /\ NodeOf[c] # n
      BY <2>2, <1>1, <1>2, PushAssumption DEF Served
    <2>3. CASE \E r \in rpc : r.waited /\ Entry(r) = Now /\ Reaches(r, c)
      BY <2>3, <1>1, <1>2 DEF Served, Entry, Reaches
    <2> QED BY <1>4, <2>1, <2>2, <2>3 DEF Served
  <1> QED BY <1>1, <1>4, QuietFrame

LEMMA QuietWait ==
  ASSUME TypeOK, AllServed, Wait
  PROVE  AllServed'
  <1>1. /\ todo = Nobody /\ at = "fan" /\ at' = "done" /\ \A r \in rpc : ~r.waited
        /\ UNCHANGED <<topic, sent, pos, tries, route, conn, room, refused>>
    BY DEF Wait, Goto, Awaited, channels, claim, users, history
  <1>2. ASSUME NEW c \in Conns, Served(c) PROVE Served(c)'
    <2>1. UserOf[c] \notin todo[NodeOf[c]]
      BY <1>1, PushAssumption DEF Nobody
    <2>2. c \in refused \/ Has(c, Now)
      BY <1>1, <1>2, <2>1 DEF Served
    <2> QED BY <1>1, <2>2 DEF Served, Has, Now
  <1> QED BY <1>1, <1>2, QuietFrame

LEMMA QuietTrySend ==
  ASSUME TypeOK, AllServed, NEW r \in rpc, NEW c \in Conns, TrySend(r, c)
  PROVE  AllServed'
  <1> DEFINE s == [r EXCEPT !.to = @ \ {c}]
  <1>0. /\ rpc' = (rpc \ {r}) \cup {s} /\ r.stage = "run" /\ c \in r.to
        /\ UNCHANGED <<topic, pos, tries, route, conn, room, at, todo>>
    BY DEF TrySend, Replace, claim, users
  <1>1. /\ s.node = r.node /\ Entry(s) = Entry(r) /\ s.waited = r.waited
        /\ s.stage = "run" /\ s.to = r.to \ {c} /\ rpc \subseteq Calls
    BY <1>0 DEF TypeOK, Calls, Entry
  <1>2. \A d \in Conns \ {c} : Reaches(r, d) => Reaches(s, d)
    BY <1>0, <1>1 DEF Reaches
  <1>3. s \in rpc' /\ Now' = Now
    BY <1>0 DEF Now
  <1> HIDE DEF s
  <1>4. refused \subseteq refused'
    BY DEF TrySend
  <1>5. \A d \in Conns : Has(d, Now) => Has(d, Now)'
    <2>1. CASE UNCHANGED sent
      BY <2>1, <1>3 DEF Has
    <2>2. CASE /\ sent'[c] = Append(sent[c], Entry(r))
               /\ \A d \in Conns \ {c} : sent'[d] = sent[d]
               /\ Entry(r) \in Entries
      <3>1. sent[c] \in Seq(Entries)
        BY DEF TypeOK
      <3>2. DOMAIN sent[c] \subseteq DOMAIN sent'[c] /\ \A i \in DOMAIN sent[c] : sent'[c][i] = sent[c][i]
        BY <2>2, <3>1
      <3> QED BY <2>2, <3>2, <1>3 DEF Has
    <2>3. TypeChannels
      BY TypeParts
    <2> QED BY <1>1, <2>1, <2>2, <2>3, TrySendCases
  <1>6. Entry(r) = Now => c \in refused' \/ Has(c, Now)'
    <2> SUFFICES ASSUME Entry(r) = Now, c \notin refused' PROVE Has(c, Now)'
      OBVIOUS
    <2>1. r.msg = pos /\ r.try = tries[pos]
      BY DEF Entry, Now
    <2>2. sent' = [sent EXCEPT ![c] = Append(@, Entry(r))]
      BY <2>1 DEF TrySend
    <2>3. sent[c] \in Seq(Entries) /\ sent \in [Conns -> Seq(Entries)] /\ Len(sent[c]) \in Nat
      BY DEF TypeOK
    <2>4. Entry(r) \in Entries
      BY <1>1 DEF Entry, Entries, Calls
    <2>5. sent'[c] = Append(sent[c], Entry(r))
      BY <2>2, <2>3
    <2>6. Len(sent[c]) + 1 \in DOMAIN sent'[c] /\ sent'[c][Len(sent[c]) + 1] = Entry(r)
      BY <2>3, <2>4, <2>5
    <2> QED BY <2>6, <1>3 DEF Has
  <1>7. \A d \in Conns : Reachable(d) /\ r.waited /\ Entry(r) = Now /\ Reaches(r, d) =>
           \/ d \in refused' \/ Has(d, Now)'
           \/ s \in rpc' /\ s.waited /\ Entry(s) = Now /\ Reaches(s, d)
    BY <1>1, <1>2, <1>3, <1>6
  <1> QED BY <1>0, <1>4, <1>5, <1>7, QuietCall

\* A new attempt has everybody still to call.
LEMMA QuietTake ==
  ASSUME TypeOK, Take, quiet' = TRUE
  PROVE  Undisturbed' /\ AllServed'
  <1>1. /\ session = "on" /\ session' = session /\ expired' = FALSE /\ topic' = topic /\ pos' = pos + 1
        /\ at' \in {"load", "done"} /\ (at' = "done" => Log[topic][pos + 1] = Garbage)
    BY DEF Take
  <1>2. Undisturbed'
    BY <1>1 DEF Undisturbed
  <1>3. AllServed'
    BY <1>1 DEF AllServed, Msg
  <1> QED BY <1>2, <1>3

LEMMA QuietRetry ==
  ASSUME Retry
  PROVE  Undisturbed' /\ AllServed'
  BY DEF Retry, Goto, claim, Undisturbed, AllServed

\* The steps that change one call.
LEMMA QuietCallSteps ==
  ASSUME TypeOK, AllServed, ~Cut, NEW r \in rpc, Lookup(r) \/ Reply(r) \/ GiveUp(r) \/ Lost(r)
  PROVE  AllServed'
  <1>0. UNCHANGED <<topic, pos, tries, route, conn, room, at, todo, sent>> /\ refused \subseteq refused'
    BY DEF Lookup, Reply, GiveUp, Lost, NodeFails, Misses, claim, users, channels, history
  <1>1. \A c \in Conns : Has(c, Now) => Has(c, Now)'
    BY <1>0 DEF Has, Now
  <1>2. CASE Lookup(r)
    <2> DEFINE s == [r EXCEPT !.stage = "run", !.to = Found(r.node, r.users)]
    <2>1. /\ s.node = r.node /\ Entry(s) = Entry(r) /\ s.waited = r.waited
          /\ s.stage = "run" /\ r.stage = "sent"
          /\ s.to = Found(r.node, r.users)
      BY <1>2 DEF TypeOK, Calls, Lookup, Entry
    <2>2. rpc' = (rpc \ {r}) \cup {s}
      BY <1>2 DEF Lookup, Replace
    <2> HIDE DEF s
    <2>3. \A c \in Conns : Reachable(c) /\ Reaches(r, c) => Reaches(s, c)
      BY <2>1 DEF Reaches, Reachable, Found, Ro!InPool
    <2> QED BY <1>0, <1>1, <2>1, <2>2, <2>3, QuietCall
  <1>3. CASE Reply(r)
    <2>1. rpc' = rpc \ {r} /\ \A c \in Conns : ~Reaches(r, c)
      BY <1>3 DEF Reply, Reaches
    <2> QED BY <1>0, <1>1, <2>1, QuietCall
  <1>4. CASE GiveUp(r)
    <2> DEFINE s == [r EXCEPT !.waited = FALSE]
    <2>1. rpc' = (rpc \ {r}) \cup {s} /\ refused' = refused \cup {c \in Conns : NodeOf[c] = r.node}
      BY <1>4 DEF GiveUp, Replace, NodeFails, Misses
    <2>2. \A c \in Conns : Reaches(r, c) => c \in refused'
      BY <2>1 DEF Reaches
    <2> HIDE DEF s
    <2> QED BY <1>0, <1>1, <2>1, <2>2, QuietCall
  <1>5. CASE Lost(r)
    <2>1. rpc' = rpc \ {r} /\ (r.waited => refused' = refused \cup {c \in Conns : NodeOf[c] = r.node})
      BY <1>5 DEF Lost, NodeFails, Misses
    <2>2. \A c \in Conns : r.waited /\ Reaches(r, c) => c \in refused'
      BY <2>1 DEF Reaches
    <2> QED BY <1>0, <1>1, <2>1, <2>2, QuietCall
  <1> QED BY <1>2, <1>3, <1>4, <1>5

LEMMA NextQuiet == TypeOK /\ QuietInv /\ [Next]_vars => QuietInv'
  <1> SUFFICES ASSUME TypeOK, QuietInv, [Next]_vars PROVE QuietInv'
    OBVIOUS
  <1>a. quiet' \in BOOLEAN
    BY NextTypeOK DEF TypeOK
  <1> SUFFICES ASSUME quiet' = TRUE PROVE Undisturbed' /\ AllServed'
    BY <1>a DEF QuietInv
  <1>1. CASE Take
    BY <1>1, QuietTake
  <1>14. CASE Retry
    BY <1>14, QuietRetry
  <1> SUFFICES ASSUME ~Take, ~Retry PROVE Undisturbed' /\ AllServed'
    BY <1>1, <1>14
  <1>0. ~Disturb /\ Undisturbed /\ AllServed /\ ~Cut
    BY QuietStays DEF QuietInv, Undisturbed, Cut
  <1>2. CASE Mark
    <2>1. at' = "idle" /\ UNCHANGED <<session, expired>>
      BY <1>2 DEF Mark, Goto
    <2> QED BY <1>0, <2>1 DEF Undisturbed, AllServed
  <1>3. CASE LookupRoute \/ LoadMembers \/ RefreshMembers \/ LoadNodes
    <2>1. at' \in {"fan", "refresh"} /\ UNCHANGED <<session, expired>>
      BY <1>3 DEF LookupRoute, LoadMembers, RefreshMembers, ReadMembers, LoadNodes, Goto, claim
    <2> QED BY <1>0, <1>3, <2>1, QuietLoad DEF Undisturbed
  <1>4. CASE Wait
    <2>1. at' = "done" /\ UNCHANGED <<session, expired>>
      BY <1>4 DEF Wait, Goto, claim
    <2> QED BY <1>0, <1>4, <2>1, QuietWait DEF Undisturbed
  <1>5. CASE LoadFails \/ EarlyReturn \/ Expire
    BY <1>0, <1>5 DEF LoadFails, EarlyReturn, Expire, Goto, Undisturbed
  <1>6. CASE End \/ Leave \/ Restart \/ Crash
    BY <1>0, <1>6 DEF End, Leave, Restart, Crash, Goto, Undisturbed
  <1>7. CASE Commit
    <2>1. UNCHANGED <<session, expired, at, topic, pos, tries, route, conn, room, refused, sent, todo, rpc>>
      BY <1>7 DEF Commit, users, channels, history
    <2>2. \A c \in Conns : Served(c) => Served(c)'
      BY <2>1 DEF Served, Has, Now, Entry, Reaches
    <2> QED BY <1>0, <2>1, <2>2, QuietFrame DEF Undisturbed
  <1>8. ASSUME NEW n \in Nodes, Spawn(n) \/ SpawnFails(n) PROVE Undisturbed' /\ AllServed'
    <2>1. UNCHANGED <<session, expired, at>>
      BY <1>8 DEF Spawn, SpawnFails, claim
    <2> QED BY <1>0, <1>8, <2>1, QuietSpawn, QuietSpawnFails DEF Undisturbed
  <1>9. ASSUME NEW r \in rpc, Lookup(r) \/ Reply(r) \/ GiveUp(r) \/ Lost(r)
        PROVE Undisturbed' /\ AllServed'
    <2>1. UNCHANGED <<session, expired, at>>
      BY <1>9 DEF Lookup, Reply, GiveUp, Lost, claim
    <2> QED BY <1>0, <1>9, <2>1, QuietCallSteps DEF Undisturbed
  <1>10. ASSUME NEW r \in rpc, NEW c \in Conns, TrySend(r, c) PROVE Undisturbed' /\ AllServed'
    <2>1. UNCHANGED <<session, expired, at>>
      BY <1>10 DEF TrySend, claim
    <2> QED BY <1>0, <1>10, <2>1, QuietTrySend DEF Undisturbed
  <1>11. CASE ConnStep
    BY <1>0, <1>11, ConnStepKeeps
  <1>12. ASSUME NEW c \in Conns, Drain(c) PROVE Undisturbed' /\ AllServed'
    <2>1. UNCHANGED <<session, expired, at, topic, pos, tries, route, conn, room, refused, sent, todo, rpc>>
      BY <1>12 DEF Drain, users, claim, history
    <2>2. \A d \in Conns : Served(d) => Served(d)'
      BY <2>1 DEF Served, Has, Now, Entry, Reaches
    <2> QED BY <1>0, <2>1, <2>2, QuietFrame DEF Undisturbed
  <1>13. CASE UNCHANGED vars
    <2>1. UNCHANGED <<session, expired, at, topic, pos, tries, route, conn, room, refused, sent, todo, rpc>>
      BY <1>13 DEF vars, users, claim, channels, history
    <2>2. \A d \in Conns : Served(d) => Served(d)'
      BY <2>1 DEF Served, Has, Now, Entry, Reaches
    <2> QED BY <1>0, <2>1, <2>2, QuietFrame DEF Undisturbed
  <1> QED BY <1>2, <1>3, <1>4, <1>5, <1>6, <1>7, <1>8, <1>9, <1>10, <1>11, <1>12, <1>13, NextCases

\* An attempt, first or repeated, that nothing disturbed leaves the record, when
\* it gets marked, in the channel of every reachable connection it is for, unless
\* that channel was full, the call to that connection's own node failed, or the
\* list of members or nodes that Task read lacked its user or node: whatever the
\* lists lack, for any number of nodes and any size of the semaphore
\* (handleSmallGroupMessage, handleRoomBroadcast, PushMsgToUsers, Room.Broadcast,
\* trySend).
THEOREM PushQuietDelivered == Spec => []QuietDelivered
  <1>1. TypeOK /\ QuietInv /\ [Next]_vars => (TypeOK /\ QuietInv)'
    BY NextTypeOK, NextQuiet
  <1>2. QuietInv => QuietDelivered
    BY DEF QuietInv, AllServed, Served, Has, Now, QuietDelivered
  <1> QED BY <1>1, <1>2, InitTypeOK, InitQuiet, PTL DEF Spec

-----------------------------------------------------------------------------
(***************************************************************************)
(* The refinement of Delivery.  Besides the attempts and the order above   *)
(* it needs that the records up to the current one have been tried, and    *)
(* that a fan-out and its calls name only users the record is for.         *)
(***************************************************************************)
Tried == \A k \in Records : k <= pos => tries[k] > 0

CallsAddressed ==
  \A r \in rpc :
    /\ r.try > 0
    /\ r.users \subseteq Addressees[topic][r.msg]
    /\ \A c \in r.to : UserOf[c] \in r.users
FanAddressed == at = "fan" => \A n \in Nodes : todo[n] \subseteq Addressees[topic][pos]
Addressed == CallsAddressed /\ FanAddressed

LEMMA InitTried == Init => Tried /\ Addressed
  <1> SUFFICES ASSUME Init PROVE Tried /\ Addressed
    OBVIOUS
  <1>1. \A k \in Records : ~(k <= pos)
    <2>1. topic \in Topics /\ pos = 0
      BY DEF Init
    <2> QED BY <2>1, LogType DEF Records
  <1>2. rpc = {} /\ at = "idle"
    BY DEF Init
  <1> QED BY <1>1, <1>2 DEF Tried, Addressed, CallsAddressed, FanAddressed

\* A position that goes back has nothing new behind it.
LEMMA TriedStays ==
  ASSUME TypeOK, Tried, UNCHANGED <<topic, tries>>, pos' \in Nat, pos' <= pos
  PROVE  Tried'
  <1>1. \A k \in Records : k \in Nat /\ pos \in Nat
    BY LogType DEF TypeOK, Records
  <1> QED BY <1>1 DEF Tried, Records

LEMMA TriedBegins ==
  ASSUME TypeOK, Tried, NEW p \in Records, p = pos \/ p = pos + 1, topic' = topic,
         pos' = p /\ tries' = [tries EXCEPT ![p] = @ + 1]
  PROVE  Tried'
  <1>1. /\ \A k \in Records : k \in Nat /\ tries[k] \in Nat
        /\ pos \in Nat /\ tries \in [Records -> Nat]
    BY LogType DEF TypeOK, Records
  <1>2. Records' = Records
    BY DEF Records
  <1> SUFFICES ASSUME NEW k \in Records, k <= p PROVE tries'[k] > 0
    BY <1>2 DEF Tried
  <1>3. CASE k = p
    BY <1>1, <1>3
  <1>4. CASE k # p
    <2>1. k <= pos
      BY <1>1, <1>4
    <2> QED BY <1>1, <1>4, <2>1 DEF Tried
  <1> QED BY <1>3, <1>4

LEMMA NextTried == TypeOK /\ Tried /\ [Next]_vars => Tried'
  <1> SUFFICES ASSUME TypeOK, Tried, [Next]_vars PROVE Tried'
    OBVIOUS
  <1>0. pos \in Nat /\ topic' = topic /\ mark \in 0 .. pos /\ committed \in 0 .. mark
    BY TopicStays DEF TypeOK
  <1>1. CASE Take
    <2>1. pos + 1 \in Records
      BY <1>1, LogType DEF TypeOK, Take, Records
    <2> QED BY <1>0, <1>1, <2>1, TriedBegins DEF Take
  <1>2. CASE Retry
    <2>1. pos \in Records
      BY <1>2 DEF TypeOK, Retry, Goto
    <2> QED BY <1>0, <1>2, <2>1, TriedBegins DEF Retry, claim
  <1>3. CASE Restart \/ Crash
    <2>1. tries' = tries /\ (pos' = committed \/ pos' = mark)
      BY <1>3 DEF Restart, Crash, history
    <2> QED BY <1>0, <2>1, TriedStays
  <1>4. CASE UNCHANGED <<pos, tries>>
    BY <1>0, <1>4, TriedStays
  <1>5. CASE Mark \/ LookupRoute \/ LoadMembers \/ RefreshMembers \/ LoadNodes \/ LoadFails
    BY <1>4, <1>5 DEF Mark, LookupRoute, LoadMembers, RefreshMembers, LoadNodes, LoadFails,
      claim, history
  <1>6. CASE EarlyReturn \/ Wait \/ Expire \/ Commit \/ End \/ Leave
    BY <1>4, <1>6 DEF EarlyReturn, Wait, Expire, Commit, End, Leave, claim, history
  <1>7. ASSUME NEW n \in Nodes, Spawn(n) \/ SpawnFails(n) PROVE Tried'
    BY <1>4, <1>7 DEF Spawn, SpawnFails, claim, history
  <1>8. ASSUME NEW r \in rpc, Lookup(r) \/ Reply(r) \/ GiveUp(r) \/ Lost(r) PROVE Tried'
    BY <1>4, <1>8 DEF Lookup, Reply, GiveUp, Lost, claim, history
  <1>9. ASSUME NEW r \in rpc, NEW c \in Conns, TrySend(r, c) PROVE Tried'
    BY <1>4, <1>9 DEF TrySend, claim
  <1>10. ASSUME NEW c \in Conns, Drain(c) PROVE Tried'
    BY <1>4, <1>10 DEF Drain, claim, history
  <1>11. CASE ConnStep
    BY <1>4, <1>11, ConnStepKeeps
  <1>12. CASE UNCHANGED vars
    BY <1>4, <1>12 DEF vars, claim, history
  <1> QED BY <1>1, <1>2, <1>3, <1>5, <1>6, <1>7, <1>8, <1>9, <1>10, <1>11, <1>12, NextCases

\* A step that makes no call and adds nobody to one or to the fan-out.
LEMMA AddressedFrame ==
  ASSUME Addressed, topic' = topic,
         at' = "fan" => at = "fan" /\ pos' = pos /\ \A n \in Nodes : todo'[n] \subseteq todo[n],
         \A s \in rpc' : \E r \in rpc :
           /\ s.msg = r.msg /\ s.try = r.try /\ s.users = r.users
           /\ \A c \in s.to : c \in r.to \/ UserOf[c] \in s.users
  PROVE  Addressed'
  <1>1. CallsAddressed'
    <2> SUFFICES ASSUME NEW s \in rpc'
                 PROVE  /\ s.try > 0 /\ s.users \subseteq Addressees[topic][s.msg]
                        /\ \A c \in s.to : UserOf[c] \in s.users
      BY DEF CallsAddressed, Addressees, To
    <2> QED BY DEF Addressed, CallsAddressed
  <1>2. FanAddressed'
    BY DEF Addressed, FanAddressed, Addressees, To
  <1> QED BY <1>1, <1>2 DEF Addressed

\* The current record is for its audience.
LEMMA AudienceAddressed ==
  ASSUME TypeOK, at \in {"load", "refresh", "fan", "sleep"}
  PROVE  Addressees[topic][pos] = Audience
  BY DEF TypeOK, Records, Msg, Addressees, Audience

\* A lookup puts nobody else in the map.
LEMMA AddressedLoad ==
  ASSUME TypeOK, Addressed, LookupRoute \/ LoadMembers \/ RefreshMembers \/ LoadNodes
  PROVE  Addressed'
  <1>1. UNCHANGED <<topic, pos, rpc>> /\ at \in {"load", "refresh"}
    BY LoadCases
  <1>2. at' = "fan" => \A n \in Nodes : todo'[n] \subseteq Audience
    BY LoadAddressed, TypeParts
  <1>3. FanAddressed'
    BY <1>1, <1>2, AudienceAddressed DEF FanAddressed, Addressees, To
  <1>4. CallsAddressed'
    BY <1>1 DEF Addressed, CallsAddressed, Addressees, To
  <1> QED BY <1>3, <1>4 DEF Addressed

\* A call names the users of the map.
LEMMA AddressedSpawn ==
  ASSUME TypeOK, Tried, Addressed, NEW n \in Nodes, Spawn(n)
  PROVE  Addressed'
  <1> DEFINE s == [node |-> n, msg |-> pos, users |-> todo[n], try |-> tries[pos],
                   stage |-> "sent", to |-> {}, waited |-> TRUE]
  <1>1. UNCHANGED <<topic, pos, at>> /\ at = "fan" /\ todo' = [todo EXCEPT ![n] = {}] /\ rpc' = rpc \cup {s}
    BY DEF Spawn, claim
  <1>2. s.msg = pos /\ s.users = todo[n] /\ s.try = tries[pos] /\ s.to = {}
    OBVIOUS
  <1> HIDE DEF s
  <1>3. todo \in [Nodes -> SUBSET Users] /\ pos \in Records /\ tries[pos] > 0
    <2>1. pos \in Records /\ pos \in Nat
      BY <1>1 DEF TypeOK
    <2> QED BY <2>1 DEF TypeOK, Tried
  <1>4. FanAddressed'
    BY <1>1, <1>3 DEF Addressed, FanAddressed, Addressees, To
  <1>5. todo[n] \subseteq Addressees[topic][pos]
    BY <1>1 DEF Addressed, FanAddressed
  <1>6. CallsAddressed'
    <2>1. \A r \in rpc' : /\ r.try > 0 /\ r.users \subseteq Addressees[topic][r.msg]
                          /\ \A c \in r.to : UserOf[c] \in r.users
      BY <1>1, <1>2, <1>3, <1>5 DEF Addressed, CallsAddressed
    <2> QED BY <1>1, <2>1 DEF CallsAddressed, Addressees, To
  <1> QED BY <1>4, <1>6 DEF Addressed

LEMMA NextAddressed == TypeOK /\ Tried /\ Addressed /\ [Next]_vars => Addressed'
  <1> SUFFICES ASSUME TypeOK, Tried, Addressed, [Next]_vars PROVE Addressed'
    OBVIOUS
  <1>0. topic' = topic /\ todo \in [Nodes -> SUBSET Users] /\ rpc \subseteq Calls
    BY TopicStays DEF TypeOK
  <1>1. CASE rpc' \subseteq rpc /\ (at' = "fan" => at = "fan" /\ UNCHANGED <<pos, todo>>)
    BY <1>0, <1>1, AddressedFrame
  <1>2. CASE Take \/ Mark \/ LoadFails \/ Wait \/ Retry \/ Leave \/ Restart
    <2>1. rpc' = rpc /\ at' # "fan"
      BY <1>2 DEF Take, Mark, LoadFails, Wait, Retry, Leave, Restart, Goto
    <2> QED BY <1>1, <2>1
  <1>3. CASE LookupRoute \/ LoadMembers \/ RefreshMembers \/ LoadNodes
    BY <1>3, AddressedLoad
  <1>4. CASE Expire \/ Commit \/ End
    BY <1>1, <1>4 DEF Expire, Commit, End, claim
  <1>5. CASE EarlyReturn \/ Crash
    <2>1. at' # "fan" /\ rpc' = {[r EXCEPT !.waited = FALSE] : r \in rpc}
      BY <1>5 DEF EarlyReturn, Crash
    <2>2. \A r \in rpc : LET s == [r EXCEPT !.waited = FALSE]
                         IN  s.msg = r.msg /\ s.try = r.try /\ s.users = r.users /\ s.to = r.to
      BY <1>0 DEF Calls
    <2>3. \A s \in rpc' : \E r \in rpc : s.msg = r.msg /\ s.try = r.try /\ s.users = r.users /\ s.to = r.to
      BY <2>1, <2>2
    <2> QED BY <1>0, <2>1, <2>3, AddressedFrame
  <1>6. ASSUME NEW n \in Nodes, Spawn(n) PROVE Addressed'
    BY <1>6, AddressedSpawn
  <1>7. ASSUME NEW n \in Nodes, SpawnFails(n) PROVE Addressed'
    <2>1. UNCHANGED <<rpc, pos, at>> /\ at = "fan" /\ todo' = [todo EXCEPT ![n] = {}]
      BY <1>7 DEF SpawnFails, claim
    <2>2. \A m \in Nodes : todo'[m] \subseteq todo[m]
      BY <1>0, <2>1
    <2> QED BY <1>0, <2>1, <2>2, AddressedFrame
  <1>8. ASSUME NEW r \in rpc, Lookup(r) PROVE Addressed'
    <2> DEFINE s == [r EXCEPT !.stage = "run", !.to = Found(r.node, r.users)]
    <2>1. /\ s.msg = r.msg /\ s.try = r.try /\ s.users = r.users
          /\ s.to = Found(r.node, r.users)
      BY <1>0 DEF Calls
    <2>2. rpc' = (rpc \ {r}) \cup {s} /\ UNCHANGED <<pos, at, todo>>
      BY <1>8 DEF Lookup, Replace, claim
    <2> HIDE DEF s
    <2>3. \A c \in s.to : UserOf[c] \in s.users
      BY <2>1 DEF Found
    <2> QED BY <1>0, <2>1, <2>2, <2>3, AddressedFrame
  <1>9. ASSUME NEW r \in rpc, GiveUp(r) PROVE Addressed'
    <2> DEFINE s == [r EXCEPT !.waited = FALSE]
    <2>1. s.msg = r.msg /\ s.try = r.try /\ s.users = r.users /\ s.to = r.to
      BY <1>0 DEF Calls
    <2>2. rpc' = (rpc \ {r}) \cup {s} /\ UNCHANGED <<pos, at, todo>>
      BY <1>9 DEF GiveUp, Replace, claim
    <2> HIDE DEF s
    <2> QED BY <1>0, <2>1, <2>2, AddressedFrame
  <1>10. ASSUME NEW r \in rpc, Reply(r) \/ Lost(r) PROVE Addressed'
    BY <1>1, <1>10 DEF Reply, Lost, claim
  <1>11. ASSUME NEW r \in rpc, NEW c \in Conns, TrySend(r, c) PROVE Addressed'
    <2> DEFINE s == [r EXCEPT !.to = @ \ {c}]
    <2>1. s.msg = r.msg /\ s.try = r.try /\ s.users = r.users /\ s.to \subseteq r.to
      BY <1>0 DEF Calls
    <2>2. rpc' = (rpc \ {r}) \cup {s} /\ UNCHANGED <<pos, at, todo>>
      BY <1>11 DEF TrySend, Replace, claim
    <2> HIDE DEF s
    <2> QED BY <1>0, <2>1, <2>2, AddressedFrame
  <1>12. ASSUME NEW c \in Conns, Drain(c) PROVE Addressed'
    BY <1>1, <1>12 DEF Drain, claim
  <1>13. CASE ConnStep
    BY <1>1, <1>13, ConnStepKeeps
  <1>14. CASE UNCHANGED vars
    BY <1>1, <1>14 DEF vars, claim
  <1> QED BY <1>2, <1>3, <1>4, <1>5, <1>6, <1>7, <1>8, <1>9, <1>10, <1>11, <1>12, <1>13, <1>14, NextCases

\* A new attempt is one of Delivery.
LEMMA BeginRefines ==
  ASSUME TypeOK, Tried, Take \/ Retry
  PROVE  De!Next
  <1> DEFINE p == IF Take THEN pos + 1 ELSE pos
  <1>1. /\ p \in Records /\ tries' = [tries EXCEPT ![p] = @ + 1]
        /\ UNCHANGED <<topic, sent, late>>
    <2>1. CASE Take
      <3>1. pos + 1 \in Records
        BY <2>1, LogType DEF TypeOK, Take, Records
      <3> QED BY <2>1, <3>1 DEF Take, channels
    <2>2. CASE ~Take
      BY <2>2 DEF TypeOK, Retry, Goto, channels
    <2> QED BY <2>1, <2>2
  <1>2. \A k \in Records : k < p => tries[k] > 0
    <2>1. pos \in Nat /\ \A k \in Records : k \in Nat
      BY LogType DEF TypeOK, Records
    <2> QED BY <2>1 DEF Tried
  <1>3. DOMAIN tries = Records
    BY DEF TypeOK
  <1> HIDE DEF p
  <1>4. De!Begin(p)
    BY <1>1, <1>2, <1>3 DEF De!Begin
  <1> QED BY <1>1, <1>3, <1>4 DEF De!Next

\* A trySend that finds room in the channel is a delivery.
LEMMA TrySendRefines ==
  ASSUME TypeOK, AttemptInv, OrderInv, Addressed, NEW r \in rpc, NEW c \in Conns, TrySend(r, c)
  PROVE  De!Next \/ UNCHANGED De!vars
  <1>1. UNCHANGED <<topic, tries, late>> /\ r.stage = "run" /\ c \in r.to
    BY DEF TrySend
  <1>2. r \in Calls /\ r.msg \in Records /\ r.try <= tries[r.msg] /\ Reaches(r, c)
    BY <1>1 DEF AttemptInv, CallsMade, TypeOK, Reaches
  <1>3. r.try \in 1 .. tries[r.msg] /\ DOMAIN tries = Records
    <2>1. r.try > 0 /\ r.try \in Nat /\ tries[r.msg] \in Nat /\ DOMAIN tries = Records
      BY <1>2 DEF Addressed, CallsAddressed, TypeOK, Calls
    <2> QED BY <1>2, <2>1
  <1>4. UserOf[c] \in Addressees[topic][r.msg]
    BY <1>1 DEF Addressed, CallsAddressed
  <1>5. ASSUME NEW i \in DOMAIN sent[c]
        PROVE  sent[c][i] # Entry(r) /\ (~late => sent[c][i].msg < r.msg)
    <2>1. sent[c][i] # Entry(r)
      BY <1>2 DEF AttemptInv, NotYetSent, Has
    <2>2. ASSUME ~late PROVE sent[c][i].msg < r.msg
      <3>1. r.msg = pos /\ Behind(c)
        BY <1>2, <2>2 DEF OrderInv, Orderly, CallsCurrent, CalledBehind
      <3> QED BY <3>1 DEF Behind
    <2> QED BY <2>1, <2>2
  <1>6. CASE UNCHANGED sent
    BY <1>1, <1>6 DEF De!vars
  <1>7. CASE sent' = [sent EXCEPT ![c] = Append(@, Entry(r))]
    <2>1. De!Deliver(c, r.msg, r.try)
      BY <1>1, <1>4, <1>5, <1>7 DEF De!Deliver, Entry
    <2> QED BY <1>2, <1>3, <2>1 DEF De!Next
  <1> QED BY <1>6, <1>7 DEF TrySend

\* What any other step does to the attempts, the channels and the history.
LEMMA OtherRefines ==
  ASSUME [Next]_vars, ~Take, ~Retry, \A r \in rpc, c \in Conns : ~TrySend(r, c)
  PROVE  UNCHANGED <<topic, tries, sent>> /\ (late' = late \/ late' = TRUE)
  <1>1. CASE Mark \/ LookupRoute \/ LoadMembers \/ RefreshMembers \/ LoadNodes \/ LoadFails
    BY <1>1 DEF Mark, LookupRoute, LoadMembers, RefreshMembers, LoadNodes, LoadFails, channels,
      history
  <1>2. CASE EarlyReturn \/ Wait \/ Expire \/ Commit \/ End \/ Leave \/ Restart \/ Crash
    BY <1>2 DEF EarlyReturn, Wait, Expire, Commit, End, Leave, Restart, Crash, channels, history
  <1>3. ASSUME NEW n \in Nodes, Spawn(n) \/ SpawnFails(n)
        PROVE  UNCHANGED <<topic, tries, sent, late>>
    BY <1>3 DEF Spawn, SpawnFails, channels, history
  <1>4. ASSUME NEW r \in rpc, Lookup(r) \/ Reply(r) \/ GiveUp(r) \/ Lost(r)
        PROVE  UNCHANGED <<topic, tries, sent>> /\ (late' = late \/ late' = TRUE)
    BY <1>4 DEF Lookup, Reply, GiveUp, Lost, channels, history
  <1>5. ASSUME NEW c \in Conns, Drain(c) PROVE UNCHANGED <<topic, tries, sent, late>>
    BY <1>5 DEF Drain, history
  <1>6. CASE ConnStep
    BY <1>6, ConnStepKeeps
  <1>7. CASE UNCHANGED vars
    BY <1>7 DEF vars, channels, history
  <1> QED BY <1>1, <1>2, <1>3, <1>4, <1>5, <1>6, <1>7, NextCases

\* Every step is one of Delivery, or not visible.
LEMMA NextRefines ==
  TypeOK /\ AttemptInv /\ OrderInv /\ Tried /\ Addressed /\ [Next]_vars => [De!Next]_(De!vars)
  <1> SUFFICES ASSUME TypeOK, AttemptInv, OrderInv, Tried, Addressed, [Next]_vars
               PROVE  De!Next \/ UNCHANGED De!vars
    OBVIOUS
  <1>1. CASE Take \/ Retry
    BY <1>1, BeginRefines
  <1>2. ASSUME NEW r \in rpc, NEW c \in Conns, TrySend(r, c) PROVE De!Next \/ UNCHANGED De!vars
    BY <1>2, TrySendRefines
  <1>3. CASE ~Take /\ ~Retry /\ \A r \in rpc, c \in Conns : ~TrySend(r, c)
    <2>1. UNCHANGED <<topic, tries, sent>> /\ (late' = late \/ late' = TRUE)
      BY <1>3, OtherRefines
    <2> QED BY <2>1 DEF De!Next, De!GiveUp, De!vars
  <1> QED BY <1>1, <1>2, <1>3

\* For any users, nodes, connections and records: a push reaches nobody but
\* those the record is for, once per attempt, in order until something is given
\* up, and no record is passed over (ConsumeClaim, handleSmallGroupMessage,
\* handleRoomBroadcast, PushMsgToUsers, trySend).
THEOREM PushImplementsDelivery == Spec => ImplementsDelivery
  <1> DEFINE Inv == TypeOK /\ AttemptInv /\ OrderInv /\ Tried /\ Addressed
  <1>1. Init => Inv
    BY InitTypeOK, InitAttempt, InitOrder, InitTried
  <1>2. Inv /\ [Next]_vars => Inv'
    BY NextTypeOK, NextAttempt, NextOrder, NextTried, NextAddressed
  <1>3. Init => De!Init
    BY DEF Init, De!Init, Records, Addressees
  <1>4. Inv /\ [Next]_vars => [De!Next]_(De!vars)
    BY NextRefines
  <1> HIDE DEF Inv
  <1> QED BY <1>1, <1>2, <1>3, <1>4, PTL DEF Spec, ImplementsDelivery, De!Spec

=============================================================================
