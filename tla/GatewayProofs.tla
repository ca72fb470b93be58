--------------------------- MODULE GatewayProofs ---------------------------
(***************************************************************************)
(* Gateway's invariants, proved for any number of names, sessions and      *)
(* requests.  The inductive invariant follows a request through its two    *)
(* halves: what the handler knows of the session, what the Logic call has  *)
(* been given, and what a finished Logic call has left in the tables.      *)
(***************************************************************************)
EXTENDS Gateway, FiniteSetTheorems, TLAPS

RequestType ==
  request \in [Requests ->
    [at : {"new", "verify", "body", "ready", "wait", "ok", "err"}, op : Ops \cup {"none"},
     sid : Sessions \cup {None}, arg : Names \cup Users \cup GroupIds \cup {None}, live : BOOLEAN]]

LogicType ==
  logic \in [Requests ->
    [at : {"none", "sent", "checked", "drawn", "granted", "done", "failed"}, user : Users \cup {None},
     sid : Sessions \cup {None}, out : Nat \cup {None},
     list : SUBSET GroupIds, had : SUBSET GroupIds]]

SessionType ==
  /\ owner \in [Sessions -> Users \cup {None}]
  /\ login \in [Users -> Sessions \cup {None}]
  /\ issued \subseteq Sessions /\ ended \subseteq Sessions
  /\ answer \in [Requests -> {SL!Nothing} \cup [user : Users, sid : Sessions]]

TableType ==
  /\ accounts \in Seq(Names) /\ Len(accounts) <= MaxUsers
  /\ groups \in Seq([name : Names, owner : Users, count : Nat]) /\ Len(groups) <= MaxGroups
  /\ members \subseteq [id : Nat, group : GroupIds, user : Users, by : Requests \cup {None}]
  /\ nextRow \in Nat

MessageType ==
  /\ log \subseteq [id : Nat, op : Sends, from : Users, to : Users \cup GroupIds \cup {None}, by : Requests]
  /\ localMsgSeq \in Nat
  /\ ids \in Seq(Nat)

ArgType == \A k \in Requests : request[k].op \in Ops => request[k].arg \in Args(request[k].op)

LEMMA TypeParts ==
  TypeOK <=> RequestType /\ LogicType /\ SessionType /\ TableType /\ MessageType /\ ArgType
  BY DEF TypeOK, RequestType, LogicType, SessionType, TableType, MessageType, ArgType

-----------------------------------------------------------------------------
(***************************************************************************)
(* What the small steps of a handler and of a Logic call leave alone.      *)
(***************************************************************************)
LEMMA HandlerFrame ==
  ASSUME RequestType, NEW k \in Requests,
         NEW at \in {"new", "verify", "body", "ready", "wait", "ok", "err"}, HandlerGoes(k, at)
  PROVE  /\ RequestType'
         /\ request'[k].at = at
         /\ \A j \in Requests \ {k} : request'[j] = request[j]
         /\ \A j \in Requests : /\ request'[j].op = request[j].op
                                /\ request'[j].sid = request[j].sid
                                /\ request'[j].arg = request[j].arg
                                /\ request'[j].live = request[j].live
  <1>1. request' = [request EXCEPT ![k] = [request[k] EXCEPT !.at = at]]
    BY DEF HandlerGoes, RequestType
  <1>2. [request[k] EXCEPT !.at = at] \in
          [at : {"new", "verify", "body", "ready", "wait", "ok", "err"}, op : Ops \cup {"none"},
           sid : Sessions \cup {None}, arg : Names \cup Users \cup GroupIds \cup {None}, live : BOOLEAN]
    BY DEF RequestType
  <1>3. RequestType'
    BY <1>1, <1>2 DEF RequestType
  <1> QED BY <1>1, <1>3 DEF RequestType

Stages == {"none", "sent", "checked", "drawn", "granted", "done", "failed"}

LEMMA LogicFrame ==
  ASSUME LogicType, NEW k \in Requests, NEW at \in Stages, LogicGoes(k, at)
  PROVE  /\ LogicType'
         /\ logic'[k].at = at
         /\ \A j \in Requests \ {k} : logic'[j] = logic[j]
         /\ \A j \in Requests : /\ logic'[j].user = logic[j].user
                                /\ logic'[j].sid = logic[j].sid
                                /\ logic'[j].out = logic[j].out
  <1>1. logic' = [logic EXCEPT ![k] = [logic[k] EXCEPT !.at = at]]
    BY DEF LogicGoes, LogicType
  <1>2. [logic[k] EXCEPT !.at = at] \in
          [at : Stages, user : Users \cup {None}, sid : Sessions \cup {None}, out : Nat \cup {None},
           list : SUBSET GroupIds, had : SUBSET GroupIds]
    BY DEF LogicType, Stages
  <1>3. LogicType'
    BY <1>1, <1>2 DEF LogicType, Stages
  <1> QED BY <1>1, <1>3 DEF LogicType

LEMMA DoneFrame ==
  ASSUME LogicType, NEW k \in Requests, NEW x \in Nat \cup {None}, Done(k, x)
  PROVE  /\ LogicType'
         /\ logic'[k].at = "done" /\ logic'[k].out = x
         /\ \A j \in Requests \ {k} : logic'[j] = logic[j]
         /\ \A j \in Requests : /\ logic'[j].user = logic[j].user
                                /\ logic'[j].sid = logic[j].sid
  <1>1. logic' = [logic EXCEPT ![k] = [logic[k] EXCEPT !.at = "done", !.out = x]]
    BY DEF Done, LogicType
  <1>2. [logic[k] EXCEPT !.at = "done", !.out = x] \in
          [at : Stages, user : Users \cup {None}, sid : Sessions \cup {None}, out : Nat \cup {None},
           list : SUBSET GroupIds, had : SUBSET GroupIds]
    BY DEF LogicType, Stages
  <1>3. LogicType'
    BY <1>1, <1>2 DEF LogicType, Stages
  <1> QED BY <1>1, <1>3 DEF LogicType

-----------------------------------------------------------------------------
(***************************************************************************)
(* The parts of the inductive invariant.                                   *)
(***************************************************************************)

\* Logins belong to the user for whom the session was drawn; the session of a
\* request was once issued, can be alive only if it was when the request came,
\* and an accepted one is that of the user it was accepted for.
SessionInv ==
  /\ \A u \in Users : login[u] # None => owner[login[u]] = u
  /\ \A s \in issued : owner[s] # None
  /\ \A k \in Requests : request[k].op \in Guarded => request[k].sid \in issued
  /\ \A k \in Requests : request[k].op \in Guarded =>
       \A u \in Users : login[u] = request[k].sid => request[k].live
  /\ \A k \in Requests : answer[k] # SL!Nothing =>
       /\ request[k].op \in Guarded /\ request[k].live
       /\ answer[k].sid = request[k].sid /\ owner[request[k].sid] = answer[k].user

\* How far the handler and the Logic call of a request can be.
On(k) ==
  /\ request[k].at = "verify" => request[k].op \in Guarded
  /\ request[k].at \in {"body", "ready"} =>
       /\ request[k].op \in Ops \ {"verify"}
       /\ request[k].op \in Guarded => answer[k] # SL!Nothing
  /\ logic[k].at # "none" =>
       /\ request[k].op \in Ops \ {"verify"}
       /\ request[k].op \in Guarded => answer[k] # SL!Nothing /\ logic[k].user = answer[k].user
  /\ logic[k].at \in {"drawn", "granted"} => request[k].op = "login"
  /\ logic[k].at = "checked" => request[k].op \in Sends
  /\ request[k].at = "ok" =>
       \/ request[k].op = "verify" /\ answer[k] # SL!Nothing
       \/ logic[k].at = "done"

Course == \A k \in Requests : On(k)

\* The steps that leave the sessions alone and change of the requests only the
\* stage of a handler.
StageOnly ==
  /\ UNCHANGED sessions
  /\ \A k \in Requests : /\ request'[k].op = request[k].op
                          /\ request'[k].sid = request[k].sid
                          /\ request'[k].arg = request[k].arg
                          /\ request'[k].live = request[k].live

LEMMA StageOnlySteps ==
  ASSUME RequestType, NEW k \in Requests,
         \/ Reject(k) \/ VerifyFails(k) \/ ReadBody(k) \/ CallLogic(k)
         \/ Return(k) \/ Timeout(k) \/ Disconnect(k)
         \/ LogicFails(k) \/ CreateUser(k) \/ CreateGroup(k) \/ AddGroup(k)
         \/ (\E ms \in Clock : DrawId(k, ms)) \/ Produce(k)
  PROVE  StageOnly /\ RequestType'
  <1>1. CASE \/ LogicFails(k) \/ CreateUser(k) \/ CreateGroup(k) \/ AddGroup(k)
             \/ (\E ms \in Clock : DrawId(k, ms)) \/ Produce(k)
    <2>1. UNCHANGED <<sessions, request>>
      BY <1>1 DEF LogicFails, CreateUser, CreateGroup, AddGroup, DrawId, Produce
    <2> QED BY <2>1 DEF StageOnly, RequestType
  <1>2. CASE \/ Reject(k) \/ VerifyFails(k) \/ ReadBody(k) \/ CallLogic(k)
             \/ Return(k) \/ Timeout(k) \/ Disconnect(k)
    <2>1. UNCHANGED sessions
      BY <1>2 DEF Reject, VerifyFails, ReadBody, CallLogic, Return, Timeout, Disconnect
    <2>2. \E at \in {"ready", "wait", "ok", "err"} : HandlerGoes(k, at)
      BY <1>2 DEF Reject, VerifyFails, ReadBody, CallLogic, Return, Timeout, Disconnect
    <2> QED BY <2>1, <2>2, HandlerFrame DEF StageOnly
  <1> QED BY <1>1, <1>2

LEMMA ReceiveFrame ==
  ASSUME RequestType, ArgType, SessionType, NEW k \in Requests, NEW op \in Ops,
         NEW s \in Sessions \cup {None}, NEW x \in Args(op), Receive(k, op, s, x)
  PROVE  /\ RequestType' /\ ArgType'
         /\ request[k] = Unused
         /\ request'[k] = [at |-> IF op \in Open THEN "ready" ELSE "verify", op |-> op, sid |-> s,
                           arg |-> x, live |-> \E u \in Users : login[u] = s]
         /\ \A j \in Requests \ {k} : request'[j] = request[j]
  <1>1. x \in Names \cup Users \cup GroupIds \cup {None}
    <2>1. DOMAIN FirstNames \subseteq Users
      BY GatewayAssumption DEF Users
    <2> QED BY <2>1 DEF Args, Ops, Open, Guarded, Sends
  <1> DEFINE r == [at |-> IF op \in Open THEN "ready" ELSE "verify", op |-> op, sid |-> s,
                   arg |-> x, live |-> \E u \in Users : login[u] = s]
  <1>2. request' = [request EXCEPT ![k] = r] /\ request[k] = Unused
    BY DEF Receive, InTurn
  <1>3. r \in [at : {"new", "verify", "body", "ready", "wait", "ok", "err"}, op : Ops \cup {"none"},
                sid : Sessions \cup {None}, arg : Names \cup Users \cup GroupIds \cup {None}, live : BOOLEAN]
    BY <1>1
  <1>4. RequestType'
    BY <1>2, <1>3 DEF RequestType
  <1>5. request'[k] = r /\ \A j \in Requests \ {k} : request'[j] = request[j]
    BY <1>2 DEF RequestType
  <1>6. ArgType'
    BY <1>5 DEF ArgType
  <1> QED BY <1>2, <1>4, <1>5, <1>6

-----------------------------------------------------------------------------
(***************************************************************************)
(* Types.                                                                  *)
(***************************************************************************)

\* The actions of one request that are not a Receive, in two groups.
HandlerStep(k) ==
  \/ Reject(k) \/ VerifyOk(k) \/ VerifyFails(k) \/ ReadBody(k) \/ CallLogic(k) \/ Return(k) \/ Timeout(k)
  \/ Disconnect(k)

LEMMA NextCases ==
  ASSUME SessionType, [Next]_vars
  PROVE  \/ \E k \in Requests, op \in Ops, s \in Sessions \cup {None} : \E x \in Args(op) :
              Receive(k, op, s, x)
         \/ \E k \in Requests : HandlerStep(k) \/ Serve(k)
         \/ \E s \in Sessions : SessionExpires(s)
         \/ UNCHANGED vars
  <1>1. ASSUME NEW k \in Requests, NEW op \in Guarded, NEW s \in issued, NEW x \in Args(op),
               Receive(k, op, s, x)
        PROVE  \E j \in Requests, o \in Ops, t \in Sessions \cup {None} : \E y \in Args(o) :
                 Receive(j, o, t, y)
    BY <1>1 DEF SessionType, Ops
  <1> QED
    BY <1>1 DEF Next, HandlerStep, Handle, Ops

\* Message ids are numbers.
LEMMA MessageIdNat ==
  ASSUME NEW ms \in Nat, NEW n \in Nat
  PROVE  MessageId(ms, n) \in Nat
  <1>1. n % SeqSpan \in Nat
    BY GatewayAssumption
  <1>2. ms * SeqSpan \in Nat
    BY GatewayAssumption
  <1> DEFINE a == ms * SeqSpan
             b == n % SeqSpan
  <1>3. a + b \in Nat
    <2> HIDE DEF a, b
    <2>1. a \in Nat /\ b \in Nat
      BY <1>1, <1>2 DEF a, b
    <2> QED BY <2>1
  <1> QED BY <1>3 DEF MessageId

LEMMA ServeLogicType ==
  ASSUME TypeOK, NEW k \in Requests, Serve(k)
  PROVE  LogicType' /\ \A j \in Requests \ {k} : logic'[j] = logic[j]
  <1> USE TypeParts, GatewayAssumption
  <1>1. CASE LogicFails(k) \/ LoginGrant(k) \/ Produce(k)
    <2>1. \E at \in Stages : LogicGoes(k, at)
      BY <1>1 DEF LogicFails, LoginGrant, Produce, Stages
    <2> QED BY <2>1, LogicFrame
  <1>2. CASE CreateUser(k)
    <2>1. Len(accounts) + 1 \in Nat
      BY DEF TableType
    <2> QED BY <1>2, <2>1, DoneFrame DEF CreateUser
  <1>3. CASE CreateGroup(k)
    <2>1. Len(groups) + 1 \in Nat
      BY DEF TableType
    <2> QED BY <1>3, <2>1, DoneFrame DEF CreateGroup
  <1>4. CASE AddGroup(k)
    <2>1. request[k].arg \in Nat
      BY <1>4 DEF AddGroup, TableType
    <2> QED BY <1>4, <2>1, DoneFrame DEF AddGroup
  <1> DEFINE T == [at : Stages, user : Users \cup {None}, sid : Sessions \cup {None}, out : Nat \cup {None},
                   list : SUBSET GroupIds, had : SUBSET GroupIds]
  <1>5. ASSUME NEW s \in Sessions, LoginDraw(k, s) PROVE LogicType' /\ \A j \in Requests \ {k} : logic'[j] = logic[j]
    <2>1. PICK u \in DOMAIN accounts :
            logic' = [logic EXCEPT ![k] = [logic[k] EXCEPT !.at = "drawn", !.user = u, !.sid = s]]
      BY <1>5 DEF LoginDraw, LogicType
    <2>2. u \in Users
      BY DEF TableType, Users
    <2>3. [logic[k] EXCEPT !.at = "drawn", !.user = u, !.sid = s] \in T
      BY <2>2, ZenonT(30) DEF LogicType, Stages
    <2> QED BY <2>1, <2>3 DEF LogicType, Stages
  <1>6. CASE LoginList(k)
    <2> DEFINE u == logic[k].user
    <2>1. logic' = [logic EXCEPT ![k] = [logic[k] EXCEPT !.at = "done", !.out = u,
                                                       !.list = ListUserSmallGroups(u), !.had = GroupsOf(u)]]
      BY <1>6 DEF LoginList, LogicType
    <2>2. ListUserSmallGroups(u) \subseteq GroupIds /\ GroupsOf(u) \subseteq GroupIds
      BY DEF ListUserSmallGroups, GroupsOf, TableType
    <2>3. u \in Nat \cup {None}
      BY DEF LogicType, Users
    <2> HIDE DEF u
    <2>4. [logic[k] EXCEPT !.at = "done", !.out = u,
                           !.list = ListUserSmallGroups(u), !.had = GroupsOf(u)] \in T
      BY <2>2, <2>3 DEF LogicType, Stages
    <2> QED BY <2>1, <2>4 DEF LogicType, Stages
  <1>7. ASSUME NEW ms \in Clock, DrawId(k, ms) PROVE LogicType' /\ \A j \in Requests \ {k} : logic'[j] = logic[j]
    <2> DEFINE id == MessageId(ms, localMsgSeq + 1)
    <2>1. logic' = [logic EXCEPT ![k] = [logic[k] EXCEPT !.at = "checked", !.out = id]]
      BY <1>7 DEF DrawId, LogicType
    <2>a. ms \in Nat /\ localMsgSeq + 1 \in Nat
      BY DEF MessageType
    <2>2. id \in Nat
      BY <2>a, MessageIdNat, Zenon
    <2> HIDE DEF id
    <2>3. [logic[k] EXCEPT !.at = "checked", !.out = id] \in T
      BY <2>2 DEF LogicType, Stages
    <2> QED BY <2>1, <2>3 DEF LogicType, Stages
  <1> QED
    BY <1>1, <1>2, <1>3, <1>4, <1>5, <1>6, <1>7 DEF Serve

LEMMA CallLogicType ==
  ASSUME TypeOK, NEW k \in Requests, CallLogic(k)
  PROVE  /\ LogicType'
         /\ logic'[k] = [NoCall EXCEPT !.at = "sent", !.user = Caller(k)]
         /\ \A j \in Requests \ {k} : logic'[j] = logic[j]
  <1>1. Caller(k) \in Users \cup {None}
    BY TypeParts DEF SessionType, Caller, SL!Nothing
  <1> HIDE DEF Caller
  <1>2. [NoCall EXCEPT !.at = "sent", !.user = Caller(k)] \in
          [at : Stages, user : Users \cup {None}, sid : Sessions \cup {None}, out : Nat \cup {None},
           list : SUBSET GroupIds, had : SUBSET GroupIds]
    BY <1>1 DEF NoCall, Stages
  <1> QED BY <1>2, TypeParts DEF CallLogic, LogicType, Stages

-----------------------------------------------------------------------------
(***************************************************************************)
(* The steps that touch the sessions, with the definitions of SingleLogin  *)
(* expanded.                                                               *)
(***************************************************************************)
LEMMA VerifyOkFacts ==
  ASSUME TypeOK, NEW k \in Requests, VerifyOk(k)
  PROVE  /\ request[k].at = "verify" /\ request[k].sid \in issued /\ request[k].sid \in Sessions
         /\ \E u \in Users :
              /\ login[u] = request[k].sid
              /\ answer' = [answer EXCEPT ![k] = [user |-> u, sid |-> request[k].sid]]
         /\ \E at \in {"body", "ready", "ok"} : HandlerGoes(k, at) /\ (at = "ok" <=> request[k].op = "verify")
         /\ UNCHANGED <<owner, login, issued, ended, logic, tables, messages>>
  <1>1. PICK u \in Users : SL!Accept(k, u, request[k].sid)
    BY DEF VerifyOk
  <1>2. /\ request[k].sid \in issued
        /\ login[u] = request[k].sid
        /\ answer' = [answer EXCEPT ![k] = [user |-> u, sid |-> request[k].sid]]
        /\ UNCHANGED <<owner, login, issued, ended>>
    BY <1>1 DEF SL!Accept
  <1>3. request[k].sid \in Sessions
    BY <1>2, TypeParts DEF SessionType
  <1> QED BY <1>2, <1>3 DEF VerifyOk, AfterVerify

LEMMA LoginDrawFacts ==
  ASSUME TypeOK, NEW k \in Requests, NEW s \in Sessions, LoginDraw(k, s)
  PROVE  /\ request[k].op = "login" /\ owner[s] = None
         /\ \E u \in DOMAIN accounts :
              /\ accounts[u] = request[k].arg
              /\ owner' = [owner EXCEPT ![s] = u]
              /\ logic' = [logic EXCEPT ![k].at = "drawn", ![k].user = u, ![k].sid = s]
         /\ UNCHANGED <<login, issued, ended, answer, request, tables, messages>>
  BY DEF LoginDraw, SL!Draw, At

LEMMA LoginGrantFacts ==
  ASSUME NEW k \in Requests, LoginGrant(k)
  PROVE  /\ request[k].op = "login" /\ logic[k].at = "drawn"
         /\ owner[logic[k].sid] = logic[k].user /\ logic[k].sid \notin issued
         /\ login' = [login EXCEPT ![logic[k].user] = logic[k].sid]
         /\ \E at \in {"drawn", "granted"} : LogicGoes(k, at)
         /\ UNCHANGED <<owner, issued, ended, answer, request, tables, messages>>
  BY DEF LoginGrant, SL!Grant, At

LEMMA LoginListFacts ==
  ASSUME NEW k \in Requests, LoginList(k)
  PROVE  /\ request[k].op = "login" /\ logic[k].at = "granted"
         /\ owner[logic[k].sid] # None /\ issued' = issued \cup {logic[k].sid}
         /\ UNCHANGED <<owner, login, ended, answer, request, tables, messages>>
  BY DEF LoginList, SL!Issue, At

LEMMA ExpiresFacts ==
  ASSUME NEW s \in Sessions, SessionExpires(s)
  PROVE  /\ login' = [u \in Users |-> IF login[u] = s THEN None ELSE login[u]]
         /\ UNCHANGED <<owner, issued, ended, answer, request, logic, tables, messages>>
  BY DEF SessionExpires, SL!Drop, SL!Without

-----------------------------------------------------------------------------
(***************************************************************************)
(* Nothing that was written is lost: the tables, the topics and the        *)
(* sessions only grow.                                                     *)
(***************************************************************************)
Grows ==
  /\ \A i \in DOMAIN accounts : i \in DOMAIN accounts' /\ accounts'[i] = accounts[i]
  /\ \A g \in DOMAIN groups : g \in DOMAIN groups' /\ groups'[g].name = groups[g].name
  /\ members \subseteq members' /\ log \subseteq log' /\ issued \subseteq issued'
  /\ \A s \in Sessions : owner[s] # None => owner'[s] = owner[s]

\* What a Logic call has left behind, by the stage it has reached.
Left(k) ==
  /\ logic[k].at \in {"drawn", "granted"} =>
       /\ request[k].op = "login" /\ logic[k].sid \in Sessions /\ logic[k].user \in DOMAIN accounts
       /\ owner[logic[k].sid] = logic[k].user /\ accounts[logic[k].user] = request[k].arg
  /\ logic[k].at = "checked" => request[k].op \in Sends /\ logic[k].out \in Nat
  /\ logic[k].at = "done" =>
       /\ request[k].op = "register" =>
            logic[k].out \in DOMAIN accounts /\ accounts[logic[k].out] = request[k].arg
       /\ request[k].op = "login" =>
            /\ logic[k].sid \in issued /\ logic[k].out \in DOMAIN accounts
            /\ owner[logic[k].sid] = logic[k].out /\ accounts[logic[k].out] = request[k].arg
       /\ request[k].op = "create" =>
            /\ logic[k].out \in DOMAIN groups /\ groups[logic[k].out].name = request[k].arg
            /\ \E r \in members : r.user = logic[k].user /\ r.group = logic[k].out
       /\ request[k].op = "add" =>
            \E r \in members : r.user = logic[k].user /\ r.group = request[k].arg
       /\ request[k].op \in Sends =>
            \E m \in log : /\ m.by = k /\ m.id = logic[k].out
                           /\ m.from = logic[k].user /\ m.to = request[k].arg

\* Every record and every row that a request wrote carries the user of the
\* session with which the request came, which was alive then.
Written ==
  /\ \A m \in log : /\ request[m.by].op \in Guarded /\ request[m.by].live
                    /\ m.from = owner[request[m.by].sid]
  /\ \A r \in members : r.by # None =>
       /\ request[r.by].op \in Guarded /\ request[r.by].live
       /\ r.user = owner[request[r.by].sid]

LEMMA UsersNotNone == None \notin Users
  BY GatewayAssumption DEF Users

\* AddGroup changes of the groups only the count of the one that is joined.
LEMMA AddGroupGroups ==
  ASSUME TypeOK, NEW k \in Requests, AddGroup(k)
  PROVE  /\ groups' \in Seq([name : Names, owner : Users, count : Nat])
         /\ request[k].arg \in DOMAIN groups
         /\ Len(groups') = Len(groups)
         /\ \A g \in DOMAIN groups :
              /\ g \in DOMAIN groups'
              /\ groups'[g].name = groups[g].name /\ groups'[g].owner = groups[g].owner
              /\ groups'[g].count = IF groups' # groups /\ g = request[k].arg
                                    THEN groups[g].count + 1 ELSE groups[g].count
  <1> DEFINE R == [name : Names, owner : Users, count : Nat]
             g == request[k].arg
             f == [groups[g] EXCEPT !.count = @ + 1]
  <1>1. groups \in Seq(R) /\ g \in DOMAIN groups
    BY TypeParts DEF AddGroup, TableType
  <1>2. groups' = groups \/ groups' = [groups EXCEPT ![g] = f]
    BY DEF AddGroup
  <1>3. groups[g] \in R
    <2> HIDE DEF g, R
    <2> QED BY <1>1
  <1>4. f \in R /\ f.name = groups[g].name /\ f.owner = groups[g].owner /\ f.count = groups[g].count + 1
    BY <1>3
  <1>5. CASE groups' = groups
    BY <1>1, <1>5
  <1>6. CASE groups' = [groups EXCEPT ![g] = f]
    <2> HIDE DEF f, g, R
    <2>1. groups' \in Seq(R) /\ Len(groups') = Len(groups) /\ DOMAIN groups' = DOMAIN groups
      BY <1>1, <1>4, <1>6
    <2>2. \A h \in DOMAIN groups : groups'[h] = IF h = g THEN f ELSE groups[h]
      BY <1>1, <1>6
    <2>3. groups' # groups
      BY <1>1, <1>3, <1>4, <2>2 DEF R
    <2> QED BY <1>1, <1>4, <2>1, <2>2, <2>3 DEF g, R
  <1> QED BY <1>2, <1>5, <1>6

LEMMA GrowsLemma ==
  ASSUME TypeOK, [Next]_vars
  PROVE  Grows
  <1> USE TypeParts
  <1>1. CASE UNCHANGED vars
    BY <1>1 DEF vars, sessions, tables, messages, Grows
  <1>2. CASE \E k \in Requests, op \in Ops, s \in Sessions \cup {None} : \E x \in Args(op) :
               Receive(k, op, s, x)
    BY <1>2 DEF Receive, sessions, tables, messages, Grows
  <1>3. CASE \E s \in Sessions : SessionExpires(s)
    BY <1>3, ExpiresFacts DEF tables, messages, Grows
  <1>4. ASSUME NEW k \in Requests, HandlerStep(k)
        PROVE  Grows
    <2>1. CASE VerifyOk(k)
      BY <2>1, VerifyOkFacts DEF tables, messages, Grows
    <2>2. CASE ~VerifyOk(k)
      <3>1. UNCHANGED <<sessions, tables, messages>>
        BY <1>4, <2>2 DEF HandlerStep, Reject, VerifyFails, ReadBody,
           CallLogic, Return, Timeout, Disconnect
      <3> QED BY <3>1 DEF sessions, tables, messages, Grows
    <2> QED BY <2>1, <2>2
  <1>5. ASSUME NEW k \in Requests, Serve(k)
        PROVE  Grows
    <2>1. CASE LogicFails(k)
      BY <2>1 DEF LogicFails, sessions, tables, messages, Grows
    <2>2. CASE CreateUser(k)
      <3>1. accounts' = Append(accounts, request[k].arg)
            /\ UNCHANGED <<sessions, groups, members, messages>>
        BY <2>2 DEF CreateUser
      <3>2. \A i \in DOMAIN accounts : i \in DOMAIN accounts' /\ accounts'[i] = accounts[i]
        BY <3>1 DEF TableType
      <3> QED BY <3>1, <3>2 DEF sessions, messages, Grows
    <2>3. ASSUME NEW s \in Sessions, LoginDraw(k, s) PROVE Grows
      BY <2>3, LoginDrawFacts DEF SessionType, tables, messages, Grows
    <2>4. CASE LoginGrant(k)
      BY <2>4, LoginGrantFacts DEF tables, messages, Grows
    <2>5. CASE LoginList(k)
      BY <2>5, LoginListFacts DEF tables, messages, Grows
    <2>6. CASE CreateGroup(k)
      <3>1. /\ groups' = Append(groups, [name |-> request[k].arg, owner |-> logic[k].user, count |-> 1])
            /\ members \subseteq members' /\ UNCHANGED <<sessions, accounts, messages>>
        BY <2>6 DEF CreateGroup
      <3>2. \A g \in DOMAIN groups : g \in DOMAIN groups' /\ groups'[g] = groups[g]
        BY <3>1 DEF TableType
      <3> QED BY <3>1, <3>2 DEF sessions, messages, Grows
    <2>7. CASE AddGroup(k)
      <3>1. /\ groups' = groups \/ groups' = [groups EXCEPT ![request[k].arg].count = @ + 1]
            /\ members \subseteq members' /\ UNCHANGED <<sessions, accounts, messages>>
        BY <2>7 DEF AddGroup
      <3>2. \A g \in DOMAIN groups : g \in DOMAIN groups' /\ groups'[g].name = groups[g].name
        BY <2>7, <3>1, AddGroupGroups
      <3> QED BY <3>1, <3>2 DEF sessions, messages, Grows
    <2>8. CASE \E ms \in Clock : DrawId(k, ms)
      BY <2>8 DEF DrawId, sessions, tables, messages, Grows
    <2>9. CASE Produce(k)
      BY <2>9 DEF Produce, sessions, tables, messages, Grows
    <2> QED BY <1>5, <2>1, <2>2, <2>3, <2>4, <2>5, <2>6, <2>7, <2>8, <2>9 DEF Serve
  <1> QED BY <1>1, <1>2, <1>3, <1>4, <1>5, NextCases

-----------------------------------------------------------------------------
(***************************************************************************)
(* The inductive invariant, and the types.                                 *)
(***************************************************************************)
LeftInv == \A k \in Requests : Left(k)

Core == TypeOK /\ SessionInv /\ Course /\ LeftInv /\ Written

\* The user of a Logic call behind a verified session.
LEMMA CallerKnown ==
  ASSUME Core, NEW k \in Requests, logic[k].at # "none", request[k].op \in Guarded
  PROVE  /\ logic[k].user \in Users /\ request[k].live
         /\ owner[request[k].sid] = logic[k].user
         /\ request[k].arg \in Args(request[k].op)
  <1>1. answer[k] # SL!Nothing /\ logic[k].user = answer[k].user
    BY DEF Core, Course, On
  <1>2. answer[k].user \in Users
    BY <1>1, TypeParts DEF Core, SessionType
  <1>3. request[k].live /\ owner[request[k].sid] = answer[k].user
    BY <1>1 DEF Core, SessionInv
  <1>4. request[k].arg \in Args(request[k].op)
    BY TypeParts DEF Core, ArgType, Ops
  <1> QED BY <1>1, <1>2, <1>3, <1>4

LEMMA SessionTypeNext ==
  ASSUME Core, [Next]_vars
  PROVE  SessionType'
  <1> USE TypeParts DEF Core
  <1>1. ASSUME UNCHANGED sessions PROVE SessionType'
    BY <1>1 DEF sessions, SessionType
  <1>2. ASSUME NEW k \in Requests, HandlerStep(k) PROVE SessionType'
    <2>1. CASE VerifyOk(k)
      BY <2>1, VerifyOkFacts DEF SessionType
    <2> QED BY <1>1, <1>2, <2>1
            DEF HandlerStep, Reject, VerifyFails, ReadBody, CallLogic, Return, Timeout, Disconnect
  <1>3. ASSUME NEW k \in Requests, Serve(k) PROVE SessionType'
    <2>1. ASSUME NEW s \in Sessions, LoginDraw(k, s) PROVE SessionType'
      <3>a. \E u \in DOMAIN accounts : owner' = [owner EXCEPT ![s] = u]
        BY <2>1 DEF LoginDraw, SL!Draw
      <3>1. PICK u \in DOMAIN accounts : owner' = [owner EXCEPT ![s] = u]
        BY <3>a
      <3>2. u \in Users
        BY GatewayAssumption DEF TableType, Users
      <3> QED BY <2>1, <3>1, <3>2, LoginDrawFacts DEF SessionType
    <2>2. CASE LoginGrant(k)
      <3>1. logic[k].sid \in Sessions \cup {None}
        BY DEF LogicType
      <3> QED BY <2>2, <3>1, LoginGrantFacts DEF SessionType
    <2>3. CASE LoginList(k)
      <3>1. logic[k].sid \in Sessions
        BY <2>3, LoginListFacts DEF LeftInv, Left
      <3> QED BY <2>3, <3>1, LoginListFacts DEF SessionType
    <2> QED BY <1>1, <1>3, <2>1, <2>2, <2>3
            DEF Serve, LogicFails, CreateUser, CreateGroup, AddGroup, DrawId, Produce
  <1>4. ASSUME NEW s \in Sessions, SessionExpires(s) PROVE SessionType'
    BY <1>4, ExpiresFacts DEF SessionType
  <1> QED BY <1>1, <1>2, <1>3, <1>4, NextCases DEF Receive, vars

LEMMA TableTypeNext ==
  ASSUME Core, [Next]_vars
  PROVE  TableType'
  <1> USE TypeParts DEF Core
  <1>1. ASSUME UNCHANGED tables PROVE TableType'
    BY <1>1 DEF tables, TableType
  <1>2. ASSUME NEW k \in Requests, HandlerStep(k) PROVE TableType'
    BY <1>1, <1>2 DEF HandlerStep, Reject, VerifyOk, AfterVerify, VerifyFails, ReadBody,
       CallLogic, Return, Timeout, Disconnect
  <1>3. ASSUME NEW k \in Requests, Serve(k) PROVE TableType'
    <2>1. CASE CreateUser(k)
      <3>1. request[k].arg \in Names
        BY <2>1 DEF CreateUser, At, ArgType, Args, Ops, Open
      <3>2. /\ accounts' = Append(accounts, request[k].arg) /\ Len(accounts) < MaxUsers
            /\ UNCHANGED <<groups, members, nextRow>>
        BY <2>1 DEF CreateUser
      <3> QED BY <3>1, <3>2, GatewayAssumption DEF TableType
    <2>2. CASE CreateGroup(k)
      <3>1. request[k].arg \in Names /\ logic[k].user \in Users
        BY <2>2, CallerKnown DEF CreateGroup, At, Args, Ops, Guarded
      <3>2. /\ groups' = Append(groups, [name |-> request[k].arg, owner |-> logic[k].user, count |-> 1])
            /\ members' = members \cup {[id |-> nextRow, group |-> Len(groups) + 1,
                                         user |-> logic[k].user, by |-> k]}
            /\ nextRow' = nextRow + 1 /\ Len(groups) < MaxGroups /\ accounts' = accounts
        BY <2>2 DEF CreateGroup
      <3>3. groups' \in Seq([name : Names, owner : Users, count : Nat]) /\ Len(groups') <= MaxGroups
        BY <3>1, <3>2, GatewayAssumption DEF TableType
      <3>4. Len(groups) + 1 \in GroupIds
        BY <3>2, GatewayAssumption DEF TableType, GroupIds
      <3>5. members' \subseteq [id : Nat, group : GroupIds, user : Users, by : Requests \cup {None}]
        BY <3>1, <3>2, <3>4 DEF TableType
      <3> QED BY <3>2, <3>3, <3>5 DEF TableType
    <2>3. CASE AddGroup(k)
      <3>1. request[k].arg \in GroupIds /\ logic[k].user \in Users
        BY <2>3, CallerKnown DEF AddGroup, At, Args, Ops, Guarded
      <3>2. /\ \/ members' = members
               \/ members' = members \cup {[id |-> nextRow, group |-> request[k].arg,
                                            user |-> logic[k].user, by |-> k]}
            /\ nextRow' = nextRow + 1 /\ accounts' = accounts
        BY <2>3 DEF AddGroup
      <3>3. members' \subseteq [id : Nat, group : GroupIds, user : Users, by : Requests \cup {None}]
        BY <3>1, <3>2 DEF TableType
      <3>4. groups' \in Seq([name : Names, owner : Users, count : Nat]) /\ Len(groups') <= MaxGroups
        BY <2>3, AddGroupGroups DEF TableType
      <3> QED BY <3>2, <3>3, <3>4 DEF TableType
    <2> QED BY <1>1, <1>3, <2>1, <2>2, <2>3
            DEF Serve, LogicFails, LoginDraw, LoginGrant, LoginList, DrawId, Produce
  <1>4. ASSUME NEW s \in Sessions, SessionExpires(s) PROVE TableType'
    BY <1>1, <1>4, ExpiresFacts
  <1> QED BY <1>1, <1>2, <1>3, <1>4, NextCases DEF Receive, vars

LEMMA MessageTypeNext ==
  ASSUME Core, [Next]_vars
  PROVE  MessageType'
  <1> USE TypeParts DEF Core
  <1>1. ASSUME UNCHANGED messages PROVE MessageType'
    BY <1>1 DEF messages, MessageType
  <1>2. ASSUME NEW k \in Requests, HandlerStep(k) PROVE MessageType'
    BY <1>1, <1>2 DEF HandlerStep, Reject, VerifyOk, AfterVerify, VerifyFails, ReadBody,
       CallLogic, Return, Timeout, Disconnect
  <1>3. ASSUME NEW k \in Requests, Serve(k) PROVE MessageType'
    <2>1. ASSUME NEW ms \in Clock, DrawId(k, ms) PROVE MessageType'
      <3> DEFINE id == MessageId(ms, localMsgSeq + 1)
      <3>1. ids' = Append(ids, id) /\ localMsgSeq' = localMsgSeq + 1 /\ log' = log
        BY <2>1 DEF DrawId
      <3>2. ms \in Nat /\ localMsgSeq + 1 \in Nat
        BY GatewayAssumption DEF MessageType
      <3>3. id \in Nat
        BY <3>2, MessageIdNat, Zenon
      <3> HIDE DEF id
      <3> QED BY <3>1, <3>2, <3>3 DEF MessageType
    <2>2. CASE Produce(k)
      <3>1. request[k].op \in Sends /\ logic[k].at = "checked"
        BY <2>2 DEF Produce
      <3>2. logic[k].user \in Users /\ request[k].arg \in Args(request[k].op)
        BY <3>1, CallerKnown DEF Guarded
      <3>3. logic[k].out \in Nat
        BY <3>1 DEF LeftInv, Left
      <3>4. request[k].arg \in Users \cup GroupIds \cup {None}
        <4>1. DOMAIN FirstNames \subseteq Users
          BY GatewayAssumption DEF Users
        <4> QED BY <3>1, <3>2, <4>1 DEF Args, Sends
      <3>5. /\ log' = log \cup {[id |-> logic[k].out, op |-> request[k].op, from |-> logic[k].user,
                                 to |-> request[k].arg, by |-> k]}
            /\ UNCHANGED <<localMsgSeq, ids>>
        BY <2>2 DEF Produce
      <3> QED BY <3>1, <3>2, <3>3, <3>4, <3>5 DEF MessageType
    <2> QED BY <1>1, <1>3, <2>1, <2>2
            DEF Serve, LogicFails, CreateUser, LoginDraw, LoginGrant, LoginList, CreateGroup, AddGroup
  <1>4. ASSUME NEW s \in Sessions, SessionExpires(s) PROVE MessageType'
    BY <1>1, <1>4, ExpiresFacts
  <1> QED BY <1>1, <1>2, <1>3, <1>4, NextCases DEF Receive, vars

LEMMA RequestTypeNext ==
  ASSUME Core, [Next]_vars
  PROVE  RequestType' /\ ArgType'
  <1> USE TypeParts DEF Core
  <1>1. ASSUME UNCHANGED request PROVE RequestType' /\ ArgType'
    BY <1>1 DEF RequestType, ArgType
  <1>2. ASSUME NEW k \in Requests, NEW at \in {"new", "verify", "body", "ready", "wait", "ok", "err"},
               HandlerGoes(k, at)
        PROVE  RequestType' /\ ArgType'
    <2>1. /\ RequestType'
          /\ \A j \in Requests : request'[j].op = request[j].op /\ request'[j].arg = request[j].arg
      BY <1>2, HandlerFrame
    <2> QED BY <2>1 DEF ArgType
  <1>3. ASSUME NEW k \in Requests, HandlerStep(k) PROVE RequestType' /\ ArgType'
    <2>1. CASE VerifyOk(k)
      <3>1. PICK at \in {"body", "ready", "ok"} : HandlerGoes(k, at)
        BY <2>1, VerifyOkFacts
      <3> QED BY <3>1, <1>2
    <2>2. CASE ~VerifyOk(k)
      <3>1. PICK at \in {"ready", "wait", "ok", "err"} : HandlerGoes(k, at)
        BY <1>3, <2>2 DEF HandlerStep, Reject, VerifyFails, ReadBody,
           CallLogic, Return, Timeout, Disconnect
      <3> QED BY <3>1, <1>2
    <2> QED BY <2>1, <2>2
  <1>4. ASSUME NEW k \in Requests, Serve(k) PROVE UNCHANGED request
    BY <1>4 DEF Serve, LogicFails, CreateUser, LoginDraw, LoginGrant, LoginList, CreateGroup,
                AddGroup, DrawId, Produce
  <1>5. ASSUME NEW s \in Sessions, SessionExpires(s) PROVE UNCHANGED request
    BY <1>5, ExpiresFacts
  <1>6. CASE UNCHANGED vars
    BY <1>1, <1>6 DEF vars
  <1> QED BY <1>1, <1>3, <1>4, <1>5, <1>6, NextCases, ReceiveFrame

LEMMA LogicTypeNext ==
  ASSUME Core, [Next]_vars
  PROVE  LogicType'
  <1> USE TypeParts DEF Core
  <1>1. ASSUME UNCHANGED logic PROVE LogicType'
    BY <1>1 DEF LogicType
  <1>2. ASSUME NEW k \in Requests, HandlerStep(k) PROVE LogicType'
    BY <1>1, <1>2, CallLogicType
       DEF HandlerStep, Reject, VerifyOk, AfterVerify, VerifyFails, ReadBody,
          Return, Timeout, Disconnect
  <1>3. ASSUME NEW k \in Requests, Serve(k) PROVE LogicType'
    BY <1>3, ServeLogicType
  <1>4. ASSUME NEW s \in Sessions, SessionExpires(s) PROVE UNCHANGED logic
    BY <1>4, ExpiresFacts
  <1> QED BY <1>1, <1>2, <1>3, <1>4, NextCases DEF Receive, vars

LEMMA TypeNext ==
  ASSUME Core, [Next]_vars
  PROVE  TypeOK'
  <1>1. TypeOK' <=> /\ RequestType' /\ LogicType' /\ SessionType' /\ TableType' /\ MessageType'
                    /\ ArgType'
    BY DEF TypeOK, RequestType, LogicType, SessionType, TableType, MessageType, ArgType
  <1> QED BY <1>1, RequestTypeNext, LogicTypeNext, SessionTypeNext, TableTypeNext, MessageTypeNext

-----------------------------------------------------------------------------
(***************************************************************************)
(* Sessions.                                                               *)
(***************************************************************************)
LEMMA SessionInvNext ==
  ASSUME Core, [Next]_vars
  PROVE  SessionInv'
  <1> USE TypeParts DEF Core
  <1>1. ASSUME StageOnly PROVE SessionInv'
    BY <1>1 DEF StageOnly, sessions, SessionInv
  <1>2. CASE UNCHANGED vars
    BY <1>2 DEF vars, sessions, SessionInv
  <1>3. ASSUME NEW k \in Requests, NEW op \in Ops, NEW s \in Sessions \cup {None}, NEW x \in Args(op),
               Receive(k, op, s, x)
        PROVE  SessionInv'
    <2>1. /\ request[k] = Unused
          /\ request'[k] = [at |-> IF op \in Open THEN "ready" ELSE "verify", op |-> op, sid |-> s,
                            arg |-> x, live |-> \E u \in Users : login[u] = s]
          /\ \A j \in Requests \ {k} : request'[j] = request[j]
      BY <1>3, ReceiveFrame
    <2>2. UNCHANGED <<owner, login, issued, answer>> /\ (op \in Guarded => s \in issued)
      BY <1>3 DEF Receive, sessions
    <2>3. answer[k] = SL!Nothing
      BY <2>1 DEF SessionInv, Unused, Guarded, Sends
    <2>4. request'[k].op = op /\ request'[k].sid = s /\ request'[k].live = (\E u \in Users : login[u] = s)
      BY <2>1
    <2> QED BY <2>1, <2>2, <2>3, <2>4 DEF SessionInv
  <1>4. ASSUME NEW k \in Requests, VerifyOk(k) PROVE SessionInv'
    <2>1. PICK u \in Users : /\ login[u] = request[k].sid
                             /\ answer' = [answer EXCEPT ![k] = [user |-> u, sid |-> request[k].sid]]
      BY <1>4, VerifyOkFacts
    <2>2. /\ request[k].sid \in Sessions /\ request[k].sid \in issued /\ request[k].at = "verify"
          /\ UNCHANGED <<owner, login, issued>>
      BY <1>4, VerifyOkFacts
    <2>3. \A j \in Requests : /\ request'[j].op = request[j].op /\ request'[j].sid = request[j].sid
                              /\ request'[j].live = request[j].live
      BY <1>4, VerifyOkFacts, HandlerFrame
    <2>4. request[k].op \in Guarded
      BY <2>2 DEF Course, On
    <2>5. request[k].live /\ owner[request[k].sid] = u
      BY <2>1, <2>2, <2>4, GatewayAssumption DEF SessionInv
    <2>6. \A j \in Requests : answer'[j] = IF j = k THEN [user |-> u, sid |-> request[k].sid] ELSE answer[j]
      BY <2>1 DEF SessionType
    <2>7. /\ \A v \in Users : login'[v] # None => owner'[login'[v]] = v
          /\ \A s \in issued' : owner'[s] # None
          /\ \A j \in Requests : request'[j].op \in Guarded => request'[j].sid \in issued'
          /\ \A j \in Requests : request'[j].op \in Guarded =>
               \A v \in Users : login'[v] = request'[j].sid => request'[j].live
      BY <2>2, <2>3 DEF SessionInv
    <2>8. \A j \in Requests : answer'[j] # SL!Nothing =>
            /\ request'[j].op \in Guarded /\ request'[j].live
            /\ answer'[j].sid = request'[j].sid /\ owner'[request'[j].sid] = answer'[j].user
      BY <2>2, <2>3, <2>4, <2>5, <2>6 DEF SessionInv
    <2> QED BY <2>7, <2>8 DEF SessionInv, SL!Nothing
  <1>5. ASSUME NEW k \in Requests, NEW s \in Sessions, LoginDraw(k, s) PROVE SessionInv'
    <2>1. PICK u \in DOMAIN accounts : owner' = [owner EXCEPT ![s] = u]
      BY <1>5 DEF LoginDraw, SL!Draw
    <2>2. owner[s] = None /\ UNCHANGED <<login, issued, answer, request>>
      BY <1>5, LoginDrawFacts
    <2>3. \A t \in Sessions : owner[t] # None => owner'[t] = owner[t]
      BY <2>1, <2>2 DEF SessionType
    <2>4. \A v \in Users : login[v] # None => login[v] \in Sessions /\ owner[login[v]] = v
      BY DEF SessionType, SessionInv
    <2>5. \A j \in Requests : answer[j] # SL!Nothing =>
            request[j].sid \in Sessions /\ owner[request[j].sid] \in Users
      BY DEF SessionType, SessionInv
    <2>6. \A t \in issued : t \in Sessions /\ owner[t] # None
      BY DEF SessionType, SessionInv
    <2> QED BY <2>2, <2>3, <2>4, <2>5, <2>6, UsersNotNone DEF SessionInv, SL!Nothing
  <1>6. ASSUME NEW k \in Requests, LoginGrant(k) PROVE SessionInv'
    <2> DEFINE u == logic[k].user
               s == logic[k].sid
    <2>1. /\ logic[k].at = "drawn" /\ s \notin issued
          /\ login' = [login EXCEPT ![u] = s] /\ UNCHANGED <<owner, issued, answer, request>>
      BY <1>6, LoginGrantFacts
    <2>2. s \in Sessions /\ owner[s] = u
      BY <2>1 DEF LeftInv, Left
    <2>3. \A v \in Users : login'[v] = IF v = u THEN s ELSE login[v]
      BY <2>1 DEF SessionType
    <2> HIDE DEF u, s
    <2> QED BY <2>1, <2>2, <2>3 DEF SessionInv, SL!Nothing
  <1>7. ASSUME NEW k \in Requests, LoginList(k) PROVE SessionInv'
    BY <1>7, LoginListFacts DEF SessionInv, SL!Nothing
  <1>8. ASSUME NEW s \in Sessions, SessionExpires(s) PROVE SessionInv'
    <2>1. /\ login' = [u \in Users |-> IF login[u] = s THEN None ELSE login[u]]
          /\ UNCHANGED <<owner, issued, answer, request>>
      BY <1>8, ExpiresFacts
    <2>2. \A u \in Users : login'[u] = login[u] \/ login'[u] = None
      BY <2>1
    <2>3. None \notin issued
      BY GatewayAssumption DEF SessionType
    <2> QED BY <2>1, <2>2, <2>3 DEF SessionInv, SL!Nothing
  <1>9. ASSUME NEW k \in Requests, HandlerStep(k), ~VerifyOk(k) PROVE StageOnly
    BY <1>9, StageOnlySteps DEF HandlerStep
  <1>10. ASSUME NEW k \in Requests, Serve(k), ~LoginGrant(k), ~LoginList(k),
                \A s \in Sessions : ~LoginDraw(k, s)
         PROVE  StageOnly
    BY <1>10, StageOnlySteps DEF Serve
  <1> QED BY <1>1, <1>2, <1>3, <1>4, <1>5, <1>6, <1>7, <1>8, <1>9, <1>10, NextCases

-----------------------------------------------------------------------------
(***************************************************************************)
(* The course of a request.                                                *)
(***************************************************************************)

\* A step of one request leaves the other requests where they are.
LEMMA OthersStand ==
  ASSUME Core, NEW k \in Requests,
         \/ HandlerStep(k) \/ Serve(k)
         \/ \E op \in Ops, s \in Sessions \cup {None} : \E x \in Args(op) : Receive(k, op, s, x)
  PROVE  \A j \in Requests \ {k} :
           request'[j] = request[j] /\ logic'[j] = logic[j] /\ answer'[j] = answer[j]
  <1> USE TypeParts DEF Core
  <1>1. CASE \E op \in Ops, s \in Sessions \cup {None} : \E x \in Args(op) : Receive(k, op, s, x)
    BY <1>1, ReceiveFrame DEF Receive, sessions
  <1>2. CASE VerifyOk(k)
    <2>1. \A j \in Requests \ {k} : request'[j] = request[j]
      BY <1>2, VerifyOkFacts, HandlerFrame
    <2>2. \A j \in Requests \ {k} : answer'[j] = answer[j]
      BY <1>2, VerifyOkFacts DEF SessionType
    <2> QED BY <1>2, <2>1, <2>2, VerifyOkFacts
  <1>3. CASE HandlerStep(k) /\ ~VerifyOk(k)
    <2>1. PICK at \in {"ready", "wait", "ok", "err"} : HandlerGoes(k, at)
      BY <1>3 DEF HandlerStep, Reject, VerifyFails, ReadBody, CallLogic, Return, Timeout, Disconnect
    <2>2. \A j \in Requests \ {k} : request'[j] = request[j]
      BY <2>1, HandlerFrame
    <2>3. \A j \in Requests \ {k} : logic'[j] = logic[j]
      BY <1>3, CallLogicType DEF HandlerStep, Reject, VerifyFails, ReadBody, Return, Timeout, Disconnect
    <2>4. answer' = answer
      BY <1>3 DEF HandlerStep, Reject, VerifyFails, ReadBody,
         CallLogic, Return, Timeout, Disconnect, sessions
    <2> QED BY <2>2, <2>3, <2>4
  <1>4. CASE Serve(k)
    <2>1. request' = request
      BY <1>4, ZenonT(30) DEF Serve, LogicFails, CreateUser, LoginDraw, LoginGrant, LoginList, CreateGroup,
                  AddGroup, DrawId, Produce
    <2>2. answer' = answer
      BY <1>4, LoginDrawFacts, LoginGrantFacts, LoginListFacts
         DEF Serve, LogicFails, CreateUser, CreateGroup, AddGroup, DrawId, Produce, sessions
    <2> QED BY <1>4, <2>1, <2>2, ServeLogicType, SMTT(20)
  <1> QED BY <1>1, <1>2, <1>3, <1>4

LEMMA OnServe ==
  ASSUME Core, NEW k \in Requests, Serve(k)
  PROVE  On(k)'
  <1> USE TypeParts DEF Core
  <1>1. request' = request /\ logic[k].at \notin {"none", "done"}
    BY DEF Serve, LogicFails, CreateUser, LoginDraw, LoginGrant, LoginList, CreateGroup,
           AddGroup, DrawId, Produce, At
  <1>2. answer' = answer
    BY LoginDrawFacts, LoginGrantFacts, LoginListFacts
       DEF Serve, LogicFails, CreateUser, CreateGroup, AddGroup, DrawId, Produce, sessions
  <1>3. ASSUME logic'[k].user = logic[k].user, logic'[k].at \in {"done", "failed"} PROVE On(k)'
    BY <1>1, <1>2, <1>3 DEF Course, On, SL!Nothing
  <1>4. CASE LogicFails(k)
    BY <1>3, <1>4, LogicFrame DEF LogicFails, Stages
  <1>5. CASE CreateUser(k)
    <2>1. Len(accounts) + 1 \in Nat /\ Done(k, Len(accounts) + 1)
      BY <1>5 DEF CreateUser, TableType
    <2> QED BY <1>3, <2>1, DoneFrame
  <1>6. ASSUME NEW s \in Sessions, LoginDraw(k, s) PROVE On(k)'
    <2>1. request[k].op = "login" /\ logic'[k].at = "drawn"
      BY <1>6 DEF LoginDraw, At, LogicType
    <2> QED BY <1>1, <1>2, <2>1 DEF Course, On, SL!Nothing, Guarded, Sends, Ops, Open
  <1>7. CASE LoginGrant(k)
    <2>1. request[k].op = "login" /\ logic'[k].at \in {"drawn", "granted"}
      BY <1>7, LogicFrame DEF LoginGrant, At, Stages
    <2> QED BY <1>1, <1>2, <2>1 DEF Course, On, SL!Nothing, Guarded, Sends, Ops, Open
  <1>8. CASE LoginList(k)
    <2>1. logic'[k].user = logic[k].user /\ logic'[k].at = "done"
      BY <1>8 DEF LoginList, LogicType
    <2> QED BY <1>3, <2>1
  <1>9. CASE CreateGroup(k)
    <2>1. Len(groups) + 1 \in Nat /\ Done(k, Len(groups) + 1)
      BY <1>9 DEF CreateGroup, TableType
    <2> QED BY <1>3, <2>1, DoneFrame
  <1>10. CASE AddGroup(k)
    <2>1. request[k].arg \in Nat /\ Done(k, request[k].arg)
      BY <1>10 DEF AddGroup, TableType
    <2> QED BY <1>3, <2>1, DoneFrame
  <1>11. ASSUME NEW ms \in Clock, DrawId(k, ms) PROVE On(k)'
    <2>1. logic'[k].at = "checked" /\ logic'[k].user = logic[k].user /\ request[k].op \in Sends
      BY <1>11 DEF DrawId, LogicType
    <2> QED BY <1>1, <1>2, <2>1 DEF Course, On, SL!Nothing
  <1>12. CASE Produce(k)
    BY <1>3, <1>12, LogicFrame DEF Produce, Stages
  <1> QED BY <1>4, <1>5, <1>6, <1>7, <1>8, <1>9, <1>10, <1>11, <1>12 DEF Serve

LEMMA OnHandler ==
  ASSUME Core, NEW k \in Requests, HandlerStep(k)
  PROVE  On(k)'
  <1> USE TypeParts DEF Core
  <1>1. CASE VerifyOk(k)
    <2>1. PICK at \in {"body", "ready", "ok"} : HandlerGoes(k, at) /\ (at = "ok" <=> request[k].op = "verify")
      BY <1>1, VerifyOkFacts
    <2>2. request'[k].at = at /\ request'[k].op = request[k].op
      BY <2>1, HandlerFrame
    <2>3. \E u \in Users : answer'[k] = [user |-> u, sid |-> request[k].sid]
      BY <1>1, VerifyOkFacts DEF SessionType
    <2>4. answer'[k] # SL!Nothing
      BY <2>3, UsersNotNone DEF SL!Nothing
    <2>5. request[k].op \in Guarded /\ logic'[k] = logic[k]
      BY <1>1, VerifyOkFacts DEF Course, On
    <2>6. logic[k].at = "none"
      <3>1. logic[k].at # "none" => answer[k] # SL!Nothing
        BY <2>5 DEF Course, On
      <3>2. answer[k] = SL!Nothing
        BY <1>1 DEF VerifyOk, SL!Accept
      <3> QED BY <3>1, <3>2
    <2> QED BY <2>1, <2>2, <2>4, <2>5, <2>6 DEF On, SL!Nothing, Ops
  <1>2. CASE CallLogic(k)
    <2>1. HandlerGoes(k, "wait") /\ request[k].at = "ready" /\ answer' = answer
      BY <1>2 DEF CallLogic, sessions
    <2>2. request'[k].at = "wait" /\ request'[k].op = request[k].op
      BY <2>1, HandlerFrame
    <2>3. logic'[k].at = "sent" /\ logic'[k].user = answer[k].user
      BY <1>2, CallLogicType DEF NoCall, Caller
    <2> QED BY <2>1, <2>2, <2>3 DEF On, Course, SL!Nothing
  <1>3. CASE Reject(k) \/ VerifyFails(k) \/ Timeout(k) \/ Disconnect(k)
    <2>1. HandlerGoes(k, "err") /\ answer' = answer /\ logic' = logic
      BY <1>3 DEF Reject, VerifyFails, Timeout, Disconnect, sessions
    <2>2. request'[k].at = "err" /\ request'[k].op = request[k].op
      BY <2>1, HandlerFrame
    <2> QED BY <2>1, <2>2 DEF On, Course, SL!Nothing
  <1>4. CASE Return(k)
    <2>1. PICK at \in {"ok", "err"} : HandlerGoes(k, at) /\ (at = "ok" => logic[k].at = "done")
      BY <1>4 DEF Return
    <2>2. answer' = answer /\ logic' = logic
      BY <1>4 DEF Return, sessions
    <2>3. request'[k].at = at /\ request'[k].op = request[k].op
      BY <2>1, HandlerFrame
    <2> QED BY <2>1, <2>2, <2>3 DEF On, Course, SL!Nothing
  <1>5. CASE ReadBody(k)
    <2>1. PICK at \in {"ready", "err"} : HandlerGoes(k, at)
      BY <1>5 DEF ReadBody
    <2>2. request[k].at = "body" /\ answer' = answer /\ logic' = logic
      BY <1>5 DEF ReadBody, sessions
    <2>3. request'[k].at = at /\ request'[k].op = request[k].op
      BY <2>1, HandlerFrame
    <2> QED BY <2>2, <2>3 DEF On, Course, SL!Nothing
  <1> QED BY <1>1, <1>2, <1>3, <1>4, <1>5 DEF HandlerStep

LEMMA CourseNext ==
  ASSUME Core, [Next]_vars
  PROVE  Course'
  <1> USE TypeParts DEF Core
  <1>1. Course' <=> \A k \in Requests : On(k)'
    BY DEF Course
  <1>2. ASSUME NEW j \in Requests, request'[j] = request[j], logic'[j] = logic[j], answer'[j] = answer[j]
        PROVE  On(j)'
    BY <1>2 DEF Course, On, SL!Nothing
  <1>3. ASSUME NEW k \in Requests, HandlerStep(k) \/ Serve(k) PROVE \A j \in Requests : On(j)'
    BY <1>2, <1>3, OthersStand, OnServe, OnHandler
  <1>4. ASSUME NEW k \in Requests, NEW op \in Ops, NEW s \in Sessions \cup {None}, NEW x \in Args(op),
               Receive(k, op, s, x)
        PROVE  \A j \in Requests : On(j)'
    <2>0. /\ request[k] = Unused
          /\ request'[k] = [at |-> IF op \in Open THEN "ready" ELSE "verify", op |-> op, sid |-> s,
                            arg |-> x, live |-> \E u \in Users : login[u] = s]
      BY <1>4, ReceiveFrame
    <2>1. /\ request[k] = Unused
          /\ request'[k].op = op /\ request'[k].at = IF op \in Open THEN "ready" ELSE "verify"
      BY <2>0
    <2>2. logic' = logic
      BY <1>4 DEF Receive
    <2>3. logic[k].at = "none"
      BY <2>1 DEF Course, On, Unused, Ops, Open, Guarded, Sends
    <2>4. On(k)'
      BY <2>1, <2>2, <2>3 DEF On, Ops, Open, Guarded, Sends
    <2> QED BY <1>2, <1>4, <2>4, OthersStand
  <1>5. CASE \E s \in Sessions : SessionExpires(s)
    BY <1>1, <1>2, <1>5, ExpiresFacts
  <1>6. CASE UNCHANGED vars
    BY <1>1, <1>2, <1>6 DEF vars, sessions
  <1> QED BY <1>1, <1>3, <1>4, <1>5, <1>6, NextCases

-----------------------------------------------------------------------------
(***************************************************************************)
(* What a Logic call leaves behind stays.                                  *)
(***************************************************************************)
LEMMA LeftStays ==
  ASSUME Core, Grows, NEW k \in Requests, Left(k),
         logic'[k].at = logic[k].at, logic'[k].user = logic[k].user,
         logic'[k].sid = logic[k].sid, logic'[k].out = logic[k].out,
         request'[k].op = request[k].op, request'[k].arg = request[k].arg
  PROVE  Left(k)'
  <1> USE TypeParts DEF Core
  <1>1. logic[k].at \in {"drawn", "granted"} =>
          /\ logic[k].user \in DOMAIN accounts' /\ accounts'[logic[k].user] = request[k].arg
          /\ owner'[logic[k].sid] = logic[k].user
    <2> SUFFICES ASSUME logic[k].at \in {"drawn", "granted"}
                 PROVE  /\ logic[k].user \in DOMAIN accounts' /\ accounts'[logic[k].user] = request[k].arg
                        /\ owner'[logic[k].sid] = logic[k].user
      OBVIOUS
    <2>1. logic[k].user # None
      BY UsersNotNone, GatewayAssumption DEF Left, TableType
    <2> QED BY <2>1 DEF Left, Grows
  <1>2. logic[k].at = "done" /\ request[k].op = "login" =>
          /\ logic[k].out \in DOMAIN accounts' /\ accounts'[logic[k].out] = request[k].arg
          /\ owner'[logic[k].sid] = logic[k].out /\ logic[k].sid \in issued'
    <2> SUFFICES ASSUME logic[k].at = "done", request[k].op = "login"
                 PROVE  /\ logic[k].out \in DOMAIN accounts' /\ accounts'[logic[k].out] = request[k].arg
                        /\ owner'[logic[k].sid] = logic[k].out /\ logic[k].sid \in issued'
      OBVIOUS
    <2>1. logic[k].out # None /\ logic[k].sid \in Sessions
      BY GatewayAssumption DEF Left, TableType, SessionType
    <2> QED BY <2>1 DEF Left, Grows
  <1>3. logic[k].at = "done" /\ request[k].op = "register" =>
          logic[k].out \in DOMAIN accounts' /\ accounts'[logic[k].out] = request[k].arg
    BY DEF Left, Grows
  <1>4. logic[k].at = "done" /\ request[k].op = "create" =>
          /\ logic[k].out \in DOMAIN groups' /\ groups'[logic[k].out].name = request[k].arg
          /\ \E r \in members' : r.user = logic[k].user /\ r.group = logic[k].out
    BY DEF Left, Grows
  <1>5. logic[k].at = "done" /\ request[k].op = "add" =>
          \E r \in members' : r.user = logic[k].user /\ r.group = request[k].arg
    BY DEF Left, Grows
  <1>6. logic[k].at = "done" /\ request[k].op \in Sends =>
          \E m \in log' : /\ m.by = k /\ m.id = logic[k].out
                          /\ m.from = logic[k].user /\ m.to = request[k].arg
    BY DEF Left, Grows
  <1>7. logic[k].at = "checked" => request[k].op \in Sends /\ logic[k].out \in Nat
    BY DEF Left
  <1>8. logic[k].at \in {"drawn", "granted"} => request[k].op = "login" /\ logic[k].sid \in Sessions
    BY DEF Left
  <1> HIDE DEF Core
  <1> HIDE TypeParts
  <1> QED BY <1>1, <1>2, <1>3, <1>4, <1>5, <1>6, <1>7, <1>8 DEF Left

LEMMA LeftServe ==
  ASSUME Core, Grows, NEW k \in Requests, Serve(k)
  PROVE  Left(k)'
  <1> USE TypeParts DEF Core
  <1>0. request' = request
    BY DEF Serve, LogicFails, CreateUser, LoginDraw, LoginGrant, LoginList, CreateGroup,
           AddGroup, DrawId, Produce
  <1>1. CASE LogicFails(k)
    <2>1. logic'[k].at = "failed"
      BY <1>1, LogicFrame DEF LogicFails, Stages
    <2> QED BY <2>1 DEF Left
  <1>2. CASE CreateUser(k)
    <2>1. Len(accounts) + 1 \in Nat /\ Done(k, Len(accounts) + 1)
      BY <1>2 DEF CreateUser, TableType
    <2>2. logic'[k].at = "done" /\ logic'[k].out = Len(accounts) + 1
      BY <2>1, DoneFrame
    <2>3. /\ Len(accounts) + 1 \in DOMAIN accounts'
          /\ accounts'[Len(accounts) + 1] = request[k].arg
      BY <1>2 DEF CreateUser, TableType
    <2>4. request[k].op = "register"
      BY <1>2 DEF CreateUser, At
    <2> QED BY <1>0, <2>2, <2>3, <2>4 DEF Left, Sends
  <1>3. ASSUME NEW s \in Sessions, LoginDraw(k, s) PROVE Left(k)'
    <2>1. PICK u \in DOMAIN accounts :
            /\ accounts[u] = request[k].arg
            /\ owner' = [owner EXCEPT ![s] = u]
            /\ logic' = [logic EXCEPT ![k].at = "drawn", ![k].user = u, ![k].sid = s]
      BY <1>3 DEF LoginDraw, SL!Draw
    <2>2. logic'[k].at = "drawn" /\ logic'[k].user = u /\ logic'[k].sid = s
      BY <2>1 DEF LogicType
    <2>3. owner'[s] = u
      BY <2>1 DEF SessionType
    <2>4. request[k].op = "login" /\ accounts' = accounts
      BY <1>3 DEF LoginDraw, At, tables
    <2> QED BY <1>0, <2>1, <2>2, <2>3, <2>4 DEF Left
  <1>4. CASE LoginGrant(k)
    <2>1. /\ logic[k].at = "drawn" /\ request[k].op = "login"
          /\ \E at \in {"drawn", "granted"} : LogicGoes(k, at)
          /\ owner' = owner /\ accounts' = accounts
      BY <1>4, LoginGrantFacts DEF tables
    <2>2. logic'[k].at \in {"drawn", "granted"} /\ logic'[k].user = logic[k].user /\ logic'[k].sid = logic[k].sid
      BY <2>1, LogicFrame DEF Stages
    <2> QED BY <1>0, <2>1, <2>2 DEF Left, LeftInv
  <1>5. CASE LoginList(k)
    <2>1. /\ logic[k].at = "granted" /\ request[k].op = "login"
          /\ owner' = owner /\ accounts' = accounts /\ issued' = issued \cup {logic[k].sid}
      BY <1>5, LoginListFacts DEF tables
    <2>2. logic'[k].at = "done" /\ logic'[k].out = logic[k].user /\ logic'[k].sid = logic[k].sid
      BY <1>5 DEF LoginList, LogicType
    <2> QED BY <1>0, <2>1, <2>2 DEF Left, LeftInv, Sends
  <1>6. CASE CreateGroup(k)
    <2> DEFINE g == Len(groups) + 1
    <2>1. g \in Nat /\ Done(k, g) /\ request[k].op = "create"
      BY <1>6 DEF CreateGroup, TableType, At
    <2>2. logic'[k].at = "done" /\ logic'[k].out = g /\ logic'[k].user = logic[k].user
      BY <2>1, DoneFrame
    <2>3. groups' = Append(groups, [name |-> request[k].arg, owner |-> logic[k].user, count |-> 1])
      BY <1>6 DEF CreateGroup
    <2>4. g \in DOMAIN groups' /\ groups'[g].name = request[k].arg
      BY <2>3 DEF TableType
    <2>5. [id |-> nextRow, group |-> g, user |-> logic[k].user, by |-> k] \in members'
      BY <1>6 DEF CreateGroup
    <2>6. \E r \in members' : r.user = logic[k].user /\ r.group = g
      BY <2>5
    <2> HIDE DEF g
    <2> QED BY <1>0, <2>1, <2>2, <2>4, <2>6 DEF Left, Sends
  <1>7. CASE AddGroup(k)
    <2>1. request[k].arg \in Nat /\ Done(k, request[k].arg) /\ request[k].op = "add"
      BY <1>7 DEF AddGroup, TableType, At
    <2>2. logic'[k].at = "done" /\ logic'[k].user = logic[k].user
      BY <2>1, DoneFrame
    <2>3. \E r \in members' : r.user = logic[k].user /\ r.group = request[k].arg
      <3>1. CASE IsMember(logic[k].user, request[k].arg)
        BY <1>7, <3>1 DEF IsMember, Grows
      <3>2. CASE ~IsMember(logic[k].user, request[k].arg)
        <4>1. [id |-> nextRow, group |-> request[k].arg, user |-> logic[k].user, by |-> k] \in members'
          BY <1>7, <3>2 DEF AddGroup
        <4> QED BY <4>1
      <3> QED BY <3>1, <3>2
    <2> QED BY <1>0, <2>1, <2>2, <2>3 DEF Left, Sends
  <1>8. ASSUME NEW ms \in Clock, DrawId(k, ms) PROVE Left(k)'
    <2> DEFINE id == MessageId(ms, localMsgSeq + 1)
    <2>1. logic'[k].at = "checked" /\ logic'[k].out = id /\ request[k].op \in Sends
      BY <1>8 DEF DrawId, LogicType
    <2>2. ms \in Nat /\ localMsgSeq + 1 \in Nat
      BY GatewayAssumption DEF MessageType
    <2>3. id \in Nat
      BY <2>2, MessageIdNat, Zenon
    <2> HIDE DEF id
    <2> QED BY <1>0, <2>1, <2>3 DEF Left
  <1>9. CASE Produce(k)
    <2>1. request[k].op \in Sends /\ \E at \in {"done", "failed"} : LogicGoes(k, at)
      BY <1>9 DEF Produce
    <2>2. /\ logic'[k].at \in {"done", "failed"}
          /\ logic'[k].user = logic[k].user /\ logic'[k].out = logic[k].out
      BY <2>1, LogicFrame DEF Stages
    <2>3. [id |-> logic[k].out, op |-> request[k].op, from |-> logic[k].user,
           to |-> request[k].arg, by |-> k] \in log'
      BY <1>9 DEF Produce
    <2>4. \E m \in log' : /\ m.by = k /\ m.id = logic[k].out
                          /\ m.from = logic[k].user /\ m.to = request[k].arg
      BY <2>3
    <2> QED BY <1>0, <2>1, <2>2, <2>4 DEF Left, Sends
  <1> QED BY <1>1, <1>2, <1>3, <1>4, <1>5, <1>6, <1>7, <1>8, <1>9 DEF Serve

LEMMA LeftNext ==
  ASSUME Core, [Next]_vars
  PROVE  LeftInv'
  <1> USE TypeParts DEF Core
  <1>1. Grows
    BY GrowsLemma
  <1>2. LeftInv' <=> \A j \in Requests : Left(j)'
    BY DEF LeftInv
  <1>3. ASSUME NEW j \in Requests, logic'[j] = logic[j],
               request'[j].op = request[j].op, request'[j].arg = request[j].arg
        PROVE  Left(j)'
    BY <1>1, <1>3, LeftStays DEF LeftInv
  <1>4. ASSUME NEW k \in Requests, Serve(k) PROVE \A j \in Requests : Left(j)'
    BY <1>1, <1>3, <1>4, LeftServe, OthersStand
  <1>5. ASSUME NEW k \in Requests, HandlerStep(k) PROVE \A j \in Requests : Left(j)'
    <2>1. \A j \in Requests \ {k} : Left(j)'
      BY <1>3, <1>5, OthersStand
    <2>2. CASE CallLogic(k)
      <3>1. logic'[k].at = "sent"
        BY <2>2, CallLogicType DEF NoCall
      <3>2. Left(k)'
        BY <3>1 DEF Left
      <3> QED BY <2>1, <3>2
    <2>3. CASE ~CallLogic(k)
      <3>1. logic' = logic
        BY <1>5, <2>3 DEF HandlerStep, Reject, VerifyOk, AfterVerify, VerifyFails, ReadBody,
           Return, Timeout, Disconnect
      <3>2. \E at \in {"body", "ready", "ok", "wait", "err"} : HandlerGoes(k, at)
        BY <1>5 DEF HandlerStep, Reject, VerifyOk, AfterVerify, VerifyFails, ReadBody,
           CallLogic, Return, Timeout, Disconnect
      <3>3. request'[k].op = request[k].op /\ request'[k].arg = request[k].arg
        BY <3>2, HandlerFrame
      <3> QED BY <1>3, <2>1, <3>1, <3>3
    <2> QED BY <2>2, <2>3
  <1>6. ASSUME NEW k \in Requests, NEW op \in Ops, NEW s \in Sessions \cup {None}, NEW x \in Args(op),
               Receive(k, op, s, x)
        PROVE  \A j \in Requests : Left(j)'
    <2>1. logic' = logic /\ request[k] = Unused
      BY <1>6 DEF Receive, InTurn
    <2>2. logic[k].at = "none"
      BY <2>1 DEF Course, On, Unused, Ops, Open, Guarded, Sends
    <2>3. Left(k)'
      BY <2>1, <2>2 DEF Left
    <2> QED BY <1>3, <1>6, <2>3, OthersStand
  <1>7. CASE \E s \in Sessions : SessionExpires(s)
    BY <1>2, <1>3, <1>7, ExpiresFacts
  <1>8. CASE UNCHANGED vars
    BY <1>2, <1>3, <1>8 DEF vars
  <1> QED BY <1>2, <1>4, <1>5, <1>6, <1>7, <1>8, NextCases

LEMMA WrittenNext ==
  ASSUME Core, [Next]_vars
  PROVE  Written'
  <1> USE TypeParts DEF Core
  <1>1. Grows
    BY GrowsLemma
  <1>2. \A m \in log : m.by \in Requests /\ m.from \in Users
    BY DEF MessageType
  <1>3. \A r \in members : r.by # None => r.by \in Requests /\ r.user \in Users
    BY DEF TableType
  \* What was written keeps its session and its user.
  <1>4. ASSUME NEW j \in Requests, NEW u \in Users, request[j].op \in Guarded, request[j].live,
               u = owner[request[j].sid], request'[j].op = request[j].op,
               request'[j].live = request[j].live, request'[j].sid = request[j].sid
        PROVE  request'[j].op \in Guarded /\ request'[j].live /\ u = owner'[request'[j].sid]
    <2>1. request[j].sid \in Sessions
      BY <1>4 DEF SessionInv, SessionType
    <2> QED BY <1>1, <1>4, <2>1, UsersNotNone DEF Grows
  <1>5. ASSUME \A j \in Requests : request[j].op \in Guarded =>
                 /\ request'[j].op = request[j].op /\ request'[j].live = request[j].live
                 /\ request'[j].sid = request[j].sid
        PROVE  /\ \A m \in log : /\ request'[m.by].op \in Guarded /\ request'[m.by].live
                                 /\ m.from = owner'[request'[m.by].sid]
               /\ \A r \in members : r.by # None =>
                    /\ request'[r.by].op \in Guarded /\ request'[r.by].live
                    /\ r.user = owner'[request'[r.by].sid]
    BY <1>2, <1>3, <1>4, <1>5 DEF Written
  <1>6. ASSUME NEW k \in Requests, HandlerStep(k) PROVE Written'
    <2>1. \E at \in {"body", "ready", "ok", "wait", "err"} : HandlerGoes(k, at)
      BY <1>6 DEF HandlerStep, Reject, VerifyOk, AfterVerify, VerifyFails, ReadBody,
         CallLogic, Return, Timeout, Disconnect
    <2>2. \A j \in Requests : /\ request'[j].op = request[j].op /\ request'[j].live = request[j].live
                              /\ request'[j].sid = request[j].sid
      BY <2>1, HandlerFrame
    <2>3. log' = log /\ members' = members
      BY <1>6 DEF HandlerStep, Reject, VerifyOk, AfterVerify, VerifyFails, ReadBody,
         CallLogic, Return, Timeout, Disconnect,
                  tables, messages
    <2> QED BY <1>5, <2>2, <2>3 DEF Written
  <1>7. ASSUME NEW k \in Requests, Serve(k) PROVE Written'
    <2>1. request' = request
      BY <1>7 DEF Serve, LogicFails, CreateUser, LoginDraw, LoginGrant, LoginList, CreateGroup,
                  AddGroup, DrawId, Produce
    <2>2. CASE log' = log /\ members' = members
      BY <1>5, <2>1, <2>2 DEF Written
    <2>3. ASSUME owner' = owner, logic[k].at # "none", request[k].op \in Guarded
          PROVE  /\ request'[k].op \in Guarded /\ request'[k].live
                 /\ logic[k].user = owner'[request'[k].sid]
      BY <2>1, <2>3, CallerKnown
    <2>4. CASE CreateGroup(k)
      <3>1. /\ members' = members \cup {[id |-> nextRow, group |-> Len(groups) + 1,
                                         user |-> logic[k].user, by |-> k]}
            /\ log' = log /\ owner' = owner /\ logic[k].at # "none" /\ request[k].op \in Guarded
        BY <2>4 DEF CreateGroup, At, sessions, messages, Guarded
      <3> QED BY <1>5, <2>1, <2>3, <3>1 DEF Written
    <2>5. CASE AddGroup(k)
      <3>1. /\ \/ members' = members
               \/ members' = members \cup {[id |-> nextRow, group |-> request[k].arg,
                                            user |-> logic[k].user, by |-> k]}
            /\ log' = log /\ owner' = owner /\ logic[k].at # "none" /\ request[k].op \in Guarded
        BY <2>5 DEF AddGroup, At, sessions, messages, Guarded
      <3> QED BY <1>5, <2>1, <2>3, <3>1 DEF Written
    <2>6. CASE Produce(k)
      <3>1. /\ log' = log \cup {[id |-> logic[k].out, op |-> request[k].op, from |-> logic[k].user,
                                 to |-> request[k].arg, by |-> k]}
            /\ members' = members /\ owner' = owner /\ logic[k].at # "none" /\ request[k].op \in Guarded
        BY <2>6 DEF Produce, At, sessions, tables, Guarded
      <3> QED BY <1>5, <2>1, <2>3, <3>1 DEF Written
    <2> QED BY <1>7, <2>2, <2>4, <2>5, <2>6
            DEF Serve, LogicFails, CreateUser, LoginDraw, LoginGrant, LoginList, DrawId, tables, messages
  <1>8. ASSUME NEW k \in Requests, NEW op \in Ops, NEW s \in Sessions \cup {None}, NEW x \in Args(op),
               Receive(k, op, s, x)
        PROVE  Written'
    <2>1. request[k] = Unused /\ \A j \in Requests \ {k} : request'[j] = request[j]
      BY <1>8, ReceiveFrame
    <2>2. request[k].op \notin Guarded
      BY <2>1 DEF Unused, Guarded, Sends
    <2>3. log' = log /\ members' = members
      BY <1>8 DEF Receive, tables, messages
    <2> QED BY <1>5, <2>1, <2>2, <2>3 DEF Written
  <1>9. CASE \E s \in Sessions : SessionExpires(s)
    <2>1. request' = request /\ log' = log /\ members' = members
      BY <1>9, ExpiresFacts DEF tables, messages
    <2> QED BY <1>5, <2>1 DEF Written
  <1>10. CASE UNCHANGED vars
    <2>1. request' = request /\ log' = log /\ members' = members
      BY <1>10 DEF vars, tables, messages
    <2> QED BY <1>5, <2>1 DEF Written
  <1> QED BY <1>6, <1>7, <1>8, <1>9, <1>10, NextCases

-----------------------------------------------------------------------------
LEMMA InitCore ==
  ASSUME Init
  PROVE  Core
  <1> USE GatewayAssumption
  <1> DEFINE D == DOMAIN FirstNames
  <1>1. D \subseteq Users /\ 1 \in D /\ D = 1 .. Len(FirstNames)
    BY DEF Users
  <1>2. FirstSessions \in [D -> Sessions] /\ \A i, j \in D : FirstSessions[i] = FirstSessions[j] => i = j
    BY Zenon
  <1> HIDE DEF D
  <1>3. ASSUME NEW u \in D PROVE owner[FirstSessions[u]] = u
    <2>1. FirstSessions[u] \in Sessions
      BY <1>2, <1>3
    <2> DEFINE P(v) == FirstSessions[v] = FirstSessions[u]
    <2>2. owner[FirstSessions[u]] = CHOOSE v \in D : P(v)
      BY <1>3, <2>1 DEF Init, D
    <2>3. \E v \in D : P(v)
      BY <1>3
    <2>4. P(CHOOSE v \in D : P(v)) /\ (CHOOSE v \in D : P(v)) \in D
      BY <2>3
    <2> QED BY <1>2, <1>3, <2>2, <2>4
  <1>4. ASSUME NEW s \in Sessions PROVE owner[s] = None \/ owner[s] \in D
    <2> DEFINE P(v) == FirstSessions[v] = s
    <2>1. owner[s] = IF \E u \in D : P(u) THEN CHOOSE u \in D : P(u) ELSE None
      BY <1>4 DEF Init, D
    <2>2. (\E u \in D : P(u)) => (CHOOSE u \in D : P(u)) \in D
      OBVIOUS
    <2> QED BY <2>1, <2>2
  <1>5. owner \in [Sessions -> Users \cup {None}]
    BY <1>1, <1>4 DEF Init
  <1>6. /\ login = [u \in Users |-> IF u \in D THEN FirstSessions[u] ELSE None]
        /\ issued = {FirstSessions[u] : u \in D}
    BY DEF Init, D
  <1>7. SessionType
    BY <1>2, <1>5, <1>6 DEF Init, SessionType
  <1>8. RequestType /\ ArgType
    BY DEF Init, RequestType, ArgType, Unused, Ops, Open, Guarded, Sends
  <1>9. LogicType
    BY DEF Init, LogicType, NoCall
  <1>10. TableType
    <2>1. accounts \in Seq(Names) /\ Len(accounts) <= MaxUsers
      BY DEF Init
    <2>2. [name |-> FirstGroup, owner |-> 1, count |-> 1] \in [name : Names, owner : Users, count : Nat]
      BY <1>1
    <2>3. groups \in Seq([name : Names, owner : Users, count : Nat]) /\ Len(groups) <= MaxGroups
      BY <2>2 DEF Init
    <2>4. 1 \in GroupIds
      BY DEF GroupIds
    <2> QED BY <1>1, <2>1, <2>3, <2>4 DEF Init, TableType
  <1>11. MessageType
    BY DEF Init, MessageType
  <1>12. SessionInv
    <2>1. \A u \in Users : login[u] # None => owner[login[u]] = u
      BY <1>3, <1>6
    <2>2. \A s \in issued : owner[s] # None
      BY <1>1, <1>3, <1>6, UsersNotNone
    <2>3. \A k \in Requests : request[k].op \notin Guarded /\ answer[k] = SL!Nothing
      BY DEF Init, Unused, Guarded, Sends
    <2> QED BY <2>1, <2>2, <2>3 DEF SessionInv
  <1>13. Course /\ LeftInv
    BY DEF Init, Course, On, LeftInv, Left, Unused, NoCall
  <1>14. Written
    BY DEF Init, Written
  <1> QED BY <1>7, <1>8, <1>9, <1>10, <1>11, <1>12, <1>13, <1>14, TypeParts DEF Core

-----------------------------------------------------------------------------
(***************************************************************************)
(* The group tables.                                                       *)
(***************************************************************************)
Rows(g) == {r \in members : r.group = g}
People(g) == {u \in Users : IsMember(u, g)}

Counted(g) ==
  /\ groups[g].count = Cardinality(Rows(g))
  /\ groups[g].count = Cardinality(People(g))
  /\ \E r \in members : r.user = groups[g].owner /\ r.group = g

LEMMA CountMatchesParts == CountMatches <=> \A g \in DOMAIN groups : Counted(g)
  BY DEF CountMatches, Counted, Rows, People, IsMember

\* Rows belong to groups there are, and the counts are right.
TableInv ==
  /\ IsFiniteSet(members)
  /\ \A r \in members : r.group \in DOMAIN groups
  /\ CountMatches

LEMMA InitTable ==
  ASSUME Init
  PROVE  TableInv
  <1> DEFINE r1 == [id |-> 1, group |-> 1, user |-> 1, by |-> None]
             g1 == [name |-> FirstGroup, owner |-> 1, count |-> 1]
  <1>1. groups = <<g1>> /\ members = {r1}
    BY DEF Init
  <1>2. DOMAIN groups = {1} /\ groups[1].count = 1 /\ groups[1].owner = 1
    BY <1>1
  <1>3. 1 \in Users
    BY GatewayAssumption DEF Users
  <1>4. r1.group = 1 /\ r1.user = 1
    OBVIOUS
  <1> HIDE DEF r1, g1
  <1>5. {r \in members : r.group = 1} = {r1} /\ {u \in Users : IsMember(u, 1)} = {1} /\ IsMember(1, 1)
    BY <1>1, <1>3, <1>4 DEF IsMember
  <1>6. Cardinality({r1}) = 1 /\ Cardinality({1}) = 1 /\ IsFiniteSet({r1})
    BY FS_Singleton
  <1>7. CountMatches
    BY <1>2, <1>5, <1>6 DEF CountMatches
  <1> QED BY <1>1, <1>2, <1>4, <1>6, <1>7 DEF TableInv

LEMMA UsersFinite == IsFiniteSet(Users)
  BY FS_Interval, GatewayAssumption DEF Users

\* One row more, of a user who had none in that group.
LEMMA OneMore ==
  ASSUME TypeOK, IsFiniteSet(members), NEW g \in GroupIds, NEW u \in Users, NEW x,
         x.group = g, x.user = u, ~IsMember(u, g), members' = members \cup {x}
  PROVE  /\ IsFiniteSet(members)'
         /\ Cardinality(Rows(g)') = Cardinality(Rows(g)) + 1
         /\ Cardinality(People(g)') = Cardinality(People(g)) + 1
         /\ \A h \in GroupIds \ {g} : Rows(h)' = Rows(h) /\ People(h)' = People(h)
  <1>1. IsFiniteSet(members)'
    BY FS_AddElement
  <1>2. Rows(g)' = Rows(g) \cup {x} /\ x \notin Rows(g)
    BY DEF Rows, IsMember
  <1>3. IsFiniteSet(Rows(g)) /\ IsFiniteSet(People(g))
    BY FS_Subset, UsersFinite DEF Rows, People
  <1>4. Cardinality(Rows(g)') = Cardinality(Rows(g)) + 1
    BY <1>2, <1>3, FS_AddElement
  <1>5. People(g)' = People(g) \cup {u} /\ u \notin People(g)
    BY DEF People, IsMember
  <1>6. Cardinality(People(g)') = Cardinality(People(g)) + 1
    BY <1>3, <1>5, FS_AddElement
  <1>7. \A h \in GroupIds \ {g} : Rows(h)' = Rows(h) /\ People(h)' = People(h)
    BY DEF Rows, People, IsMember
  <1> QED BY <1>1, <1>4, <1>6, <1>7

\* A membership that is new changes the group's count.
LEMMA AddGroupNew ==
  ASSUME TypeOK, NEW k \in Requests, AddGroup(k), ~IsMember(logic[k].user, request[k].arg)
  PROVE  groups' # groups /\ DOMAIN groups' = DOMAIN groups
  <1> DEFINE R == [name : Names, owner : Users, count : Nat]
             g == request[k].arg
             f == [groups[g] EXCEPT !.count = @ + 1]
  <1>1. groups \in Seq(R) /\ g \in DOMAIN groups /\ groups' = [groups EXCEPT ![g] = f]
    BY TypeParts DEF AddGroup, TableType
  <1>2. groups[g] \in R
    <2> HIDE DEF g, R, f
    <2> QED BY <1>1
  <1>3. f.count = groups[g].count + 1 /\ groups[g].count \in Nat
    BY <1>2
  <1> HIDE DEF g, R, f
  <1>4. groups'[g] = f /\ DOMAIN groups' = DOMAIN groups
    BY <1>1
  <1> QED BY <1>3, <1>4

LEMMA TableNext ==
  ASSUME Core, TableInv, [Next]_vars
  PROVE  TableInv'
  <1> USE TypeParts DEF Core
  <1>1. ASSUME groups' = groups, members' = members PROVE TableInv'
    BY <1>1 DEF TableInv, CountMatches, IsMember
  <1>2. ASSUME UNCHANGED tables PROVE TableInv'
    BY <1>1, <1>2 DEF tables
  <1>3. CountMatches' <=> \A g \in DOMAIN groups' : Counted(g)'
    BY DEF CountMatches, Counted, Rows, People, IsMember
  <1>4. \A g \in DOMAIN groups : Counted(g) /\ g \in GroupIds
    <2>1. \A g \in DOMAIN groups : Counted(g)
      BY CountMatchesParts DEF TableInv
    <2>2. \A g \in DOMAIN groups : g \in GroupIds
      BY GatewayAssumption DEF TableType, GroupIds
    <2> QED BY <2>1, <2>2
  <1>5. ASSUME NEW k \in Requests, CreateGroup(k) PROVE TableInv'
    <2>1. PICK g, u, x, e :
            /\ g = Len(groups) + 1 /\ u = logic[k].user
            /\ x = [id |-> nextRow, group |-> g, user |-> u, by |-> k]
            /\ e = [name |-> request[k].arg, owner |-> u, count |-> 1]
            /\ groups' = Append(groups, e) /\ members' = members \cup {x}
      BY <1>5 DEF CreateGroup
    <2>2. u \in Users
      BY <1>5, <2>1, CallerKnown DEF CreateGroup, At, Guarded
    <2>3. g \in GroupIds /\ g \notin DOMAIN groups /\ DOMAIN groups' = DOMAIN groups \cup {g}
      BY <1>5, <2>1, GatewayAssumption DEF CreateGroup, GroupIds, TableType
    <2>4. groups'[g] = e /\ \A h \in DOMAIN groups : groups'[h] = groups[h]
      BY <2>1 DEF TableType
    <2>5. x.group = g /\ x.user = u /\ e.owner = u /\ e.count = 1
      BY <2>1
    <2>6. Rows(g) = {} /\ People(g) = {} /\ ~IsMember(u, g)
      BY <2>3 DEF TableInv, Rows, People, IsMember
    <2>7. /\ IsFiniteSet(members)'
          /\ Cardinality(Rows(g)') = Cardinality(Rows(g)) + 1
          /\ Cardinality(People(g)') = Cardinality(People(g)) + 1
          /\ \A h \in GroupIds \ {g} : Rows(h)' = Rows(h) /\ People(h)' = People(h)
      BY <2>1, <2>2, <2>3, <2>5, <2>6, OneMore DEF TableInv
    <2>8. Cardinality(Rows(g)') = 1 /\ Cardinality(People(g)') = 1
      BY <2>6, <2>7, FS_EmptySet
    <2>9. Counted(g)'
      BY <2>1, <2>4, <2>5, <2>8 DEF Counted
    <2>10. ASSUME NEW h \in DOMAIN groups PROVE Counted(h)'
      <3>1. groups'[h] = groups[h] /\ Rows(h)' = Rows(h) /\ People(h)' = People(h) /\ Counted(h)
        BY <1>4, <2>3, <2>4, <2>7
      <3> QED BY <2>1, <3>1 DEF Counted
    <2>11. \A r \in members' : r.group \in DOMAIN groups'
      BY <2>1, <2>3, <2>5 DEF TableInv
    <2> QED BY <1>3, <2>3, <2>7, <2>9, <2>10, <2>11 DEF TableInv
  <1>6. ASSUME NEW k \in Requests, AddGroup(k) PROVE TableInv'
    <2>1. PICK g, u, x :
            /\ g = request[k].arg /\ u = logic[k].user
            /\ x = [id |-> nextRow, group |-> g, user |-> u, by |-> k]
      OBVIOUS
    <2>2. /\ g \in DOMAIN groups
          /\ members' = IF ~IsMember(u, g) THEN members \cup {x} ELSE members
          /\ groups' = IF ~IsMember(u, g) THEN [groups EXCEPT ![g].count = @ + 1] ELSE groups
      BY <1>6, <2>1 DEF AddGroup
    <2>3. CASE IsMember(u, g)
      BY <1>1, <2>2, <2>3
    <2>4. CASE ~IsMember(u, g)
      <3>1. u \in Users
        BY <1>6, <2>1, CallerKnown DEF AddGroup, At, Guarded
      <3>2. x.group = g /\ x.user = u /\ g \in GroupIds
        BY <1>4, <2>1, <2>2
      <3>3. /\ DOMAIN groups' = DOMAIN groups
            /\ \A h \in DOMAIN groups :
                 /\ groups'[h].owner = groups[h].owner
                 /\ groups'[h].count = IF h = g THEN groups[h].count + 1 ELSE groups[h].count
        BY <1>6, <2>1, <2>2, <2>4, AddGroupGroups, AddGroupNew
      <3>4. /\ IsFiniteSet(members)'
            /\ Cardinality(Rows(g)') = Cardinality(Rows(g)) + 1
            /\ Cardinality(People(g)') = Cardinality(People(g)) + 1
            /\ \A h \in GroupIds \ {g} : Rows(h)' = Rows(h) /\ People(h)' = People(h)
        BY <2>2, <2>4, <3>1, <3>2, OneMore DEF TableInv
      <3>5. ASSUME NEW h \in DOMAIN groups PROVE Counted(h)'
        <4>1. Counted(h) /\ h \in GroupIds /\ members \subseteq members'
          BY <1>4, <2>2, <2>4
        <4>2. CASE h = g
          BY <3>3, <3>4, <4>1, <4>2 DEF Counted
        <4>3. CASE h # g
          BY <3>3, <3>4, <4>1, <4>3 DEF Counted
        <4> QED BY <4>2, <4>3
      <3>6. \A r \in members' : r.group \in DOMAIN groups'
        BY <2>2, <2>4, <3>2, <3>3 DEF TableInv
      <3> QED BY <1>3, <3>3, <3>4, <3>5, <3>6 DEF TableInv
    <2> QED BY <2>3, <2>4
  <1>7. ASSUME NEW k \in Requests, Serve(k) PROVE TableInv'
    <2>1. CASE CreateUser(k)
      BY <1>1, <2>1 DEF CreateUser
    <2> QED BY <1>2, <1>5, <1>6, <1>7, <2>1
            DEF Serve, LogicFails, LoginDraw, LoginGrant, LoginList, DrawId, Produce
  <1>8. ASSUME NEW k \in Requests, HandlerStep(k) PROVE TableInv'
    BY <1>2, <1>8 DEF HandlerStep, Reject, VerifyOk, AfterVerify, VerifyFails, ReadBody,
       CallLogic, Return, Timeout, Disconnect
  <1>9. ASSUME NEW s \in Sessions, SessionExpires(s) PROVE TableInv'
    BY <1>2, <1>9, ExpiresFacts
  <1> QED BY <1>2, <1>7, <1>8, <1>9, NextCases DEF Receive, vars

-----------------------------------------------------------------------------
(***************************************************************************)
(* Message ids.                                                            *)
(***************************************************************************)

\* The n-th id was made from n and some reading of the clock.
IdInv ==
  /\ Len(ids) = localMsgSeq
  /\ \A n \in DOMAIN ids : \E ms \in Nat : ids[n] = MessageId(ms, n)

LEMMA IdNext ==
  ASSUME Core, IdInv, [Next]_vars
  PROVE  IdInv'
  <1> USE TypeParts DEF Core
  <1>1. ASSUME ids' = ids, localMsgSeq' = localMsgSeq PROVE IdInv'
    BY <1>1 DEF IdInv, MessageId
  <1>2. ASSUME NEW k \in Requests, Serve(k) PROVE IdInv'
    <2>1. ASSUME NEW ms \in Clock, DrawId(k, ms) PROVE IdInv'
      <3> DEFINE id == MessageId(ms, localMsgSeq + 1)
      <3>1. ids' = Append(ids, id) /\ localMsgSeq' = localMsgSeq + 1
        BY <2>1 DEF DrawId
      <3>2. ms \in Nat /\ localMsgSeq \in Nat /\ ids \in Seq(Nat)
        BY GatewayAssumption DEF MessageType
      <3>3. Len(ids') = localMsgSeq + 1 /\ ids'[localMsgSeq + 1] = id
        BY <3>1, <3>2 DEF IdInv
      <3>4. \A n \in DOMAIN ids : ids'[n] = ids[n]
        BY <3>1, <3>2
      <3>5. DOMAIN ids' = DOMAIN ids \cup {localMsgSeq + 1}
        BY <3>1, <3>2 DEF IdInv
      <3>6. \A n \in DOMAIN ids' : \E t \in Nat : ids'[n] = MessageId(t, n)
        BY <3>2, <3>3, <3>4, <3>5 DEF IdInv
      <3> QED BY <3>1, <3>3, <3>6 DEF IdInv, MessageId
    <2> QED BY <1>1, <1>2, <2>1
            DEF Serve, LogicFails, CreateUser, LoginDraw, LoginGrant, LoginList, CreateGroup,
                AddGroup, Produce, messages
  <1>3. ASSUME NEW k \in Requests, HandlerStep(k) PROVE IdInv'
    BY <1>1, <1>3 DEF HandlerStep, Reject, VerifyOk, AfterVerify, VerifyFails, ReadBody,
       CallLogic, Return, Timeout,
                      Disconnect, messages
  <1>4. ASSUME NEW s \in Sessions, SessionExpires(s) PROVE IdInv'
    BY <1>1, <1>4, ExpiresFacts DEF messages
  <1> QED BY <1>1, <1>2, <1>3, <1>4, NextCases DEF Receive, vars, messages

\* A multiple of K between -K and K is zero.
LEMMA SmallMultiple ==
  ASSUME NEW K \in Nat \ {0}, NEW d \in Int, d * K < K, 0 - K < d * K
  PROVE  d = 0
  <1>1. CASE d >= 1
    <2>1. d * K >= K
      BY <1>1, SMTT(30)
    <2> QED BY <2>1
  <1>2. CASE d <= 0 - 1
    <2>1. d * K <= 0 - K
      BY <1>2, SMTT(30)
    <2> QED BY <2>1
  <1> QED BY <1>1, <1>2

\* Ids made from counters less than SeqSpan apart differ, whatever the clock
\* said.
LEMMA NearIdsDiffer ==
  ASSUME NEW a \in Nat, NEW b \in Nat, NEW i \in Nat, NEW j \in Nat, i < j, j - i < SeqSpan
  PROVE  MessageId(a, i) # MessageId(b, j)
  <1> DEFINE K == SeqSpan
             p == i % K
             q == j % K
             m == i \div K
             n == j \div K
  <1>1. K \in Nat \ {0}
    BY GatewayAssumption
  <1> HIDE DEF K
  <1>2. /\ p \in 0 .. (K - 1) /\ q \in 0 .. (K - 1) /\ m \in Int /\ n \in Int
        /\ i = K * m + p /\ j = K * n + q
    BY <1>1
  <1> HIDE DEF p, q, m, n
  <1>3. SUFFICES ASSUME a * K + p = b * K + q PROVE FALSE
    BY DEF MessageId, K, p, q
  <1>4. (a - b) * K = q - p
    BY <1>1, <1>2, <1>3
  <1>5. a - b = 0
    BY <1>1, <1>2, <1>4, SmallMultiple
  <1>6. p = q
    BY <1>2, <1>3, <1>5, <1>1
  <1>7. (n - m) * K = j - i
    BY <1>1, <1>2, <1>6
  <1>8. (n - m) * K < K /\ 0 - K < (n - m) * K
    BY <1>1, <1>7 DEF K
  <1>9. n - m = 0
    BY <1>1, <1>2, <1>8, SmallMultiple
  <1> QED BY <1>1, <1>2, <1>7, <1>9

LEMMA IdsDistinctFollows ==
  ASSUME TypeOK, IdInv
  PROVE  IdsDistinct
  <1>1. ASSUME NEW i \in DOMAIN ids, NEW j \in DOMAIN ids, i < j, j - i < SeqSpan
        PROVE  ids[i] # ids[j]
    <2>1. i \in Nat /\ j \in Nat
      BY TypeParts DEF MessageType
    <2>2. PICK a \in Nat : ids[i] = MessageId(a, i)
      BY DEF IdInv
    <2>3. PICK b \in Nat : ids[j] = MessageId(b, j)
      BY DEF IdInv
    <2> QED BY <1>1, <2>1, <2>2, <2>3, NearIdsDiffer
  <1> QED BY <1>1 DEF IdsDistinct

-----------------------------------------------------------------------------
(***************************************************************************)
(* The theorems.                                                           *)
(***************************************************************************)
IInv == Core /\ TableInv /\ IdInv

\* The inductive invariant: types, sessions, the course of the requests, what
\* they left behind, the group tables and the message ids.
THEOREM SpecIInv == Spec => []IInv
  <1>1. Init => IInv
    <2>1. Init => IdInv
      BY DEF Init, IdInv
    <2> QED BY <2>1, InitCore, InitTable DEF IInv
  <1>2. IInv /\ [Next]_vars => IInv'
    <2> SUFFICES ASSUME IInv, [Next]_vars PROVE IInv'
      OBVIOUS
    <2>1. Core /\ TableInv /\ IdInv
      BY DEF IInv
    <2>2. TypeOK' /\ SessionInv' /\ Course' /\ LeftInv' /\ Written'
      BY <2>1, TypeNext, SessionInvNext, CourseNext, LeftNext, WrittenNext
    <2>3. TableInv' /\ IdInv'
      BY <2>1, TableNext, IdNext
    <2> QED BY <2>2, <2>3 DEF IInv, Core
  <1> QED BY <1>1, <1>2, PTL DEF Spec

\* Types of the sessions, the requests, the Logic calls, the tables and the log.
THEOREM GatewayTypeOK == Spec => []TypeOK
  <1>1. IInv => TypeOK
    BY DEF IInv, Core
  <1> QED BY <1>1, SpecIInv, PTL

\* What a request writes it writes in the name of its session's user, and only
\* if the session was alive when the request arrived, although Verify and the
\* write are two calls apart (handler_chat.go, handler_group.go).
THEOREM GatewayDeadSessionHarmless == Spec => []DeadSessionHarmless
  <1>1. IInv => DeadSessionHarmless
    <2> SUFFICES ASSUME IInv, NEW k \in Requests
                 PROVE  /\ \A m \in log : m.by = k => request[k].live /\ m.from = owner[request[k].sid]
                        /\ \A r \in members : r.by = k => request[k].live /\ r.user = owner[request[k].sid]
      BY DEF DeadSessionHarmless
    <2>1. k # None
      BY GatewayAssumption DEF Requests
    <2> QED BY <2>1 DEF IInv, Core, Written
  <1> QED BY <1>1, SpecIInv, PTL

\* A handler that answers ok answers for something that is durably done,
\* however long ago its Logic call ended and whatever failed or timed out.
THEOREM GatewayOkMeansDone == Spec => []OkMeansDone
  <1>1. IInv => OkMeansDone
    <2> SUFFICES ASSUME IInv PROVE OkMeansDone
      OBVIOUS
    <2> DEFINE Deed(k) ==
          LET x == request[k].arg
              out == logic[k].out
          IN
          CASE request[k].op = "register" -> out \in DOMAIN accounts /\ accounts[out] = x
            [] request[k].op = "login" -> logic[k].sid \in issued /\ owner[logic[k].sid] = out /\ accounts[out] = x
            [] request[k].op = "create" -> groups[out].name = x /\ IsMember(Caller(k), out)
            [] request[k].op = "add" -> IsMember(Caller(k), x)
            [] request[k].op \in Sends -> \E m \in log : m.by = k /\ m.id = out /\ m.from = Caller(k) /\ m.to = x
            [] request[k].op = "verify" -> request[k].live
    <2>1. ASSUME NEW k \in Requests, request[k].at = "ok" PROVE Deed(k)
      <3>1. CASE request[k].op = "verify" /\ answer[k] # SL!Nothing
        <4>1. request[k].live
          BY <3>1 DEF IInv, Core, SessionInv
        <4> QED BY <3>1, <4>1 DEF Sends
      <3>2. CASE logic[k].at = "done"
        <4>1. Left(k) /\ On(k)
          BY DEF IInv, Core, LeftInv, Course
        <4>2. request[k].op \in Ops \ {"verify"}
          BY <3>2, <4>1 DEF On
        <4>3. request[k].op \in Guarded => logic[k].user = Caller(k)
          BY <3>2, <4>1 DEF On, Caller
        <4>4. CASE request[k].op = "register"
          BY <3>2, <4>1, <4>4 DEF Left, Sends
        <4>5. CASE request[k].op = "login"
          BY <3>2, <4>1, <4>5 DEF Left, Sends
        <4>6. CASE request[k].op = "create"
          <5>1. groups[logic[k].out].name = request[k].arg /\ IsMember(Caller(k), logic[k].out)
            BY <3>2, <4>1, <4>3, <4>6 DEF Left, IsMember, Guarded
          <5> QED BY <4>6, <5>1 DEF Sends
        <4>7. CASE request[k].op = "add"
          <5>1. IsMember(Caller(k), request[k].arg)
            BY <3>2, <4>1, <4>3, <4>7 DEF Left, IsMember, Guarded
          <5> QED BY <4>7, <5>1 DEF Sends
        <4>8. CASE request[k].op \in Sends
          BY <3>2, <4>1, <4>3, <4>8 DEF Left, Sends, Guarded
        <4> QED BY <4>2, <4>4, <4>5, <4>6, <4>7, <4>8 DEF Ops, Open, Guarded
      <3>3. On(k)
        BY DEF IInv, Core, Course
      <3> QED BY <2>1, <3>1, <3>2, <3>3 DEF On
    <2> QED BY <2>1 DEF OkMeansDone
  <1> QED BY <1>1, SpecIInv, PTL

\* member_count agrees with the rows of group_members and with the users in
\* the group, after any number of repeated AddGroup and CreateGroup requests.
THEOREM GatewayCountMatches == Spec => []CountMatches
  <1>1. IInv => CountMatches
    BY DEF IInv, TableInv
  <1> QED BY <1>1, SpecIInv, PTL

\* nextMessageID gives no id twice within SeqSpan draws, on any clock.
THEOREM GatewayIdsDistinct == Spec => []IdsDistinct
  <1>1. IInv => IdsDistinct
    BY IdsDistinctFollows DEF IInv, Core
  <1> QED BY <1>1, SpecIInv, PTL

=============================================================================
