------------------------------ MODULE Gateway ------------------------------
(***************************************************************************)
(* The HTTP front (internal/api) and the Logic services behind it          *)
(* (internal/logic/auth.go, chatserver.go, groupserver.go) with the tables *)
(* they write: accounts, groups, group_members and the Kafka topics.       *)
(*                                                                         *)
(* A handler verifies the session it is given, calls Logic and answers.    *)
(* The two ends of that call part when a deadline passes or the client     *)
(* leaves: the handler answers with an error and Logic may still act.      *)
(* Sessions are those of SingleLogin, which Session implements; the order  *)
(* and the repetition of records in a topic belong to Persist and Push,    *)
(* the cache behind IsGroupMember to GroupCache.                           *)
(***************************************************************************)
EXTENDS Integers, Sequences, FiniteSets

CONSTANTS
  Names,         \* user names and group names
  Sessions, None,
  FirstNames,    \* the accounts there are at the start
  FirstSessions, \* their logins
  FirstGroup,    \* the name of the group the first of them has created
  MaxRequests,   \* bound: HTTP requests
  MaxUsers,      \* bound: accounts
  MaxGroups,     \* bound: groups
  SeqSpan,       \* ids per millisecond (2^20)
  Clock          \* what time.Now().UnixMilli() may read, backwards too

Requests == 1 .. MaxRequests
Calls == Requests
Users == 1 .. MaxUsers        \* users.id
GroupIds == 1 .. MaxGroups    \* groups.id

ASSUME GatewayAssumption ==
  /\ MaxRequests \in Nat /\ MaxUsers \in Nat /\ MaxGroups \in Nat \ {0}
  /\ SeqSpan \in Nat \ {0} /\ Clock \subseteq Nat
  /\ None \notin Sessions /\ None \notin Nat
  /\ FirstNames \in Seq(Names) /\ Len(FirstNames) \in 1 .. MaxUsers /\ FirstGroup \in Names
  /\ FirstSessions \in [DOMAIN FirstNames -> Sessions]
  /\ \A i, j \in DOMAIN FirstNames :
       i # j => FirstNames[i] # FirstNames[j] /\ FirstSessions[i] # FirstSessions[j]

VARIABLES
  owner, login, issued, ended, answer,   \* of SingleLogin
  request,      \* the HTTP requests and their handlers
  logic,        \* the Logic call of each request
  accounts,     \* table users: the name of each id
  groups,       \* table groups, by id
  members,      \* table group_members
  nextRow,      \* its AUTO_INCREMENT
  log,          \* the records in Kafka's three topics
  localMsgSeq,  \* the counter of nextMessageID
  ids           \* history: the message ids drawn, in the order of the counter

SL == INSTANCE SingleLogin

sessions == <<owner, login, issued, ended, answer>>
tables == <<accounts, groups, members, nextRow>>
messages == <<log, localMsgSeq, ids>>
vars == <<sessions, request, logic, tables, messages>>

Sends == {"send", "groupsend", "roomsend"}
Open == {"register", "login"}                     \* handlers without a session
Guarded == Sends \cup {"verify", "create", "add"} \* handlers that verify one
Ops == Open \cup Guarded

Unused == [at |-> "new", op |-> "none", sid |-> None, arg |-> None, live |-> FALSE]
NoCall == [at |-> "none", user |-> None, sid |-> None, out |-> None, list |-> {}, had |-> {}]

\* The user in whose name a request acts.
Caller(k) == answer[k].user

Args(op) ==
  CASE op \in {"register", "login", "create"} -> Names
    [] op = "send" -> DOMAIN FirstNames
    [] op \in {"groupsend", "add"} -> GroupIds
    [] op \in {"roomsend", "verify"} -> {None}

IsMember(u, g) == \E r \in members : r.user = u /\ r.group = g

TypeOK ==
  /\ owner \in [Sessions -> Users \cup {None}]
  /\ login \in [Users -> Sessions \cup {None}]
  /\ issued \subseteq Sessions /\ ended \subseteq Sessions
  /\ answer \in [Requests -> {SL!Nothing} \cup [user : Users, sid : Sessions]]
  /\ request \in [Requests ->
       [at : {"new", "verify", "body", "ready", "wait", "ok", "err"}, op : Ops \cup {"none"},
        sid : Sessions \cup {None}, arg : Names \cup Users \cup GroupIds \cup {None}, live : BOOLEAN]]
  /\ \A k \in Requests : request[k].op \in Ops => request[k].arg \in Args(request[k].op)
  /\ logic \in [Requests ->
       [at : {"none", "sent", "checked", "drawn", "granted", "done", "failed"}, user : Users \cup {None},
        sid : Sessions \cup {None}, out : Nat \cup {None},
        list : SUBSET GroupIds, had : SUBSET GroupIds]]
  /\ accounts \in Seq(Names) /\ Len(accounts) <= MaxUsers
  /\ groups \in Seq([name : Names, owner : Users, count : Nat]) /\ Len(groups) <= MaxGroups
  /\ members \subseteq [id : Nat, group : GroupIds, user : Users, by : Requests \cup {None}]
  /\ nextRow \in Nat
  /\ log \subseteq [id : Nat, op : Sends, from : Users, to : Users \cup GroupIds \cup {None}, by : Requests]
  /\ localMsgSeq \in Nat
  /\ ids \in Seq(Nat)

Init ==
  /\ owner = [s \in Sessions |->
       IF \E u \in DOMAIN FirstNames : FirstSessions[u] = s
       THEN CHOOSE u \in DOMAIN FirstNames : FirstSessions[u] = s ELSE None]
  /\ login = [u \in Users |-> IF u \in DOMAIN FirstNames THEN FirstSessions[u] ELSE None]
  /\ issued = {FirstSessions[u] : u \in DOMAIN FirstNames}
  /\ ended = {}
  /\ answer = [k \in Requests |-> SL!Nothing]
  /\ request = [k \in Requests |-> Unused]
  /\ logic = [k \in Requests |-> NoCall]
  /\ accounts = FirstNames
  /\ groups = <<[name |-> FirstGroup, owner |-> 1, count |-> 1]>>
  /\ members = {[id |-> 1, group |-> 1, user |-> 1, by |-> None]}
  /\ nextRow = 2
  /\ log = {}
  /\ localMsgSeq = 0
  /\ ids = <<>>

-----------------------------------------------------------------------------
(***************************************************************************)
(* The handlers.                                                           *)
(***************************************************************************)
HandlerGoes(k, at) == request' = [request EXCEPT ![k].at = at]

\* The numbers of the requests are given out in order.
InTurn(k) == request[k] = Unused /\ (k > 1 => request[k - 1] # Unused)

\* SendMessage and SendGroupMessage verify first and read the body then; the
\* others have it before they do anything else.
ReadsLate == {"send", "groupsend"}
AfterVerify(op) == IF op = "verify" THEN "ok" ELSE IF op \in ReadsLate THEN "body" ELSE "ready"

\* A wrong method, a body that does not decode or a missing session is refused
\* at once.
Reject(k) ==
  /\ InTurn(k)
  /\ HandlerGoes(k, "err")
  /\ UNCHANGED <<sessions, logic, tables, messages>>

\* A request has arrived, with a session that its client once got, and with its
\* body where the handler begins with that.
Receive(k, op, s, x) ==
  /\ InTurn(k)
  /\ op \in Guarded => s \in issued
  /\ request' = [request EXCEPT ![k] =
       [at |-> IF op \in Open THEN "ready" ELSE "verify", op |-> op, sid |-> s, arg |-> x,
        live |-> \E u \in Users : login[u] = s]]
  /\ UNCHANGED <<sessions, logic, tables, messages>>

\* Mutant of VerifyOk: the session's owner is taken from a cache.
VerifyOkCached(k) ==
  /\ request[k].at = "verify"
  /\ answer' = [answer EXCEPT ![k] = [user |-> owner[request[k].sid], sid |-> request[k].sid]]
  /\ HandlerGoes(k, AfterVerify(request[k].op))
  /\ UNCHANGED <<owner, login, issued, ended, logic, tables, messages>>

\* Logic's Verify accepts; /api/verify answers with what it returned.
VerifyOk(k) ==
  /\ request[k].at = "verify"
  /\ \E u \in Users : SL!Accept(k, u, request[k].sid)
  /\ HandlerGoes(k, AfterVerify(request[k].op))
  /\ UNCHANGED <<logic, tables, messages>>

\* Verify refuses, fails or takes too long.
VerifyFails(k) ==
  /\ request[k].at = "verify"
  /\ HandlerGoes(k, "err")
  /\ UNCHANGED <<sessions, logic, tables, messages>>

\* The client has sent the whole body, which decodes or does not.  The server has
\* no ReadTimeout: until then the handler waits.
ReadBody(k) ==
  /\ request[k].at = "body"
  /\ \E at \in {"ready", "err"} : HandlerGoes(k, at)
  /\ UNCHANGED <<sessions, logic, tables, messages>>

\* The call to Logic, in the name of the verified user.
CallLogic(k) ==
  /\ request[k].at = "ready"
  /\ HandlerGoes(k, "wait")
  /\ logic' = [logic EXCEPT ![k] = [NoCall EXCEPT !.at = "sent", !.user = Caller(k)]]
  /\ UNCHANGED <<sessions, tables, messages>>

\* Logic's reply arrives in time.
Return(k) ==
  /\ request[k].at = "wait"
  /\ logic[k].at \in {"done", "failed"}
  /\ HandlerGoes(k, IF logic[k].at = "done" THEN "ok" ELSE "err")
  /\ UNCHANGED <<sessions, logic, tables, messages>>

\* creategroup and addgroup pass on the request's context without a deadline.
HasDeadline(k) == request[k].op \notin {"create", "add"}

\* Mutant of Timeout: no handler has a deadline.
TimeoutNever(k) ==
  /\ request[k].at = "wait"
  /\ FALSE
  /\ UNCHANGED vars

\* Mutant of Timeout: the error is not looked at.
TimeoutOk(k) ==
  /\ request[k].at = "wait"
  /\ HasDeadline(k)
  /\ HandlerGoes(k, "ok")
  /\ UNCHANGED <<sessions, logic, tables, messages>>

\* The deadline passes: an error, whatever Logic does from now on.
Timeout(k) ==
  /\ request[k].at = "wait"
  /\ HasDeadline(k)
  /\ HandlerGoes(k, "err")
  /\ UNCHANGED <<sessions, logic, tables, messages>>

\* The client leaves, which ends the request's context and its body.
Disconnect(k) ==
  /\ request[k].at \in {"verify", "body", "ready", "wait"}
  /\ HandlerGoes(k, "err")
  /\ UNCHANGED <<sessions, logic, tables, messages>>

-----------------------------------------------------------------------------
(***************************************************************************)
(* Logic.                                                                  *)
(***************************************************************************)
At(k, op, at) == request[k].op = op /\ logic[k].at = at
LogicGoes(k, at) == logic' = [logic EXCEPT ![k].at = at]
Done(k, x) == logic' = [logic EXCEPT ![k].at = "done", ![k].out = x]

\* A check fails (empty or equal arguments, unknown user, wrong password), or
\* MySQL, Redis or Kafka does, or the call's context has ended: the call ends
\* where it stands.
LogicFails(k) ==
  /\ logic[k].at \in {"sent", "checked", "drawn", "granted"}
  /\ LogicGoes(k, "failed")
  /\ UNCHANGED <<sessions, request, tables, messages>>

\* Register: the unique key on username decides between two of the same name.
CreateUser(k) ==
  /\ At(k, "register", "sent")
  /\ \A i \in DOMAIN accounts : accounts[i] # request[k].arg
  /\ Len(accounts) < MaxUsers
  /\ accounts' = Append(accounts, request[k].arg)
  /\ Done(k, Len(accounts) + 1)
  /\ UNCHANGED <<sessions, request, groups, members, nextRow, messages>>

\* Login: the name is known, the password right, and a session id is drawn.
LoginDraw(k, s) ==
  /\ At(k, "login", "sent")
  /\ \E u \in DOMAIN accounts :
       /\ accounts[u] = request[k].arg
       /\ SL!Draw(u, s)
       /\ logic' = [logic EXCEPT ![k].at = "drawn", ![k].user = u, ![k].sid = s]
  /\ UNCHANGED <<request, tables, messages>>

\* RefreshSession: its script runs, and again when the reply was lost, with
\* another login in between perhaps.
LoginGrant(k) ==
  /\ At(k, "login", "drawn")
  /\ SL!Grant(logic[k].user, logic[k].sid)
  /\ \E at \in {"drawn", "granted"} : LogicGoes(k, at)
  /\ UNCHANGED <<request, tables, messages>>

\* The groups a user is in, and what ListUserSmallGroups selects: the row whose
\* own id is the user's.
GroupsOf(u) == {g \in GroupIds : IsMember(u, g)}
ListUserSmallGroups(u) == {r.group : r \in {m \in members : m.id = u}}

\* The reply carries the session and the list of groups.
LoginList(k) ==
  /\ At(k, "login", "granted")
  /\ SL!Issue(logic[k].sid)
  /\ logic' = [logic EXCEPT ![k].at = "done", ![k].out = logic[k].user,
                            ![k].list = ListUserSmallGroups(logic[k].user),
                            ![k].had = GroupsOf(logic[k].user)]
  /\ UNCHANGED <<request, tables, messages>>

\* CreateGroup's transaction: the group, counting one, and its owner's row.
CreateGroup(k) ==
  LET g == Len(groups) + 1 IN
  /\ At(k, "create", "sent")
  /\ \A i \in DOMAIN groups : groups[i].name # request[k].arg
  /\ Len(groups) < MaxGroups
  /\ groups' = Append(groups, [name |-> request[k].arg, owner |-> logic[k].user, count |-> 1])
  /\ members' = members \cup {[id |-> nextRow, group |-> g, user |-> logic[k].user, by |-> k]}
  /\ nextRow' = nextRow + 1
  /\ Done(k, g)
  /\ UNCHANGED <<sessions, request, accounts, messages>>

\* Mutant of AddGroup: the count grows although nothing was inserted.
AddGroupCounts(k) ==
  LET g == request[k].arg IN
  /\ At(k, "add", "sent")
  /\ g \in DOMAIN groups
  /\ members' = IF IsMember(logic[k].user, g) THEN members
                ELSE members \cup {[id |-> nextRow, group |-> g, user |-> logic[k].user, by |-> k]}
  /\ groups' = [groups EXCEPT ![g].count = @ + 1]
  /\ nextRow' = nextRow + 1
  /\ Done(k, g)
  /\ UNCHANGED <<sessions, request, accounts, messages>>

\* AddGroup's transaction, which holds the group's row: INSERT ... ON DUPLICATE
\* KEY (which uses up an id in any case), and the count only for a new row.
AddGroup(k) ==
  LET g == request[k].arg
      new == ~IsMember(logic[k].user, g)
  IN
  /\ At(k, "add", "sent")
  /\ g \in DOMAIN groups
  /\ members' = IF new
                THEN members \cup {[id |-> nextRow, group |-> g, user |-> logic[k].user, by |-> k]}
                ELSE members
  /\ groups' = IF new THEN [groups EXCEPT ![g].count = @ + 1] ELSE groups
  /\ nextRow' = nextRow + 1
  /\ Done(k, g)
  /\ UNCHANGED <<sessions, request, accounts, messages>>

\* Nobody writes to himself, and only a member to a group.  (A cache that is
\* behind may refuse a member; nobody leaves a group, so it admits no other.)
MayPost(k) ==
  \/ request[k].op = "send" /\ logic[k].user # request[k].arg
  \/ request[k].op = "groupsend" /\ IsMember(logic[k].user, request[k].arg)
  \/ request[k].op = "roomsend"

\* Mutant of MessageId: the mask is one short.
MessageIdShort(ms, n) == ms * SeqSpan + (n % (SeqSpan - 1))

MessageId(ms, n) == ms * SeqSpan + (n % SeqSpan)

\* nextMessageID: the clock was read before, the counter is added to atomically.
DrawId(k, ms) ==
  LET id == MessageId(ms, localMsgSeq + 1) IN
  /\ request[k].op \in Sends /\ logic[k].at = "sent"
  /\ MayPost(k)
  /\ localMsgSeq' = localMsgSeq + 1
  /\ ids' = Append(ids, id)
  /\ logic' = [logic EXCEPT ![k].at = "checked", ![k].out = id]
  /\ UNCHANGED <<sessions, request, tables, log>>

\* The producer's SendMessage.  An error may be reported for a record that was
\* written, but an acknowledged record is in all replicas (WaitForAll).
Produce(k) ==
  /\ request[k].op \in Sends /\ logic[k].at = "checked"
  /\ log' = log \cup {[id |-> logic[k].out, op |-> request[k].op, from |-> logic[k].user,
                       to |-> request[k].arg, by |-> k]}
  /\ \E at \in {"done", "failed"} : LogicGoes(k, at)
  /\ UNCHANGED <<sessions, request, tables, localMsgSeq, ids>>

\* A login runs out.
SessionExpires(s) ==
  /\ \E u \in Users : login[u] = s
  /\ SL!Drop(s)
  /\ UNCHANGED <<request, logic, tables, messages>>

Handle(k) ==
  \/ VerifyOk(k)
  \/ VerifyFails(k)
  \/ CallLogic(k)
  \/ Return(k)
  \/ Timeout(k)

Serve(k) ==
  \/ LogicFails(k)
  \/ CreateUser(k)
  \/ \E s \in Sessions : LoginDraw(k, s)
  \/ LoginGrant(k)
  \/ LoginList(k)
  \/ CreateGroup(k)
  \/ AddGroup(k)
  \/ \E ms \in Clock : DrawId(k, ms)
  \/ Produce(k)

Next ==
  \/ \E k \in Requests :
       \/ Reject(k)
       \/ \E op \in Open : \E x \in Args(op) : Receive(k, op, None, x)
       \/ \E op \in Guarded, s \in issued : \E x \in Args(op) : Receive(k, op, s, x)
       \/ Handle(k)
       \/ ReadBody(k)
       \/ Disconnect(k)
       \/ Serve(k)
  \/ \E s \in Sessions : SessionExpires(s)

Spec == Init /\ [][Next]_vars

(***************************************************************************)
(* A handler runs and its timers fire.  Logic may hang for ever, and a     *)
(* client may never send its body.                                         *)
(***************************************************************************)
FairSpec == Spec /\ \A k \in Requests : WF_vars(Handle(k))

-----------------------------------------------------------------------------
(***************************************************************************)
(* Properties.                                                             *)
(***************************************************************************)

\* Whatever a request writes, a message or a membership, it writes in the name
\* of the user whose session it carried, and only if that session was the
\* user's login when the request arrived: a login elsewhere shuts the old
\* device out, except for requests already on their way (SendMessage,
\* SendGroupMessage, SendRoomMessage, AddGroup, Creategroup).
DeadSessionHarmless ==
  \A k \in Requests :
    /\ \A m \in log : m.by = k => request[k].live /\ m.from = owner[request[k].sid]
    /\ \A r \in members : r.by = k => request[k].live /\ r.user = owner[request[k].sid]

\* A success is answered only for what is durably done: the account, the
\* session, the group, the membership or the record in Kafka under the id that
\* was returned (the err checks of the handlers and of Logic).
OkMeansDone ==
  \A k \in Requests : request[k].at = "ok" =>
    LET x == request[k].arg
        out == logic[k].out
    IN
    CASE request[k].op = "register" -> out \in DOMAIN accounts /\ accounts[out] = x
      [] request[k].op = "login" -> logic[k].sid \in issued /\ owner[logic[k].sid] = out /\ accounts[out] = x
      [] request[k].op = "create" -> groups[out].name = x /\ IsMember(Caller(k), out)
      [] request[k].op = "add" -> IsMember(Caller(k), x)
      [] request[k].op \in Sends -> \E m \in log : m.by = k /\ m.id = out /\ m.from = Caller(k) /\ m.to = x
      [] request[k].op = "verify" -> request[k].live

\* member_count is the number of the group's rows, its owner's among them, and
\* a user has one row per group, although a client that lost the answer sends
\* its request again (AddGroup, CreateGroup).
CountMatches ==
  \A g \in DOMAIN groups :
    /\ groups[g].count = Cardinality({r \in members : r.group = g})
    /\ groups[g].count = Cardinality({u \in Users : IsMember(u, g)})
    /\ IsMember(groups[g].owner, g)

\* Two of any SeqSpan consecutive message ids differ, also when the clock
\* stands still or steps back (nextMessageID; the tables' unique key msg_id).
IdsDistinct ==
  \A i, j \in DOMAIN ids : i < j /\ j - i < SeqSpan => ids[i] # ids[j]

\* What the comment in Login says of the list it returns.
LoginListsGroups ==
  \A k \in Requests :
    request[k].op = "login" /\ logic[k].at = "done" => logic[k].list = logic[k].had

\* What may hold a handler for ever: a client that does not send its body, and
\* Logic where the handler has set it no deadline.
Stuck(k) ==
  \/ request[k].at = "body"
  \/ request[k].at = "wait" /\ ~HasDeadline(k) /\ logic[k].at \notin {"done", "failed"}

\* Nothing else holds one: a handler with a deadline answers although Logic
\* hangs, and each one answers once its client and, for creategroup and addgroup,
\* Logic have done their part (the WithTimeout of the handlers).
Answered ==
  \A k \in Requests :
    request[k].at \in {"verify", "ready", "wait"} /\ ~Stuck(k)
      ~> request[k].at \in {"ok", "err"} \/ Stuck(k)

=============================================================================
