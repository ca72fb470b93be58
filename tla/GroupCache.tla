----------------------------- MODULE GroupCache -----------------------------
(***************************************************************************)
(* The member list of one small group: the group_members table in MySQL    *)
(* and its copy in Redis, group_members:<group> (internal/logic/store.go   *)
(* and groupserver.go, internal/task/consumer.go).                         *)
(*                                                                         *)
(* Logic's IsGroupMember authorises senders from the copy and, on a miss,  *)
(* loads it from MySQL, one load at a time on each node (singleflight).    *)
(* Task reads the copy to push a message and asks Logic to load it on a    *)
(* miss, one request at a time in each process (singleflight); when its    *)
(* context ends it asks again while Logic may still be at the former load. *)
(* AddGroup commits a member and then deletes the copy twice, the second   *)
(* time from a delayed goroutine.                                          *)
(*                                                                         *)
(* One action is one Redis command (a MULTI/EXEC pipeline is one), one SQL *)
(* transaction or one entry or exit of the singleflight.  Groups share no  *)
(* state, so one group stands for all.                                     *)
(***************************************************************************)
EXTENDS Naturals, FiniteSets

CONSTANTS
  Users,
  Owner,       \* the one who creates the group
  Nodes,       \* Logic processes
  Tasks,       \* Task processes handling this group's messages
  Claims,      \* their ConsumeClaim goroutines
  TaskOf,      \* the process of each
  Handlers,    \* bound: RefreshGroupMembersCache handlers running in Logic
  Calls,       \* IsGroupMember calls in progress at the same time
  Sender,      \* the user each is about
  None,
  RedisFails   \* TRUE: Redis writes may fail

ASSUME GroupAssumption ==
  /\ None \notin Calls \cup Nodes \cup Users \cup Tasks \cup {"yes", "no", "error"}
  /\ TaskOf \in [Claims -> Tasks]
  /\ RedisFails \in BOOLEAN
  /\ Owner \in Users /\ Sender \in [Calls -> Users]
  /\ IsFiniteSet(Nodes) /\ IsFiniteSet(Tasks)

VARIABLES
  members,  \* the user ids in MySQL; empty: the group does not exist yet
  cache,    \* the Redis key; {} stands for the placeholder {-1}
  add,      \* AddGroup of each user: which delete of the cache comes next
  call,     \* the IsGroupMember calls
  flight,   \* Store.sg of each node: the call that leads the load
  claim,    \* the ConsumeClaim goroutines of Task
  refresh,  \* Logic's RefreshGroupMembersCache handlers, and for which Task's flight
  clean     \* history: users for whom a delete succeeded with no older load under way

vars == <<members, cache, add, call, flight, claim, refresh, clean>>

\* The Redis key does not exist: a value that is not a set of users.
Absent == {None}

Idle == [at |-> "idle", node |-> None, snap |-> {}, verdict |-> None]
NoLoad == [at |-> "idle", task |-> None, snap |-> {}]

Verdicts == {"yes", "no", "error"}

\* The stages of an IsGroupMember call, and of a refresh for Task.
Lookups == [at : {"idle", "exists", "miss", "wait", "query", "fill", "done"},
            node : Nodes \cup {None}, snap : SUBSET Users,
            verdict : Verdicts \cup {None}]
Loads == [at : {"idle", "query", "fill"}, task : Tasks \cup {None}, snap : SUBSET Users]

TypeOK ==
  /\ members \in SUBSET Users
  /\ cache \in (SUBSET Users) \cup {Absent}
  /\ add \in [Users -> {"none", "first", "second", "done"}]
  /\ call \in [Calls -> Lookups]
  /\ \A k \in Calls : call[k].at # "idle" => call[k].node \in Nodes
  /\ flight \in [Nodes -> Calls \cup {None}]
  /\ claim \in [Claims -> {"idle", "miss", "wait"}]
  /\ refresh \in [Handlers -> Loads]
  /\ clean \in SUBSET Users

Init ==
  /\ members = {}
  /\ cache = Absent
  /\ add = [u \in Users |-> "none"]
  /\ call = [k \in Calls |-> Idle]
  /\ flight = [n \in Nodes |-> None]
  /\ claim = [c \in Claims |-> "idle"]
  /\ refresh = [h \in Handlers |-> NoLoad]
  /\ clean = {}

\* What loads under way will write.
Pending == {call[k].snap : k \in {j \in Calls : call[j].at = "fill"}}
           \cup {refresh[h].snap : h \in {g \in Handlers : refresh[g].at = "fill"}}

\* A Redis write takes effect, or fails where that is allowed.
Write(value) == cache' = value \/ (RedisFails /\ UNCHANGED cache)

-----------------------------------------------------------------------------
(***************************************************************************)
(* Membership.                                                             *)
(***************************************************************************)

\* CreateGroup commits the group with its owner.
CreateGroup ==
  /\ members = {}
  /\ members' = {Owner}
  /\ UNCHANGED <<cache, add, call, flight, claim, refresh, clean>>

\* AddGroup's transaction commits a new member of an existing group.
AddGroup(u) ==
  /\ members # {}
  /\ u \notin members
  /\ members' = members \cup {u}
  /\ add' = [add EXCEPT ![u] = "first"]
  /\ UNCHANGED <<cache, call, flight, claim, refresh, clean>>

\* Mutant of Delete: the key that is deleted is not the cache's.
DeleteWrongKey(u) ==
  /\ clean' = IF \A s \in Pending : u \in s THEN clean \cup {u} ELSE clean
  /\ UNCHANGED cache

\* One DEL of the cache; an error is only logged.
Delete(u) ==
  \/ /\ cache' = Absent
     /\ clean' = IF \A s \in Pending : u \in s THEN clean \cup {u} ELSE clean
  \/ RedisFails /\ UNCHANGED <<cache, clean>>

\* doubleDeleteGroupMembersCache: the first delete, in the request.
FirstDelete(u) ==
  /\ add[u] = "first"
  /\ add' = [add EXCEPT ![u] = "second"]
  /\ Delete(u)
  /\ UNCHANGED <<members, call, flight, claim, refresh>>

\* The second one, 200 ms later, in a goroutine.
SecondDelete(u) ==
  /\ add[u] = "second"
  /\ add' = [add EXCEPT ![u] = "done"]
  /\ Delete(u)
  /\ UNCHANGED <<members, call, flight, claim, refresh>>

-----------------------------------------------------------------------------
(***************************************************************************)
(* IsGroupMember.                                                          *)
(***************************************************************************)

\* SISMEMBER: a user in the cache is a member.
CheckMember(k, n) ==
  LET hit == cache # Absent /\ Sender[k] \in cache IN
  /\ call[k] = Idle
  /\ call' = [call EXCEPT ![k] =
       [Idle EXCEPT !.at = IF hit THEN "done" ELSE "exists",
                    !.node = n, !.verdict = IF hit THEN "yes" ELSE None]]
  /\ UNCHANGED <<members, cache, add, flight, claim, refresh, clean>>

\* EXISTS: a key that exists is taken to list all members.
CheckExists(k) ==
  /\ call[k].at = "exists"
  /\ call' = [call EXCEPT ![k].at = IF cache = Absent THEN "miss" ELSE "done",
                          ![k].verdict = IF cache = Absent THEN None ELSE "no"]
  /\ UNCHANGED <<members, cache, add, flight, claim, refresh, clean>>

\* A Redis error is the call's answer, from SISMEMBER ...
CheckMemberFails(k, n) ==
  /\ call[k] = Idle
  /\ call' = [call EXCEPT ![k] =
       [Idle EXCEPT !.at = "done", !.node = n, !.verdict = "error"]]
  /\ UNCHANGED <<members, cache, add, flight, claim, refresh, clean>>

\* ... or from EXISTS.
CheckExistsFails(k) ==
  /\ call[k].at = "exists"
  /\ call' = [call EXCEPT ![k].at = "done", ![k].verdict = "error"]
  /\ UNCHANGED <<members, cache, add, flight, claim, refresh, clean>>

\* sg.Do: lead the node's load or wait for the one that is running.
Enter(k) ==
  LET n == call[k].node IN
  /\ call[k].at = "miss"
  /\ \/ /\ flight[n] = None
        /\ flight' = [flight EXCEPT ![n] = k]
        /\ call' = [call EXCEPT ![k].at = "query"]
     \/ /\ flight[n] # None
        /\ call' = [call EXCEPT ![k].at = "wait"]
        /\ UNCHANGED flight
  /\ UNCHANGED <<members, cache, add, claim, refresh, clean>>

\* Mutant of Query: the WHERE clause is lost.
QueryAll(k) ==
  /\ call[k].at = "query"
  /\ call' = [call EXCEPT ![k].at = "fill", ![k].snap = Users]
  /\ UNCHANGED <<members, cache, add, flight, claim, refresh, clean>>

\* The leader reads the members from MySQL.
Query(k) ==
  /\ call[k].at = "query"
  /\ call' = [call EXCEPT ![k].at = "fill", ![k].snap = members]
  /\ UNCHANGED <<members, cache, add, flight, claim, refresh, clean>>

\* Mutant of Flock: the waiting calls are not woken.
FlockAlone(k) == {k}

\* The calls that the load of leader k answers.
Flock(k) == {j \in Calls : j = k \/ (call[j].at = "wait" /\ call[j].node = call[k].node)}

\* Every call of the flight returns the leader's result for its own user.
Land(k, answer) ==
  /\ call' = [j \in Calls |->
       IF j \in Flock(k)
       THEN [call[j] EXCEPT !.at = "done", !.snap = {}, !.verdict = answer[Sender[j]]]
       ELSE call[j]]
  /\ flight' = [flight EXCEPT ![call[k].node] = None]

\* The query fails, or the leader's context is cancelled: all get the error.
QueryFails(k) ==
  /\ call[k].at = "query"
  /\ Land(k, [u \in Users |-> "error"])
  /\ UNCHANGED <<members, cache, add, claim, refresh, clean>>

\* Mutant of Fill: the answers are looked up in the cache it has written.
FillReread(k) ==
  /\ call[k].at = "fill"
  /\ Write(call[k].snap)
  /\ Land(k, [u \in Users |-> IF cache' # Absent /\ u \in cache' THEN "yes" ELSE "no"])
  /\ UNCHANGED <<members, add, claim, refresh, clean>>

\* The leader replaces the cache; a failure of that is only logged.
Fill(k) ==
  /\ call[k].at = "fill"
  /\ Write(call[k].snap)
  /\ Land(k, [u \in Users |-> IF u \in call[k].snap THEN "yes" ELSE "no"])
  /\ UNCHANGED <<members, add, claim, refresh, clean>>

\* IsGroupMember's caller has its answer.
Return(k) ==
  /\ call[k].at = "done"
  /\ call' = [call EXCEPT ![k] = Idle]
  /\ UNCHANGED <<members, cache, add, flight, claim, refresh, clean>>

-----------------------------------------------------------------------------
(***************************************************************************)
(* The Task layer, and time.                                               *)
(***************************************************************************)

\* The refresh that Task t's flight waits for.
Awaited(t) == {h \in Handlers : refresh[h].task = t}

\* Everybody in t's flight has its result, or its error.
Released(t) == [c \in Claims |-> IF TaskOf[c] = t /\ claim[c] = "wait" THEN "idle" ELSE claim[c]]

\* loadGroupOnlineMemberIDs finds no key.
TaskMiss(c) ==
  /\ claim[c] = "idle"
  /\ cache = Absent
  /\ claim' = [claim EXCEPT ![c] = "miss"]
  /\ UNCHANGED <<members, cache, add, call, flight, refresh, clean>>

\* Mutant of TaskEnter: every goroutine sends its own request.
TaskEnterAlone(c) ==
  /\ claim[c] = "miss"
  /\ claim' = [claim EXCEPT ![c] = "wait"]
  /\ \E h \in Handlers :
       /\ refresh[h] = NoLoad
       /\ refresh' = [refresh EXCEPT ![h] = [NoLoad EXCEPT !.at = "query", !.task = TaskOf[c]]]
  /\ UNCHANGED <<members, cache, add, call, flight, clean>>

\* sg.Do: ask Logic for a refresh or wait for the request that is under way.
\* (A request that does not get through ends like one whose query fails.)
TaskEnter(c) ==
  LET t == TaskOf[c] IN
  /\ claim[c] = "miss"
  /\ claim' = [claim EXCEPT ![c] = "wait"]
  /\ \/ Awaited(t) # {} /\ UNCHANGED refresh
     \/ /\ Awaited(t) = {}
        /\ \E h \in Handlers :
             /\ refresh[h] = NoLoad
             /\ refresh' = [refresh EXCEPT ![h] = [NoLoad EXCEPT !.at = "query", !.task = t]]
  /\ UNCHANGED <<members, cache, add, call, flight, clean>>

\* The leader's two seconds are over, or its session ends: the whole flight gets
\* the error and may begin anew, and the handler does not notice at once.
TaskTimeout(t) ==
  \E h \in Awaited(t) :
    /\ refresh' = [refresh EXCEPT ![h].task = None]
    /\ claim' = Released(t)
    /\ UNCHANGED <<members, cache, add, call, flight, clean>>

\* RefreshGroupMembersCache replies; nobody may be listening any more.
RefreshEnds(h) ==
  /\ refresh' = [refresh EXCEPT ![h] = NoLoad]
  /\ claim' = Released(refresh[h].task)

\* RefreshGroupMembersCache reads MySQL ...
RefreshQuery(h) ==
  /\ refresh[h].at = "query"
  /\ refresh' = [refresh EXCEPT ![h].at = "fill", ![h].snap = members]
  /\ UNCHANGED <<members, cache, add, call, flight, claim, clean>>

\* ... unless MySQL fails or the context has ended ...
RefreshQueryFails(h) ==
  /\ refresh[h].at = "query"
  /\ RefreshEnds(h)
  /\ UNCHANGED <<members, cache, add, call, flight, clean>>

\* ... and replaces the cache.
RefreshFill(h) ==
  /\ refresh[h].at = "fill"
  /\ Write(refresh[h].snap)
  /\ RefreshEnds(h)
  /\ UNCHANGED <<members, add, call, flight, clean>>

\* Mutant of Expire: the placeholder is written without a TTL.
ExpireMembers ==
  /\ cache \notin {Absent, {}}
  /\ cache' = Absent
  /\ UNCHANGED <<members, add, call, flight, claim, refresh, clean>>

\* The key's TTL (24 hours, 5 minutes for the placeholder) runs out.
Expire ==
  /\ cache # Absent
  /\ cache' = Absent
  /\ UNCHANGED <<members, add, call, flight, claim, refresh, clean>>

Deletes(u) == FirstDelete(u) \/ SecondDelete(u)

Answers(k) ==
  \/ CheckExists(k)
  \/ CheckExistsFails(k)
  \/ Enter(k)
  \/ Query(k)
  \/ QueryFails(k)
  \/ Fill(k)

Refresh(h) == RefreshQuery(h) \/ RefreshQueryFails(h) \/ RefreshFill(h)

Next ==
  \/ CreateGroup
  \/ \E u \in Users : AddGroup(u) \/ Deletes(u)
  \/ \E k \in Calls :
       \/ \E n \in Nodes : CheckMember(k, n) \/ CheckMemberFails(k, n)
       \/ Answers(k)
       \/ Return(k)
  \/ \E c \in Claims : TaskMiss(c) \/ TaskEnter(c)
  \/ \E t \in Tasks : TaskTimeout(t)
  \/ \E h \in Handlers : Refresh(h)
  \/ Expire

Spec == Init /\ [][Next]_vars

(***************************************************************************)
(* Goroutines run, MySQL and Redis answer or time out, and a TTL runs out. *)
(* Nobody has to join a group or send a message.                           *)
(***************************************************************************)
Fairness ==
  /\ \A k \in Calls : WF_vars(Answers(k))
  /\ WF_vars(Expire)

FairSpec == Spec /\ Fairness

-----------------------------------------------------------------------------
(***************************************************************************)
(* Properties.                                                             *)
(***************************************************************************)

\* Nobody is let into a group by mistake: whatever loads, deletes and failures
\* raced, a positive answer and the cache name members only.
NoFalseAdmission ==
  /\ \A k \in Calls : call[k].verdict = "yes" => Sender[k] \in members
  /\ cache # Absent => cache \subseteq members

\* What deleting the cache after the commit does guarantee: once a delete has
\* succeeded while no load that missed the new member was under way, no later
\* cache misses the member again.
CleanStaysClean ==
  cache # Absent => clean \subseteq cache

\* The loads of this group that are on their way to MySQL or Redis, for callers
\* of IsGroupMember and for Task processes that still wait.
Loading == {k \in Calls : call[k].at \in {"query", "fill"}}
Refreshing == {h \in Handlers : refresh[h].task # None}

\* What the two singleflights make of Readme.md's bound of N + 1 concurrent loads
\* of one group: one for each of the N Logic nodes and one for each Task process
\* that asks, however many goroutines miss at once.  A refresh that its Task has
\* given up comes on top for as long as its handler does not notice.
LoadsBounded == Cardinality(Loading) + Cardinality(Refreshing) <= Cardinality(Nodes) + Cardinality(Tasks)

\* A call, and a goroutine of Task, waits only for a load that is running: neither
\* singleflight forgets anybody, also when the load ends in an error, a timeout or
\* after the one who asked for it has gone.
WaitersHaveLeader ==
  /\ \A k \in Calls : call[k].at = "wait" =>
       flight[call[k].node] # None /\ flight[call[k].node] \in Loading
  /\ \A c \in Claims : claim[c] = "wait" =>
       \E h \in Awaited(TaskOf[c]) : refresh[h].at \in {"query", "fill"}

\* The README's eventual consistency: in the end the cache is absent or equal
\* to the table, although writes may fail and loads may be late.
EventuallyConsistent == <>[](cache = Absent \/ cache = members)

\* Every IsGroupMember call is answered.
CallsAnswered == \A k \in Calls : call[k].at = "exists" ~> call[k].at = "done"

\* A load denies nobody for whom a delete was clean, although every call of the
\* flight is answered from a list that was read before some of them began
\* (IsGroupMember's singleflight).
NoStaleDenial ==
  [][\A k \in Calls :
       call[k].at \in {"fill", "wait"} /\ call'[k].at = "done" /\ call'[k].verdict = "no" =>
         Sender[k] \notin clean]_vars

=============================================================================
