-------------------------- MODULE GroupCacheProofs --------------------------
(***************************************************************************)
(* GroupCache, for any users, Logic nodes, Task processes and concurrent   *)
(* calls: nobody is admitted by mistake, a clean delete stays clean, the   *)
(* singleflights forget no waiter and bound the load of MySQL.             *)
(*                                                                         *)
(* The cache is only ever replaced by what a load read earlier, so the     *)
(* invariant speaks of the loads under way (SnapsGood): what they read is  *)
(* part of the table and has every clean user.  The bound rests on         *)
(* OneLeader, which makes the flights and the loading calls one-to-one,    *)
(* and on OneRefresh, which does it for Task's requests.                   *)
(***************************************************************************)
EXTENDS GroupCache, FiniteSetTheorems, TLAPS

\* What a load has read is neither too much nor without a clean user.
SnapsGood ==
  /\ \A k \in Calls : call[k].at = "fill" => call[k].snap \subseteq members /\ clean \subseteq call[k].snap
  /\ \A h \in Handlers : refresh[h].at = "fill" => refresh[h].snap \subseteq members /\ clean \subseteq refresh[h].snap

\* Only members' caches are deleted, and only they become clean.
AddedIsMember ==
  /\ \A u \in Users : add[u] # "none" => u \in members
  /\ clean \subseteq members

\* A call loads exactly while it leads its node's flight.
OneLeader ==
  /\ \A k \in Calls : call[k].at \in {"query", "fill"} => flight[call[k].node] = k
  /\ \A n \in Nodes : flight[n] # None =>
       call[flight[n]].at \in {"query", "fill"} /\ call[flight[n]].node = n

\* A call waits only for a load that is running.
CallsLed ==
  \A k \in Calls : call[k].at = "wait" =>
    flight[call[k].node] # None /\ flight[call[k].node] \in Loading

\* A Task process waits for at most one refresh, which is running, and its
\* goroutines wait only while it does.
OneRefresh ==
  /\ \A h \in Handlers : refresh[h].task # None => refresh[h].at \in {"query", "fill"}
  /\ \A g, h \in Handlers : refresh[g].task # None /\ refresh[g].task = refresh[h].task => g = h
  /\ \A c \in Claims : claim[c] = "wait" => \E h \in Handlers : refresh[h].task = TaskOf[c]

IInv ==
  /\ TypeOK
  /\ NoFalseAdmission
  /\ CleanStaysClean
  /\ SnapsGood
  /\ AddedIsMember
  /\ OneLeader
  /\ CallsLed
  /\ OneRefresh

\* The initial state satisfies the inductive invariant.
LEMMA InitIInv == Init => IInv
<1> SUFFICES ASSUME Init PROVE IInv
  OBVIOUS
<1>1. TypeOK
  BY DEF Init, TypeOK, Loads, Lookups, NoLoad, Idle
<1>2. NoFalseAdmission /\ CleanStaysClean /\ SnapsGood /\ AddedIsMember
  BY GroupAssumption DEF Init, NoFalseAdmission, CleanStaysClean, SnapsGood, AddedIsMember, NoLoad, Idle
<1>3. OneLeader /\ CallsLed /\ OneRefresh
  BY DEF Init, OneLeader, CallsLed, OneRefresh, Idle, NoLoad
<1> QED
  BY <1>1, <1>2, <1>3 DEF IInv

\* How the end of a load changes the calls of its flight and the others.
LEMMA LandEffect ==
  ASSUME TypeOK, NEW k \in Calls, call[k].at \in {"query", "fill"},
         NEW answer \in [Users -> Verdicts], Land(k, answer)
  PROVE  /\ call' \in [Calls -> Lookups]
         /\ \A j \in Calls : call'[j].node = call[j].node
         /\ \A j \in Flock(k) : call'[j].at = "done" /\ call'[j].verdict = answer[Sender[j]]
         /\ \A j \in Calls \ Flock(k) : call'[j] = call[j]
         /\ flight' \in [Nodes -> Calls \cup {None}]
         /\ \A j \in Calls : call'[j].at # "idle" => call[j].at # "idle"
<1> DEFINE landed(j) == [call[j] EXCEPT !.at = "done", !.snap = {}, !.verdict = answer[Sender[j]]]
<1>1. call' = [j \in Calls |-> IF j \in Flock(k) THEN landed(j) ELSE call[j]]
  BY DEF Land
<1>2. \A j \in Flock(k) : j \in Calls /\ Sender[j] \in Users /\ call[j].at # "idle"
  BY GroupAssumption DEF Flock
<1>3. \A j \in Flock(k) :
        /\ landed(j) \in Lookups
        /\ landed(j).node = call[j].node
        /\ landed(j).at = "done"
        /\ landed(j).verdict = answer[Sender[j]]
  <2> SUFFICES ASSUME NEW j \in Flock(k)
               PROVE  /\ landed(j) \in Lookups
                                    /\ landed(j).node = call[j].node
                      /\ landed(j).at = "done"
                      /\ landed(j).verdict = answer[Sender[j]]
    OBVIOUS
  <2>1. call[j] \in Lookups /\ answer[Sender[j]] \in Verdicts
    BY <1>2 DEF TypeOK
  <2> QED
    BY <2>1 DEF Lookups
<1>4. flight' \in [Nodes -> Calls \cup {None}]
  BY DEF Land, TypeOK
<1> HIDE DEF landed
<1> QED
  BY <1>1, <1>2, <1>3, <1>4 DEF TypeOK

\* What leaves Task's goroutines and Logic's refreshes alone keeps OneRefresh.
LEMMA SameRefresh ==
  ASSUME OneRefresh, UNCHANGED <<claim, refresh>>
  PROVE  OneRefresh'
  BY DEF OneRefresh

\* CreateGroup keeps the inductive invariant.
LEMMA CreateGroupIInv ==
  ASSUME IInv, CreateGroup
  PROVE  IInv'
<1>1. TypeOK'
  BY GroupAssumption DEF IInv, TypeOK, CreateGroup
<1>2. NoFalseAdmission'
  BY GroupAssumption DEF IInv, TypeOK, Lookups, NoFalseAdmission, SnapsGood, CreateGroup
<1>3. CleanStaysClean'
  BY GroupAssumption DEF IInv, TypeOK, CleanStaysClean, SnapsGood, CreateGroup
<1>4. SnapsGood'
  BY GroupAssumption DEF IInv, TypeOK, Lookups, Loads, SnapsGood, AddedIsMember, CreateGroup
<1>5. AddedIsMember'
  BY GroupAssumption DEF IInv, TypeOK, AddedIsMember, CreateGroup
<1>6. OneLeader'
  BY GroupAssumption DEF IInv, TypeOK, Lookups, OneLeader, CreateGroup
<1>7. CallsLed'
  BY GroupAssumption DEF IInv, TypeOK, Lookups, OneLeader, CallsLed, Loading, CreateGroup
<1>8. OneRefresh'
  BY SameRefresh DEF IInv, CreateGroup
<1> QED
  BY <1>1, <1>2, <1>3, <1>4, <1>5, <1>6, <1>7, <1>8 DEF IInv

\* AddGroup keeps the inductive invariant.
LEMMA AddGroupIInv ==
  ASSUME IInv, NEW u \in Users, AddGroup(u)
  PROVE  IInv'
<1>1. TypeOK'
  BY GroupAssumption DEF IInv, TypeOK, AddGroup
<1>2. NoFalseAdmission'
  BY GroupAssumption DEF IInv, TypeOK, Lookups, NoFalseAdmission, SnapsGood, AddGroup
<1>3. CleanStaysClean'
  BY GroupAssumption DEF IInv, TypeOK, CleanStaysClean, SnapsGood, AddGroup
<1>4. SnapsGood'
  BY GroupAssumption DEF IInv, TypeOK, Lookups, Loads, SnapsGood, AddedIsMember, AddGroup
<1>5. AddedIsMember'
  BY GroupAssumption DEF IInv, TypeOK, AddedIsMember, AddGroup
<1>6. OneLeader'
  BY GroupAssumption DEF IInv, TypeOK, Lookups, OneLeader, AddGroup
<1>7. CallsLed'
  BY GroupAssumption DEF IInv, TypeOK, Lookups, OneLeader, CallsLed, Loading, AddGroup
<1>8. OneRefresh'
  BY SameRefresh DEF IInv, AddGroup
<1> QED
  BY <1>1, <1>2, <1>3, <1>4, <1>5, <1>6, <1>7, <1>8 DEF IInv

\* FirstDelete keeps the inductive invariant.
LEMMA FirstDeleteIInv ==
  ASSUME IInv, NEW u \in Users, FirstDelete(u)
  PROVE  IInv'
<1>1. TypeOK'
  BY GroupAssumption DEF IInv, TypeOK, FirstDelete, Delete, Pending
<1>2. NoFalseAdmission'
  BY GroupAssumption DEF IInv, TypeOK, Lookups, NoFalseAdmission, SnapsGood, FirstDelete, Delete
<1>3. CleanStaysClean'
  BY GroupAssumption DEF IInv, TypeOK, CleanStaysClean, SnapsGood, FirstDelete, Delete
<1>4. SnapsGood'
  BY GroupAssumption DEF IInv, TypeOK, Lookups, Loads, SnapsGood, AddedIsMember, FirstDelete, Delete, Pending
<1>5. AddedIsMember'
  BY GroupAssumption DEF IInv, TypeOK, AddedIsMember, FirstDelete, Delete
<1>6. OneLeader'
  BY GroupAssumption DEF IInv, TypeOK, Lookups, OneLeader, FirstDelete, Delete
<1>7. CallsLed'
  BY GroupAssumption DEF IInv, TypeOK, Lookups, OneLeader, CallsLed, Loading, FirstDelete, Delete
<1>8. OneRefresh'
  BY SameRefresh DEF IInv, FirstDelete
<1> QED
  BY <1>1, <1>2, <1>3, <1>4, <1>5, <1>6, <1>7, <1>8 DEF IInv

\* SecondDelete keeps the inductive invariant.
LEMMA SecondDeleteIInv ==
  ASSUME IInv, NEW u \in Users, SecondDelete(u)
  PROVE  IInv'
<1>1. TypeOK'
  BY GroupAssumption DEF IInv, TypeOK, SecondDelete, Delete, Pending
<1>2. NoFalseAdmission'
  BY GroupAssumption DEF IInv, TypeOK, Lookups, NoFalseAdmission, SnapsGood, SecondDelete, Delete
<1>3. CleanStaysClean'
  BY GroupAssumption DEF IInv, TypeOK, CleanStaysClean, SnapsGood, SecondDelete, Delete
<1>4. SnapsGood'
  BY GroupAssumption DEF IInv, TypeOK, Lookups, Loads, SnapsGood, AddedIsMember, SecondDelete, Delete, Pending
<1>5. AddedIsMember'
  BY GroupAssumption DEF IInv, TypeOK, AddedIsMember, SecondDelete, Delete
<1>6. OneLeader'
  BY GroupAssumption DEF IInv, TypeOK, Lookups, OneLeader, SecondDelete, Delete
<1>7. CallsLed'
  BY GroupAssumption DEF IInv, TypeOK, Lookups, OneLeader, CallsLed, Loading, SecondDelete, Delete
<1>8. OneRefresh'
  BY SameRefresh DEF IInv, SecondDelete
<1> QED
  BY <1>1, <1>2, <1>3, <1>4, <1>5, <1>6, <1>7, <1>8 DEF IInv

\* CheckMember, answered or failing, keeps the inductive invariant.
LEMMA CheckMemberIInv ==
  ASSUME IInv, NEW k \in Calls, NEW n \in Nodes, CheckMember(k, n) \/ CheckMemberFails(k, n)
  PROVE  IInv'
<1> DEFINE hit == cache # Absent /\ Sender[k] \in cache
<1> DEFINE found == [Idle EXCEPT !.at = IF hit THEN "done" ELSE "exists",
                                 !.node = n, !.verdict = IF hit THEN "yes" ELSE None]
<1> DEFINE failed == [Idle EXCEPT !.at = "done", !.node = n, !.verdict = "error"]
<1>1. /\ call[k] = Idle /\ call[k].at = "idle"
      /\ UNCHANGED <<members, cache, add, flight, claim, refresh, clean>>
      /\ flight' = flight
  BY DEF CheckMember, CheckMemberFails, Idle
<1>2. /\ found \in Lookups /\ found.node = n /\ found.at \in {"exists", "done"}
      /\ found.verdict = "yes" => hit
  BY GroupAssumption DEF Idle, Lookups, Verdicts
<1>3. failed \in Lookups /\ failed.node = n /\ failed.at = "done" /\ failed.verdict = "error"
  BY DEF Idle, Lookups, Verdicts
<1>4. \/ call' = [call EXCEPT ![k] = found]
      \/ call' = [call EXCEPT ![k] = failed]
  BY DEF CheckMember, CheckMemberFails
<1> HIDE DEF found, failed
<1>5. /\ \A j \in Calls \ {k} : call'[j] = call[j]
      /\ call'[k].node = n /\ call'[k].at \in {"exists", "done"}
      /\ call'[k].verdict = "yes" => hit
      /\ call' \in [Calls -> Lookups]
  BY <1>2, <1>3, <1>4 DEF IInv, TypeOK
<1>6. TypeOK'
  BY <1>1, <1>5 DEF IInv, TypeOK
<1>7. NoFalseAdmission'
  BY <1>1, <1>5 DEF IInv, NoFalseAdmission
<1>8. CleanStaysClean' /\ AddedIsMember' /\ OneRefresh'
  BY <1>1 DEF IInv, CleanStaysClean, AddedIsMember, OneRefresh
<1>9. SnapsGood'
  BY <1>1, <1>5 DEF IInv, SnapsGood
<1>10. OneLeader'
  BY <1>1, <1>5, GroupAssumption DEF IInv, TypeOK, OneLeader
<1>11. CallsLed'
  BY <1>1, <1>5, GroupAssumption DEF IInv, TypeOK, OneLeader, CallsLed, Loading
<1> QED
  BY <1>6, <1>7, <1>8, <1>9, <1>10, <1>11 DEF IInv

\* CheckExists, answered or failing, keeps the inductive invariant.
LEMMA CheckExistsIInv ==
  ASSUME IInv, NEW k \in Calls, CheckExists(k) \/ CheckExistsFails(k)
  PROVE  IInv'
<1>1. /\ call[k].at = "exists" /\ call[k].node \in Nodes
      /\ UNCHANGED <<members, cache, add, flight, claim, refresh, clean>>
      /\ flight' = flight
  BY DEF CheckExists, CheckExistsFails, IInv, TypeOK
<1>2. /\ \A j \in Calls \ {k} : call'[j] = call[j]
      /\ call'[k].node = call[k].node
      /\ call'[k].at \in {"miss", "done"} /\ call'[k].verdict \in {None, "no", "error"}
      /\ call'[k] \in Lookups
      /\ call' \in [Calls -> Lookups]
  <2>1. call[k] \in Lookups
    BY DEF IInv, TypeOK
  <2>2. call'[k] \in Lookups
    BY <2>1 DEF CheckExists, CheckExistsFails, IInv, TypeOK, Lookups, Verdicts
  <2> QED
    BY <2>1, <2>2 DEF CheckExists, CheckExistsFails, IInv, TypeOK, Lookups
<1>3. TypeOK'
  BY <1>1, <1>2 DEF IInv, TypeOK
<1>4. NoFalseAdmission'
  BY <1>1, <1>2, GroupAssumption DEF IInv, NoFalseAdmission
<1>5. CleanStaysClean' /\ AddedIsMember'
  BY <1>1 DEF IInv, CleanStaysClean, AddedIsMember
<1>6. SnapsGood'
  BY <1>1, <1>2 DEF IInv, SnapsGood, AddedIsMember
<1>7. OneLeader'
  BY <1>1, <1>2, GroupAssumption DEF IInv, TypeOK, OneLeader
<1>8. CallsLed'
  BY <1>1, <1>2, GroupAssumption DEF IInv, TypeOK, OneLeader, CallsLed, Loading
<1>9. OneRefresh'
  BY SameRefresh DEF IInv, CheckExists, CheckExistsFails
<1> QED
  BY <1>3, <1>4, <1>5, <1>6, <1>7, <1>8, <1>9 DEF IInv

\* Enter keeps the inductive invariant.
LEMMA EnterIInv ==
  ASSUME IInv, NEW k \in Calls, Enter(k)
  PROVE  IInv'
<1>1. /\ call[k].at = "miss" /\ call[k].node \in Nodes
      /\ UNCHANGED <<members, cache, add, claim, refresh, clean>>
      /\ flight' \in [Nodes -> Calls \cup {None}]
  BY DEF Enter, IInv, TypeOK
<1>2. /\ \A j \in Calls \ {k} : call'[j] = call[j]
      /\ call'[k].node = call[k].node
      /\ \/ call'[k].at = "query" /\ flight[call[k].node] = None /\ flight' = [flight EXCEPT ![call[k].node] = k]
         \/ call'[k].at = "wait" /\ flight[call[k].node] # None /\ flight' = flight
      /\ call'[k].verdict = call[k].verdict
      /\ call'[k] \in Lookups
      /\ call' \in [Calls -> Lookups]
  <2>1. call[k] \in Lookups
    BY DEF IInv, TypeOK
  <2>2. call'[k] \in Lookups
    BY <2>1 DEF Enter, IInv, TypeOK, Lookups, Verdicts
  <2> QED
    BY <2>1, <2>2 DEF Enter, IInv, TypeOK, Lookups
<1>3. TypeOK'
  BY <1>1, <1>2 DEF IInv, TypeOK
<1>4. NoFalseAdmission'
  BY <1>1, <1>2, GroupAssumption DEF IInv, NoFalseAdmission
<1>5. CleanStaysClean' /\ AddedIsMember'
  BY <1>1 DEF IInv, CleanStaysClean, AddedIsMember
<1>6. SnapsGood'
  BY <1>1, <1>2 DEF IInv, SnapsGood, AddedIsMember
<1>7. OneLeader'
  BY <1>1, <1>2, GroupAssumption DEF IInv, TypeOK, OneLeader
<1>8. CallsLed'
  BY <1>1, <1>2, GroupAssumption DEF IInv, TypeOK, OneLeader, CallsLed, Loading
<1>9. OneRefresh'
  BY SameRefresh DEF IInv, Enter
<1> QED
  BY <1>3, <1>4, <1>5, <1>6, <1>7, <1>8, <1>9 DEF IInv

\* Query keeps the inductive invariant.
LEMMA QueryIInv ==
  ASSUME IInv, NEW k \in Calls, Query(k)
  PROVE  IInv'
<1>1. /\ call[k].at = "query" /\ call[k].node \in Nodes
      /\ UNCHANGED <<members, cache, add, flight, claim, refresh, clean>>
      /\ flight' = flight
  BY DEF Query, IInv, TypeOK
<1>2. /\ \A j \in Calls \ {k} : call'[j] = call[j]
      /\ call'[k].node = call[k].node
      /\ call'[k].at = "fill" /\ call'[k].snap = members /\ call'[k].verdict = call[k].verdict
      /\ call'[k] \in Lookups
      /\ call' \in [Calls -> Lookups]
  <2>1. call[k] \in Lookups
    BY DEF IInv, TypeOK
  <2>2. call'[k] \in Lookups
    BY <2>1 DEF Query, IInv, TypeOK, Lookups, Verdicts
  <2> QED
    BY <2>1, <2>2 DEF Query, IInv, TypeOK, Lookups
<1>3. TypeOK'
  BY <1>1, <1>2 DEF IInv, TypeOK
<1>4. NoFalseAdmission'
  BY <1>1, <1>2, GroupAssumption DEF IInv, NoFalseAdmission
<1>5. CleanStaysClean' /\ AddedIsMember'
  BY <1>1 DEF IInv, CleanStaysClean, AddedIsMember
<1>6. SnapsGood'
  BY <1>1, <1>2 DEF IInv, SnapsGood, AddedIsMember
<1>7. OneLeader'
  BY <1>1, <1>2, GroupAssumption DEF IInv, TypeOK, OneLeader
<1>8. CallsLed'
  BY <1>1, <1>2, GroupAssumption DEF IInv, TypeOK, OneLeader, CallsLed, Loading
<1>9. OneRefresh'
  BY SameRefresh DEF IInv, Query
<1> QED
  BY <1>3, <1>4, <1>5, <1>6, <1>7, <1>8, <1>9 DEF IInv

\* QueryFails keeps the inductive invariant.
LEMMA QueryFailsIInv ==
  ASSUME IInv, NEW k \in Calls, QueryFails(k)
  PROVE  IInv'
<1> DEFINE answer == [u \in Users |-> "error"]
<1>0. /\ call' \in [Calls -> Lookups]
      /\ \A j \in Calls : call'[j].node = call[j].node
      /\ \A j \in Flock(k) : call'[j].at = "done" /\ call'[j].verdict = answer[Sender[j]]
      /\ \A j \in Calls \ Flock(k) : call'[j] = call[j]
      /\ flight' \in [Nodes -> Calls \cup {None}]
      /\ \A j \in Calls : call'[j].at # "idle" => call[j].at # "idle"
  <2>1. answer \in [Users -> Verdicts]
    BY DEF Verdicts
  <2>2. Land(k, answer) /\ call[k].at = "query"
    BY DEF QueryFails
  <2> HIDE DEF answer
  <2> QED
    BY <2>1, <2>2, LandEffect DEF IInv
<1>a. /\ call[k].at = "query" /\ k \in Flock(k)
       /\ flight' = [flight EXCEPT ![call[k].node] = None]
       /\ \A j \in Flock(k) : j \in Calls /\ Sender[j] \in Users
  BY GroupAssumption DEF IInv, TypeOK, Flock, QueryFails, Land
<1> HIDE DEF answer
<1>1. TypeOK'
  <2>1. cache' \in (SUBSET Users) \cup {Absent}
    BY DEF IInv, TypeOK, Lookups, QueryFails
  <2> QED
    BY <1>0, <2>1 DEF IInv, TypeOK, QueryFails
<1>2. NoFalseAdmission'
  BY <1>0, <1>a, GroupAssumption DEF IInv, TypeOK, Lookups, NoFalseAdmission, SnapsGood, QueryFails, answer
<1>3. CleanStaysClean'
  BY <1>0, <1>a, GroupAssumption DEF IInv, TypeOK, CleanStaysClean, SnapsGood, QueryFails
<1>4. SnapsGood'
  BY <1>0, <1>a, GroupAssumption DEF IInv, TypeOK, Lookups, Loads, SnapsGood, AddedIsMember, QueryFails
<1>5. AddedIsMember'
  BY <1>0, <1>a, GroupAssumption DEF IInv, TypeOK, AddedIsMember, QueryFails
<1>6. OneLeader'
  <2>1. \A j \in Calls : call[j].at \in {"query", "fill"} /\ call[j].node = call[k].node => j = k
    BY <1>a DEF IInv, OneLeader
  <2>2. \A j \in Calls : j # k /\ call[j].at \in {"query", "fill"} => j \notin Flock(k)
    BY DEF Flock
  <2>3. call[k].node \in Nodes
    BY <1>a DEF IInv, TypeOK
  <2> QED
    BY <1>0, <1>a, <2>1, <2>2, <2>3, GroupAssumption DEF IInv, TypeOK, OneLeader
<1>7. CallsLed'
  <2> SUFFICES ASSUME NEW j \in Calls, call'[j].at = "wait"
               PROVE  flight'[call'[j].node] # None /\ flight'[call'[j].node] \in Loading'
    BY DEF CallsLed
  <2>1. j \notin Flock(k) /\ call'[j] = call[j] /\ call[j].at = "wait"
    BY <1>0
  <2>2. call[j].node # call[k].node /\ call[j].node \in Nodes
    BY <2>1 DEF Flock, IInv, TypeOK
  <2>3. flight'[call[j].node] = flight[call[j].node]
    BY <1>a, <2>2 DEF IInv, TypeOK
  <2>4. flight[call[j].node] # None /\ flight[call[j].node] \in Loading
    BY <2>1 DEF IInv, CallsLed
  <2>5. flight[call[j].node] \notin Flock(k)
    BY <1>a, <2>2, <2>4 DEF IInv, OneLeader, Flock, Loading
  <2> QED
    BY <1>0, <2>1, <2>3, <2>4, <2>5 DEF Loading
<1>8. OneRefresh'
  BY SameRefresh DEF IInv, QueryFails
<1> QED
  BY <1>1, <1>2, <1>3, <1>4, <1>5, <1>6, <1>7, <1>8 DEF IInv

\* Fill keeps the inductive invariant.
LEMMA FillIInv ==
  ASSUME IInv, NEW k \in Calls, Fill(k)
  PROVE  IInv'
<1> DEFINE answer == [u \in Users |-> IF u \in call[k].snap THEN "yes" ELSE "no"]
<1>0. /\ call' \in [Calls -> Lookups]
      /\ \A j \in Calls : call'[j].node = call[j].node
      /\ \A j \in Flock(k) : call'[j].at = "done" /\ call'[j].verdict = answer[Sender[j]]
      /\ \A j \in Calls \ Flock(k) : call'[j] = call[j]
      /\ flight' \in [Nodes -> Calls \cup {None}]
      /\ \A j \in Calls : call'[j].at # "idle" => call[j].at # "idle"
  <2>1. answer \in [Users -> Verdicts]
    BY DEF Verdicts
  <2>2. Land(k, answer) /\ call[k].at = "fill"
    BY DEF Fill
  <2> HIDE DEF answer
  <2> QED
    BY <2>1, <2>2, LandEffect DEF IInv
<1>a. /\ call[k].at = "fill" /\ k \in Flock(k)
       /\ flight' = [flight EXCEPT ![call[k].node] = None]
       /\ \A j \in Flock(k) : j \in Calls /\ Sender[j] \in Users
  BY GroupAssumption DEF IInv, TypeOK, Flock, Fill, Land
<1> HIDE DEF answer
<1>1. TypeOK'
  <2>1. cache' \in (SUBSET Users) \cup {Absent}
    BY DEF IInv, TypeOK, Lookups, Fill, Write
  <2> QED
    BY <1>0, <2>1 DEF IInv, TypeOK, Fill
<1>2. NoFalseAdmission'
  BY <1>0, <1>a, GroupAssumption DEF IInv, TypeOK, Lookups, NoFalseAdmission, SnapsGood, Fill, Write, answer
<1>3. CleanStaysClean'
  BY <1>0, <1>a, GroupAssumption DEF IInv, TypeOK, CleanStaysClean, SnapsGood, Fill, Write
<1>4. SnapsGood'
  BY <1>0, <1>a, GroupAssumption DEF IInv, TypeOK, Lookups, Loads, SnapsGood, AddedIsMember, Fill, Write
<1>5. AddedIsMember'
  BY <1>0, <1>a, GroupAssumption DEF IInv, TypeOK, AddedIsMember, Fill, Write
<1>6. OneLeader'
  <2>1. \A j \in Calls : call[j].at \in {"query", "fill"} /\ call[j].node = call[k].node => j = k
    BY <1>a DEF IInv, OneLeader
  <2>2. \A j \in Calls : j # k /\ call[j].at \in {"query", "fill"} => j \notin Flock(k)
    BY DEF Flock
  <2>3. call[k].node \in Nodes
    BY <1>a DEF IInv, TypeOK
  <2> QED
    BY <1>0, <1>a, <2>1, <2>2, <2>3, GroupAssumption DEF IInv, TypeOK, OneLeader
<1>7. CallsLed'
  <2> SUFFICES ASSUME NEW j \in Calls, call'[j].at = "wait"
               PROVE  flight'[call'[j].node] # None /\ flight'[call'[j].node] \in Loading'
    BY DEF CallsLed
  <2>1. j \notin Flock(k) /\ call'[j] = call[j] /\ call[j].at = "wait"
    BY <1>0
  <2>2. call[j].node # call[k].node /\ call[j].node \in Nodes
    BY <2>1 DEF Flock, IInv, TypeOK
  <2>3. flight'[call[j].node] = flight[call[j].node]
    BY <1>a, <2>2 DEF IInv, TypeOK
  <2>4. flight[call[j].node] # None /\ flight[call[j].node] \in Loading
    BY <2>1 DEF IInv, CallsLed
  <2>5. flight[call[j].node] \notin Flock(k)
    BY <1>a, <2>2, <2>4 DEF IInv, OneLeader, Flock, Loading
  <2> QED
    BY <1>0, <2>1, <2>3, <2>4, <2>5 DEF Loading
<1>8. OneRefresh'
  BY SameRefresh DEF IInv, Fill
<1> QED
  BY <1>1, <1>2, <1>3, <1>4, <1>5, <1>6, <1>7, <1>8 DEF IInv

\* Return keeps the inductive invariant.
LEMMA ReturnIInv ==
  ASSUME IInv, NEW k \in Calls, Return(k)
  PROVE  IInv'
<1>1. TypeOK'
  BY GroupAssumption DEF IInv, TypeOK, Return, Idle, Lookups
<1>2. NoFalseAdmission'
  BY GroupAssumption DEF IInv, TypeOK, Lookups, NoFalseAdmission, SnapsGood, Return, Idle
<1>3. CleanStaysClean'
  BY GroupAssumption DEF IInv, TypeOK, CleanStaysClean, SnapsGood, Return, Idle
<1>4. SnapsGood'
  BY GroupAssumption DEF IInv, TypeOK, Lookups, Loads, SnapsGood, AddedIsMember, Return, Idle
<1>5. AddedIsMember'
  BY GroupAssumption DEF IInv, TypeOK, AddedIsMember, Return, Idle
<1>6. OneLeader'
  BY GroupAssumption DEF IInv, TypeOK, Lookups, OneLeader, Return, Idle
<1>7. CallsLed'
  BY GroupAssumption DEF IInv, TypeOK, Lookups, OneLeader, CallsLed, Loading, Return, Idle
<1>8. OneRefresh'
  BY SameRefresh DEF IInv, Return
<1> QED
  BY <1>1, <1>2, <1>3, <1>4, <1>5, <1>6, <1>7, <1>8 DEF IInv

\* A refresh is no call of IsGroupMember.
LEMMA SameCalls ==
  ASSUME IInv, UNCHANGED <<call, flight>>
  PROVE  OneLeader' /\ CallsLed'
  BY DEF IInv, OneLeader, CallsLed, Loading

\* TaskMiss keeps the inductive invariant.
LEMMA TaskMissIInv ==
  ASSUME IInv, NEW c \in Claims, TaskMiss(c)
  PROVE  IInv'
<1>1. TypeOK'
  BY DEF IInv, TypeOK, TaskMiss
<1>2. NoFalseAdmission' /\ CleanStaysClean' /\ SnapsGood' /\ AddedIsMember'
  BY DEF IInv, NoFalseAdmission, CleanStaysClean, SnapsGood, AddedIsMember, TaskMiss
<1>3. OneLeader' /\ CallsLed'
  BY SameCalls DEF TaskMiss
<1>4. OneRefresh'
  BY DEF IInv, TypeOK, OneRefresh, TaskMiss
<1> QED
  BY <1>1, <1>2, <1>3, <1>4 DEF IInv

\* TaskEnter keeps the inductive invariant: a request is sent only when the
\* process waits for none.
LEMMA TaskEnterIInv ==
  ASSUME IInv, NEW c \in Claims, TaskEnter(c)
  PROVE  IInv'
<1> DEFINE t == TaskOf[c]
<1>1. /\ t \in Tasks /\ t # None
      /\ claim \in [Claims -> {"idle", "miss", "wait"}]
      /\ refresh \in [Handlers -> Loads]
  BY GroupAssumption DEF IInv, TypeOK
<1>2. /\ UNCHANGED <<members, cache, add, call, flight, clean>>
      /\ claim' = [claim EXCEPT ![c] = "wait"]
  BY DEF TaskEnter
<1>3. ASSUME Awaited(t) # {}, UNCHANGED refresh
      PROVE  IInv'
  <2>1. TypeOK'
    BY <1>1, <1>2, <1>3 DEF IInv, TypeOK
  <2>2. NoFalseAdmission' /\ CleanStaysClean' /\ SnapsGood' /\ AddedIsMember'
    BY <1>2, <1>3 DEF IInv, NoFalseAdmission, CleanStaysClean, SnapsGood, AddedIsMember
  <2>3. OneRefresh'
    BY <1>1, <1>2, <1>3 DEF IInv, OneRefresh, Awaited
  <2> QED
    BY <1>2, <2>1, <2>2, <2>3, SameCalls DEF IInv
<1>4. ASSUME Awaited(t) = {}, NEW h \in Handlers, refresh[h] = NoLoad,
             refresh' = [refresh EXCEPT ![h] = [NoLoad EXCEPT !.at = "query", !.task = t]]
      PROVE  IInv'
  <2>1. /\ refresh'[h].at = "query" /\ refresh'[h].task = t
        /\ refresh' \in [Handlers -> Loads]
        /\ \A g \in Handlers \ {h} : refresh'[g] = refresh[g]
    BY <1>1, <1>4 DEF NoLoad, Loads
  <2>2. TypeOK'
    BY <1>1, <1>2, <2>1 DEF IInv, TypeOK
  <2>3. NoFalseAdmission' /\ CleanStaysClean' /\ AddedIsMember'
    BY <1>2 DEF IInv, NoFalseAdmission, CleanStaysClean, AddedIsMember
  <2>4. SnapsGood'
    BY <1>2, <2>1 DEF IInv, SnapsGood
  <2>5. \A g \in Handlers : refresh[g].task # t
    BY <1>4 DEF Awaited
  <2>6. refresh[h].task = None
    BY <1>4 DEF NoLoad
  <2>7. OneRefresh'
    <3> USE <1>1, <1>2, <2>1, <2>5, <2>6 DEF IInv, OneRefresh
    <3>1. \A g \in Handlers : refresh'[g].task # None => refresh'[g].at \in {"query", "fill"}
      OBVIOUS
    <3>2. \A f, g \in Handlers : refresh'[f].task # None /\ refresh'[f].task = refresh'[g].task => f = g
      OBVIOUS
    <3>3. \A b \in Claims : claim'[b] = "wait" => \E g \in Handlers : refresh'[g].task = TaskOf[b]
      <4> SUFFICES ASSUME NEW b \in Claims, claim'[b] = "wait"
                   PROVE  \E g \in Handlers : refresh'[g].task = TaskOf[b]
        OBVIOUS
      <4>1. TaskOf[b] # None
        BY GroupAssumption
      <4>2. CASE b = c
        BY <4>2
      <4>3. CASE b # c
        BY <4>1, <4>3
      <4> QED
        BY <4>2, <4>3
    <3> QED
      BY <3>1, <3>2, <3>3
  <2> QED
    BY <1>2, <2>2, <2>3, <2>4, <2>7, SameCalls DEF IInv
<1> QED
  BY <1>3, <1>4 DEF TaskEnter

\* When the refresh that task t waits for is over for it, nobody of t waits.
LEMMA ReleasedEffect ==
  ASSUME TypeOK, OneRefresh, NEW h \in Handlers, NEW r \in Loads,
         refresh' = [refresh EXCEPT ![h] = r], r.task = None,
         claim' = Released(refresh[h].task)
  PROVE  /\ OneRefresh'
         /\ claim' \in [Claims -> {"idle", "miss", "wait"}]
         /\ refresh' \in [Handlers -> Loads]
         /\ refresh'[h] = r /\ \A g \in Handlers \ {h} : refresh'[g] = refresh[g]
<1>1. /\ refresh' \in [Handlers -> Loads]
      /\ refresh'[h] = r /\ \A g \in Handlers \ {h} : refresh'[g] = refresh[g]
  BY DEF TypeOK
<1>2. /\ claim' \in [Claims -> {"idle", "miss", "wait"}]
      /\ \A c \in Claims : claim'[c] = "wait" => claim[c] = "wait" /\ TaskOf[c] # refresh[h].task
  BY DEF TypeOK, Released
<1>3. \A c \in Claims : claim'[c] = "wait" => \E g \in Handlers : refresh'[g].task = TaskOf[c]
  <2> SUFFICES ASSUME NEW c \in Claims, claim'[c] = "wait"
               PROVE  \E g \in Handlers : refresh'[g].task = TaskOf[c]
    OBVIOUS
  <2>1. PICK g \in Handlers : refresh[g].task = TaskOf[c]
    BY <1>2 DEF OneRefresh
  <2>2. g # h
    BY <1>2, <2>1
  <2> QED
    BY <1>1, <2>1, <2>2
<1>4. \A g \in Handlers : refresh'[g].task # None => refresh'[g].at \in {"query", "fill"}
  BY <1>1 DEF OneRefresh
<1>5. \A f, g \in Handlers : refresh'[f].task # None /\ refresh'[f].task = refresh'[g].task => f = g
  BY <1>1 DEF OneRefresh
<1> QED
  BY <1>1, <1>2, <1>3, <1>4, <1>5 DEF OneRefresh

\* TaskTimeout keeps the inductive invariant.
LEMMA TaskTimeoutIInv ==
  ASSUME IInv, NEW t \in Tasks, TaskTimeout(t)
  PROVE  IInv'
<1>1. PICK h \in Handlers :
        /\ refresh[h].task = t
        /\ refresh' = [refresh EXCEPT ![h].task = None]
        /\ claim' = Released(t)
        /\ UNCHANGED <<members, cache, add, call, flight, clean>>
  BY DEF TaskTimeout, Awaited
<1> DEFINE r == [refresh[h] EXCEPT !.task = None]
<1>2. r \in Loads /\ r.task = None /\ r.at = refresh[h].at /\ r.snap = refresh[h].snap
  BY DEF IInv, TypeOK, Loads
<1>3. refresh' = [refresh EXCEPT ![h] = r]
  BY <1>1
<1> HIDE DEF r
<1>4. /\ OneRefresh'
      /\ claim' \in [Claims -> {"idle", "miss", "wait"}]
      /\ refresh' \in [Handlers -> Loads]
      /\ refresh'[h] = r /\ \A g \in Handlers \ {h} : refresh'[g] = refresh[g]
  BY <1>1, <1>2, <1>3, ReleasedEffect DEF IInv
<1>5. TypeOK'
  BY <1>1, <1>4 DEF IInv, TypeOK
<1>6. NoFalseAdmission' /\ CleanStaysClean' /\ AddedIsMember'
  BY <1>1 DEF IInv, NoFalseAdmission, CleanStaysClean, AddedIsMember
<1>7. SnapsGood'
  BY <1>1, <1>2, <1>4 DEF IInv, SnapsGood
<1> QED
  BY <1>1, <1>4, <1>5, <1>6, <1>7, SameCalls DEF IInv

\* RefreshQuery keeps the inductive invariant.
LEMMA RefreshQueryIInv ==
  ASSUME IInv, NEW h \in Handlers, RefreshQuery(h)
  PROVE  IInv'
<1>1. /\ refresh'[h].at = "fill" /\ refresh'[h].task = refresh[h].task /\ refresh'[h].snap = members
      /\ refresh' \in [Handlers -> Loads]
      /\ \A g \in Handlers \ {h} : refresh'[g] = refresh[g]
      /\ UNCHANGED <<members, cache, add, call, flight, claim, clean>>
  BY DEF IInv, TypeOK, Loads, RefreshQuery
<1>2. TypeOK'
  BY <1>1 DEF IInv, TypeOK
<1>3. NoFalseAdmission' /\ CleanStaysClean' /\ AddedIsMember'
  BY <1>1 DEF IInv, NoFalseAdmission, CleanStaysClean, AddedIsMember
<1>4. SnapsGood'
  BY <1>1 DEF IInv, SnapsGood, AddedIsMember
<1>5. OneRefresh'
  <2>1. \A g \in Handlers : refresh'[g].task = refresh[g].task
    BY <1>1
  <2> QED
    BY <1>1, <2>1 DEF IInv, OneRefresh
<1> QED
  BY <1>1, <1>2, <1>3, <1>4, <1>5, SameCalls DEF IInv

\* The end of a refresh, filled or failed, keeps the inductive invariant.
LEMMA RefreshEndsIInv ==
  ASSUME IInv, NEW h \in Handlers, RefreshQueryFails(h) \/ RefreshFill(h)
  PROVE  IInv'
<1>1. NoLoad \in Loads /\ NoLoad.task = None /\ NoLoad.at = "idle"
  BY DEF NoLoad, Loads
<1>2. /\ OneRefresh'
      /\ claim' \in [Claims -> {"idle", "miss", "wait"}]
      /\ refresh' \in [Handlers -> Loads]
      /\ refresh'[h] = NoLoad /\ \A g \in Handlers \ {h} : refresh'[g] = refresh[g]
  BY <1>1, ReleasedEffect DEF IInv, RefreshQueryFails, RefreshFill, RefreshEnds
<1>3. /\ UNCHANGED <<members, add, call, flight, clean>>
      /\ cache' = cache \/ (refresh[h].at = "fill" /\ cache' = refresh[h].snap)
  BY DEF RefreshQueryFails, RefreshFill, Write
<1>4. refresh[h].snap \in SUBSET Users
  BY DEF IInv, TypeOK, Loads
<1>5. TypeOK'
  BY <1>2, <1>3, <1>4 DEF IInv, TypeOK
<1>6. NoFalseAdmission' /\ CleanStaysClean' /\ AddedIsMember'
  BY <1>3 DEF IInv, NoFalseAdmission, CleanStaysClean, SnapsGood, AddedIsMember
<1>7. SnapsGood'
  BY <1>1, <1>2, <1>3 DEF IInv, SnapsGood
<1> QED
  BY <1>2, <1>3, <1>5, <1>6, <1>7, SameCalls DEF IInv

\* Expire keeps the inductive invariant.
LEMMA ExpireIInv ==
  ASSUME IInv, Expire
  PROVE  IInv'
<1>1. TypeOK'
  BY GroupAssumption DEF IInv, TypeOK, Expire
<1>2. NoFalseAdmission'
  BY GroupAssumption DEF IInv, TypeOK, Lookups, NoFalseAdmission, SnapsGood, Expire
<1>3. CleanStaysClean'
  BY GroupAssumption DEF IInv, TypeOK, CleanStaysClean, SnapsGood, Expire
<1>4. SnapsGood'
  BY GroupAssumption DEF IInv, TypeOK, Lookups, Loads, SnapsGood, AddedIsMember, Expire
<1>5. AddedIsMember'
  BY GroupAssumption DEF IInv, TypeOK, AddedIsMember, Expire
<1>6. OneLeader'
  BY GroupAssumption DEF IInv, TypeOK, Lookups, OneLeader, Expire
<1>7. CallsLed'
  BY GroupAssumption DEF IInv, TypeOK, Lookups, OneLeader, CallsLed, Loading, Expire
<1>8. OneRefresh'
  BY SameRefresh DEF IInv, Expire
<1> QED
  BY <1>1, <1>2, <1>3, <1>4, <1>5, <1>6, <1>7, <1>8 DEF IInv

\* Every step keeps the inductive invariant: one case for each action.
LEMMA NextIInv == IInv /\ [Next]_vars => IInv'
<1> SUFFICES ASSUME IInv, [Next]_vars PROVE IInv'
  OBVIOUS
<1>1. CASE CreateGroup
  BY <1>1, CreateGroupIInv
<1>2. ASSUME NEW u \in Users, AddGroup(u) \/ Deletes(u)
      PROVE  IInv'
  BY <1>2, AddGroupIInv, FirstDeleteIInv, SecondDeleteIInv DEF Deletes
<1>3. ASSUME NEW k \in Calls, NEW n \in Nodes, CheckMember(k, n) \/ CheckMemberFails(k, n)
      PROVE  IInv'
  BY <1>3, CheckMemberIInv
<1>4. ASSUME NEW k \in Calls, Answers(k)
      PROVE  IInv'
  BY <1>4, CheckExistsIInv, EnterIInv, QueryIInv, QueryFailsIInv, FillIInv DEF Answers
<1>5. ASSUME NEW c \in Claims, TaskMiss(c) \/ TaskEnter(c)
      PROVE  IInv'
  BY <1>5, TaskMissIInv, TaskEnterIInv
<1>6. ASSUME NEW t \in Tasks, TaskTimeout(t)
      PROVE  IInv'
  BY <1>6, TaskTimeoutIInv
<1>7. ASSUME NEW h \in Handlers, Refresh(h)
      PROVE  IInv'
  BY <1>7, RefreshQueryIInv, RefreshEndsIInv DEF Refresh
<1>8. CASE Expire
  BY <1>8, ExpireIInv
<1>9. ASSUME NEW k \in Calls, Return(k)
      PROVE  IInv'
  BY <1>9, ReturnIInv
<1>10. CASE UNCHANGED vars
  BY <1>10 DEF vars, IInv, TypeOK, NoFalseAdmission, CleanStaysClean, SnapsGood, AddedIsMember,
     OneLeader, CallsLed, Loading, OneRefresh
<1> QED
  BY <1>1, <1>2, <1>3, <1>4, <1>5, <1>6, <1>7, <1>8, <1>9, <1>10 DEF Next

\* The inductive invariant holds throughout.
THEOREM SpecIInv == Spec => []IInv
  BY InitIInv, NextIInv, PTL DEF Spec

\* Type correctness of the table, the cache, the calls and the flights.
THEOREM GroupCacheTypeOK == Spec => []TypeOK
<1>1. IInv => TypeOK
  BY DEF IInv
<1> QED
  BY <1>1, SpecIInv, PTL

\* IsGroupMember never admits a stranger and the cache never lists one.
THEOREM GroupCacheNoFalseAdmission == Spec => []NoFalseAdmission
<1>1. IInv => NoFalseAdmission
  BY DEF IInv
<1> QED
  BY <1>1, SpecIInv, PTL

\* A delete that no older load outlives rids the cache of its staleness.
THEOREM GroupCacheCleanStaysClean == Spec => []CleanStaysClean
<1>1. IInv => CleanStaysClean
  BY DEF IInv
<1> QED
  BY <1>1, SpecIInv, PTL

\* A waiting call always has a leader that is loading, and a waiting goroutine
\* of Task a refresh that is running.
THEOREM GroupCacheWaitersHaveLeader == Spec => []WaitersHaveLeader
<1>1. ASSUME IInv, NEW c \in Claims, claim[c] = "wait"
      PROVE  \E h \in Awaited(TaskOf[c]) : refresh[h].at \in {"query", "fill"}
  <2>1. PICK h \in Handlers : refresh[h].task = TaskOf[c]
    BY <1>1 DEF IInv, OneRefresh
  <2>2. TaskOf[c] # None
    BY GroupAssumption
  <2> QED
    BY <1>1, <2>1, <2>2 DEF IInv, OneRefresh, Awaited
<1>2. IInv => WaitersHaveLeader
  BY <1>1 DEF IInv, CallsLed, WaitersHaveLeader
<1> QED
  BY <1>2, SpecIInv, PTL

\* One load of the group for each Logic node and one for each Task process that
\* waits, for any number of calls, goroutines and refreshes given up.
THEOREM GroupCacheLoadsBounded == Spec => []LoadsBounded
<1>1. ASSUME IInv PROVE LoadsBounded
  <2> DEFINE f == [k \in Loading |-> call[k].node]
  <2>1. f \in Injection(Loading, Nodes)
    <3>1. \A k \in Loading : k \in Calls /\ call[k].node \in Nodes /\ flight[call[k].node] = k
      BY <1>1 DEF IInv, TypeOK, OneLeader, Loading
    <3>2. f \in [Loading -> Nodes]
      BY <3>1
    <3>3. \A j, k \in Loading : f[j] = f[k] => j = k
      BY <3>1
    <3> QED
      BY <3>2, <3>3 DEF Injection, IsInjective
  <2> HIDE DEF f
  <2>2. Cardinality(Loading) <= Cardinality(Nodes) /\ IsFiniteSet(Loading)
    BY <2>1, FS_Injection, GroupAssumption
  <2> DEFINE w == [h \in Refreshing |-> refresh[h].task]
  <2>3. w \in Injection(Refreshing, Tasks)
    <3>1. \A h \in Refreshing : h \in Handlers /\ refresh[h].task \in Tasks
      BY <1>1 DEF IInv, TypeOK, Loads, Refreshing
    <3>2. w \in [Refreshing -> Tasks]
      BY <3>1
    <3>3. \A g, h \in Refreshing : w[g] = w[h] => g = h
      BY <1>1 DEF IInv, OneRefresh, Refreshing
    <3> QED
      BY <3>2, <3>3 DEF Injection, IsInjective
  <2> HIDE DEF w
  <2>4. Cardinality(Refreshing) <= Cardinality(Tasks) /\ IsFiniteSet(Refreshing)
    BY <2>3, FS_Injection, GroupAssumption
  <2>5. /\ Cardinality(Loading) \in Nat /\ Cardinality(Nodes) \in Nat
        /\ Cardinality(Refreshing) \in Nat /\ Cardinality(Tasks) \in Nat
    BY <2>2, <2>4, FS_CardinalityType, GroupAssumption
  <2> QED
    BY <2>2, <2>4, <2>5 DEF LoadsBounded
<1>2. IInv => LoadsBounded
  BY <1>1
<1> QED
  BY <1>2, SpecIInv, PTL

\* A load under way denies no user whose delete was clean, neither to its
\* leader nor to the calls that joined its flight after the list was read.
THEOREM GroupCacheNoStaleDenial == Spec => NoStaleDenial
<1>1. ASSUME IInv, [Next]_vars, NEW k \in Calls, call[k].at \in {"fill", "wait"},
             call'[k].at = "done", call'[k].verdict = "no"
      PROVE  Sender[k] \notin clean
  <2>1. TypeOK /\ SnapsGood
    BY <1>1 DEF IInv
  <2>2. call'[k] # call[k]
    BY <1>1
  <2>3. ASSUME NEW j \in Calls, QueryFails(j) PROVE FALSE
    <3>1. [u \in Users |-> "error"] \in [Users -> Verdicts]
      BY DEF Verdicts
    <3>2. Land(j, [u \in Users |-> "error"]) /\ call[j].at = "query"
      BY <2>3 DEF QueryFails
    <3>3. k \in Flock(j) => call'[k].verdict = [u \in Users |-> "error"][Sender[k]]
      BY <2>1, <3>1, <3>2, LandEffect
    <3>4. k \notin Flock(j) => call'[k] = call[k]
      BY <2>1, <3>1, <3>2, LandEffect
    <3>5. Sender[k] \in Users
      BY GroupAssumption
    <3> QED
      BY <1>1, <2>2, <3>3, <3>4, <3>5
  <2>4. ASSUME NEW j \in Calls, Fill(j) PROVE Sender[k] \notin clean
    <3> DEFINE answer == [u \in Users |-> IF u \in call[j].snap THEN "yes" ELSE "no"]
    <3>1. answer \in [Users -> Verdicts]
      BY DEF Verdicts
    <3>2. Land(j, answer) /\ call[j].at = "fill"
      BY <2>4 DEF Fill
    <3>3. Sender[k] \in Users
      BY GroupAssumption
    <3>4. Sender[k] \in call[j].snap => answer[Sender[k]] = "yes"
      BY <3>3
    <3> HIDE DEF answer
    <3>5. call'[k].verdict = answer[Sender[k]]
      BY <2>1, <2>2, <3>1, <3>2, LandEffect
    <3>6. clean \subseteq call[j].snap
      BY <2>1, <3>2 DEF SnapsGood
    <3> QED
      BY <1>1, <3>4, <3>5, <3>6
  <2>5. ASSUME NEW j \in Calls, NEW n \in Nodes, CheckMember(j, n) \/ CheckMemberFails(j, n) PROVE FALSE
    <3>1. j # k
      BY <1>1, <2>5 DEF CheckMember, CheckMemberFails, Idle
    <3> QED
      BY <2>1, <2>2, <2>5, <3>1 DEF CheckMember, CheckMemberFails, TypeOK
  <2>6. ASSUME NEW j \in Calls, CheckExists(j) \/ CheckExistsFails(j) \/ Query(j) \/ Return(j) PROVE FALSE
    <3>1. j # k
      BY <1>1, <2>1, <2>6 DEF CheckExists, CheckExistsFails, Query, Return, Idle, TypeOK, Lookups
    <3> QED
      BY <2>1, <2>2, <2>6, <3>1 DEF CheckExists, CheckExistsFails, Query, Return, TypeOK
  <2>7. ASSUME NEW j \in Calls, Enter(j) PROVE FALSE
    <3>1. j # k
      BY <1>1, <2>7 DEF Enter
    <3> QED
      BY <2>1, <2>2, <2>7, <3>1 DEF Enter, TypeOK
  <2> QED
    BY <1>1, <2>2, <2>3, <2>4, <2>5, <2>6, <2>7
       DEF Next, Answers, Deletes, Refresh, vars, CreateGroup, AddGroup, FirstDelete, SecondDelete,
           TaskMiss, TaskEnter, TaskTimeout, RefreshQuery, RefreshQueryFails, RefreshFill, Expire
<1>2. IInv /\ [Next]_vars =>
        [\A k \in Calls :
           call[k].at \in {"fill", "wait"} /\ call'[k].at = "done" /\ call'[k].verdict = "no" =>
             Sender[k] \notin clean]_vars
  BY <1>1
<1> QED
  BY <1>2, SpecIInv, PTL DEF Spec, NoStaleDenial

=============================================================================
