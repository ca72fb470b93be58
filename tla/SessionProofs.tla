--------------------------- MODULE SessionProofs ---------------------------
(***************************************************************************)
(* Session's invariants and action properties, proved for every set of     *)
(* users, sessions and concurrent handlers.  The inductive invariant adds  *)
(* to DoubleIndex who owns a session id and that a Login which has not yet *)
(* returned is the only one that can still write the id it drew.           *)
(***************************************************************************)
EXTENDS Session, TLAPS

\* A Login that drew an id and has not returned.
LoggingIn(c) == call[c].at \in {"refresh", "groups"}

\* Session keys, handlers and issued ids agree with the login that drew the id.
Owned ==
  /\ \A s \in Sessions : sess[s] # None => owner[s] = sess[s]
  /\ \A c \in Calls : call[c] # Idle => owner[call[c].sid] = call[c].user
  /\ \A s \in issued : owner[s] # None

\* An id is written by one Login only, and no longer once it is issued.
OneWriter ==
  /\ \A c \in Calls : LoggingIn(c) => call[c].sid \notin issued
  /\ \A c, d \in Calls : LoggingIn(c) /\ LoggingIn(d) /\ c # d => call[c].sid # call[d].sid

\* Verify and Logout work on issued ids, and the key of an ended session is gone.
EndedGone ==
  /\ \A c \in Calls : call[c].at \in {"verify", "delete"} => call[c].sid \in issued
  /\ \A s \in ended : s \in issued /\ sess[s] = None

IInv == TypeOK /\ DoubleIndex /\ Owned /\ OneWriter /\ EndedGone

-----------------------------------------------------------------------------
LEMMA InitIInv == Init => IInv
  BY NoneAssumption
     DEF Init, IInv, TypeOK, DoubleIndex, Owned, OneWriter, EndedGone, Idle, LoggingIn

\* What the two Lua scripts and the joint expiry do to the indexes.
LEMMA RefreshIndexes ==
  ASSUME TypeOK, DoubleIndex, NEW u \in Users, NEW s \in Sessions,
         sess[s] \in {None, u}, RefreshScript(u, s)
  PROVE  /\ DoubleIndex'
         /\ sess' \in [Sessions -> Users \cup {None}]
         /\ userSess' \in [Users -> Sessions \cup {None}]
         /\ sess'[s] = u
         /\ \A t \in Sessions \ {s} : sess'[t] \in {sess[t], None}
  BY NoneAssumption DEF TypeOK, DoubleIndex, RefreshScript

LEMMA DeleteIndexes ==
  ASSUME TypeOK, DoubleIndex, NEW u \in Users, NEW s \in Sessions,
         sess[s] \in {None, u}, DeleteScript(u, s)
  PROVE  /\ DoubleIndex'
         /\ sess' \in [Sessions -> Users \cup {None}]
         /\ userSess' \in [Users -> Sessions \cup {None}]
         /\ sess'[s] = None
         /\ \A t \in Sessions \ {s} : sess'[t] = sess[t]
         /\ \A v \in Users : userSess[v] # s => userSess'[v] = userSess[v]
  BY NoneAssumption DEF TypeOK, DoubleIndex, DeleteScript

LEMMA NextIInv == IInv /\ [Next]_vars => IInv'
  <1> SUFFICES ASSUME IInv, [Next]_vars PROVE IInv'
    OBVIOUS
  <1> USE NoneAssumption
  <1> DEFINE Rest == Owned' /\ OneWriter' /\ EndedGone'
  <1>1. ASSUME NEW c \in Calls, NEW u \in Users, NEW s \in Sessions, LoginBegin(c, u, s)
        PROVE  IInv'
    <2>1. TypeOK' /\ DoubleIndex'
      BY <1>1 DEF LoginBegin, Goto, IInv, TypeOK, DoubleIndex, Stages, Idle
    <2>2. Rest
      BY <1>1 DEF LoginBegin, Goto, IInv, TypeOK, Owned, OneWriter, EndedGone, LoggingIn, Stages, Idle
    <2> QED BY <2>1, <2>2 DEF IInv
  <1>2. ASSUME NEW c \in Calls, LoginRefresh(c)
        PROVE  IInv'
    <2> DEFINE u == call[c].user
               s == call[c].sid
    <2>1. u \in Users /\ s \in Sessions /\ call[c] # Idle /\ owner[s] = u /\ LoggingIn(c)
      BY <1>2 DEF LoginRefresh, IInv, TypeOK, Owned, LoggingIn, Idle
    <2>2. sess[s] \in {None, u} /\ RefreshScript(u, s)
      BY <1>2, <2>1 DEF LoginRefresh, IInv, Owned
    <2>3. /\ DoubleIndex'
          /\ sess' \in [Sessions -> Users \cup {None}]
          /\ userSess' \in [Users -> Sessions \cup {None}]
          /\ sess'[s] = u
          /\ \A t \in Sessions \ {s} : sess'[t] \in {sess[t], None}
      BY <2>1, <2>2, RefreshIndexes DEF IInv
    <2>4. TypeOK'
      BY <1>2, <2>1, <2>3 DEF LoginRefresh, Goto, Return, IInv, TypeOK, Stages
    <2>5. \/ call' = [call EXCEPT ![c] = [at |-> "groups", user |-> u, sid |-> s]]
          \/ call' = call
          \/ call' = [call EXCEPT ![c] = Idle]
      BY <1>2 DEF LoginRefresh, Goto, Return
    <2>6. UNCHANGED <<owner, issued, ended>>
      BY <1>2 DEF LoginRefresh
    <2>7. Rest
      BY <2>1, <2>3, <2>5, <2>6 DEF IInv, TypeOK, Owned, OneWriter, EndedGone, LoggingIn, Idle
    <2> QED BY <2>3, <2>4, <2>7 DEF IInv
  <1>3. ASSUME NEW c \in Calls,
               \/ LoginRefreshFails(c) \/ LoginGroupsFails(c)
               \/ VerifyReturn(c) \/ LogoutDeleteFails(c)
        PROVE  IInv'
    BY <1>3 DEF LoginRefreshFails, LoginGroupsFails, VerifyReturn, LogoutDeleteFails, Return,
                IInv, TypeOK, DoubleIndex, Owned, OneWriter, EndedGone, LoggingIn, Stages, Idle
  <1>4. ASSUME NEW c \in Calls, LoginGroups(c)
        PROVE  IInv'
    BY <1>4 DEF LoginGroups, Return, IInv, TypeOK, DoubleIndex, Owned, OneWriter, EndedGone,
                LoggingIn, Stages, Idle
  <1>5. ASSUME NEW c \in Calls, NEW s \in Sessions, VerifyBegin(c, s)
        PROVE  IInv'
    BY <1>5 DEF VerifyBegin, Goto, IInv, TypeOK, DoubleIndex, Owned, OneWriter, EndedGone,
                LoggingIn, Stages, Idle
  <1>6. ASSUME NEW c \in Calls, VerifyEnd(c)
        PROVE  IInv'
    BY <1>6 DEF VerifyEnd, Goto, Return, IInv, TypeOK, DoubleIndex, Owned, OneWriter, EndedGone,
                LoggingIn, Stages, Idle
  <1>7. ASSUME NEW c \in Calls, NEW s \in Sessions, LogoutBegin(c, s)
        PROVE  IInv'
    BY <1>7 DEF LogoutBegin, Goto, IInv, TypeOK, DoubleIndex, Owned, OneWriter, EndedGone,
                LoggingIn, Stages, Idle
  <1>8. ASSUME NEW c \in Calls, LogoutDelete(c)
        PROVE  IInv'
    <2> DEFINE u == call[c].user
               s == call[c].sid
    <2>1. u \in Users /\ s \in Sessions /\ owner[s] = u /\ s \in issued
      BY <1>8 DEF LogoutDelete, IInv, TypeOK, Owned, EndedGone, Idle
    <2>2. sess[s] \in {None, u} /\ DeleteScript(u, s)
      BY <1>8, <2>1 DEF LogoutDelete, IInv, Owned
    <2>3. /\ DoubleIndex'
          /\ sess' \in [Sessions -> Users \cup {None}]
          /\ userSess' \in [Users -> Sessions \cup {None}]
          /\ sess'[s] = None
          /\ \A t \in Sessions \ {s} : sess'[t] = sess[t]
      BY <2>1, <2>2, DeleteIndexes DEF IInv
    <2>4. TypeOK'
      BY <1>8, <2>1, <2>3 DEF LogoutDelete, Return, IInv, TypeOK
    <2>5. /\ call' \in {call, [call EXCEPT ![c] = Idle]}
          /\ ended' \in {ended, ended \cup {s}}
          /\ UNCHANGED <<owner, issued>>
      BY <1>8 DEF LogoutDelete, Return
    <2>6. Rest
      BY <2>1, <2>3, <2>5 DEF IInv, TypeOK, Owned, OneWriter, EndedGone, LoggingIn, Idle
    <2> QED BY <2>3, <2>4, <2>6 DEF IInv
  <1>9. ASSUME NEW s \in Sessions, Expire(s)
        PROVE  IInv'
    BY <1>9 DEF Expire, IInv, TypeOK, DoubleIndex, Owned, OneWriter, EndedGone, LoggingIn
  <1>10. CASE UNCHANGED vars
    BY <1>10 DEF vars, IInv, TypeOK, DoubleIndex, Owned, OneWriter, EndedGone, LoggingIn
  <1> QED
    BY <1>1, <1>2, <1>3, <1>4, <1>5, <1>6, <1>7, <1>8, <1>9, <1>10 DEF Next

\* The inductive invariant holds in every reachable state.
THEOREM SpecIInv == Spec => []IInv
  BY InitIInv, NextIInv, PTL DEF Spec

\* Every variable of Session keeps its type.
THEOREM SessionTypeOK == Spec => []TypeOK
  BY SpecIInv, PTL DEF IInv

\* The two Redis indexes of store.go always describe the same logins, so a
\* user has at most one session that Verify accepts.
THEOREM SessionDoubleIndex == Spec => []DoubleIndex
  BY SpecIInv, PTL DEF IInv

\* A session whose Logout answered ok is never accepted again.
THEOREM SessionLoggedOut == Spec => []LoggedOutStaysOut
  <1>1. IInv => LoggedOutStaysOut
    BY NoneAssumption DEF IInv, EndedGone, LoggedOutStaysOut, Active
  <1> QED BY <1>1, SpecIInv, PTL

\* In which states a handler becomes "accepted".
LEMMA AcceptStep ==
  ASSUME IInv, [Next]_vars, NEW c \in Calls,
         call[c].at # "accepted", call'[c].at = "accepted"
  PROVE  /\ VerifyEnd(c)
         /\ userSess[call[c].user] = call[c].sid
         /\ call'[c] = [at |-> "accepted", user |-> call[c].user, sid |-> call[c].sid]
  BY DEF IInv, TypeOK, Next, vars, Goto, Return, Idle, LoginBegin, LoginRefresh,
         LoginRefreshFails, LoginGroups, LoginGroupsFails, VerifyBegin, VerifyEnd, VerifyReturn,
         LogoutBegin, LogoutDelete, LogoutDeleteFails, Expire

\* An accepted session is active at the instant of Verify's second read and
\* belongs to the user Verify reports.
THEOREM SessionVerifySound == Spec => VerifySound
  <1>1. IInv /\ [Next]_vars =>
          [\A c \in Calls :
             call[c].at # "accepted" /\ call'[c].at = "accepted"
               => /\ Active(call'[c].sid)
                  /\ sess[call'[c].sid] = call'[c].user
                  /\ owner[call'[c].sid] = call'[c].user]_vars
    <2> SUFFICES ASSUME IInv, [Next]_vars, NEW c \in Calls,
                        call[c].at # "accepted", call'[c].at = "accepted"
                 PROVE  /\ Active(call'[c].sid)
                        /\ sess[call'[c].sid] = call'[c].user
                        /\ owner[call'[c].sid] = call'[c].user
      OBVIOUS
    <2>1. /\ VerifyEnd(c)
          /\ userSess[call[c].user] = call[c].sid
          /\ call'[c] = [at |-> "accepted", user |-> call[c].user, sid |-> call[c].sid]
      BY AcceptStep
    <2>2. call[c].user \in Users /\ call[c].sid \in Sessions /\ owner[call[c].sid] = call[c].user
      BY <2>1 DEF VerifyEnd, IInv, TypeOK, Owned, Idle
    <2>3. sess[call[c].sid] = call[c].user
      BY <2>1, <2>2 DEF IInv, DoubleIndex
    <2> QED
      BY <2>1, <2>2, <2>3, NoneAssumption DEF Active
  <1> QED
    BY <1>1, SpecIInv, PTL DEF Spec, VerifySound

\* Only a Login that has not returned can set a session key.
LEMMA IssuedKeyShrinks ==
  ASSUME IInv, [Next]_vars, NEW s \in issued
  PROVE  sess'[s] \in {sess[s], None}
  <1>1. CASE \E c \in Calls : LoginRefresh(c)
    <2> PICK c \in Calls : LoginRefresh(c)
      BY <1>1
    <2>1. LoggingIn(c) /\ call[c].sid # s
      BY DEF LoginRefresh, LoggingIn, IInv, OneWriter
    <2> QED
      BY <2>1 DEF LoginRefresh, RefreshScript, IInv, TypeOK
  <1>2. CASE \E c \in Calls : LogoutDelete(c)
    BY <1>2 DEF LogoutDelete, DeleteScript, IInv, TypeOK
  <1>3. CASE \E t \in Sessions : Expire(t)
    BY <1>3 DEF Expire, IInv, TypeOK
  <1>4. CASE UNCHANGED sess
    BY <1>4
  <1> QED
    BY <1>1, <1>2, <1>3, <1>4
       DEF Next, vars, LoginBegin, LoginRefreshFails, LoginGroups, LoginGroupsFails, VerifyBegin,
           VerifyEnd, VerifyReturn, LogoutBegin, LogoutDeleteFails

\* Once an issued session is dead it stays dead: no late or repeated script of
\* another call brings it back.
THEOREM SessionNoResurrection == Spec => NoResurrection
  <1>1. IInv /\ IInv' /\ [Next]_vars => [\A s \in issued : Active(s)' => Active(s)]_vars
    <2> SUFFICES ASSUME IInv, IInv', [Next]_vars, NEW s \in issued, Active(s)'
                 PROVE  Active(s)
      OBVIOUS
    <2>1. sess'[s] \in {sess[s], None} /\ s \in Sessions
      BY IssuedKeyShrinks DEF IInv, TypeOK
    <2>2. sess[s] # None /\ sess[s] \in Users
      BY <2>1 DEF Active, IInv, TypeOK
    <2>3. userSess[sess[s]] = s
      BY <2>1, <2>2 DEF IInv, DoubleIndex
    <2> QED
      BY <2>2, <2>3 DEF Active
  <1> QED
    BY <1>1, SpecIInv, PTL DEF Spec, NoResurrection

\* A logout's script never ends another session, in particular not the one of
\* a login that overtook the logout.
THEOREM SessionLogoutSparesOthers == Spec => LogoutSparesOthers
  <1>1. IInv /\ [Next]_vars =>
          [\A c \in Calls : LogoutDelete(c) =>
             \A s \in Sessions \ {call[c].sid} : Active(s) => Active(s)']_vars
    <2> SUFFICES ASSUME IInv, NEW c \in Calls, LogoutDelete(c),
                        NEW s \in Sessions \ {call[c].sid}, Active(s)
                 PROVE  Active(s)'
      OBVIOUS
    <2> DEFINE u == call[c].user
               t == call[c].sid
    <2>1. u \in Users /\ t \in Sessions /\ owner[t] = u
      BY DEF LogoutDelete, IInv, TypeOK, Owned, Idle
    <2>2. sess[t] \in {None, u} /\ DeleteScript(u, t)
      BY <2>1 DEF LogoutDelete, IInv, Owned
    <2>3. /\ sess'[s] = sess[s]
          /\ \A v \in Users : userSess[v] # t => userSess'[v] = userSess[v]
      BY <2>1, <2>2, DeleteIndexes DEF IInv
    <2> QED
      BY <2>3 DEF Active, IInv, TypeOK
  <1> QED
    BY <1>1, SpecIInv, PTL DEF Spec, LogoutSparesOthers

-----------------------------------------------------------------------------
(***************************************************************************)
(* The refinement: every step of Session is a step of SingleLogin or       *)
(* leaves its variables alone.                                             *)
(***************************************************************************)

LEMMA InitRefines == Init => SL!Init
  BY DEF Init, SL!Init, SL!Nothing, Idle

\* A script or an expiry takes session s away and nothing else.
LEMMA WithoutSession ==
  ASSUME IInv, NEW u \in Users, NEW s \in Sessions, owner[s] = u, DeleteScript(u, s)
  PROVE  userSess' = SL!Without(s)
  <1>1. \A v \in Users : userSess[v] = s => v = u
    BY NoneAssumption DEF IInv, TypeOK, DoubleIndex, Owned
  <1>2. \A v \in Users : userSess'[v] = IF userSess[v] = s THEN None ELSE userSess[v]
    BY <1>1 DEF IInv, TypeOK, DeleteScript
  <1>3. userSess' = [v \in Users |-> userSess'[v]]
    BY DEF IInv, TypeOK, DeleteScript
  <1> QED BY <1>2, <1>3 DEF SL!Without

\* A handler that neither was nor becomes "accepted" leaves the answers alone.
LEMMA AnswerKept ==
  ASSUME NEW c \in Calls, call \in [Calls -> {Idle} \cup [at : Stages, user : Users, sid : Sessions]],
         NEW r, call' = [call EXCEPT ![c] = r],
         call[c].at # "accepted", r.at # "accepted"
  PROVE  UNCHANGED [d \in Calls |->
           IF call[d].at = "accepted" THEN [user |-> call[d].user, sid |-> call[d].sid]
           ELSE [user |-> None, sid |-> None]]
  OBVIOUS

LEMMA AcceptIsStep ==
  ASSUME NEW c \in Calls, NEW u \in Users, NEW s \in Sessions, SL!Accept(c, u, s)
  PROVE  SL!Next
  BY DEF SL!Next

LEMMA NextRefines == IInv /\ [Next]_vars => [SL!Next]_(SL!vars)
  <1> SUFFICES ASSUME IInv, [Next]_vars PROVE [SL!Next]_(SL!vars)
    OBVIOUS
  <1> USE NoneAssumption
  <1> DEFINE ans == [d \in Calls |->
                IF call[d].at = "accepted" THEN [user |-> call[d].user, sid |-> call[d].sid]
                ELSE [user |-> None, sid |-> None]]
  <1>t. call \in [Calls -> {Idle} \cup [at : Stages, user : Users, sid : Sessions]]
    BY DEF IInv, TypeOK
  <1>1. ASSUME NEW c \in Calls, NEW u \in Users, NEW s \in Sessions, LoginBegin(c, u, s)
        PROVE  SL!Next
    <2>1. ans' = ans
      BY <1>1, <1>t, AnswerKept DEF LoginBegin, Goto, Idle
    <2>2. SL!Draw(u, s)
      BY <1>1, <2>1 DEF LoginBegin, SL!Draw
    <2> QED BY <2>2 DEF SL!Next
  <1>2. ASSUME NEW c \in Calls, LoginRefresh(c)
        PROVE  SL!Next
    <2> DEFINE u == call[c].user
               s == call[c].sid
    <2>1. u \in Users /\ s \in Sessions /\ owner[s] = u /\ s \notin issued
      BY <1>2 DEF LoginRefresh, IInv, TypeOK, Owned, OneWriter, LoggingIn, Idle
    <2>2. \/ call' = [call EXCEPT ![c] = [at |-> "groups", user |-> u, sid |-> s]]
          \/ call' = call
          \/ call' = [call EXCEPT ![c] = Idle]
      BY <1>2 DEF LoginRefresh, Goto, Return
    <2>3. ans' = ans
      BY <1>2, <2>2, <1>t, AnswerKept DEF LoginRefresh, Idle
    <2>4. SL!Grant(u, s)
      BY <1>2, <2>1, <2>3 DEF LoginRefresh, RefreshScript, SL!Grant
    <2> QED BY <2>1, <2>4 DEF SL!Next
  <1>3. ASSUME NEW c \in Calls, LoginRefreshFails(c) \/ LoginGroupsFails(c) \/ LogoutDeleteFails(c)
        PROVE  UNCHANGED SL!vars
    <2>1. ans' = ans
      BY <1>3, <1>t, AnswerKept
         DEF LoginRefreshFails, LoginGroupsFails, LogoutDeleteFails, Return, Idle
    <2> QED
      BY <1>3, <2>1 DEF LoginRefreshFails, LoginGroupsFails, LogoutDeleteFails, SL!vars
  <1>4. ASSUME NEW c \in Calls, LoginGroups(c)
        PROVE  SL!Next
    <2> DEFINE s == call[c].sid
    <2>1. s \in Sessions /\ owner[s] # None
      BY <1>4 DEF LoginGroups, IInv, TypeOK, Owned, Idle
    <2>2. ans' = ans
      BY <1>4, <1>t, AnswerKept DEF LoginGroups, Return, Idle
    <2>3. SL!Issue(s)
      BY <1>4, <2>1, <2>2 DEF LoginGroups, SL!Issue
    <2> QED BY <2>1, <2>3 DEF SL!Next
  <1>5. ASSUME NEW c \in Calls, NEW s \in Sessions, VerifyBegin(c, s)
        PROVE  UNCHANGED SL!vars
    <2>1. ans' = ans
      BY <1>5, <1>t, AnswerKept DEF VerifyBegin, Goto, Idle
    <2> QED
      BY <1>5, <2>1 DEF VerifyBegin, SL!vars
  <1>6. ASSUME NEW c \in Calls, VerifyEnd(c)
        PROVE  SL!Next \/ UNCHANGED SL!vars
    <2>1. PICK u \in Users, s \in issued : u = call[c].user /\ s = call[c].sid
      BY <1>6 DEF VerifyEnd, IInv, TypeOK, EndedGone, Idle
    <2>2. CASE userSess[u] = s
      <3>1. call' = [call EXCEPT ![c] = [at |-> "accepted", user |-> u, sid |-> s]]
        BY <1>6, <2>1, <2>2 DEF VerifyEnd, Goto
      <3>2. ans[c] = SL!Nothing /\ ans' = [ans EXCEPT ![c] = [user |-> u, sid |-> s]]
        BY <1>6, <3>1, <1>t DEF VerifyEnd, SL!Nothing
      <3>3. SL!Accept(c, u, s)
        BY <1>6, <2>1, <2>2, <3>2 DEF VerifyEnd, SL!Accept
      <3>4. s \in Sessions
        BY DEF IInv, TypeOK
      <3> QED BY <3>3, <3>4, AcceptIsStep
    <2>3. CASE userSess[u] # s
      <3>1. ans' = ans
        BY <1>6, <2>1, <2>3, <1>t, AnswerKept DEF VerifyEnd, Return, Idle
      <3> QED BY <1>6, <2>1, <3>1 DEF VerifyEnd, SL!vars
    <2> QED BY <2>2, <2>3
  <1>7. ASSUME NEW c \in Calls, VerifyReturn(c)
        PROVE  SL!Next
    <2>1. ans' = [ans EXCEPT ![c] = SL!Nothing]
      BY <1>7, <1>t DEF VerifyReturn, Return, Idle, SL!Nothing
    <2>2. SL!Forget(c)
      BY <1>7, <2>1 DEF VerifyReturn, SL!Forget
    <2> QED BY <2>2 DEF SL!Next
  <1>8. ASSUME NEW c \in Calls, NEW s \in Sessions, LogoutBegin(c, s)
        PROVE  SL!Next \/ UNCHANGED SL!vars
    <2>1. CASE sess[s] = None
      <3>1. userSess = SL!Without(s)
        BY <2>1 DEF IInv, TypeOK, DoubleIndex, SL!Without
      <3>2. SL!End(s)
        BY <1>8, <2>1, <3>1 DEF LogoutBegin, SL!End
      <3> QED BY <3>2 DEF SL!Next
    <2>2. CASE sess[s] # None
      <3>1. ans' = ans
        BY <1>8, <2>2, <1>t, AnswerKept DEF LogoutBegin, Goto, Idle
      <3> QED BY <1>8, <2>2, <3>1 DEF LogoutBegin, SL!vars
    <2> QED BY <2>1, <2>2
  <1>9. ASSUME NEW c \in Calls, LogoutDelete(c)
        PROVE  SL!Next
    <2> DEFINE u == call[c].user
               s == call[c].sid
    <2>1. u \in Users /\ s \in Sessions /\ owner[s] = u /\ s \in issued
      BY <1>9 DEF LogoutDelete, IInv, TypeOK, Owned, EndedGone, Idle
    <2>2. userSess' = SL!Without(s)
      BY <1>9, <2>1, WithoutSession DEF LogoutDelete
    <2>3. ans' = ans
      BY <1>9, <1>t, AnswerKept DEF LogoutDelete, Return, Idle
    <2>4. SL!End(s) \/ SL!Drop(s)
      BY <1>9, <2>1, <2>2, <2>3 DEF LogoutDelete, SL!End, SL!Drop
    <2> QED BY <2>1, <2>4 DEF SL!Next
  <1>10. ASSUME NEW s \in Sessions, Expire(s)
         PROVE  SL!Next
    <2>1. SL!Drop(s)
      BY <1>10 DEF Expire, SL!Drop, SL!Without
    <2> QED BY <2>1 DEF SL!Next
  <1>11. CASE UNCHANGED vars
    BY <1>11 DEF vars, SL!vars
  <1> QED
    BY <1>1, <1>2, <1>3, <1>4, <1>5, <1>6, <1>7, <1>8, <1>9, <1>10, <1>11 DEF Next

\* The two-index store with its repeated scripts and split reads implements
\* the atomic single-login table, for any users, sessions and handlers.
THEOREM SessionImplementsSingleLogin == Spec => ImplementsSingleLogin
  BY InitRefines, NextRefines, SpecIInv, PTL DEF Spec, ImplementsSingleLogin, SL!Spec

=============================================================================
