----------------------------- MODULE SingleLogin -----------------------------
(***************************************************************************)
(* What the session store promises to the layers that call it: every user  *)
(* has at most one login, which is granted, verified and ended in single   *)
(* atomic steps.  A session that a client holds and that is no longer the  *)
(* login of its user is dead for good.  Module Session implements this     *)
(* with two Redis keys per login, scripts that may run twice, and reads    *)
(* that are not atomic; module Gateway builds on it.                       *)
(***************************************************************************)
CONSTANTS Users, Sessions, Calls, None

VARIABLES
  owner,    \* the user for whom a session id was drawn
  login,    \* the user's one login
  issued,   \* sessions that were given to a client
  ended,    \* sessions whose logout was confirmed
  answer    \* the user and session that a call's Verify has accepted

vars == <<owner, login, issued, ended, answer>>

Nothing == [user |-> None, sid |-> None]

Init ==
  /\ owner = [s \in Sessions |-> None]
  /\ login = [u \in Users |-> None]
  /\ issued = {}
  /\ ended = {}
  /\ answer = [c \in Calls |-> Nothing]

\* The logins without session s.
Without(s) == [u \in Users |-> IF login[u] = s THEN None ELSE login[u]]

Draw(u, s) ==
  /\ owner[s] = None
  /\ owner' = [owner EXCEPT ![s] = u]
  /\ UNCHANGED <<login, issued, ended, answer>>

\* A login replaces the user's former one; a session that a client holds is
\* never granted again.
Grant(u, s) ==
  /\ owner[s] = u
  /\ s \notin issued
  /\ login' = [login EXCEPT ![u] = s]
  /\ UNCHANGED <<owner, issued, ended, answer>>

Issue(s) ==
  /\ owner[s] # None
  /\ issued' = issued \cup {s}
  /\ UNCHANGED <<owner, login, ended, answer>>

\* A session runs out, or is deleted by a logout that reports an error.
Drop(s) ==
  /\ login' = Without(s)
  /\ UNCHANGED <<owner, issued, ended, answer>>

\* A logout is confirmed: the session is over, no other login is touched.
End(s) ==
  /\ s \in issued
  /\ login' = Without(s)
  /\ ended' = ended \cup {s}
  /\ UNCHANGED <<owner, issued, answer>>

\* Verify accepts what is the user's login at this instant.
Accept(c, u, s) ==
  /\ answer[c] = Nothing
  /\ s \in issued
  /\ login[u] = s
  /\ answer' = [answer EXCEPT ![c] = [user |-> u, sid |-> s]]
  /\ UNCHANGED <<owner, login, issued, ended>>

Forget(c) ==
  /\ answer' = [answer EXCEPT ![c] = Nothing]
  /\ UNCHANGED <<owner, login, issued, ended>>

Next ==
  \/ \E u \in Users, s \in Sessions : Draw(u, s) \/ Grant(u, s)
  \/ \E s \in Sessions : Issue(s) \/ Drop(s) \/ End(s)
  \/ \E c \in Calls :
       \/ \E u \in Users, s \in Sessions : Accept(c, u, s)
       \/ Forget(c)

Spec == Init /\ [][Next]_vars

=============================================================================
