------------------------------ MODULE Session ------------------------------
(***************************************************************************)
(* The login state that the Logic layer keeps in Redis                     *)
(* (internal/logic/store.go, internal/logic/auth.go): two keys per login,  *)
(* sess:<session> -> user and user_sess:<user> -> session.  Login and      *)
(* Logout change both with one Lua script each; Verify reads them with two *)
(* separate GETs, and Logout reads one key before it runs its script.      *)
(*                                                                         *)
(* A gRPC handler is a call of Calls; each of its Redis or MySQL round     *)
(* trips is one action, so calls interleave between round trips.  What the *)
(* Redis client does when a reply is lost (its default retries) is part of *)
(* the model: a script may run again before the handler learns the result. *)
(***************************************************************************)
EXTENDS Naturals

CONSTANTS
  Users,      \* user ids
  Sessions,   \* session ids (uuid.New().String())
  Calls,      \* concurrent gRPC handlers
  None        \* a key that does not exist

ASSUME NoneAssumption ==
  None \notin Users /\ None \notin Sessions

VARIABLES
  sess,       \* sess:<session id>  -> user id
  userSess,   \* user_sess:<user id> -> session id
  call,       \* what each handler is doing
  owner,      \* the user whose Login drew a session id (None: not drawn yet)
  issued,     \* history: session ids a Login returned to its client
  ended       \* history: session ids a Logout reported as ended

vars == <<sess, userSess, call, owner, issued, ended>>

Stages == {"refresh", "groups", "verify", "accepted", "delete"}

Idle == [at |-> "idle", user |-> None, sid |-> None]

(***************************************************************************)
(* A session is active when Verify, reading both keys at one instant,      *)
(* would accept it.                                                        *)
(***************************************************************************)
Active(s) == sess[s] # None /\ userSess[sess[s]] = s

TypeOK ==
  /\ sess \in [Sessions -> Users \cup {None}]
  /\ userSess \in [Users -> Sessions \cup {None}]
  /\ call \in [Calls -> {Idle} \cup [at : Stages, user : Users, sid : Sessions]]
  /\ owner \in [Sessions -> Users \cup {None}]
  /\ issued \subseteq Sessions
  /\ ended \subseteq Sessions

Init ==
  /\ sess = [s \in Sessions |-> None]
  /\ userSess = [u \in Users |-> None]
  /\ call = [c \in Calls |-> Idle]
  /\ owner = [s \in Sessions |-> None]
  /\ issued = {}
  /\ ended = {}

Goto(c, at, u, s) == call' = [call EXCEPT ![c] = [at |-> at, user |-> u, sid |-> s]]
Return(c) == call' = [call EXCEPT ![c] = Idle]

-----------------------------------------------------------------------------
(***************************************************************************)
(* Login.                                                                  *)
(***************************************************************************)


\* Mutation of LoginBegin: the session id is derived from the user, not drawn.
LoginBeginReused(c, u, s) ==
  /\ call[c] = Idle
  /\ owner[s] \in {None, u}
  /\ owner' = [owner EXCEPT ![s] = u]
  /\ Goto(c, "refresh", u, s)
  /\ UNCHANGED <<sess, userSess, issued, ended>>

\* The user exists, bcrypt accepts the password, and a fresh uuid is drawn.
\* (The refusals before this point change nothing.)
LoginBegin(c, u, s) ==
  /\ call[c] = Idle
  /\ owner[s] = None
  /\ owner' = [owner EXCEPT ![s] = u]
  /\ Goto(c, "refresh", u, s)
  /\ UNCHANGED <<sess, userSess, issued, ended>>


\* Mutation of RefreshScript: the old session of the user is not deleted.
RefreshScriptKeepsOld(u, s) ==
  /\ sess' = [sess EXCEPT ![s] = u]
  /\ userSess' = [userSess EXCEPT ![u] = s]

\* The Lua script of RefreshSession: drop the old session of the user, then
\* overwrite both keys.
RefreshScript(u, s) ==
  /\ sess' = [t \in Sessions |->
                IF t = s THEN u
                ELSE IF t = userSess[u] THEN None
                ELSE sess[t]]
  /\ userSess' = [userSess EXCEPT ![u] = s]

\* The script runs.  Its reply arrives and Login goes on; or the reply is lost
\* and the Redis client sends the script again; or it gives up and Login
\* returns an error although the session has been switched.
LoginRefresh(c) ==
  /\ call[c].at = "refresh"
  /\ RefreshScript(call[c].user, call[c].sid)
  /\ \/ Goto(c, "groups", call[c].user, call[c].sid)
     \/ UNCHANGED call
     \/ Return(c)
  /\ UNCHANGED <<owner, issued, ended>>

\* Redis is unreachable: Login returns an error.
LoginRefreshFails(c) ==
  /\ call[c].at = "refresh"
  /\ Return(c)
  /\ UNCHANGED <<sess, userSess, owner, issued, ended>>

\* ListUserSmallGroups answers and Login returns the session to its client.
LoginGroups(c) ==
  /\ call[c].at = "groups"
  /\ issued' = issued \cup {call[c].sid}
  /\ Return(c)
  /\ UNCHANGED <<sess, userSess, owner, ended>>

\* ListUserSmallGroups fails: Login returns an error, the switch stays.
LoginGroupsFails(c) ==
  /\ call[c].at = "groups"
  /\ Return(c)
  /\ UNCHANGED <<sess, userSess, owner, issued, ended>>

-----------------------------------------------------------------------------
(***************************************************************************)
(* Verify (IsSessionActive), on behalf of an API handler or of ServeWS.    *)
(***************************************************************************)

\* First GET: an unknown session is refused at once, which changes nothing.
VerifyBegin(c, s) ==
  /\ call[c] = Idle
  /\ s \in issued
  /\ sess[s] # None
  /\ Goto(c, "verify", sess[s], s)
  /\ UNCHANGED <<sess, userSess, owner, issued, ended>>


\* Mutation of VerifyEnd: the user's current session is not compared.
VerifyEndUnchecked(c) ==
  /\ call[c].at = "verify"
  /\ Goto(c, "accepted", call[c].user, call[c].sid)
  /\ UNCHANGED <<sess, userSess, owner, issued, ended>>

\* Second GET: the user's current session has to be this one.
VerifyEnd(c) ==
  /\ call[c].at = "verify"
  /\ IF userSess[call[c].user] = call[c].sid
     THEN Goto(c, "accepted", call[c].user, call[c].sid)
     ELSE Return(c)
  /\ UNCHANGED <<sess, userSess, owner, issued, ended>>

\* The caller has used the answer.
VerifyReturn(c) ==
  /\ call[c].at = "accepted"
  /\ Return(c)
  /\ UNCHANGED <<sess, userSess, owner, issued, ended>>

-----------------------------------------------------------------------------
(***************************************************************************)
(* Logout (DeleteSession).                                                 *)
(***************************************************************************)


\* The GET: without the key there is nothing to do and Logout succeeds.
LogoutBegin(c, s) ==
  /\ call[c] = Idle
  /\ s \in issued
  /\ IF sess[s] = None
     THEN ended' = ended \cup {s} /\ UNCHANGED call
     ELSE Goto(c, "delete", sess[s], s) /\ UNCHANGED ended
  /\ UNCHANGED <<sess, userSess, owner, issued>>


\* Mutation of DeleteScript: the user's key is deleted whatever it names.
DeleteScriptBlind(u, s) ==
  /\ sess' = [sess EXCEPT ![s] = None]
  /\ userSess' = [userSess EXCEPT ![u] = None]

\* The Lua script of DeleteSession: delete the session, and the user's key
\* only if it still names this session.
DeleteScript(u, s) ==
  /\ sess' = [sess EXCEPT ![s] = None]
  /\ userSess' = [userSess EXCEPT ![u] = IF userSess[u] = s THEN None ELSE userSess[u]]

\* The script runs; its reply arrives, or it is lost and the script is sent
\* again, or the client gives up and Logout returns an error.
LogoutDelete(c) ==
  /\ call[c].at = "delete"
  /\ DeleteScript(call[c].user, call[c].sid)
  /\ \/ ended' = ended \cup {call[c].sid} /\ Return(c)
     \/ UNCHANGED <<ended, call>>
     \/ UNCHANGED ended /\ Return(c)
  /\ UNCHANGED <<owner, issued>>


\* Mutation of LogoutDeleteFails: the Redis error is swallowed.
LogoutDeleteFailsOk(c) ==
  /\ call[c].at = "delete"
  /\ ended' = ended \cup {call[c].sid}
  /\ Return(c)
  /\ UNCHANGED <<sess, userSess, owner, issued>>

\* Redis is unreachable: Logout returns an error.
LogoutDeleteFails(c) ==
  /\ call[c].at = "delete"
  /\ Return(c)
  /\ UNCHANGED <<sess, userSess, owner, issued, ended>>

-----------------------------------------------------------------------------
\* Both keys of a login were set by one script with one TTL, so they expire
\* together.
Expire(s) ==
  /\ sess[s] # None
  /\ sess' = [sess EXCEPT ![s] = None]
  /\ userSess' = [u \in Users |-> IF userSess[u] = s THEN None ELSE userSess[u]]
  /\ UNCHANGED <<call, owner, issued, ended>>

Next ==
  \/ \E c \in Calls :
       \/ \E u \in Users, s \in Sessions : LoginBegin(c, u, s)
       \/ LoginRefresh(c)
       \/ LoginRefreshFails(c)
       \/ LoginGroups(c)
       \/ LoginGroupsFails(c)
       \/ \E s \in Sessions : VerifyBegin(c, s)
       \/ VerifyEnd(c)
       \/ VerifyReturn(c)
       \/ \E s \in Sessions : LogoutBegin(c, s)
       \/ LogoutDelete(c)
       \/ LogoutDeleteFails(c)
  \/ \E s \in Sessions : Expire(s)

Spec == Init /\ [][Next]_vars

-----------------------------------------------------------------------------
(***************************************************************************)
(* Properties.                                                             *)
(***************************************************************************)

\* The two Redis indexes describe the same logins: a session key names a user
\* exactly when that user's key names the session.  Hence a user never has two
\* live sessions (single-device login), whatever logins, logouts, retried
\* scripts and expiries interleave (RefreshSession, DeleteSession).
DoubleIndex ==
  \A s \in Sessions, u \in Users : sess[s] = u <=> userSess[u] = s

\* IsSessionActive reads its two keys at different instants; when it accepts,
\* the session is active at the instant of the second read, and it was created
\* by a login of the very user Verify reports.
VerifySound ==
  [][\A c \in Calls :
       call[c].at # "accepted" /\ call'[c].at = "accepted"
         => /\ Active(call'[c].sid)
            /\ sess[call'[c].sid] = call'[c].user
            /\ owner[call'[c].sid] = call'[c].user]_vars

\* A session a client holds and that has stopped being active (replaced by
\* another login, logged out, expired) never becomes active again: a late or
\* repeated script of some other call cannot bring it back.
NoResurrection ==
  [][\A s \in issued : Active(s)' => Active(s)]_vars

\* A logout takes away the session it names and no other: when the user has
\* logged in elsewhere between DeleteSession's GET and its script, the new
\* login survives.
LogoutSparesOthers ==
  [][\A c \in Calls : LogoutDelete(c) =>
       \A s \in Sessions \ {call[c].sid} : Active(s) => Active(s)']_vars

\* Once Logout has answered ok the session stays dead, even when the answer
\* came from the early return (no session key) or after a repeated script.
LoggedOutStaysOut ==
  \A s \in ended : ~Active(s)

-----------------------------------------------------------------------------
(***************************************************************************)
(* The refinement.  The user keys are the logins, and a Verify has its     *)
(* answer when its second read has accepted.                               *)
(***************************************************************************)
SL == INSTANCE SingleLogin WITH
  login <- userSess,
  answer <- [c \in Calls |->
    IF call[c].at = "accepted" THEN [user |-> call[c].user, sid |-> call[c].sid]
    ELSE [user |-> None, sid |-> None]]

\* To its callers the store is a table with one login per user that changes
\* and is read atomically, although it is two indexes, repeated scripts and
\* reads at two instants (RefreshSession, IsSessionActive, DeleteSession).
ImplementsSingleLogin == SL!Spec

=============================================================================
