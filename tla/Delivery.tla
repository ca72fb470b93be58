------------------------------ MODULE Delivery ------------------------------
(***************************************************************************)
(* What the push path promises of the channels of the WebSockets, without  *)
(* sessions, lookups, calls, timeouts or nodes: records are tried one      *)
(* after another, an attempt puts its record in a channel at most once and *)
(* only for those it is addressed to, and the channels keep the order of   *)
(* the records until something is given up or started again.  Module Push  *)
(* implements this.                                                        *)
(***************************************************************************)
EXTENDS Naturals, Sequences

CONSTANTS
  Conns, UserOf,
  Addressees   \* of each topic and record: the users it is for

VARIABLES
  topic,
  tries,       \* attempts made at each record
  sent,        \* what was put in each connection's channel
  late         \* something was given up, or started again

vars == <<topic, tries, sent, late>>

Init ==
  /\ topic \in DOMAIN Addressees
  /\ tries = [m \in DOMAIN Addressees[topic] |-> 0]
  /\ sent = [c \in Conns |-> <<>>]
  /\ late = FALSE

\* A first or further attempt at a record; none before it was left out.
Begin(m) ==
  /\ tries' = [tries EXCEPT ![m] = @ + 1]
  /\ \A k \in DOMAIN tries : k < m => tries[k] > 0
  /\ UNCHANGED <<topic, sent, late>>

\* Attempt t at record m, the current one or one given up, reaches c.
Deliver(c, m, t) ==
  /\ sent' = [sent EXCEPT ![c] = Append(@, [msg |-> m, try |-> t])]
  /\ UserOf[c] \in Addressees[topic][m]
  /\ \A i \in DOMAIN sent[c] :
       /\ sent[c][i] # [msg |-> m, try |-> t]
       /\ ~late => sent[c][i].msg < m
  /\ UNCHANGED <<topic, tries, late>>

GiveUp == late' = TRUE /\ UNCHANGED <<topic, tries, sent>>

Next ==
  \/ \E m \in DOMAIN tries : Begin(m)
  \/ \E c \in Conns, m \in DOMAIN tries : \E t \in 1 .. tries[m] : Deliver(c, m, t)
  \/ GiveUp

Spec == Init /\ [][Next]_vars

=============================================================================
