------------------------------- MODULE MCPush -------------------------------
(***************************************************************************)
(* Push for TLC: a group of three users on two nodes.  One of them may     *)
(* connect to the other node too, twice, so that a connection can be       *)
(* displaced before it is registered; the sender is offline.  A group and  *)
(* a room have one record; single chats have two, with one between them    *)
(* that does not decode.                                                   *)
(***************************************************************************)
EXTENDS Push

CONSTANTS u1, u2, u3, n1, n2, c1, c2, c3, c4

MCUserOf == [c \in Conns |-> IF c = c2 THEN u3 ELSE u2]
MCNodeOf == [c \in Conns |-> IF c = c1 THEN n1 ELSE n2]
From(a, b) == [from |-> a, to |-> b]
MCLog ==
  [t \in Topics |->
     CASE t = "single" -> <<From(u1, u2), Garbage, From(u3, u2)>>
       [] t = "group" -> <<From(u1, u1)>>
       [] t = "room" -> <<From(u1, u1)>>]

=============================================================================
