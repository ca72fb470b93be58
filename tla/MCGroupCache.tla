---------------------------- MODULE MCGroupCache ----------------------------
(***************************************************************************)
(* GroupCache for TLC: the owner and a user who joins, each with a call in *)
(* progress, and one Task process with two goroutines.                     *)
(***************************************************************************)
EXTENDS GroupCache

CONSTANTS u1, u2, k1, k2, t1

MCSender == [k \in Calls |-> IF k = k1 THEN u1 ELSE u2]
MCTaskOf == [c \in Claims |-> t1]

=============================================================================
