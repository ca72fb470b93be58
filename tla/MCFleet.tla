------------------------------- MODULE MCFleet -------------------------------
(***************************************************************************)
(* Fleet for TLC: three processes, two of them with the same address, and  *)
(* two pushing goroutines.                                                 *)
(***************************************************************************)
EXTENDS Fleet, TLC

CONSTANTS p1, p2, p3, v1, v2, w1, w2

MCServerOf == [p \in Procs |-> IF p = p3 THEN v2 ELSE v1]

Symmetry == Permutations({p1, p2}) \cup Permutations({w1, w2})

=============================================================================
