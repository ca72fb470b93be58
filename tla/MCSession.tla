----------------------------- MODULE MCSession -----------------------------
(***************************************************************************)
(* Session for TLC: two users, three session ids (so that one user logs in *)
(* twice while the other holds a session), two or three handlers at a time.*)
(***************************************************************************)
EXTENDS Session, TLC

Symmetry ==
  Permutations(Users) \cup Permutations(Sessions) \cup Permutations(Calls)

=============================================================================
