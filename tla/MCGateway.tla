------------------------------ MODULE MCGateway ------------------------------
(***************************************************************************)
(* Gateway for TLC: two accounts with a login each, the first in a group   *)
(* of his own, and one session id and one name that are still free.        *)
(***************************************************************************)
EXTENDS Gateway

CONSTANTS ann, bob, cid, s1, s2, s3

MCFirstNames == <<ann, bob>>
MCFirstSessions == <<s1, s2>>

=============================================================================
