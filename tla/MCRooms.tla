------------------------------ MODULE MCRooms ------------------------------
(***************************************************************************)
(* Rooms for TLC: all room ids hash to one bucket, the case in which       *)
(* commands for different rooms also contend for the lock.                 *)
(***************************************************************************)
EXTENDS Rooms

CONSTANT OneBucket

SameBucket == [r \in RoomIds |-> OneBucket]

=============================================================================
