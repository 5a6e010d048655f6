----------------------------- MODULE MCRoomClient -----------------------------
(* Model values for the instances of RoomClient. *)
EXTENDS RoomClientProperties, TLC

CONSTANTS c1, c2
=============================================================================
