---------------------------- MODULE MCRoomGateway ----------------------------
(* Instances of RoomGateway for TLC. *)
EXTENDS RoomGatewayProperties, TLC

CONSTANTS h, p, k1, k2, j, c1, c2, w1, w2, public, invitation

Alike == Permutations(Worker) \cup Permutations(Code) \cup Permutations(Room)
=============================================================================
