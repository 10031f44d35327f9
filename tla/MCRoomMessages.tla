---------------------------- MODULE MCRoomMessages ----------------------------
(* RoomMessages for TLC. The two rooms differ in nothing but their name.      *)
EXTENDS RoomMessages

RoomSymmetry == Permutations(Rooms)
===============================================================================
