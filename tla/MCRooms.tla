------------------------------ MODULE MCRooms ------------------------------
(* Small instances of Rooms for TLC.                                       *)
EXTENDS Rooms, TLC
=============================================================================
