---------------------------- MODULE MCRoomSession ----------------------------
(* Small instances of RoomSession. *)
EXTENDS RoomSession
=============================================================================
