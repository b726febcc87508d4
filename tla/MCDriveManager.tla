--------------------------- MODULE MCDriveManager ---------------------------
(* Two users, two requests. *)
EXTENDS DriveManager
=============================================================================
