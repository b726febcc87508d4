------------------------- MODULE MCDriveLifecycle -------------------------
(* An instance of DriveLifecycle for TLC: two requests and a keeper on one *)
(* drive.                                                                  *)
EXTENDS DriveLifecycle

CONSTANTS u1, d1, r1, r2, k1

MCDirOf == [d \in {d1} |-> u1]
=============================================================================
