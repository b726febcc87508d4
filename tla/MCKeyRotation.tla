--------------------------- MODULE MCKeyRotation ---------------------------
(* TLC instance of KeyRotation. *)
EXTENDS KeyRotation, TLC

DataKeySymmetry == Permutations(DataKey)
=============================================================================
