----------------------------- MODULE MCUpdater -----------------------------
(* Three runs of the updater: one that holds the lock, one that is refused *)
(* and one that comes later, or follows a run that was killed.             *)
EXTENDS Updater, TLC

RunSymmetry == Permutations(Run)
=============================================================================
