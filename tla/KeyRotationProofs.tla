------------------------- MODULE KeyRotationProofs -------------------------
(***************************************************************************)
(* A Badger drive survives an interrupted key rotation, whatever the keys  *)
(* and data keys and wherever the process ends or a removal fails: it      *)
(* opens, with the key of the rotation that committed, unless a recovery   *)
(* has taken the backup of a rotation that was over for one to undo.       *)
(*                                                                         *)
(* What the code relies on is a property of the files alone: either the    *)
(* pair in place is whole, or the backup is ready, not committed, and      *)
(* holds a whole pair (Recoverable).  Every control point refines it.      *)
(***************************************************************************)
EXTENDS KeyRotation, TLAPS

(* The files in place open the drive and decrypt what is stored. *)
Whole == secret = registry.master /\ (mistaken \/ inUse \subseteq registry.keys)

(* The backup holds such a pair, of the key in use or the key to come. *)
Saved ==
  \E s \in backup.secret, r \in backup.registry :
    mistaken \/ (s \in {key, newKey} /\ inUse \subseteq r.keys)

(* It holds at most one pair, and the key in it is that of its registry. *)
Paired ==
  /\ \A s, t \in backup.secret : s = t
  /\ \A r, q \in backup.registry : r = q
  /\ \A s \in backup.secret, r \in backup.registry : r.master = s

Recoverable ==
  /\ backup.ready /\ ~backup.committed /\ ~over => Saved
  /\ ~backup.ready \/ backup.committed \/ (over /\ ~mistaken) => Whole

Unready == ~backup.ready /\ ~backup.committed
Pending == backup.ready /\ ~backup.committed /\ IF over THEN mistaken ELSE Saved

Saving == {"saveSecret", "saveRegistry", "saveReady"}
Settled == {"open", "start", "reopenOld", "mkdir"}
Writing == {"writeRegistry", "writeSecret", "reopen", "mark"}
Restoring == {"restoreSecret", "restoreRegistry"}
Removing == {"purge", "purging", "discard"}

(* What each control point knows of the backup, *)
BackupInv ==
  /\ Paired
  /\ pc \in {"start", "reopenOld"} => backup = NoBackup
  /\ pc \in {"open", "mkdir"} => backup = NoBackup \/ over
  /\ pc \in Saving \cup Writing \cup Restoring \cup Removing => backup.here
  /\ pc \in Saving \cup {"discard"} => Unready
  /\ pc \in Saving \cup Writing => ~over
  /\ pc = "purging" \/ (pc = "purge" /\ Rotated) => over
  /\ pc = "saveSecret" => backup.secret = {} /\ backup.registry = {}
  /\ pc \in {"saveRegistry", "saveReady"} => backup.secret = {secret}
  /\ pc = "saveRegistry" => backup.registry = {}
  /\ pc = "saveReady" => backup.registry = {registry}
  /\ pc = "restoreRegistry" => backup.secret = {secret}

(* of the files in place, *)
PlaceInv ==
  /\ mistaken \/ secret \in {key, newKey}
  /\ pc \in Settled \cup Saving \cup Removing \cup {"reopen", "mark"} => Whole
  /\ pc \in {"writeRegistry", "writeSecret"} => mistaken \/ inUse \subseteq registry.keys
  /\ pc = "writeSecret" => registry.master = newKey
  /\ pc \in {"reopen", "mark"} => secret = newKey
  /\ pc = "unmark" /\ over => Whole

(* and of the two together. *)
PairInv ==
  /\ pc \in Writing \cup Restoring => Pending
  /\ pc \in {"closed", "down", "unmark", "recover", "purge"} => Recoverable
  /\ pc = "unmark" /\ backup.ready /\ ~over => Saved

FilesInv == BackupInv /\ PlaceInv /\ PairInv

(* A rotation that has not committed has two keys, one that has only one. *)
KeysInv ==
  /\ pc = "open" => secret = key
  /\ ~opening /\ pc \in Saving \cup Writing \cup Restoring \cup {"mkdir", "unmark", "recover", "discard"}
       => key # newKey
  /\ pc \in {"purge", "purging"} /\ ~opening /\ key = newKey => secret = key

Inv == TypeOK /\ FilesInv /\ KeysInv

USE DEF Saving, Settled, Writing, Restoring, Removing, Purging

(* The registry after one of its fields was written. *)
LEMMA RegistryFields ==
  /\ [master |-> FirstKey, keys |-> {}] \in Registry
  /\ \A r \in Registry :
       /\ \A k \in MasterKey : [r EXCEPT !.master = k] \in Registry
       /\ \A d \in DataKey : [r EXCEPT !.keys = @ \cup {d}] \in Registry
BY KeyAssumption DEF Registry

(* The backup directory after one entry of it was written or removed. *)
LEMMA BackupFields ==
  /\ NoBackup \in Backup /\ EmptyBackup \in Backup /\ EmptyBackup.here
  /\ \A b \in Backup :
       /\ b.secret \in SUBSET MasterKey /\ b.registry \in SUBSET Registry
       /\ \A x \in BOOLEAN : /\ [b EXCEPT !.ready = x] \in Backup
                             /\ [b EXCEPT !.ready = x].here = b.here
                             /\ [b EXCEPT !.committed = x] \in Backup
                             /\ [b EXCEPT !.committed = x].here = b.here
       /\ \A x \in SUBSET MasterKey : /\ [b EXCEPT !.secret = x] \in Backup
                                      /\ [b EXCEPT !.secret = x].here = b.here
       /\ \A x \in SUBSET Registry : /\ [b EXCEPT !.registry = x] \in Backup
                                     /\ [b EXCEPT !.registry = x].here = b.here
BY DEF NoBackup, EmptyBackup, Backup

(* The drive starts closed, with the pair it was created with. *)
LEMMA InitInv == Init => Inv
<1>1. Init => TypeOK
  BY KeyAssumption, BackupFields, RegistryFields DEF Init, TypeOK
<1>2. Init => FilesInv /\ KeysInv
  BY DEF Init, FilesInv, BackupInv, PlaceInv, PairInv, Paired, KeysInv, Recoverable, Whole, NoBackup
<1> QED  BY <1>1, <1>2 DEF Inv

(* A step keeps the types, given where the backup directory exists. *)
LEMMA TypeStep == ASSUME TypeOK, FilesInv, [Next]_vars PROVE TypeOK'
<1> USE DEF TypeOK, FilesInv, BackupInv, Goto, disk, history
<1>1. ASSUME NEW d \in DataKey, Write(d) PROVE TypeOK'
  BY <1>1, RegistryFields DEF Write
<1>2. ASSUME NEW k \in MasterKey, Rotate(k) PROVE TypeOK'
  BY <1>2 DEF Rotate
<1>3. CASE MkdirBackup  BY <1>3, BackupFields DEF MkdirBackup
<1>4. CASE SaveSecret
  <2>1. {secret} \in SUBSET MasterKey  BY DEF TypeOK
  <2>2. backup' = [backup EXCEPT !.secret = {secret}] \/ backup' = backup  BY <1>4 DEF SaveSecret, Outcome
  <2>3. backup \in Backup /\ backup.here  BY <1>4 DEF SaveSecret
  <2>4. backup' \in Backup /\ backup'.here  BY <2>1, <2>2, <2>3 DEF Backup
  <2> QED  BY <1>4, <2>4 DEF SaveSecret, Outcome
<1>5. CASE SaveRegistry
  <2>1. {registry} \in SUBSET Registry  BY DEF TypeOK
  <2>2. backup' = [backup EXCEPT !.registry = {registry}] \/ backup' = backup  BY <1>5 DEF SaveRegistry, Outcome
  <2>3. backup \in Backup /\ backup.here  BY <1>5 DEF SaveRegistry
  <2>4. backup' \in Backup /\ backup'.here  BY <2>1, <2>2, <2>3 DEF Backup
  <2> QED  BY <1>5, <2>4 DEF SaveRegistry, Outcome
<1>6. CASE SaveReady  BY <1>6, BackupFields DEF SaveReady, Outcome
<1>7. CASE WriteRegistry
  <2>1. registry' \in Registry  BY <1>7, RegistryFields DEF WriteRegistry, Outcome
  <2> QED  BY <1>7, <2>1 DEF WriteRegistry, Outcome
<1>8. CASE WriteSecret  BY <1>8, BackupFields DEF WriteSecret, Outcome
<1>9. CASE ReopenNew  BY <1>9, BackupFields DEF ReopenNew, CanOpen
<1>10. CASE Mark  BY <1>10, BackupFields DEF Mark
<1>11. CASE Unmark
  <2>1. backup' \in Backup /\ backup'.here = backup.here  BY <1>11, BackupFields DEF Unmark
  <2>2. backup = NoBackup => backup' = NoBackup  BY <1>11 DEF Unmark, NoBackup
  <2> QED  BY <1>11, <2>1, <2>2 DEF Unmark
<1>12. CASE Recover  BY <1>12, BackupFields DEF Recover, Undone
<1>13. CASE RestoreSecret
  <2>1. secret' \in MasterKey  BY <1>13, BackupFields DEF RestoreSecret
  <2> QED  BY <1>13, <2>1 DEF RestoreSecret, GiveUp
<1>14. CASE RestoreRegistry
  <2>1. registry' \in Registry  BY <1>14, BackupFields DEF RestoreRegistry
  <2> QED  BY <1>14, <2>1 DEF RestoreRegistry, GiveUp
<1>15. CASE Purge
  <2>1. \/ backup' = [backup EXCEPT !.secret = {}]
        \/ backup' = [backup EXCEPT !.registry = {}]
        \/ backup' = [backup EXCEPT !.ready = FALSE]
        \/ backup' = [backup EXCEPT !.committed = FALSE]
    BY <1>15 DEF Purge
  <2>2. {} \in SUBSET MasterKey /\ {} \in SUBSET Registry  OBVIOUS
  <2>3. \A b \in Backup :
          /\ [b EXCEPT !.secret = {}] \in Backup /\ [b EXCEPT !.secret = {}].here = b.here
          /\ [b EXCEPT !.registry = {}] \in Backup /\ [b EXCEPT !.registry = {}].here = b.here
          /\ [b EXCEPT !.ready = FALSE] \in Backup /\ [b EXCEPT !.ready = FALSE].here = b.here
          /\ [b EXCEPT !.committed = FALSE] \in Backup /\ [b EXCEPT !.committed = FALSE].here = b.here
    BY <2>2, BackupFields
  <2>4. backup' \in Backup /\ backup'.here  BY <1>15, <2>1, <2>3 DEF Purge
  <2> QED  BY <1>15, <2>4 DEF Purge
<1>16. CASE Purged  BY <1>16, BackupFields DEF Purged, Rotated, Undone
<1>17. CASE PurgeFails  BY <1>17, BackupFields DEF PurgeFails, Rotated, GiveUp
<1>18. CASE ReopenOld  BY <1>18, BackupFields DEF ReopenOld, CanOpen
<1>19. CASE New  BY <1>19, BackupFields DEF New
<1>20. CASE Start  BY <1>20, BackupFields DEF Start, CanOpen
<1>21. CASE Stop  BY <1>21, BackupFields DEF Stop
<1>22. CASE UNCHANGED vars  BY <1>22 DEF vars
<1> QED
  BY <1>1, <1>2, <1>3, <1>4, <1>5, <1>6, <1>7, <1>8, <1>9, <1>10, <1>11, <1>12,
     <1>13, <1>14, <1>15, <1>16, <1>17, <1>18, <1>19, <1>20, <1>21, <1>22 DEF Next

(* The fields of the backup after one of them was written.                 *)
Becomes(sec, reg, rdy, com) ==
  /\ backup'.here = backup.here
  /\ backup'.secret = sec /\ backup'.registry = reg
  /\ backup'.ready = rdy /\ backup'.committed = com

LEMMA Written ==
  ASSUME TypeOK
  PROVE  /\ \A x : backup' = [backup EXCEPT !.secret = x]
                    => Becomes(x, backup.registry, backup.ready, backup.committed)
         /\ \A x : backup' = [backup EXCEPT !.registry = x]
                    => Becomes(backup.secret, x, backup.ready, backup.committed)
         /\ \A x : backup' = [backup EXCEPT !.ready = x]
                    => Becomes(backup.secret, backup.registry, x, backup.committed)
         /\ \A x : backup' = [backup EXCEPT !.committed = x]
                    => Becomes(backup.secret, backup.registry, backup.ready, x)
BY DEF TypeOK, Backup, Becomes

LEMMA Empty ==
  /\ ~NoBackup.here /\ NoBackup.secret = {} /\ NoBackup.registry = {}
  /\ ~NoBackup.ready /\ ~NoBackup.committed
  /\ EmptyBackup.secret = {} /\ EmptyBackup.registry = {} /\ EmptyBackup.here
  /\ ~EmptyBackup.ready /\ ~EmptyBackup.committed
BY DEF NoBackup, EmptyBackup

(* A step keeps what every control point knows of the backup. *)
LEMMA BackupStep == ASSUME TypeOK, FilesInv, KeysInv, [Next]_vars PROVE BackupInv'
<1> USE DEF TypeOK, FilesInv, BackupInv, KeysInv, PairInv, Paired, Unready, Pending, Rotated, Goto, disk, history
<1>1. ASSUME NEW d \in DataKey, Write(d) PROVE BackupInv'
  BY <1>1 DEF Write
<1>2. ASSUME NEW k \in MasterKey, Rotate(k) PROVE BackupInv'
  BY <1>2 DEF Rotate
<1>3. CASE MkdirBackup  BY <1>3, Empty DEF MkdirBackup
<1>4. CASE SaveSecret
  <2>1. Becomes({secret}, backup.registry, backup.ready, backup.committed) \/ (backup' = backup /\ pc' = "unmark")
    BY <1>4, Written DEF SaveSecret, Outcome
  <2>2. CASE backup' = backup /\ pc' = "unmark"  BY <1>4, <2>2 DEF SaveSecret, Outcome
  <2>3. CASE Becomes({secret}, backup.registry, backup.ready, backup.committed)
    BY <1>4, <2>3 DEF SaveSecret, Outcome, Becomes
  <2> QED  BY <2>1, <2>2, <2>3
<1>5. CASE SaveRegistry
  <2>1. Becomes(backup.secret, {registry}, backup.ready, backup.committed) \/ (backup' = backup /\ pc' = "unmark")
    BY <1>5, Written DEF SaveRegistry, Outcome
  <2>2. CASE backup' = backup /\ pc' = "unmark"  BY <1>5, <2>2 DEF SaveRegistry, Outcome
  <2>3. CASE Becomes(backup.secret, {registry}, backup.ready, backup.committed)
    BY <1>5, <2>3 DEF SaveRegistry, Outcome, Becomes, PlaceInv, Whole
  <2> QED  BY <2>1, <2>2, <2>3
<1>6. CASE SaveReady
  <2>1. Becomes(backup.secret, backup.registry, TRUE, backup.committed) \/ (backup' = backup /\ pc' = "unmark")
    BY <1>6, Written DEF SaveReady, Outcome
  <2>2. CASE backup' = backup /\ pc' = "unmark"  BY <1>6, <2>2 DEF SaveReady, Outcome
  <2>3. CASE Becomes(backup.secret, backup.registry, TRUE, backup.committed)
    BY <1>6, <2>3 DEF SaveReady, Outcome, Becomes
  <2> QED  BY <2>1, <2>2, <2>3
<1>7. CASE WriteRegistry  BY <1>7 DEF WriteRegistry, Outcome
<1>8. CASE WriteSecret  BY <1>8 DEF WriteSecret, Outcome
<1>9. CASE ReopenNew  BY <1>9 DEF ReopenNew, CanOpen
<1>10. CASE Mark
  <2>1. Becomes(backup.secret, backup.registry, backup.ready, TRUE) \/ (backup' = backup /\ pc' = "unmark")
    BY <1>10, Written DEF Mark
  <2>2. CASE backup' = backup /\ pc' = "unmark"  BY <1>10, <2>2 DEF Mark
  <2>3. CASE Becomes(backup.secret, backup.registry, backup.ready, TRUE)
    BY <1>10, <2>3 DEF Mark, Becomes
  <2> QED  BY <2>1, <2>2, <2>3
<1>11. CASE Unmark
  <2>1. Becomes(backup.secret, backup.registry, backup.ready, FALSE) \/ (backup' = backup /\ pc' = "down")
    BY <1>11, Written DEF Unmark
  <2>2. CASE backup' = backup /\ pc' = "down"  BY <1>11, <2>2 DEF Unmark
  <2>3. CASE Becomes(backup.secret, backup.registry, backup.ready, FALSE)
    BY <1>11, <2>3 DEF Unmark, Becomes
  <2> QED  BY <2>1, <2>2, <2>3
<1>12. CASE Recover  BY <1>12 DEF Recover, Undone
<1>13. CASE RestoreSecret  BY <1>13 DEF RestoreSecret, GiveUp
<1>14. CASE RestoreRegistry  BY <1>14 DEF RestoreRegistry, GiveUp
<1>15. CASE Purge
  <2>1. CASE backup' = [backup EXCEPT !.secret = {}]
    <3>1. Becomes({}, backup.registry, backup.ready, backup.committed)  BY <2>1, Written
    <3> QED  BY <1>15, <3>1 DEF Purge, Becomes
  <2>2. CASE backup' = [backup EXCEPT !.registry = {}]
    <3>1. Becomes(backup.secret, {}, backup.ready, backup.committed)  BY <2>2, Written
    <3> QED  BY <1>15, <3>1 DEF Purge, Becomes
  <2>3. CASE backup' = [backup EXCEPT !.ready = FALSE]
    <3>1. Becomes(backup.secret, backup.registry, FALSE, backup.committed)  BY <2>3, Written
    <3> QED  BY <1>15, <3>1 DEF Purge, Becomes
  <2>4. CASE backup' = [backup EXCEPT !.committed = FALSE]
    <3>1. Becomes(backup.secret, backup.registry, backup.ready, FALSE)  BY <2>4, Written
    <3> QED  BY <1>15, <3>1 DEF Purge, Becomes
  <2> QED  BY <1>15, <2>1, <2>2, <2>3, <2>4 DEF Purge
<1>16. CASE Purged  BY <1>16, Empty DEF Purged, Rotated, Undone
<1>17. CASE PurgeFails  BY <1>17 DEF PurgeFails, Rotated, GiveUp
<1>18. CASE ReopenOld  BY <1>18 DEF ReopenOld, CanOpen
<1>19. CASE New  BY <1>19 DEF New
<1>20. CASE Start  BY <1>20 DEF Start, CanOpen
<1>21. CASE Stop  BY <1>21 DEF Stop
<1>22. CASE UNCHANGED vars  BY <1>22 DEF vars
<1> QED
  BY <1>1, <1>2, <1>3, <1>4, <1>5, <1>6, <1>7, <1>8, <1>9, <1>10, <1>11, <1>12,
     <1>13, <1>14, <1>15, <1>16, <1>17, <1>18, <1>19, <1>20, <1>21, <1>22 DEF Next

(* A step keeps what every control point knows of the files in place. *)
LEMMA PlaceStep == ASSUME TypeOK, FilesInv, KeysInv, [Next]_vars PROVE PlaceInv'
<1> USE DEF TypeOK, FilesInv, BackupInv, PlaceInv, PairInv, Paired, Recoverable, Pending, Saved, Whole, Goto, disk, history
<1>1. ASSUME NEW d \in DataKey, Write(d) PROVE PlaceInv'
  BY <1>1 DEF Write
<1>2. ASSUME NEW k \in MasterKey, Rotate(k) PROVE PlaceInv'
  BY <1>2 DEF Rotate, KeysInv
<1>3. CASE MkdirBackup  BY <1>3, Empty DEF MkdirBackup
<1>4. CASE SaveSecret
  <2>1. Becomes({secret}, backup.registry, backup.ready, backup.committed) \/ (backup' = backup /\ pc' = "unmark")
    BY <1>4, Written DEF SaveSecret, Outcome
  <2>2. CASE backup' = backup /\ pc' = "unmark"  BY <1>4, <2>2 DEF SaveSecret, Outcome
  <2>3. CASE Becomes({secret}, backup.registry, backup.ready, backup.committed)
    BY <1>4, <2>3 DEF SaveSecret, Outcome, Becomes
  <2> QED  BY <2>1, <2>2, <2>3
<1>5. CASE SaveRegistry
  <2>1. Becomes(backup.secret, {registry}, backup.ready, backup.committed) \/ (backup' = backup /\ pc' = "unmark")
    BY <1>5, Written DEF SaveRegistry, Outcome
  <2>2. CASE backup' = backup /\ pc' = "unmark"  BY <1>5, <2>2 DEF SaveRegistry, Outcome
  <2>3. CASE Becomes(backup.secret, {registry}, backup.ready, backup.committed)
    BY <1>5, <2>3 DEF SaveRegistry, Outcome, Becomes
  <2> QED  BY <2>1, <2>2, <2>3
<1>6. CASE SaveReady
  <2>1. Becomes(backup.secret, backup.registry, TRUE, backup.committed) \/ (backup' = backup /\ pc' = "unmark")
    BY <1>6, Written DEF SaveReady, Outcome
  <2>2. CASE backup' = backup /\ pc' = "unmark"  BY <1>6, <2>2 DEF SaveReady, Outcome
  <2>3. CASE Becomes(backup.secret, backup.registry, TRUE, backup.committed)
    BY <1>6, <2>3 DEF SaveReady, Outcome, Becomes
  <2> QED  BY <2>1, <2>2, <2>3
<1>7. CASE WriteRegistry  BY <1>7 DEF WriteRegistry, Outcome, Registry
<1>8. CASE WriteSecret  BY <1>8 DEF WriteSecret, Outcome
<1>9. CASE ReopenNew  BY <1>9 DEF ReopenNew, CanOpen
<1>10. CASE Mark
  <2>1. Becomes(backup.secret, backup.registry, backup.ready, TRUE) \/ (backup' = backup /\ pc' = "unmark")
    BY <1>10, Written DEF Mark
  <2>2. CASE backup' = backup /\ pc' = "unmark"  BY <1>10, <2>2 DEF Mark
  <2>3. CASE Becomes(backup.secret, backup.registry, backup.ready, TRUE)
    BY <1>10, <2>3 DEF Mark, Becomes
  <2> QED  BY <2>1, <2>2, <2>3
<1>11. CASE Unmark
  <2>1. Becomes(backup.secret, backup.registry, backup.ready, FALSE) \/ (backup' = backup /\ pc' = "down")
    BY <1>11, Written DEF Unmark
  <2>2. CASE backup' = backup /\ pc' = "down"  BY <1>11, <2>2 DEF Unmark
  <2>3. CASE Becomes(backup.secret, backup.registry, backup.ready, FALSE)
    BY <1>11, <2>3 DEF Unmark, Becomes
  <2> QED  BY <2>1, <2>2, <2>3
<1>12. CASE Recover  BY <1>12, Empty DEF Recover, Undone
<1>13. CASE RestoreSecret  BY <1>13 DEF RestoreSecret, GiveUp
<1>14. CASE RestoreRegistry  BY <1>14 DEF RestoreRegistry, GiveUp
<1>15. CASE Purge  BY <1>15, Written DEF Purge
<1>16. CASE Purged  BY <1>16, Empty DEF Purged, Rotated, Undone
<1>17. CASE PurgeFails  BY <1>17 DEF PurgeFails, Rotated, GiveUp
<1>18. CASE ReopenOld  BY <1>18 DEF ReopenOld, CanOpen
<1>19. CASE New  BY <1>19 DEF New
<1>20. CASE Start  BY <1>20 DEF Start, CanOpen
<1>21. CASE Stop  BY <1>21 DEF Stop
<1>22. CASE UNCHANGED vars  BY <1>22 DEF vars
<1> QED
  BY <1>1, <1>2, <1>3, <1>4, <1>5, <1>6, <1>7, <1>8, <1>9, <1>10, <1>11, <1>12,
     <1>13, <1>14, <1>15, <1>16, <1>17, <1>18, <1>19, <1>20, <1>21, <1>22 DEF Next

(* A step keeps what every control point knows of the files and the backup. *)
LEMMA PairStep == ASSUME TypeOK, FilesInv, KeysInv, [Next]_vars PROVE PairInv'
<1> USE DEF TypeOK, FilesInv, BackupInv, PlaceInv, PairInv, Recoverable, Pending, Unready, Saved, Whole, Goto, disk, history
<1>1. ASSUME NEW d \in DataKey, Write(d) PROVE PairInv'
  BY <1>1 DEF Write
<1>2. ASSUME NEW k \in MasterKey, Rotate(k) PROVE PairInv'
  BY <1>2 DEF Rotate
<1>3. CASE MkdirBackup  BY <1>3, Empty DEF MkdirBackup
<1>4. CASE SaveSecret
  <2>1. Becomes({secret}, backup.registry, backup.ready, backup.committed) \/ (backup' = backup /\ pc' = "unmark")
    BY <1>4, Written DEF SaveSecret, Outcome
  <2>2. CASE backup' = backup /\ pc' = "unmark"  BY <1>4, <2>2 DEF SaveSecret, Outcome
  <2>3. CASE Becomes({secret}, backup.registry, backup.ready, backup.committed)
    BY <1>4, <2>3 DEF SaveSecret, Outcome, Becomes
  <2> QED  BY <2>1, <2>2, <2>3
<1>5. CASE SaveRegistry
  <2>1. Becomes(backup.secret, {registry}, backup.ready, backup.committed) \/ (backup' = backup /\ pc' = "unmark")
    BY <1>5, Written DEF SaveRegistry, Outcome
  <2>2. CASE backup' = backup /\ pc' = "unmark"  BY <1>5, <2>2 DEF SaveRegistry, Outcome
  <2>3. CASE Becomes(backup.secret, {registry}, backup.ready, backup.committed)
    BY <1>5, <2>3 DEF SaveRegistry, Outcome, Becomes
  <2> QED  BY <2>1, <2>2, <2>3
<1>6. CASE SaveReady
  <2>1. Becomes(backup.secret, backup.registry, TRUE, backup.committed) \/ (backup' = backup /\ pc' = "unmark")
    BY <1>6, Written DEF SaveReady, Outcome
  <2>2. CASE backup' = backup /\ pc' = "unmark"  BY <1>6, <2>2 DEF SaveReady, Outcome
  <2>3. CASE Becomes(backup.secret, backup.registry, TRUE, backup.committed)
    BY <1>6, <2>3 DEF SaveReady, Outcome, Becomes
  <2> QED  BY <2>1, <2>2, <2>3
<1>7. CASE WriteRegistry  BY <1>7 DEF WriteRegistry, Outcome
<1>8. CASE WriteSecret  BY <1>8 DEF WriteSecret, Outcome
<1>9. CASE ReopenNew  BY <1>9 DEF ReopenNew, CanOpen
<1>10. CASE Mark
  <2>1. Becomes(backup.secret, backup.registry, backup.ready, TRUE) \/ (backup' = backup /\ pc' = "unmark")
    BY <1>10, Written DEF Mark
  <2>2. CASE backup' = backup /\ pc' = "unmark"  BY <1>10, <2>2 DEF Mark
  <2>3. CASE Becomes(backup.secret, backup.registry, backup.ready, TRUE)
    BY <1>10, <2>3 DEF Mark, Becomes
  <2> QED  BY <2>1, <2>2, <2>3
<1>11. CASE Unmark
  <2>1. Becomes(backup.secret, backup.registry, backup.ready, FALSE) \/ (backup' = backup /\ pc' = "down")
    BY <1>11, Written DEF Unmark
  <2>2. CASE backup' = backup /\ pc' = "down"  BY <1>11, <2>2 DEF Unmark
  <2>3. CASE Becomes(backup.secret, backup.registry, backup.ready, FALSE)
    BY <1>11, <2>3 DEF Unmark, Becomes
  <2> QED  BY <2>1, <2>2, <2>3
<1>12. CASE Recover  BY <1>12, Empty DEF Recover, Undone
<1>13. CASE RestoreSecret  BY <1>13 DEF RestoreSecret, GiveUp
<1>14. CASE RestoreRegistry  BY <1>14 DEF RestoreRegistry, GiveUp
<1>15. CASE Purge  BY <1>15, Written DEF Purge
<1>16. CASE Purged  BY <1>16, Empty DEF Purged, Rotated, Undone
<1>17. CASE PurgeFails  BY <1>17 DEF PurgeFails, Rotated, GiveUp
<1>18. CASE ReopenOld  BY <1>18, Empty DEF ReopenOld, CanOpen
<1>19. CASE New  BY <1>19 DEF New
<1>20. CASE Start  BY <1>20 DEF Start, CanOpen
<1>21. CASE Stop  BY <1>21, Empty DEF Stop
<1>22. CASE UNCHANGED vars  BY <1>22 DEF vars
<1> QED
  BY <1>1, <1>2, <1>3, <1>4, <1>5, <1>6, <1>7, <1>8, <1>9, <1>10, <1>11, <1>12,
     <1>13, <1>14, <1>15, <1>16, <1>17, <1>18, <1>19, <1>20, <1>21, <1>22 DEF Next

(* A step keeps what every control point knows of the two keys. *)
LEMMA KeysStep ==
  ASSUME TypeOK, FilesInv, KeysInv, [Next]_vars PROVE KeysInv'
<1> USE DEF FilesInv, BackupInv, PlaceInv, KeysInv, Whole, NoBackup, EmptyBackup, Goto, disk, history
<1>1. ASSUME NEW d \in DataKey, Write(d) PROVE KeysInv'
  BY <1>1 DEF Write
<1>2. ASSUME NEW k \in MasterKey, Rotate(k) PROVE KeysInv'
  BY <1>2 DEF Rotate
<1>3. CASE MkdirBackup  BY <1>3 DEF MkdirBackup
<1>4. CASE SaveSecret  BY <1>4 DEF SaveSecret, Outcome
<1>5. CASE SaveRegistry  BY <1>5 DEF SaveRegistry, Outcome
<1>6. CASE SaveReady  BY <1>6 DEF SaveReady, Outcome
<1>7. CASE WriteRegistry  BY <1>7 DEF WriteRegistry, Outcome
<1>8. CASE WriteSecret  BY <1>8 DEF WriteSecret, Outcome
<1>9. CASE ReopenNew  BY <1>9 DEF ReopenNew, CanOpen
<1>10. CASE Mark  BY <1>10 DEF Mark
<1>11. CASE Unmark  BY <1>11 DEF Unmark
<1>12. CASE Recover  BY <1>12, Empty DEF Recover, Undone
<1>13. CASE RestoreSecret  BY <1>13 DEF RestoreSecret, GiveUp
<1>14. CASE RestoreRegistry  BY <1>14 DEF RestoreRegistry, GiveUp
<1>15. CASE Purge  BY <1>15 DEF Purge
<1>16. CASE Purged  BY <1>16 DEF Purged, Rotated, Undone
<1>17. CASE PurgeFails  BY <1>17 DEF PurgeFails, Rotated, GiveUp
<1>18. CASE ReopenOld  BY <1>18, Empty DEF ReopenOld, CanOpen
<1>19. CASE New  BY <1>19 DEF New
<1>20. CASE Start  BY <1>20 DEF Start, CanOpen
<1>21. CASE Stop  BY <1>21, Empty DEF Stop
<1>22. CASE UNCHANGED vars  BY <1>22 DEF vars
<1> QED
  BY <1>1, <1>2, <1>3, <1>4, <1>5, <1>6, <1>7, <1>8, <1>9, <1>10, <1>11, <1>12,
     <1>13, <1>14, <1>15, <1>16, <1>17, <1>18, <1>19, <1>20, <1>21, <1>22 DEF Next

(* Every reachable state satisfies the inductive invariant. *)
LEMMA Invariant == Spec => []Inv
<1>1. Inv /\ [Next]_vars => Inv'
  BY TypeStep, BackupStep, PlaceStep, PairStep, KeysStep DEF Inv, FilesInv
<1> QED  BY InitInv, <1>1, PTL DEF Spec

(* rotation.go recoverRotation and New: wherever the process ended, the key *)
(* in .secret opens the registry that is in place, and that registry holds  *)
(* every data key in use, as long as no recovery has restored the backup of *)
(* a rotation that was over.                                                *)
THEOREM DriveAlwaysOpens == Spec => []DriveOpens
<1>1. Inv => DriveOpens
  BY DEF Inv, FilesInv, BackupInv, PlaceInv, PairInv, DriveOpens, Opens, Whole, CanOpen, Pending, Saved
<1> QED  BY Invariant, <1>1, PTL

(* rotation.go Rotate: a running drive uses the pair that is on disk, so    *)
(* that ending the process right there loses nothing.                       *)
THEOREM RunningPairOnDisk == Spec => []RunningPair
<1>1. Inv => RunningPair
  BY DEF Inv, FilesInv, PlaceInv, KeysInv, RunningPair, Whole
<1> QED  BY Invariant, <1>1, PTL

(* rotation.go recoverRotation: New opens the drive with the key of the     *)
(* last rotation that committed or of the one under way, never an older:    *)
(* the restoration of a backup whose rotation was over is the only way a    *)
(* committed key is lost, also where backups stay that could not be removed *)
(* and later rotations and restarts meet them.                              *)
THEOREM CommitIsFinal == Spec => []CommittedStays
<1>1. Inv => CommittedStays
  BY DEF Inv, FilesInv, PlaceInv, CommittedStays
<1> QED  BY Invariant, <1>1, PTL
=============================================================================
