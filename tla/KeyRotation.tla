---------------------------- MODULE KeyRotation ----------------------------
(***************************************************************************)
(* Rotation of the encryption key of a Badger drive.  The drive opens when *)
(* the key in .secret is the one KEYREGISTRY is encrypted with; a rotation *)
(* replaces both files, one after the other, and keeps the old pair in     *)
(* .key-rotation until the new one has opened the database.                *)
(*                                                                         *)
(* Rotate holds the driver's write lock, so no call runs beside it; what   *)
(* interleaves with its steps is an I/O error or the end of the process.   *)
(***************************************************************************)
EXTENDS Naturals, FiniteSets

CONSTANTS
  MasterKey,     \* encryption keys an administrator may set
  FirstKey,      \* the one the drive was created with
  DataKey        \* keys the registry holds, which encrypt the data

ASSUME KeyAssumption == FirstKey \in MasterKey

VARIABLES
  secret,     \* .secret
  registry,   \* KEYREGISTRY: the key it is encrypted with, the data keys in it
  backup,     \* .key-rotation: the saved files and the two markers
  inUse,      \* data keys that encrypt something stored
  key,        \* key of the open database (bvfs.key, bvfs.options)
  newKey,     \* argument of Rotate
  pc,         \* control point of the driver
  opening,    \* recoverRotation runs for New, not for a failed Rotate
  over,       \* history: the rotation that made the backup has committed, or
              \* the removal of the backup has begun
  mistaken    \* history: recoverRotation has restored such a backup

disk == <<secret, registry, backup, inUse>>
history == <<over, mistaken>>
vars == <<disk, key, newKey, pc, opening, history>>

(* A file that may be missing is a set of at most one element. *)
NoBackup == [here |-> FALSE, secret |-> {}, registry |-> {}, ready |-> FALSE, committed |-> FALSE]
EmptyBackup == [NoBackup EXCEPT !.here = TRUE]

Init ==
  /\ secret = FirstKey
  /\ registry = [master |-> FirstKey, keys |-> {}]
  /\ backup = NoBackup
  /\ inUse = {}
  /\ key = FirstKey /\ newKey = FirstKey
  /\ pc = "closed" /\ opening = FALSE
  /\ over = FALSE /\ mistaken = FALSE

Goto(label) == pc' = label /\ UNCHANGED <<key, newKey, opening>>
-----------------------------------------------------------------------------
(* External: Badger draws a data key when it writes and the last is too old. *)
Write(d) ==
  /\ pc = "open"
  /\ registry' = [registry EXCEPT !.keys = @ \cup {d}]
  /\ inUse' = inUse \cup {d}
  /\ UNCHANGED <<secret, backup, key, newKey, pc, opening, history>>

(* External: badger.Open needs the key of the registry. *)
CanOpen(k) == registry.master = k
-----------------------------------------------------------------------------
(* Rotate: an error before the commit leads to the rollback of the deferred *)
(* function, at "unmark".  An error of Close, before everything, leaves the *)
(* files as they are; DriveLifecycle follows what it does to the handle.    *)
(* (MkdirReady, SkipSecret and other variants that stand before the         *)
(* operator they vary are wrong on purpose: the runs detect them.)          *)

Rotate(k) ==
  /\ pc = "open" /\ k # key
  /\ newKey' = k /\ pc' = "mkdir" /\ opening' = FALSE
  /\ UNCHANGED <<disk, key, history>>

(* prepareRotation. *)
MkdirReady ==
  /\ pc = "mkdir"
  /\ ~backup.here /\ Goto("saveSecret") /\ backup' = [EmptyBackup EXCEPT !.ready = TRUE]
  /\ over' = FALSE
  /\ UNCHANGED <<secret, registry, inUse, mistaken>>
MkdirBackup ==
  /\ pc = "mkdir"
  /\ \/ ~backup.here /\ Goto("saveSecret") /\ backup' = EmptyBackup /\ over' = FALSE
     \/ Goto("unmark") /\ UNCHANGED <<backup, over>>
  /\ UNCHANGED <<secret, registry, inUse, mistaken>>

(* atomicSecret either replaces the file or not, and may fail either way.   *)
(* Where a step is done, the next one follows.                              *)
Outcome(next, effect, none) ==
  \/ effect /\ (Goto(next) \/ Goto("unmark"))
  \/ none /\ Goto("unmark")

SaveSecret ==
  /\ pc = "saveSecret"
  /\ Outcome("saveRegistry", backup' = [backup EXCEPT !.secret = {secret}], UNCHANGED backup)
  /\ UNCHANGED <<secret, registry, inUse, history>>

SaveRegistry ==
  /\ pc = "saveRegistry"
  /\ Outcome("saveReady", backup' = [backup EXCEPT !.registry = {registry}], UNCHANGED backup)
  /\ UNCHANGED <<secret, registry, inUse, history>>

SaveReady ==
  /\ pc = "saveReady"
  /\ Outcome("writeRegistry", backup' = [backup EXCEPT !.ready = TRUE], UNCHANGED backup)
  /\ UNCHANGED <<secret, registry, inUse, history>>

(* WriteKeyRegistry encrypts the registry anew, then .secret follows. *)
WriteRegistry ==
  /\ pc = "writeRegistry"
  /\ Outcome("writeSecret", registry' = [registry EXCEPT !.master = newKey], UNCHANGED registry)
  /\ UNCHANGED <<secret, backup, inUse, history>>

SkipSecret == pc = "writeSecret" /\ Goto("reopen") /\ UNCHANGED <<disk, history>>
WriteSecret ==
  /\ pc = "writeSecret"
  /\ Outcome("reopen", secret' = newKey, UNCHANGED secret)
  /\ UNCHANGED <<registry, backup, inUse, history>>

ReopenNew ==
  /\ pc = "reopen"
  /\ (CanOpen(newKey) /\ Goto("mark")) \/ Goto("unmark")
  /\ UNCHANGED <<disk, history>>

(* The marker commits; the database in memory is then the new one. *)
Mark ==
  /\ pc = "mark"
  /\ \/ /\ backup' = [backup EXCEPT !.committed = TRUE] /\ over' = TRUE
        /\ key' = newKey /\ pc' = "purge" /\ UNCHANGED <<newKey, opening>>
     \/ backup' = [backup EXCEPT !.committed = TRUE] /\ Goto("unmark") /\ UNCHANGED over
     \/ Goto("unmark") /\ UNCHANGED <<backup, over>>
  /\ UNCHANGED <<secret, registry, inUse, mistaken>>

(* The deferred function takes the marker back before it rolls back, also   *)
(* one in a backup that an earlier rotation left, where Mkdir failed.       *)
Unmark ==
  /\ pc = "unmark"
  /\ \/ backup' = [backup EXCEPT !.committed = FALSE] /\ Goto("recover")
     \/ Goto("down") /\ UNCHANGED backup
  /\ UNCHANGED <<secret, registry, inUse, history>>
-----------------------------------------------------------------------------
(* recoverRotation: without a backup directory nothing is done; a committed *)
(* or an unfinished backup is removed; another one restores the old pair.   *)

Undone == IF opening THEN "start" ELSE "reopenOld"
GiveUp == IF opening THEN "closed" ELSE "down"

RestoreAlways ==
  /\ pc = "recover"
  /\ Goto(IF backup.here THEN "restoreSecret" ELSE Undone)
  /\ UNCHANGED <<disk, history>>
Recover ==
  /\ pc = "recover"
  /\ Goto(IF ~backup.here THEN Undone
          ELSE IF backup.committed THEN "purge"
          ELSE IF backup.ready THEN "restoreSecret" ELSE "discard")
  /\ mistaken' = (mistaken \/ (over /\ backup.ready /\ ~backup.committed))
  /\ UNCHANGED <<disk, over>>

RestoreSecret ==
  /\ pc = "restoreSecret"
  /\ \/ \E k \in backup.secret : secret' = k /\ (Goto("restoreRegistry") \/ Goto(GiveUp))
     \/ UNCHANGED secret /\ Goto(GiveUp)
  /\ UNCHANGED <<registry, backup, inUse, history>>

RestoreRegistry ==
  /\ pc = "restoreRegistry"
  /\ \/ \E r \in backup.registry : registry' = r /\ (Goto("purge") \/ Goto(GiveUp))
     \/ UNCHANGED registry /\ Goto(GiveUp)
  /\ UNCHANGED <<secret, backup, inUse, history>>

(* RemoveAll of the backup directory, entry by entry in any order, then     *)
(* where the call goes on: Rotate that committed returns.  A backup that    *)
(* was never ready is discarded the same way.                               *)
Rotated == ~opening /\ key = newKey
Purging == pc \in {"purge", "purging", "discard"}
Purge ==
  /\ Purging
  /\ backup' \in {[backup EXCEPT !.secret = {}], [backup EXCEPT !.registry = {}],
                  [backup EXCEPT !.ready = FALSE], [backup EXCEPT !.committed = FALSE]} \ {backup}
  /\ Goto(IF pc = "discard" THEN "discard" ELSE "purging")
  /\ over' = TRUE
  /\ UNCHANGED <<secret, registry, inUse, mistaken>>

Purged ==
  /\ Purging /\ backup = EmptyBackup
  /\ backup' = NoBackup
  /\ Goto(IF Rotated THEN "open" ELSE Undone)
  /\ UNCHANGED <<secret, registry, inUse, history>>

(* RemoveAll fails, with some or none of the entries removed.  A rotation   *)
(* that committed stays, with the backup, and returns the error.            *)
PurgeFails ==
  /\ Purging
  /\ Goto(IF Rotated THEN "open" ELSE GiveUp)
  /\ UNCHANGED <<disk, history>>

(* The database comes back with the options it had. *)
ReopenOld ==
  /\ pc = "reopenOld"
  /\ (CanOpen(key) /\ Goto("open")) \/ Goto("down")
  /\ UNCHANGED <<disk, history>>
-----------------------------------------------------------------------------
(* New reads .secret and opens the database with it. *)

New ==
  /\ pc = "closed"
  /\ pc' = "recover" /\ opening' = TRUE
  /\ UNCHANGED <<disk, key, newKey, history>>

Start ==
  /\ pc = "start"
  /\ IF CanOpen(secret)
       THEN pc' = "open" /\ key' = secret /\ newKey' = secret
       ELSE pc' = "closed" /\ UNCHANGED <<key, newKey>>
  /\ opening' = FALSE
  /\ UNCHANGED <<disk, history>>

(* The process ends, at any point, or the drive is closed. *)
Stop ==
  /\ pc # "closed"
  /\ pc' = "closed" /\ opening' = FALSE
  /\ UNCHANGED <<disk, key, newKey, history>>

Next ==
  \/ \E d \in DataKey : Write(d)
  \/ \E k \in MasterKey : Rotate(k)
  \/ MkdirBackup \/ SaveSecret \/ SaveRegistry \/ SaveReady
  \/ WriteRegistry \/ WriteSecret \/ ReopenNew \/ Mark \/ Unmark
  \/ Recover \/ RestoreSecret \/ RestoreRegistry \/ Purge \/ Purged \/ PurgeFails \/ ReopenOld
  \/ New \/ Start \/ Stop

Spec == Init /\ [][Next]_vars
-----------------------------------------------------------------------------
(* Properties. *)

Registry == [master: MasterKey, keys: SUBSET DataKey]
Backup == [here: BOOLEAN, secret: SUBSET MasterKey, registry: SUBSET Registry,
           ready: BOOLEAN, committed: BOOLEAN]

(* Every variable keeps its shape, and the backup holds at most one of each. *)
TypeOK ==
  /\ secret \in MasterKey /\ registry \in Registry
  /\ backup \in Backup
  /\ backup.here \/ backup = NoBackup
  /\ inUse \subseteq DataKey
  /\ key \in MasterKey /\ newKey \in MasterKey
  /\ pc \in {"closed", "start", "open", "down", "mkdir", "saveSecret", "saveRegistry",
             "saveReady", "writeRegistry", "writeSecret", "reopen", "mark", "unmark",
             "recover", "restoreSecret", "restoreRegistry", "purge", "purging", "discard",
             "reopenOld"}
  /\ opening \in BOOLEAN /\ over \in BOOLEAN /\ mistaken \in BOOLEAN

(* A running drive uses the pair that is on disk, so it opens again when    *)
(* the process ends right there.                                            *)
RunningPair == TypeOK /\ (pc = "open" => secret = key /\ registry.master = key)

(* Whenever the process stopped, New finds a key that opens the registry,   *)
(* and a registry with every data key that encrypts something stored.       *)
Opens ==
  /\ pc = "start" => CanOpen(secret) /\ inUse \subseteq registry.keys
  /\ pc = "restoreSecret" => backup.secret # {} /\ backup.registry # {}

(* So it does, until recoverRotation restores the backup of a rotation that *)
(* had committed or was undone already: one whose removal was cut short     *)
(* with ready the last marker, or whose marker a later Rotate took away.    *)
DriveOpens == mistaken \/ Opens

(* The drive opens with the key of the last rotation that committed, or of  *)
(* the one under way when the process ended (key and newKey keep what they  *)
(* were), and never an older one, again until such a restoration.           *)
CommittedStays == pc = "start" => mistaken \/ secret \in {key, newKey}
=============================================================================
