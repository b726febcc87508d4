------------------------------ MODULE Updater ------------------------------
(***************************************************************************)
(* The self-update of the command line program, and of the server beside   *)
(* it: runs that overlap, every step of which may fail, and which may be   *)
(* killed anywhere.  The installation directory is what they share: the    *)
(* binaries, the lock directory, the downloads and the backups.            *)
(***************************************************************************)
EXTENDS Integers

CONSTANTS
  Run,         \* runs of the updater
  MaxRelease   \* releases that are published, as a bound

ASSUME UpdaterAssumption == MaxRelease \in Nat \ {0}

VARIABLES
  latest,     \* tag of the latest release
  installed,  \* version of each binary
  lock,       \* runs whose lock directory stands
  temp,       \* downloads of a run
  backup,     \* backup directories of a run
  pc,         \* control point of a run
  tag,        \* release the run installs
  targets,    \* number of binaries it replaces
  at,         \* the one its loop is at
  kept,       \* backups it leaves behind because the restore failed
  ok,         \* the run reports no error
  before      \* binaries when it took the lock (no part of the code)

directory == <<installed, lock, temp, backup>>
local == <<tag, targets, at, kept, ok, before>>
vars == <<latest, directory, pc, local>>

Cli == 1
Binary == 1..2        \* the command line program and the server
Release == 0..MaxRelease
None == -1            \* no such file
Part == -2            \* a download that is not the binary of its release
Empty == -3           \* a backup directory without a binary

Init ==
  /\ latest = 0 /\ installed = [b \in Binary |-> 0] /\ lock = {}
  /\ temp = [r \in Run |-> [b \in Binary |-> None]]
  /\ backup = [r \in Run |-> [b \in Binary |-> None]]
  /\ pc = [r \in Run |-> "idle"]
  /\ tag = [r \in Run |-> 0] /\ targets = [r \in Run |-> 1] /\ at = [r \in Run |-> 0]
  /\ kept = [r \in Run |-> {}] /\ ok = [r \in Run |-> TRUE]
  /\ before = [r \in Run |-> installed]

Goto(r, label) == pc' = [pc EXCEPT ![r] = label]
Result(r, success) == ok' = [ok EXCEPT ![r] = success]
Advance(r, n) == at' = [at EXCEPT ![r] = n]
-----------------------------------------------------------------------------
Publish ==
  /\ latest < MaxRelease /\ latest' = latest + 1
  /\ UNCHANGED <<directory, pc, local>>

(* run: the latest release, asked for before the lock is taken.  A program *)
(* that is of that release is not updated, unless the server is to be.     *)
Start(r, n) ==
  /\ pc[r] = "idle"
  /\ targets' = [targets EXCEPT ![r] = n] /\ tag' = [tag EXCEPT ![r] = latest]
  /\ Goto(r, IF installed[Cli] = latest /\ n = 1 THEN "done" ELSE "lock")
  /\ UNCHANGED <<latest, directory, at, kept, ok, before>>

(* (The wrong variants that stand before the operator they vary are        *)
(* detected by the run.)                                                   *)
LockRemovedByLoser(r) ==
  /\ pc[r] = "lock"
  /\ before' = [before EXCEPT ![r] = installed]
  /\ lock' = (IF lock = {} THEN {r} ELSE {})
  /\ Result(r, lock = {}) /\ Goto(r, IF lock = {} THEN "manifest" ELSE "done")
  /\ UNCHANGED <<latest, installed, temp, backup, tag, targets, at, kept>>
Lock(r) ==
  /\ pc[r] = "lock"
  /\ before' = [before EXCEPT ![r] = installed]
  /\ lock' = (IF lock = {} THEN {r} ELSE lock)
  /\ Result(r, lock = {}) /\ Goto(r, IF lock = {} THEN "manifest" ELSE "done")
  /\ UNCHANGED <<latest, installed, temp, backup, tag, targets, at, kept>>

Manifest(r) ==
  /\ pc[r] = "manifest"
  /\ \E success \in BOOLEAN :
       Result(r, success) /\ Goto(r, IF success THEN "stage" ELSE "unlock")
  /\ Advance(r, 1)
  /\ UNCHANGED <<latest, directory, tag, targets, kept, before>>

(* stage: a file beside the binary, and what the server sends into it.     *)
Stage(r) ==
  /\ pc[r] = "stage"
  /\ \/ /\ temp' = [temp EXCEPT ![r][at[r]] = Part] /\ Goto(r, "download")
        /\ UNCHANGED ok
     \/ UNCHANGED temp /\ Result(r, FALSE) /\ Goto(r, "removeTemps")
  /\ UNCHANGED <<latest, installed, lock, backup, tag, targets, at, kept, before>>

TrustsLength(r, content) == TRUE
ChecksumMatches(r, content) == content = tag[r]

(* A download that does not match, and any error, removes the file again;  *)
(* a cancelled context ends the run before anything is replaced.           *)
Download(r) ==
  /\ pc[r] = "download"
  /\ \E content \in {tag[r], Part}, cancelled \in BOOLEAN :
       IF ChecksumMatches(r, content)
       THEN LET last == at[r] = targets[r]
            IN  /\ temp' = [temp EXCEPT ![r][at[r]] = content]
                /\ Result(r, ~(last /\ cancelled))
                /\ Advance(r, IF last THEN 1 ELSE at[r] + 1)
                /\ Goto(r, IF ~last THEN "stage" ELSE IF cancelled THEN "removeTemps" ELSE "backup")
       ELSE /\ temp' = [temp EXCEPT ![r][at[r]] = None]
            /\ Result(r, FALSE) /\ Goto(r, "removeTemps") /\ UNCHANGED at
  /\ UNCHANGED <<latest, installed, lock, backup, tag, targets, kept, before>>
-----------------------------------------------------------------------------
(* replace: a directory with a hard link to each binary, then the renames. *)
Backup(r) ==
  /\ pc[r] = "backup"
  /\ LET last == at[r] = targets[r]
     IN  \/ /\ backup' = [backup EXCEPT ![r][at[r]] = installed[at[r]]]
            /\ Advance(r, IF last THEN 1 ELSE at[r] + 1)
            /\ Goto(r, IF last THEN "rename" ELSE "backup") /\ UNCHANGED ok
         \/ /\ \E left \in {None, Empty} : backup' = [backup EXCEPT ![r][at[r]] = left]
            /\ Result(r, FALSE) /\ Goto(r, "removeBackups") /\ UNCHANGED at
  /\ UNCHANGED <<latest, installed, lock, temp, tag, targets, kept, before>>

Rename(r) ==
  /\ pc[r] = "rename"
  /\ LET last == at[r] = targets[r]
     IN  \/ /\ installed' = [installed EXCEPT ![at[r]] = temp[r][at[r]]]
            /\ temp' = [temp EXCEPT ![r][at[r]] = None]
            /\ Advance(r, IF last THEN 1 ELSE at[r] + 1)
            /\ Goto(r, IF last THEN "removeBackups" ELSE "rename") /\ UNCHANGED ok
         \/ /\ Result(r, FALSE) /\ Goto(r, "restore") /\ Advance(r, at[r] - 1)
            /\ UNCHANGED <<installed, temp>>
  /\ UNCHANGED <<latest, lock, backup, tag, targets, kept, before>>

(* The binaries that were replaced before the one that failed, in reverse. *)
Keep(r) == kept' = [kept EXCEPT ![r] = @ \cup {at[r]}]

Restore(r) ==
  /\ pc[r] = "restore" /\ at[r] > 0
  /\ \/ /\ installed' = [installed EXCEPT ![at[r]] = backup[r][at[r]]]
        /\ backup' = [backup EXCEPT ![r][at[r]] = Empty] /\ UNCHANGED kept
     \/ Keep(r) /\ UNCHANGED <<installed, backup>>
  /\ Advance(r, at[r] - 1)
  /\ UNCHANGED <<latest, lock, temp, pc, tag, targets, ok, before>>
Restored(r) ==
  /\ pc[r] = "restore" /\ at[r] = 0
  /\ Goto(r, "removeBackups")
  /\ UNCHANGED <<latest, directory, local>>

(* The deferred functions of replace and of run. *)
RemoveBackups(r) ==
  /\ pc[r] = "removeBackups"
  /\ backup' = [backup EXCEPT ![r] = [b \in Binary |-> IF b \in kept[r] THEN @[b] ELSE None]]
  /\ Goto(r, "removeTemps")
  /\ UNCHANGED <<latest, installed, lock, temp, local>>

RemovesLast(r) == temp' = [temp EXCEPT ![r][targets[r]] = None]
RemoveStaged(r) == temp' = [temp EXCEPT ![r] = [b \in Binary |-> None]]
RemoveTemps(r) ==
  /\ pc[r] = "removeTemps"
  /\ RemoveStaged(r) /\ Goto(r, "unlock")
  /\ UNCHANGED <<latest, installed, lock, backup, local>>

Unlock(r) ==
  /\ pc[r] = "unlock"
  /\ lock' = {} /\ Goto(r, "done")
  /\ UNCHANGED <<latest, installed, temp, backup, local>>
-----------------------------------------------------------------------------
(* The run is killed; somebody removes a lock that stands with no run left. *)
Kill(r) ==
  /\ pc[r] \notin {"idle", "done", "killed"}
  /\ Goto(r, "killed")
  /\ UNCHANGED <<latest, directory, local>>
RemoveStaleLock ==
  /\ lock # {} /\ \A r \in lock : pc[r] = "killed"
  /\ lock' = {}
  /\ UNCHANGED <<latest, installed, temp, backup, pc, local>>

Step(r) ==
  \/ Lock(r) \/ Manifest(r) \/ Stage(r) \/ Download(r)
  \/ Backup(r) \/ Rename(r) \/ Restore(r) \/ Restored(r)
  \/ RemoveBackups(r) \/ RemoveTemps(r) \/ Unlock(r)

Next ==
  \/ Publish \/ RemoveStaleLock
  \/ \E r \in Run : Step(r) \/ Kill(r) \/ \E n \in Binary : Start(r, n)

Spec == Init /\ [][Next]_vars
-----------------------------------------------------------------------------
File == Release \cup {None, Part, Empty}
Replacing == {"rename", "restore"}

(* The files of the installation and the runs have their types.            *)
TypeOK ==
  /\ latest \in Release /\ installed \in [Binary -> Release] /\ lock \in SUBSET Run
  /\ temp \in [Run -> [Binary -> File]] /\ backup \in [Run -> [Binary -> File]]
  /\ pc \in [Run -> {"idle", "lock", "manifest", "stage", "download", "backup", "rename",
                     "restore", "removeBackups", "removeTemps", "unlock", "done", "killed"}]
  /\ tag \in [Run -> Release] /\ targets \in [Run -> Binary] /\ at \in [Run -> 0..2]
  /\ kept \in [Run -> SUBSET Binary] /\ ok \in [Run -> BOOLEAN]
  /\ before \in [Run -> [Binary -> Release]]

(* A run that reports success has replaced every target by the release it  *)
(* announced; one that reports an error has left each as it was, or left   *)
(* the original in a backup it says is retained; no other run gets in      *)
(* between (the lock, update.go:95-100, and replace, update.go:282-294).    *)
OutcomeTrue ==
  \A r \in Run : pc[r] \in {"removeTemps", "unlock"} =>
    \A b \in 1..targets[r] :
      IF ok[r] THEN installed[b] = tag[r]
      ELSE \/ installed[b] = before[r][b]
           \/ b \in kept[r] /\ backup[r][b] = before[r][b]

(* Wherever a run is killed, every binary is a whole one of some release,  *)
(* never a download that was cut short, and until all targets are replaced *)
(* the original of each is in its place or in the backup (stage, replace). *)
OriginalSurvives ==
  /\ TypeOK
  /\ \A r \in lock :
       pc[r] \in Replacing \cup {"killed"} /\ (\E b \in 1..targets[r] : installed[b] # tag[r])
       => \A b \in Binary : before[r][b] \in {installed[b], backup[r][b]}

(* A run that ends, with or without success, leaves no lock, no download   *)
(* and no backup but those it says it retains (the deferred functions).    *)
NothingLeft ==
  \A r \in Run : pc[r] = "done" =>
    /\ r \notin lock
    /\ \A b \in Binary : temp[r][b] = None /\ (b \notin kept[r] => backup[r][b] = None)
=============================================================================
