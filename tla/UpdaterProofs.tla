--------------------------- MODULE UpdaterProofs ---------------------------
(***************************************************************************)
(* However many runs of the updater overlap, whatever fails and wherever   *)
(* a run is killed: what a run reports is what it did, the originals       *)
(* survive, and a run that ends leaves nothing behind.                     *)
(*                                                                         *)
(* The lock directory makes a run that works the only one that writes.     *)
(* How far its loops are says which downloads and backups there are and    *)
(* which binaries are replaced (FilesInv); every other run has no files,   *)
(* or was killed.                                                          *)
(***************************************************************************)
EXTENDS Updater, TLAPS

Working ==
  {"manifest", "stage", "download", "backup", "rename", "restore",
   "removeBackups", "removeTemps", "unlock"}

(* A run works only while the lock is its own.                             *)
LockInv ==
  /\ \A r \in Run : pc[r] \in Working => lock = {r}
  /\ \A r \in lock : lock = {r} /\ pc[r] \in Working \cup {"killed"}

(* The downloads, the backups and the binaries below n are done.           *)
Downloaded(r, n) == \A b \in Binary : temp[r][b] = IF b < n THEN tag[r] ELSE None
Saved(r, n) == \A b \in Binary : backup[r][b] = IF b < n THEN before[r][b] ELSE None
Replaced(r, n) ==
  \A b \in Binary : installed[b] = IF b < n THEN tag[r] ELSE before[r][b]

(* The original of b is in its place, or in the backup that is retained.   *)
Original(r, b) ==
  \/ installed[b] = before[r][b]
  \/ b \in kept[r] /\ backup[r][b] = before[r][b]

Outcome(r) ==
  /\ ok[r] => \A b \in 1..targets[r] : installed[b] = tag[r]
  /\ ~ok[r] => \A b \in Binary : Original(r, b)

(* No binary is lost while not all of the targets are replaced.            *)
Survives(r) ==
  (\E b \in 1..targets[r] : installed[b] # tag[r])
    => \A b \in Binary : before[r][b] \in {installed[b], backup[r][b]}

(* What each control point knows of the files.                             *)
FilesInv(r) ==
  /\ pc[r] \in {"idle", "lock", "manifest", "stage", "download", "backup", "rename"}
       => kept[r] = {}
  /\ pc[r] \in {"idle", "lock", "manifest"} => Downloaded(r, 1)
  /\ pc[r] \in {"idle", "lock", "manifest", "stage", "download"} => Saved(r, 1)
  /\ pc[r] \in {"manifest", "stage", "download", "backup"} => Replaced(r, 1)
  /\ pc[r] \in {"stage", "download", "backup", "rename"}
       => at[r] \in 1..targets[r] /\ ok[r]
  /\ pc[r] = "stage" => Downloaded(r, at[r])
  /\ pc[r] = "download"
       => \A b \in Binary : temp[r][b] = IF b < at[r] THEN tag[r] ELSE
                                         IF b = at[r] THEN Part ELSE None
  /\ pc[r] = "backup" => Downloaded(r, targets[r] + 1) /\ Saved(r, at[r])
  /\ pc[r] = "rename"
       => /\ Replaced(r, at[r]) /\ Saved(r, targets[r] + 1)
          /\ \A b \in at[r]..targets[r] : temp[r][b] = tag[r]
  /\ pc[r] = "restore"
       => /\ ~ok[r] /\ at[r] < targets[r]
          /\ \A b \in Binary : IF b <= at[r] THEN backup[r][b] = before[r][b] /\ b \notin kept[r]
                                             ELSE Original(r, b)
  /\ pc[r] \in {"removeBackups", "removeTemps", "unlock"} => Outcome(r)
  /\ pc[r] \in {"removeTemps", "unlock", "done"}
       => \A b \in Binary : b \notin kept[r] => backup[r][b] = None
  /\ pc[r] \in {"unlock", "done"} => \A b \in Binary : temp[r][b] = None
  /\ r \in lock => Survives(r)

IInv == TypeOK /\ LockInv /\ \A r \in Run : FilesInv(r)
-----------------------------------------------------------------------------
(* Files of a run that are replaced one by one stay files.                 *)
LEMMA FileOf ==
  ASSUME NEW F \in [Run -> [Binary -> File]], NEW r \in Run, NEW b, NEW file \in File
  PROVE  [F EXCEPT ![r][b] = file] \in [Run -> [Binary -> File]]
OBVIOUS

LEMMA InitInv == Init => IInv
BY UpdaterAssumption
DEF Init, IInv, TypeOK, LockInv, FilesInv, Working, Downloaded, Saved, Survives,
    Release, Binary, File, None

(* What a step of the run that works leaves alone of the other runs.       *)
OthersStay(r) ==
  \A s \in Run \ {r} :
    /\ pc'[s] = pc[s] /\ temp'[s] = temp[s] /\ backup'[s] = backup[s]
    /\ kept'[s] = kept[s] /\ before'[s] = before[s] /\ tag'[s] = tag[s]
    /\ targets'[s] = targets[s] /\ at'[s] = at[s] /\ ok'[s] = ok[s]

(* A run that works disturbs no other: none of them works, and none has    *)
(* the lock.                                                               *)
LEMMA OthersKeep ==
  ASSUME IInv, NEW r \in Run, pc[r] \in Working, lock' \subseteq {r}, OthersStay(r)
  PROVE  \A s \in Run \ {r} : FilesInv(s)'
<1> SUFFICES ASSUME NEW s \in Run \ {r} PROVE FilesInv(s)'
  OBVIOUS
<1>1. pc[s] \notin Working /\ s \notin lock /\ s \notin lock'
  BY DEF IInv, LockInv
<1>2. FilesInv(s)
  BY DEF IInv
<1> QED
  BY <1>1, <1>2 DEF OthersStay, FilesInv, Working, Downloaded, Saved

LEMMA ManifestStep ==
  ASSUME IInv, NEW r \in Run, Manifest(r)
  PROVE  IInv'
<1> USE DEF Manifest, Goto, Result, Advance, directory, local
<1>1. TypeOK'
  BY DEF IInv, TypeOK
<1>2. LockInv' /\ lock = {r} /\ lock' \subseteq {r} /\ pc[r] \in Working
  BY DEF IInv, TypeOK, LockInv, Working
<1>3. OthersStay(r)
  BY DEF OthersStay, IInv, TypeOK
<1>4. FilesInv(r)'
  <2> USE <1>2 DEF IInv, TypeOK, FilesInv
  <2>1. UNCHANGED <<installed, temp, backup, before, kept, tag, targets>> /\ at'[r] = 1
    OBVIOUS
  <2>2. \A b \in Binary : installed[b] = before[r][b] /\ temp[r][b] = None /\ backup[r][b] = None
    BY DEF Downloaded, Saved, Replaced, Binary
  <2>3. Survives(r)' /\ (Outcome(r)' \/ ok'[r]) /\ targets[r] \in Binary
    BY <2>1, <2>2 DEF Survives, Outcome, Original
  <2>4. CASE pc'[r] = "stage"
    BY <2>1, <2>2, <2>3, <2>4 DEF Downloaded, Saved, Replaced, Binary
  <2>5. CASE pc'[r] = "unlock"
    BY <2>1, <2>2, <2>3, <2>5
  <2> QED
    BY <2>4, <2>5
<1> QED
  BY <1>1, <1>2, <1>3, <1>4, OthersKeep DEF IInv

LEMMA StageStep ==
  ASSUME IInv, NEW r \in Run, Stage(r)
  PROVE  IInv'
<1> USE DEF Stage, Goto, Result, directory, local
<1>1. TypeOK'
  <2>1. [temp EXCEPT ![r][at[r]] = Part] \in [Run -> [Binary -> File]]
    BY FileOf, Part \in File DEF IInv, TypeOK, File
  <2>2. temp' \in [Run -> [Binary -> File]]
    BY <2>1 DEF IInv, TypeOK
  <2> QED
    BY <2>2 DEF IInv, TypeOK
<1>2. LockInv' /\ lock = {r} /\ lock' \subseteq {r} /\ pc[r] \in Working
  BY DEF IInv, TypeOK, LockInv, Working
<1>3. OthersStay(r)
  BY DEF OthersStay, IInv, TypeOK
<1>4. FilesInv(r)'
  BY <1>2 DEF IInv, TypeOK, FilesInv, Downloaded, Saved, Replaced, Survives, Binary, Outcome, Original
<1> QED
  BY <1>1, <1>2, <1>3, <1>4, OthersKeep DEF IInv

LEMMA DownloadStep ==
  ASSUME IInv, NEW r \in Run, Download(r)
  PROVE  IInv'
<1> USE DEF Download, Goto, Result, Advance, ChecksumMatches, directory, local
<1>1. TypeOK'
  <2>1. at[r] \in 1..2 /\ targets[r] \in 1..2 /\ at[r] <= targets[r]
    BY DEF IInv, TypeOK, FilesInv, Binary
  <2>2. \A content \in {tag[r], Part, None} :
          [temp EXCEPT ![r][at[r]] = content] \in [Run -> [Binary -> File]]
    BY FileOf, tag[r] \in File, Part \in File, None \in File DEF IInv, TypeOK, File
  <2>3. temp' \in [Run -> [Binary -> File]]
    BY <2>2
  <2>4. at' \in [Run -> 0..2]
    <3> DEFINE n == IF at[r] = targets[r] THEN 1 ELSE at[r] + 1
    <3>1. n \in 0..2
      BY <2>1
    <3>2. at' = at \/ at' = [at EXCEPT ![r] = n]
      OBVIOUS
    <3>3. at \in [Run -> 0..2]
      BY DEF IInv, TypeOK
    <3> HIDE DEF n, Backup, Download
    <3> QED
      BY <3>1, <3>2, <3>3
  <2> QED
    BY <2>3, <2>4 DEF IInv, TypeOK
<1>2. LockInv' /\ lock = {r} /\ lock' \subseteq {r} /\ pc[r] \in Working
  BY DEF IInv, TypeOK, LockInv, Working
<1>3. OthersStay(r)
  BY DEF OthersStay, IInv, TypeOK
<1>4. FilesInv(r)'
  <2> USE <1>2 DEF IInv, TypeOK, FilesInv
  <2>1. at[r] \in 1..2 /\ targets[r] \in 1..2 /\ at[r] <= targets[r]
    BY DEF Binary
  <2>2. UNCHANGED <<installed, backup, before, kept, tag, targets>>
    OBVIOUS
  <2>3. \A b \in Binary : installed[b] = before[r][b] /\ backup[r][b] = None
    BY DEF Saved, Replaced, Binary
  <2>4. Saved(r, 1)' /\ Replaced(r, 1)' /\ Survives(r)' /\ (Outcome(r)' \/ ok'[r])
    BY <2>2, <2>3 DEF Saved, Replaced, Survives, Outcome, Original
  <2>5. CASE pc'[r] = "removeTemps"
    <3>1. ok' = [ok EXCEPT ![r] = FALSE]
      <4>1. PICK content \in {tag[r], Part}, cancelled \in BOOLEAN :
              IF content = tag[r]
              THEN /\ at[r] = targets[r] /\ cancelled = TRUE
                   /\ ok' = [ok EXCEPT ![r] = ~(at[r] = targets[r] /\ cancelled)]
              ELSE ok' = [ok EXCEPT ![r] = FALSE]
        BY <2>5
      <4> QED
        BY <4>1
    <3>2. Outcome(r)'
      BY <2>4, <3>1 DEF Outcome
    <3> QED
      BY <2>2, <2>3, <2>4, <2>5, <3>2
  <2>6. CASE pc'[r] \in {"stage", "backup"}
    <3>1. temp' = [temp EXCEPT ![r][at[r]] = tag[r]]
      BY <2>6
    <3>2. \A b \in Binary : temp'[r][b] = IF b <= at[r] THEN tag[r] ELSE None
      BY <2>1, <3>1 DEF Binary
    <3>3. CASE pc'[r] = "stage"
      <4>1. at'[r] = at[r] + 1 /\ at'[r] \in 1..targets[r] /\ ok'[r]
        BY <2>1, <3>3
      <4>2. Downloaded(r, at[r])'
        BY <2>1, <2>2, <3>2, <4>1 DEF Downloaded, Binary
      <4> QED
        BY <2>2, <2>4, <3>3, <4>1, <4>2
    <3>4. CASE pc'[r] = "backup"
      <4>1. at'[r] = 1 /\ at[r] = targets[r] /\ ok'[r]
        BY <2>1, <3>4
      <4>2. Downloaded(r, targets[r] + 1)'
        BY <2>1, <2>2, <3>2, <4>1 DEF Downloaded, Binary
      <4>3. Saved(r, at[r])'
        BY <2>4, <4>1 DEF Saved
      <4> QED
        BY <2>1, <2>2, <2>4, <3>4, <4>1, <4>2, <4>3
    <3> QED
      BY <2>6, <3>3, <3>4
  <2> QED
    BY <2>5, <2>6
<1> QED
  BY <1>1, <1>2, <1>3, <1>4, OthersKeep DEF IInv

LEMMA BackupStep ==
  ASSUME IInv, NEW r \in Run, Backup(r)
  PROVE  IInv'
<1> USE DEF Backup, Goto, Result, Advance, directory, local
<1>1. TypeOK'
  <2>1. at[r] \in 1..2 /\ targets[r] \in 1..2 /\ at[r] <= targets[r]
    BY DEF IInv, TypeOK, FilesInv, Binary
  <2>2. \A file \in {installed[at[r]], None, Empty} :
          [backup EXCEPT ![r][at[r]] = file] \in [Run -> [Binary -> File]]
    BY <2>1, FileOf, installed[at[r]] \in File, Empty \in File, None \in File DEF IInv, TypeOK, File, Binary
  <2>3. backup' \in [Run -> [Binary -> File]]
    BY <2>2
  <2>4. at' \in [Run -> 0..2]
    <3> DEFINE n == IF at[r] = targets[r] THEN 1 ELSE at[r] + 1
    <3>1. n \in 0..2
      BY <2>1
    <3>2. at' = at \/ at' = [at EXCEPT ![r] = n]
      OBVIOUS
    <3>3. at \in [Run -> 0..2]
      BY DEF IInv, TypeOK
    <3> HIDE DEF n, Backup, Download
    <3> QED
      BY <3>1, <3>2, <3>3
  <2> QED
    BY <2>3, <2>4 DEF IInv, TypeOK
<1>2. LockInv' /\ lock = {r} /\ lock' \subseteq {r} /\ pc[r] \in Working
  BY DEF IInv, TypeOK, LockInv, Working
<1>3. OthersStay(r)
  BY DEF OthersStay, IInv, TypeOK
<1>4. FilesInv(r)'
  <2> USE <1>2 DEF IInv, TypeOK, FilesInv
  <2>1. at[r] \in 1..2 /\ targets[r] \in 1..2 /\ at[r] <= targets[r]
    BY DEF Binary
  <2>2. UNCHANGED <<installed, temp, before, kept, tag, targets>>
    OBVIOUS
  <2>3. \A b \in Binary : installed[b] = before[r][b]
    BY DEF Replaced, Binary
  <2>4. Replaced(r, 1)' /\ Survives(r)' /\ (Outcome(r)' \/ ok'[r])
    BY <2>2, <2>3 DEF Replaced, Survives, Outcome, Original, Binary
  <2>5. CASE pc'[r] = "removeBackups"
    <3>1. Outcome(r)'
      BY <2>4, <2>5
    <3> QED
      BY <2>4, <2>5, <3>1
  <2>6. CASE pc'[r] \in {"backup", "rename"}
    <3>1. backup' = [backup EXCEPT ![r][at[r]] = installed[at[r]]] /\ ok'[r]
      BY <2>6
    <3>2. \A b \in Binary : backup'[r][b] = IF b <= at[r] THEN before[r][b] ELSE None
      BY <2>1, <2>3, <3>1 DEF Saved, Binary
    <3>3. CASE pc'[r] = "backup"
      <4>1. at'[r] = at[r] + 1 /\ at'[r] \in 1..targets[r]
        BY <2>1, <3>3
      <4>2. Saved(r, at[r])'
        BY <2>1, <2>2, <3>2, <4>1 DEF Saved, Binary
      <4>3. Downloaded(r, targets[r] + 1)'
        BY <2>2 DEF Downloaded
      <4> QED
        BY <2>2, <2>4, <3>1, <3>3, <4>1, <4>2, <4>3
    <3>4. CASE pc'[r] = "rename"
      <4>1. at'[r] = 1 /\ at[r] = targets[r]
        BY <2>1, <3>4
      <4>2. Saved(r, targets[r] + 1)'
        BY <2>1, <2>2, <3>2, <4>1 DEF Saved, Binary
      <4>3. \A b \in 1..targets[r] : temp[r][b] = tag[r]
        <5>1. Downloaded(r, targets[r] + 1)
          OBVIOUS
        <5>2. \A b \in 1..targets[r] : b \in Binary /\ b < targets[r] + 1
          BY <2>1 DEF Binary
        <5> QED
          BY <5>1, <5>2 DEF Downloaded
      <4>4. Replaced(r, at[r])'
        BY <2>4, <4>1 DEF Replaced
      <4> QED
        BY <2>1, <2>2, <2>4, <3>1, <3>4, <4>1, <4>2, <4>3, <4>4
    <3> QED
      BY <2>6, <3>3, <3>4
  <2> QED
    BY <2>5, <2>6
<1> QED
  BY <1>1, <1>2, <1>3, <1>4, OthersKeep DEF IInv

LEMMA RenameStep ==
  ASSUME IInv, NEW r \in Run, Rename(r)
  PROVE  IInv'
<1> USE DEF Rename, Goto, Result, Advance, directory, local
<1>1. TypeOK'
  <2>1. at[r] \in 1..targets[r] /\ targets[r] \in 1..2 /\ temp[r][at[r]] = tag[r]
    BY DEF IInv, TypeOK, FilesInv, Binary
  <2>2. [temp EXCEPT ![r][at[r]] = None] \in [Run -> [Binary -> File]]
    BY FileOf, None \in File DEF IInv, TypeOK, File
  <2>3. temp' \in [Run -> [Binary -> File]]
    BY <2>2 DEF IInv, TypeOK
  <2>4. installed' \in [Binary -> Release]
    BY <2>1 DEF IInv, TypeOK
  <2>5. at' \in [Run -> 0..2]
    <3>1. at[r] - 1 \in 0..2 /\ (at[r] + 1 \in 0..2 \/ at[r] = targets[r])
      BY <2>1
    <3>2. \/ at' = [at EXCEPT ![r] = at[r] - 1]
          \/ at' = [at EXCEPT ![r] = IF at[r] = targets[r] THEN 1 ELSE at[r] + 1]
      OBVIOUS
    <3> QED
      BY <3>1, <3>2 DEF IInv, TypeOK
  <2> QED
    BY <2>3, <2>4, <2>5 DEF IInv, TypeOK
<1>2. LockInv' /\ lock = {r} /\ lock' \subseteq {r} /\ pc[r] \in Working
  BY DEF IInv, TypeOK, LockInv, Working
<1>3. OthersStay(r)
  BY DEF OthersStay, IInv, TypeOK
<1>4. FilesInv(r)'
  <2> USE <1>2 DEF IInv, TypeOK, FilesInv
  <2>1. at[r] \in 1..2 /\ targets[r] \in 1..2 /\ at[r] <= targets[r]
    BY DEF Binary
  <2>2. UNCHANGED <<backup, before, kept, tag, targets>>
    OBVIOUS
  <2>3. \A b \in Binary :
          /\ installed[b] = IF b < at[r] THEN tag[r] ELSE before[r][b]
          /\ b <= targets[r] => backup[r][b] = before[r][b]
    BY <2>1 DEF Replaced, Saved, Binary
  <2>4. CASE pc'[r] = "restore"
    <3>1. at'[r] = at[r] - 1 /\ ~ok'[r] /\ UNCHANGED installed
      BY <2>1, <2>4
    <3>2. Survives(r)'
      BY <2>1, <2>2, <2>3, <3>1 DEF Survives, Binary
    <3> QED
      BY <2>1, <2>2, <2>3, <2>4, <3>1, <3>2 DEF Original, Binary
  <2>5. CASE pc'[r] \in {"rename", "removeBackups"}
    <3>1. /\ installed' = [installed EXCEPT ![at[r]] = temp[r][at[r]]] /\ temp[r][at[r]] = tag[r]
          /\ temp' = [temp EXCEPT ![r][at[r]] = None] /\ ok'[r]
      BY <2>1, <2>5
    <3>2. \A b \in Binary : installed'[b] = IF b <= at[r] THEN tag[r] ELSE before[r][b]
      BY <2>1, <2>3, <3>1 DEF Binary
    <3>3. Survives(r)'
      BY <2>1, <2>2, <2>3, <3>2 DEF Survives, Binary
    <3>4. CASE pc'[r] = "rename"
      <4>1. at'[r] = at[r] + 1 /\ at'[r] \in 1..targets[r]
        BY <2>1, <3>4
      <4>2. Replaced(r, at[r])'
        BY <2>1, <2>2, <3>2, <4>1 DEF Replaced, Binary
      <4>3. Saved(r, targets[r] + 1)'
        BY <2>2 DEF Saved
      <4>4. \A b \in at'[r]..targets[r] : temp'[r][b] = tag[r]
        BY <2>1, <3>1, <4>1
      <4> QED
        BY <2>2, <3>1, <3>3, <3>4, <4>1, <4>2, <4>3, <4>4
    <3>5. CASE pc'[r] = "removeBackups"
      <4>1. at[r] = targets[r]
        BY <2>1, <3>5
      <4>2. Outcome(r)'
        BY <2>1, <2>2, <3>1, <3>2, <4>1 DEF Outcome, Binary
      <4> QED
        BY <3>3, <3>5, <4>2
    <3> QED
      BY <2>5, <3>4, <3>5
  <2> QED
    BY <2>4, <2>5
<1> QED
  BY <1>1, <1>2, <1>3, <1>4, OthersKeep DEF IInv

LEMMA RestoreStep ==
  ASSUME IInv, NEW r \in Run, Restore(r)
  PROVE  IInv'
<1> USE DEF Restore, Goto, Keep, Advance, directory, local
<1>1. TypeOK'
  <2>1. at[r] \in 1..2 /\ backup[r][at[r]] = before[r][at[r]] /\ before[r][at[r]] \in Release
    BY DEF IInv, TypeOK, FilesInv, Binary
  <2>2. [backup EXCEPT ![r][at[r]] = Empty] \in [Run -> [Binary -> File]]
    BY FileOf, Empty \in File DEF IInv, TypeOK, File
  <2>3. backup' \in [Run -> [Binary -> File]] /\ installed' \in [Binary -> Release]
    BY ZenonT(40), <2>1, <2>2 DEF IInv, TypeOK
  <2>4. at' \in [Run -> 0..2] /\ kept' \in [Run -> SUBSET Binary]
    BY <2>1 DEF IInv, TypeOK, Binary, Keep
  <2> QED
    BY <2>3, <2>4 DEF IInv, TypeOK, Keep
<1>2. LockInv' /\ lock = {r} /\ lock' \subseteq {r} /\ pc[r] \in Working
  BY DEF IInv, TypeOK, LockInv, Working
<1>3. OthersStay(r)
  BY DEF OthersStay, IInv, TypeOK
<1>4. FilesInv(r)'
  <2> USE <1>2 DEF IInv, TypeOK, FilesInv
  <2>1. at[r] \in 1..2 /\ targets[r] \in 1..2 /\ at[r] < targets[r]
    BY DEF Binary
  <2>2. UNCHANGED <<before, tag, targets, ok, pc>> /\ at'[r] = at[r] - 1
    BY <2>1
  <2>3. \A b \in Binary : b > at[r] => Original(r, b)
    BY <2>1 DEF Binary
  <2>4. \A b \in Binary : b <= at[r] => backup[r][b] = before[r][b] /\ b \notin kept[r]
    BY <2>1 DEF Binary
  <2>5. CASE Keep(r) /\ UNCHANGED <<installed, backup>>
    <3>1. kept'[r] = kept[r] \cup {at[r]}
      BY <2>5 DEF Keep
    <3>2. \A b \in Binary : b > at[r] - 1 => Original(r, b)'
      BY <2>1, <2>2, <2>3, <2>4, <2>5, <3>1 DEF Original, Binary
    <3>3. \A b \in Binary : b <= at[r] - 1 => backup'[r][b] = before[r][b] /\ b \notin kept'[r]
      BY <2>1, <2>4, <2>5, <3>1 DEF Binary
    <3>4. Survives(r)'
      <4>1. Survives(r)
        OBVIOUS
      <4> QED
        BY <2>2, <2>5, <4>1 DEF Survives
    <3> QED
      BY <2>1, <2>2, <3>2, <3>3, <3>4 DEF Binary
  <2>6. CASE ~(Keep(r) /\ UNCHANGED <<installed, backup>>)
    <3> UNCHANGED kept
      BY <2>6
    <3>1. /\ \A b \in Binary : installed'[b] = IF b = at[r] THEN before[r][b] ELSE installed[b]
          /\ \A b \in Binary : backup'[r][b] = IF b = at[r] THEN Empty ELSE backup[r][b]
      BY <2>1, <2>4, <2>6 DEF Binary, Keep
    <3>2. \A b \in Binary : b > at[r] - 1 => Original(r, b)'
      BY <2>1, <2>2, <2>3, <2>6, <3>1 DEF Original, Binary
    <3>3. \A b \in Binary : b <= at[r] - 1 => backup'[r][b] = before[r][b] /\ b \notin kept'[r]
      BY <2>1, <2>4, <2>6, <3>1 DEF Binary
    <3>4. Survives(r)'
      BY <2>2, <3>2, <3>3 DEF Survives, Original, Binary
    <3> QED
      BY <2>1, <2>2, <3>2, <3>3, <3>4 DEF Binary
  <2> QED
    BY <2>5, <2>6
<1> QED
  BY <1>1, <1>2, <1>3, <1>4, OthersKeep DEF IInv

LEMMA RestoredStep ==
  ASSUME IInv, NEW r \in Run, Restored(r)
  PROVE  IInv'
<1> USE DEF Restored, Goto, directory, local
<1>1. TypeOK'
  BY DEF IInv, TypeOK
<1>2. LockInv' /\ lock = {r} /\ lock' \subseteq {r} /\ pc[r] \in Working
  BY DEF IInv, TypeOK, LockInv, Working
<1>3. OthersStay(r)
  BY DEF OthersStay, IInv, TypeOK
<1>4. FilesInv(r)'
  BY <1>2 DEF IInv, TypeOK, FilesInv, Downloaded, Saved, Replaced, Survives, Binary, Outcome, Original
<1> QED
  BY <1>1, <1>2, <1>3, <1>4, OthersKeep DEF IInv

LEMMA RemoveBackupsStep ==
  ASSUME IInv, NEW r \in Run, RemoveBackups(r)
  PROVE  IInv'
<1> USE DEF RemoveBackups, Goto, directory, local
<1>1. TypeOK'
  BY DEF IInv, TypeOK, File
<1>2. LockInv' /\ lock = {r} /\ lock' \subseteq {r} /\ pc[r] \in Working
  BY DEF IInv, TypeOK, LockInv, Working
<1>3. OthersStay(r)
  BY DEF OthersStay, IInv, TypeOK
<1>4. FilesInv(r)'
  BY <1>2 DEF IInv, TypeOK, FilesInv, Downloaded, Saved, Replaced, Survives, Binary, Outcome, Original
<1> QED
  BY <1>1, <1>2, <1>3, <1>4, OthersKeep DEF IInv

LEMMA RemoveTempsStep ==
  ASSUME IInv, NEW r \in Run, RemoveTemps(r)
  PROVE  IInv'
<1> USE DEF RemoveTemps, Goto, RemoveStaged, directory, local
<1>1. TypeOK'
  BY DEF IInv, TypeOK, File
<1>2. LockInv' /\ lock = {r} /\ lock' \subseteq {r} /\ pc[r] \in Working
  BY DEF IInv, TypeOK, LockInv, Working
<1>3. OthersStay(r)
  BY DEF OthersStay, IInv, TypeOK
<1>4. FilesInv(r)'
  BY <1>2 DEF IInv, TypeOK, FilesInv, Downloaded, Saved, Replaced, Survives, Binary, Outcome, Original
<1> QED
  BY <1>1, <1>2, <1>3, <1>4, OthersKeep DEF IInv

LEMMA UnlockStep ==
  ASSUME IInv, NEW r \in Run, Unlock(r)
  PROVE  IInv'
<1> USE DEF Unlock, Goto, directory, local
<1>1. TypeOK'
  BY DEF IInv, TypeOK
<1>2. LockInv' /\ lock = {r} /\ lock' \subseteq {r} /\ pc[r] \in Working
  BY DEF IInv, TypeOK, LockInv, Working
<1>3. OthersStay(r)
  BY DEF OthersStay, IInv, TypeOK
<1>4. FilesInv(r)'
  BY <1>2 DEF IInv, TypeOK, FilesInv, Downloaded, Saved, Replaced, Survives, Binary, Outcome, Original
<1> QED
  BY <1>1, <1>2, <1>3, <1>4, OthersKeep DEF IInv
-----------------------------------------------------------------------------
(* A step that touches no binary leaves what is known of a run it does not *)
(* concern.                                                                *)
LEMMA Unconcerned ==
  ASSUME IInv, NEW r \in Run, OthersStay(r), UNCHANGED installed,
         \A s \in Run \ {r} : s \in lock' => s \in lock
  PROVE  \A s \in Run \ {r} : FilesInv(s)'
BY DEF IInv, OthersStay, FilesInv, Downloaded, Saved, Replaced, Survives, Outcome, Original

LEMMA StartStep ==
  ASSUME IInv, NEW r \in Run, NEW n \in Binary, Start(r, n)
  PROVE  IInv'
<1> USE DEF Start, Goto, directory
<1>1. TypeOK'
  BY DEF IInv, TypeOK
<1>2. LockInv' /\ r \notin lock
  BY DEF IInv, TypeOK, LockInv, Working
<1>3. OthersStay(r)
  BY DEF OthersStay, IInv, TypeOK
<1>4. pc'[r] \in {"lock", "done"} /\ kept'[r] = {}
  BY DEF IInv, TypeOK, FilesInv
<1>5. \A b \in Binary : temp'[r][b] = None /\ backup'[r][b] = None
  BY DEF IInv, FilesInv, Downloaded, Saved, Binary
<1>6. FilesInv(r)'
  BY <1>2, <1>4, <1>5 DEF FilesInv, Downloaded, Saved, Binary
<1> QED
  BY <1>1, <1>2, <1>3, <1>6, Unconcerned DEF IInv

LEMMA LockStep ==
  ASSUME IInv, NEW r \in Run, Lock(r)
  PROVE  IInv'
<1> USE DEF Lock, Goto, Result
<1>1. TypeOK'
  BY DEF IInv, TypeOK
<1>2. LockInv' /\ r \notin lock
  <2>1. r \notin lock /\ pc = [s \in Run |-> pc[s]] /\ lock \subseteq Run
    BY DEF IInv, TypeOK, LockInv, Working
  <2>2. CASE lock = {}
    <3>1. lock' = {r} /\ pc' = [pc EXCEPT ![r] = "manifest"]
      BY <2>2
    <3>2. \A s \in Run : pc[s] \notin Working
      BY <2>2 DEF IInv, LockInv
    <3> QED
      BY <2>1, <3>1, <3>2 DEF LockInv, Working
  <2>3. CASE lock # {}
    <3>1. lock' = lock /\ pc' = [pc EXCEPT ![r] = "done"]
      BY <2>3
    <3> QED
      BY <2>1, <3>1 DEF IInv, LockInv, Working
  <2> QED
    BY <2>2, <2>3
<1>3. OthersStay(r)
  BY DEF OthersStay, IInv, TypeOK
<1>4. \A b \in Binary : temp'[r][b] = None /\ backup'[r][b] = None /\ before'[r][b] = installed'[b]
  BY DEF IInv, TypeOK, FilesInv, Downloaded, Saved, Binary
<1>5. pc'[r] \in {"manifest", "done"} /\ kept'[r] = {}
  BY DEF IInv, TypeOK, FilesInv
<1>6. FilesInv(r)'
  BY <1>4, <1>5 DEF FilesInv, Downloaded, Saved, Replaced, Survives, Binary
<1> QED
  BY <1>1, <1>2, <1>3, <1>6, Unconcerned DEF IInv

LEMMA KillStep ==
  ASSUME IInv, NEW r \in Run, Kill(r)
  PROVE  IInv'
<1> USE DEF Kill, Goto, directory, local
<1>1. TypeOK'
  BY DEF IInv, TypeOK
<1>2. LockInv'
  BY DEF IInv, TypeOK, LockInv, Working
<1>3. OthersStay(r)
  BY DEF OthersStay, IInv, TypeOK
<1>4. FilesInv(r)'
  BY ZenonT(40) DEF IInv, TypeOK, FilesInv, Survives
<1> QED
  BY <1>1, <1>2, <1>3, <1>4, Unconcerned DEF IInv

(* Nothing but the lock or the latest release changes.                     *)
LEMMA NoRunStep ==
  ASSUME IInv, Publish \/ RemoveStaleLock \/ UNCHANGED vars
  PROVE  IInv'
<1> USE DEF Publish, RemoveStaleLock, vars, directory, local
<1>1. TypeOK'
  BY UpdaterAssumption DEF IInv, TypeOK, Release
<1>2. LockInv'
  BY DEF IInv, LockInv, Working
<1>3. \A r \in Run : FilesInv(r)'
  BY DEF IInv, FilesInv, Downloaded, Saved, Replaced, Survives, Outcome, Original
<1> QED
  BY <1>1, <1>2, <1>3 DEF IInv

LEMMA Invariant == Spec => []IInv
<1>1. ASSUME IInv, Next PROVE IInv'
  <2>1. CASE Publish \/ RemoveStaleLock
    BY <1>1, <2>1, NoRunStep
  <2>2. ASSUME NEW r \in Run, Step(r) \/ Kill(r) \/ \E n \in Binary : Start(r, n)
        PROVE  IInv'
    BY <1>1, <2>2, StartStep, LockStep, ManifestStep, StageStep, DownloadStep, BackupStep,
       RenameStep, RestoreStep, RestoredStep, RemoveBackupsStep, RemoveTempsStep, UnlockStep,
       KillStep DEF Step
  <2> QED
    BY <1>1, <2>1, <2>2 DEF Next
<1>2. IInv /\ [Next]_vars => IInv'
  BY <1>1, NoRunStep
<1> QED
  BY InitInv, <1>2, PTL DEF Spec

(* update.go run and replace: what a run reports is what it did to the     *)
(* binaries, whichever step failed and whatever other runs were up to.     *)
THEOREM ReportsTruth == Spec => []OutcomeTrue
<1>1. IInv => OutcomeTrue
  BY DEF IInv, TypeOK, FilesInv, OutcomeTrue, Outcome, Original, Binary
<1> QED
  BY Invariant, <1>1, PTL

(* update.go stage and replace: a run that is killed anywhere leaves whole *)
(* binaries, and the originals until all targets are replaced.             *)
THEOREM KilledAnywhere == Spec => []OriginalSurvives
<1>1. IInv => OriginalSurvives
  <2>1. IInv => lock \subseteq Run
    BY DEF IInv, TypeOK
  <2> QED
    BY <2>1 DEF IInv, FilesInv, OriginalSurvives, Survives
<1> QED
  BY Invariant, <1>1, PTL

(* The deferred functions of run and replace: a run that ends leaves no    *)
(* lock and no files but the backups it says it retains.                   *)
THEOREM LeavesNothing == Spec => []NothingLeft
<1>1. IInv => NothingLeft
  BY DEF IInv, FilesInv, NothingLeft, LockInv, Working
<1> QED
  BY Invariant, <1>1, PTL
=============================================================================
