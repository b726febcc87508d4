--------------------------- MODULE DriveLifecycle ---------------------------
(***************************************************************************)
(* The locks under the drives: the mutex of the drive manager and the      *)
(* readers-writer mutex of every Badger drive, and what is done with the   *)
(* database handle between taking and giving back the second.              *)
(*                                                                         *)
(* DriveManager and BadgerVFS take a call of a drive for a step that never *)
(* waits.  Here a call is the steps it consists of: a call may wait for a  *)
(* lock, a client may keep a backup waiting, a key rotation closes the     *)
(* handle and opens another one, the collector of a drive works beside the *)
(* calls, and closing a drive waits for whoever is inside.                 *)
(***************************************************************************)
EXTENDS Naturals, FiniteSets

CONSTANTS
  Dir,       \* directories of drives, one per user
  Drive,     \* drives: every opening of a directory is a drive of its own
  DirOf,     \* the directory of a drive
  Request,   \* goroutines that use drives: requests and what they detach
  Keeper,    \* goroutines that look after drives: the idle collection, an
             \* administrator's query, a logout, the shutdown
  Calls      \* the calls of a drive the requests make

None == "none"

ASSUME LifecycleAssumption ==
  /\ DirOf \in [Drive -> Dir] /\ None \notin Drive
  /\ Drive \cap (Request \cup Keeper) = {} /\ Request \cap Keeper = {}
  /\ Calls \subseteq {"read", "copy", "backup", "load", "rotate"}

(* The collector of a drive is the goroutine named as the drive. *)
Thread == Request \cup Keeper \cup Drive

VARIABLES
  collects, \* GCInterval > 0
  mutex,    \* who holds m.mu
  drives,   \* m.drives: the drive of a directory, or None
  asked,    \* drives with closeRequested
  closed,   \* m.closed
  handle,   \* the database handle of a drive
  failed,   \* drives whose field failed is not nil
  missed,   \* history: drives a rotation closed with an error, failed still nil
  once,     \* drives whose once has run
  done,     \* drives whose context is cancelled
  stopped,  \* the context of the server is cancelled
  readers,  \* who holds the drive's mu for reading
  writer,   \* who has announced itself with Lock, or holds it for writing
  pc,       \* control point of a goroutine
  call,     \* the call it is in
  on,       \* the drive the call is of
  rest,     \* drives its loop under m.mu has still to visit
  holds     \* the drive it has acquired and not released, or None

manager == <<mutex, drives, asked, closed>>
database == <<handle, failed, missed, once, done, stopped>>
rwmutex == <<readers, writer>>
goroutine == <<pc, call, on, rest, holds>>
vars == <<collects, manager, database, rwmutex, goroutine>>

Shared == {"read", "copy", "backup", "collect", "resources"}
Exclusive == {"load", "rotate", "close"}

Init ==
  /\ collects \in BOOLEAN
  /\ mutex = {} /\ drives = [u \in Dir |-> None] /\ asked = {}
  /\ closed = FALSE
  /\ handle = [d \in Drive |-> "new"] /\ failed = {} /\ missed = {}
  /\ once = {} /\ done = {}
  /\ stopped = FALSE
  /\ readers = [d \in Drive |-> {}] /\ writer = [d \in Drive |-> {}]
  /\ pc = [t \in Thread |-> "idle"]
  /\ call = [t \in Thread |-> None] /\ on = [t \in Thread |-> None]
  /\ rest = [t \in Thread |-> {}] /\ holds = [t \in Request |-> None]

Goto(t, label) == pc' = [pc EXCEPT ![t] = label]
InUse(d) == \E t \in Request : holds[t] = d
-----------------------------------------------------------------------------
(* The manager.  What a goroutine wants m.mu for shows when it gets it.    *)

WantMutex(t) ==
  /\ pc[t] = "idle" /\ Goto(t, "manager")
  /\ UNCHANGED <<manager, database, rwmutex, call, on, rest, holds>>

Take(t, label) == pc[t] = label /\ mutex = {}

(* Badger locks the directory of an open database: two handles cannot be.  *)
DirectoryLocked(u) == \E d \in Drive : DirOf[d] = u /\ handle[d] = "open"

Refuse(t) == Goto(t, "idle") /\ UNCHANGED <<manager, database, rwmutex, call, on, rest, holds>>

OpenDrive(t, u, forStats) ==
  \E d \in Drive :
    /\ DirOf[d] = u /\ handle[d] = "new" /\ ~DirectoryLocked(u)
    /\ handle' = [handle EXCEPT ![d] = "open"]
    /\ done' = IF stopped THEN done \cup {d} ELSE done
    /\ drives' = [drives EXCEPT ![u] = d] /\ holds' = [holds EXCEPT ![t] = d]
    /\ asked' = IF forStats THEN asked \cup {d} ELSE asked
    /\ pc' = [pc EXCEPT ![t] = "ready", ![d] = IF collects THEN "select" ELSE @]
    /\ UNCHANGED <<mutex, closed, failed, missed, once, stopped, rwmutex, call, on, rest>>

(* Acquire, and Stats (forStats).  Opening may fail.                       *)
Acquire(t, u, forStats) ==
  /\ Take(t, "manager")
  /\ \/ closed /\ Refuse(t)
     \/ ~closed /\ drives[u] = None /\ (OpenDrive(t, u, forStats) \/ Refuse(t))
     \/ /\ ~closed /\ drives[u] # None
        /\ holds' = [holds EXCEPT ![t] = drives[u]] /\ Goto(t, "ready")
        /\ UNCHANGED <<manager, database, rwmutex, call, on, rest>>

(* The drives S leave the map and are closed one after the other, in any   *)
(* order, while m.mu is held; with S empty the lock is given back at once. *)
CloseDrives(t, S) ==
  /\ asked' = asked \ S
  /\ drives' = [u \in Dir |-> IF drives[u] \in S THEN None ELSE drives[u]]
  /\ mutex' = {t} /\ Goto(t, "next")
  /\ call' = [call EXCEPT ![t] = "close"] /\ rest' = [rest EXCEPT ![t] = S]
  /\ UNCHANGED <<closed, database, rwmutex, on>>

Release(t) ==
  /\ Take(t, "release")
  /\ LET d == holds[t]
         last == d \in asked /\ ~\E r \in Request \ {t} : holds[r] = d
     IN  CloseDrives(t, {x \in {d} : last /\ drives[DirOf[d]] = d})
  /\ holds' = [holds EXCEPT ![t] = None]

CloseDrive(t, u) ==
  /\ Take(t, "manager")
  /\ LET S == {drives[u]} \ {None}
     IN  IF \E d \in S : InUse(d)
         THEN /\ asked' = asked \cup S /\ Goto(t, "idle")
              /\ UNCHANGED <<mutex, drives, closed, database, rwmutex, call, on, rest>>
         ELSE CloseDrives(t, S)
  /\ UNCHANGED holds

(* closeIdle takes those of the drives nobody uses that are old enough.    *)
Unused == {d \in Drive : d = drives[DirOf[d]] /\ ~InUse(d)}
CloseIdle(t) ==
  /\ Take(t, "manager")
  /\ \E S \in SUBSET Unused : CloseDrives(t, S)
  /\ UNCHANGED holds

(* CloseWithContext refuses new requests, waits until the drives have been *)
(* released or the time is over, and closes what is left.                  *)
RefuseNew(t) ==
  /\ Take(t, "manager") /\ ~closed
  /\ closed' = TRUE /\ Goto(t, "closeAll")
  /\ UNCHANGED <<mutex, drives, asked, database, rwmutex, call, on, rest, holds>>
CloseAll(t) ==
  /\ Take(t, "closeAll")
  /\ CloseDrives(t, {drives[u] : u \in Dir} \ {None})
  /\ UNCHANGED holds

(* BadgerResources keeps m.mu while it asks one drive after the other.     *)
Resources(t) ==
  /\ Take(t, "manager")
  /\ mutex' = {t} /\ Goto(t, "next")
  /\ call' = [call EXCEPT ![t] = "resources"]
  /\ rest' = [rest EXCEPT ![t] = {drives[u] : u \in Dir} \ {None}]
  /\ UNCHANGED <<drives, asked, closed, database, rwmutex, on, holds>>

-----------------------------------------------------------------------------
(* sync.RWMutex: a writer announces itself and waits for the readers that  *)
(* are inside; readers that come later wait for it, and enter together     *)
(* when it leaves, before the next writer.  A call begins with its lock.   *)
Begin(t, d, c) ==
  /\ call' = [call EXCEPT ![t] = c] /\ on' = [on EXCEPT ![t] = d]
  /\ Goto(t, IF c \in Exclusive THEN "lock" ELSE IF writer[d] = {} THEN "shared" ELSE "blocked")
  /\ readers' = IF c \in Shared /\ writer[d] = {}
                THEN [readers EXCEPT ![d] = @ \cup {t}] ELSE readers
  /\ UNCHANGED writer

(* Where a goroutine goes on when its call has returned.                   *)
Return(t) ==
  IF mutex = {t} THEN "next"
  ELSE IF t \in Request THEN "ready"
  ELSE IF call[t] = "close" THEN "off" ELSE "select"
Leave(t) ==
  /\ call' = [call EXCEPT ![t] = IF mutex = {t} THEN @ ELSE None]
  /\ on' = [on EXCEPT ![t] = None]

RUnlock(t) ==
  /\ readers' = [readers EXCEPT ![on[t]] = @ \ {t}] /\ UNCHANGED writer
  /\ Goto(t, Return(t)) /\ Leave(t)

Lock(t) ==
  /\ pc[t] = "lock" /\ writer[on[t]] = {}
  /\ writer' = [writer EXCEPT ![on[t]] = {t}] /\ Goto(t, "announced")
  /\ UNCHANGED <<manager, database, readers, call, on, rest, holds>>

Granted(t) ==
  /\ pc[t] = "announced" /\ readers[on[t]] = {}
  /\ Goto(t, "exclusive")
  /\ UNCHANGED <<manager, database, rwmutex, call, on, rest, holds>>

Blocked(d) == {t \in Thread : pc[t] = "blocked" /\ on[t] = d}
Unlock(t) ==
  /\ writer' = [writer EXCEPT ![on[t]] = {}]
  /\ readers' = [readers EXCEPT ![on[t]] = Blocked(on[t])]
  /\ pc' = [x \in Thread |-> IF x \in Blocked(on[t]) THEN "shared"
                             ELSE IF x = t THEN Return(t) ELSE pc[x]]
  /\ Leave(t) /\ UNCHANGED <<manager, rest, holds>>
-----------------------------------------------------------------------------
(* The next drive of a loop under m.mu.  Close cancels the context of the  *)
(* drive before it closes it.                                              *)
NextOnlyCancels(t) ==
  /\ pc[t] = "next"
  /\ IF call[t] = "close"
     THEN done' = done \cup rest[t] /\ UNCHANGED <<rwmutex, pc, call, on>>
          /\ rest[t] # {} /\ rest' = [rest EXCEPT ![t] = {}]
     ELSE \E d \in rest[t] : /\ rest' = [rest EXCEPT ![t] = @ \ {d}] /\ Begin(t, d, call[t])
                            /\ UNCHANGED done
  /\ UNCHANGED <<manager, handle, failed, missed, once, stopped, holds>>
NextDrive(t) ==
  /\ pc[t] = "next"
  /\ \E d \in rest[t] :
       /\ rest' = [rest EXCEPT ![t] = @ \ {d}]
       /\ Begin(t, d, call[t])
       /\ done' = IF call[t] = "close" THEN done \cup {d} ELSE done
  /\ UNCHANGED <<manager, handle, failed, missed, once, stopped, holds>>
GiveMutexBack(t) ==
  /\ pc[t] = "next" /\ rest[t] = {}
  /\ mutex' = {} /\ Goto(t, "idle") /\ call' = [call EXCEPT ![t] = None]
  /\ UNCHANGED <<drives, asked, closed, database, rwmutex, on, rest, holds>>

(* A request calls its drive as often as it likes, and lets go of it.      *)
StartCall(t, c) ==
  /\ pc[t] = "ready" /\ c \in Calls
  /\ Begin(t, holds[t], c)
  /\ UNCHANGED <<manager, database, rest, holds>>
EndRequest(t) ==
  /\ pc[t] = "ready" /\ Goto(t, "release")
  /\ UNCHANGED <<manager, database, rwmutex, call, on, rest, holds>>
-----------------------------------------------------------------------------
(* (The wrong variants that stand before the operator they vary are         *)
(* detected by the runs.)                                                   *)

(* Every shared call looks at failed before it touches the handle; a        *)
(* resource query ends with the first drive that has failed.                *)
CollectorLooksAtNothing(t) ==
  /\ pc[t] = "shared"
  /\ IF on[t] \in failed /\ t \notin Drive
     THEN RUnlock(t) /\ rest' = [rest EXCEPT ![t] = {}]
     ELSE Goto(t, "using") /\ UNCHANGED <<rwmutex, call, on, rest>>
  /\ UNCHANGED <<manager, database, holds>>
Check(t) ==
  /\ pc[t] = "shared"
  /\ IF on[t] \in failed
     THEN RUnlock(t) /\ rest' = [rest EXCEPT ![t] = {}]
     ELSE Goto(t, "using") /\ UNCHANGED <<rwmutex, call, on, rest>>
  /\ UNCHANGED <<manager, database, holds>>

(* Copy reads the contents chunk by chunk through a reader that does not    *)
(* take the lock a second time (lockedBlobReader).                          *)
CopyLocksAgain(t) ==
  /\ pc[t] = "using" /\ call[t] = "copy"
  /\ Goto(t, IF writer[on[t]] = {} THEN "copied" ELSE "blocked")
  /\ UNCHANGED <<manager, database, rwmutex, call, on, rest, holds>>
CopyReads(t) ==
  /\ pc[t] = "using" /\ call[t] = "copy"
  /\ Goto(t, "copied")
  /\ UNCHANGED <<manager, database, rwmutex, call, on, rest, holds>>

EndShared(t) ==
  /\ pc[t] \in {"using", "copied"}
  /\ call[t] \in Shared \ {"backup"} /\ (call[t] = "copy" => pc[t] = "copied")
  /\ RUnlock(t) /\ UNCHANGED <<manager, database, rest, holds>>

(* Backup writes to a pipe, inside the lock; it ends when the client has    *)
(* read everything or has gone, which fails the next write.                 *)
EndBackup(t) ==
  /\ pc[t] = "using" /\ call[t] = "backup"
  /\ RUnlock(t) /\ UNCHANGED <<manager, database, rest, holds>>

(* Load, also of a drive that has failed; a rotation of such a drive, or to *)
(* a key that is the current one or has no proper length.                   *)
LoadOrRefuse(t) ==
  /\ pc[t] = "exclusive" /\ call[t] \in {"load", "rotate"}
  /\ Unlock(t) /\ UNCHANGED database

(* Rotate closes the handle and opens one with the new key or, after an    *)
(* error, with the old one; or that fails too.  An error of the close      *)
(* itself ends it at once: the handle is closed, failed still nil.         *)
(* KeyRotation has the files between the two.                              *)
MayRotateClosed(d) == handle[d] # "new"
MayRotate(d) == d \notin failed
RotateCloses(t) ==
  /\ pc[t] = "exclusive" /\ call[t] = "rotate" /\ MayRotate(on[t])
  /\ handle' = [handle EXCEPT ![on[t]] = "closed"] /\ failed' = failed \cup {on[t]}
  /\ missed' = missed \ {on[t]} /\ Goto(t, "rotating")
  /\ UNCHANGED <<manager, once, done, stopped, rwmutex, call, on, rest, holds>>
RotateCloseFails(t) ==
  /\ pc[t] = "exclusive" /\ call[t] = "rotate" /\ MayRotate(on[t])
  /\ handle[on[t]] = "open"
  /\ handle' = [handle EXCEPT ![on[t]] = "closed"] /\ missed' = missed \cup {on[t]}
  /\ Unlock(t) /\ UNCHANGED <<failed, once, done, stopped>>
RotateReopens(t) ==
  /\ pc[t] = "rotating" /\ ~DirectoryLocked(DirOf[on[t]])
  /\ handle' = [handle EXCEPT ![on[t]] = "open"] /\ failed' = failed \ {on[t]}
  /\ Unlock(t) /\ UNCHANGED <<missed, once, done, stopped>>
RotateFails(t) == pc[t] = "rotating" /\ Unlock(t) /\ UNCHANGED database

CloseHandle(t) ==
  /\ pc[t] = "exclusive" /\ call[t] = "close"
  /\ handle' = [handle EXCEPT ![on[t]] = "closed"]
  /\ failed' = failed \cup {on[t]} /\ once' = once \cup {on[t]}
  /\ missed' = missed \ {on[t]}
  /\ Unlock(t) /\ UNCHANGED <<done, stopped>>
-----------------------------------------------------------------------------
(* runGC: the select takes a tick although the context is done, or not.    *)
Select(d, c) ==
  pc[d] = "select" /\ Begin(d, d, c) /\ UNCHANGED <<manager, database, rest, holds>>
Tick(d) == Select(d, "collect")
ContextDone(d) == d \in done /\ Select(d, "close")

(* The context every drive derives its own from is that of the server      *)
(* (SetContext), which a signal to stop cancels.                           *)
Cancel ==
  /\ ~stopped /\ stopped' = TRUE
  /\ done' = done \cup {d \in Drive : handle[d] # "new"}
  /\ UNCHANGED <<manager, handle, failed, missed, once, rwmutex, goroutine>>
-----------------------------------------------------------------------------
TakeMutex(t) ==
  \/ t \in Request /\ (Release(t) \/ \E u \in Dir, forStats \in BOOLEAN : Acquire(t, u, forStats))
  \/ /\ t \in Keeper
     /\ \/ \E u \in Dir : CloseDrive(t, u)
        \/ CloseIdle(t) \/ RefuseNew(t) \/ CloseAll(t) \/ Resources(t)

Loop(t) == NextDrive(t) \/ GiveMutexBack(t)
Locking(t) == Lock(t) \/ Granted(t)
Working(t) ==
  \/ Check(t) \/ CopyReads(t) \/ EndShared(t)
  \/ LoadOrRefuse(t) \/ CloseHandle(t)
  \/ RotateCloses(t) \/ RotateCloseFails(t) \/ RotateReopens(t) \/ RotateFails(t)

UseDrive(t) == EndBackup(t) \/ EndRequest(t) \/ \E c \in Calls : StartCall(t, c)

Next ==
  /\ \/ \E t \in Request \cup Keeper : WantMutex(t) \/ TakeMutex(t) \/ Loop(t)
     \/ \E t \in Request : UseDrive(t)
     \/ \E t \in Thread : Locking(t) \/ Working(t)
     \/ \E d \in Drive : Tick(d) \/ ContextDone(d)
     \/ Cancel
  /\ UNCHANGED collects

(* The scheduler runs what can run; Go's mutexes hand themselves to whoever*)
(* has waited for too long; the select of the collector takes both its     *)
(* cases again and again.  EndBackup: a client reads on, or its connection *)
(* ends.  Nothing says that a request ends, or that a tick comes.          *)
GoesOn(t) ==
  /\ TakeMutex(t) \/ Loop(t) \/ Locking(t) \/ Working(t) \/ EndBackup(t)
  /\ UNCHANGED collects
CollectorGoesOn(d) == (Locking(d) \/ Working(d)) /\ UNCHANGED collects
CollectorStops(d) == ContextDone(d) /\ UNCHANGED collects
Fairness ==
  /\ \A t \in Request \cup Keeper : SF_vars(GoesOn(t))
  /\ \A d \in Drive : SF_vars(CollectorGoesOn(d)) /\ SF_vars(CollectorStops(d))

Spec == Init /\ [][Next]_vars /\ Fairness
-----------------------------------------------------------------------------
Labels ==
  {"idle", "manager", "closeAll", "release", "next", "ready", "blocked", "shared", "using", "copied", "lock", "announced",
   "exclusive", "rotating", "select", "off"}

(* The state of the locks and of the goroutines has its type.              *)
TypeOK ==
  /\ collects \in BOOLEAN
  /\ mutex \in SUBSET Thread /\ drives \in [Dir -> Drive \cup {None}]
  /\ asked \in SUBSET Drive /\ closed \in BOOLEAN
  /\ handle \in [Drive -> {"new", "open", "closed"}]
  /\ failed \in SUBSET Drive /\ missed \in SUBSET Drive
  /\ once \in SUBSET Drive /\ done \in SUBSET Drive
  /\ stopped \in BOOLEAN
  /\ readers \in [Drive -> SUBSET Thread] /\ writer \in [Drive -> SUBSET Thread]
  /\ pc \in [Thread -> Labels] /\ call \in [Thread -> Shared \cup Exclusive \cup {None}]
  /\ on \in [Thread -> Drive \cup {None}] /\ rest \in [Thread -> SUBSET Drive]
  /\ holds \in [Request -> Drive \cup {None}]

(* Whoever works with a database handle, to read, to copy, to back up, to  *)
(* restore or to collect, works with an open one: no close and no key      *)
(* rotation takes it away meanwhile (the lock and the look at failed in    *)
(* every method of the driver, and in runGC, badger.go:1178-1181).  The    *)
(* one exception are drives a rotation could not close properly: it        *)
(* returns before it sets failed (rotation.go:76-80), and until another    *)
(* rotation succeeds or the drive is closed, all calls get a closed handle.*)
HandleOpenInUse ==
  /\ TypeOK
  /\ \A t \in Thread :
       pc[t] \in {"using", "copied"} => handle[on[t]] = "open" \/ on[t] \in missed

(* When the manager has no drive for a directory and nobody is inside the  *)
(* manager, Badger's lock of the directory has been given back, so that    *)
(* the next request can open it: Close waits for the close of the          *)
(* collector that came first (badger.go:1142-1159, drives.go:121-129).     *)
DirectoryReleased ==
  mutex = {} => \A u \in Dir : drives[u] = None => ~DirectoryLocked(u)

(* A drive is closed for good: no rotation that waited for the close opens *)
(* it again (failed, badger.go:1150; Rotate, badger.go:1048-1050).         *)
ClosedForGood == [][\A d \in once : handle'[d] = "closed"]_vars

(* Every call of a request and every wait for the manager ends: nobody     *)
(* waits for a lock for ever, whoever waits for a writer included (the     *)
(* reader of Copy, badger.go:1217; BadgerResources, drives.go:151).  And    *)
(* the collector of a drive ends once the drive is closed or its context   *)
(* is cancelled, and does not tick on a closed database for ever.          *)
CollectorEnds ==
  \A d \in Drive : d \in done \cup once /\ pc[d] # "idle" ~> pc[d] = "off"
CallsEnd ==
  /\ \A t \in Request \cup Keeper : pc[t] \notin {"idle", "ready"} ~> pc[t] \in {"idle", "ready"}
  /\ CollectorEnds
=============================================================================
