----------------------- MODULE DriveLifecycleProofs -----------------------
(***************************************************************************)
(* Whatever the drives and goroutines: nobody works with a database handle *)
(* that somebody takes away, a directory the manager has no drive for can  *)
(* be opened again, and a closed drive stays closed.                       *)
(*                                                                         *)
(* The readers-writer mutex keeps a drive's readers and its writer apart   *)
(* (Locked); a handle is closed only by the writer, which marks the drive  *)
(* failed before anybody else gets in, unless it is a rotation whose close *)
(* returns an error (Handles); and a drive that has left *)
(* the manager is closed, or is one that the goroutine inside the manager  *)
(* has still to close (Removed).                                           *)
(***************************************************************************)
EXTENDS DriveLifecycle, TLAPS

(* A goroutine with a lock of its drive, or on the way to it.              *)
Inside == {"shared", "using", "copied"}
Writing == {"announced", "exclusive", "rotating"}
InCall(t) == pc[t] \in Inside \cup Writing \cup {"blocked", "lock"}

(* Who holds the mutex of a drive for reading or writing is in a call of   *)
(* it, and the other way round; a writer that was let in is alone.         *)
Locked ==
  /\ \A t \in Thread : InCall(t) => on[t] \in Drive
  /\ \A t \in Thread : pc[t] \in Inside \cup {"blocked"} => call[t] \in Shared
  /\ \A t \in Thread : pc[t] \in Writing \cup {"lock"} => call[t] \in Exclusive
  /\ \A t \in Thread, d \in Drive : t \in readers[d] <=> pc[t] \in Inside /\ on[t] = d
  /\ \A t \in Thread, d \in Drive : t \in writer[d] <=> pc[t] \in Writing /\ on[t] = d
  /\ \A t \in Thread, d \in Drive : t \in writer[d] => writer[d] = {t}
  /\ \A t \in Thread : pc[t] \in {"exclusive", "rotating"} => readers[on[t]] = {}

(* Drives that anybody knows of have been opened.                          *)
Known ==
  /\ \A u \in Dir : drives[u] # None => DirOf[drives[u]] = u /\ handle[drives[u]] # "new"
  /\ \A t \in Thread : InCall(t) => handle[on[t]] # "new"
  /\ \A t \in Thread : \A d \in rest[t] : handle[d] # "new"
  /\ \A t \in Request : holds[t] # None => handle[holds[t]] # "new"
  /\ \A d \in Drive : pc[d] # "idle" => handle[d] # "new"

(* What is closed is failed, but for what a rotation closed with an error; *)
(* a drive that was closed for good is failed, and no rotation of it is    *)
(* under way.                                                              *)
Handles ==
  /\ \A d \in Drive : d \in failed => handle[d] = "closed"
  /\ \A d \in Drive : handle[d] = "closed" => d \in failed \cup missed
  /\ once \subseteq failed
  /\ \A t \in Thread : pc[t] \in {"using", "copied"} => handle[on[t]] = "open" \/ on[t] \in missed
  /\ \A t \in Thread : pc[t] = "rotating" => on[t] \notin once /\ call[t] = "rotate"

(* The goroutine inside the manager closes drives or asks them.            *)
Managing ==
  /\ \A t \in Thread : pc[t] = "next" => mutex = {t}
  /\ \A t \in mutex :
       /\ mutex = {t} /\ (pc[t] = "next" \/ InCall(t))
       /\ call[t] \in {"close", "resources"}

(* A request has acquired the drive it calls.                              *)
Acquired ==
  /\ \A t \in Thread : pc[t] \in {"ready", "release"} => t \in Request
  /\ \A t \in Request : pc[t] \in {"ready", "release"} \/ (InCall(t) /\ t \notin mutex)
                          => holds[t] # None

(* A drive that has left the manager is closed, or will be.                *)
ToClose(t, d) == call[t] = "close" /\ (d \in rest[t] \/ (InCall(t) /\ on[t] = d))
Removed ==
  \A d \in Drive :
    handle[d] # "new" /\ drives[DirOf[d]] # d => d \in once \/ \E t \in mutex : ToClose(t, d)

IInv == TypeOK /\ Locked /\ Known /\ Handles /\ Managing /\ Acquired /\ Removed
-----------------------------------------------------------------------------
LEMMA InitInv == Init => IInv
<1> SUFFICES ASSUME Init PROVE IInv
  OBVIOUS
<1> USE LifecycleAssumption DEF Init
<1>1. TypeOK
  BY DEF TypeOK, Labels, Thread
<1>2. Locked
  BY DEF Locked, InCall, Inside, Writing, Thread
<1>3. Known /\ Handles
  BY DEF Known, Handles, InCall, Inside, Writing, Thread
<1>4. Managing /\ Acquired /\ Removed
  BY DEF Managing, Acquired, Removed, InCall, Inside, Writing, Thread
<1> QED
  BY <1>1, <1>2, <1>3, <1>4 DEF IInv

(* A call that begins, or ends, keeps the mutex of its drive in order.     *)
LEMMA BeginLocked ==
  ASSUME TypeOK, Locked, NEW t \in Thread, ~InCall(t), NEW d \in Drive,
         NEW c \in Shared \cup Exclusive, Begin(t, d, c)
  PROVE  Locked'
BY DEF Begin, Goto, TypeOK, Locked, InCall, Inside, Writing, Shared, Exclusive

LEMMA RUnlockLocked ==
  ASSUME TypeOK, Locked, NEW t \in Thread, pc[t] \in Inside, RUnlock(t)
  PROVE  Locked'
<1> USE DEF TypeOK, RUnlock, Leave, Goto
<1>1. on[t] \in Drive /\ Return(t) \in {"next", "ready", "off", "select"}
  BY DEF Locked, InCall, Inside, Return
<1>2. ~InCall(t)' /\ on'[t] = None
  BY <1>1 DEF InCall, Inside, Writing
<1>3. \A x \in Thread \ {t} : pc'[x] = pc[x] /\ on'[x] = on[x] /\ call'[x] = call[x]
  OBVIOUS
<1>4. \A x \in Thread, d \in Drive :
        x \in readers'[d] <=> x \in readers[d] /\ ~(x = t /\ d = on[t])
  BY <1>1
<1>5. writer' = writer
  OBVIOUS
<1> HIDE DEF RUnlock, Leave, Goto, TypeOK
<1>6. \A x \in Thread, d \in Drive : x \in readers'[d] <=> pc'[x] \in Inside /\ on'[x] = d
  BY <1>1, <1>2, <1>3, <1>4 DEF Locked, InCall
<1>7. \A x \in Thread, d \in Drive : x \in writer'[d] <=> pc'[x] \in Writing /\ on'[x] = d
  BY <1>2, <1>3, <1>5 DEF Locked, InCall, Inside, Writing
<1>8. \A x \in Thread : pc'[x] \in {"exclusive", "rotating"} => readers'[on'[x]] = {}
  <2> SUFFICES ASSUME NEW x \in Thread, pc'[x] \in {"exclusive", "rotating"}
               PROVE  readers'[on'[x]] = {}
    OBVIOUS
  <2>1. x # t /\ on'[x] = on[x] /\ on[x] \in Drive /\ readers[on[x]] = {}
    BY <1>2, <1>3 DEF Locked, InCall, Writing
  <2>2. readers'[on[x]] \subseteq readers[on[x]]
    BY <2>1 DEF RUnlock, TypeOK
  <2> QED
    BY <2>1, <2>2
<1> QED
  BY <1>2, <1>3, <1>5, <1>6, <1>7, <1>8 DEF Locked, InCall, Inside, Writing

(* What is still to be closed stays so while the manager stays as it is    *)
(* and the goroutine inside goes on with its loop.                         *)
LEMMA RemovedKept ==
  ASSUME TypeOK, Removed, UNCHANGED <<mutex, drives>>, once \subseteq once',
         \A d \in Drive : handle'[d] # "new" => handle[d] # "new",
         \A x \in mutex, d \in Drive : ToClose(x, d) => ToClose(x, d)' \/ d \in once'
  PROVE  Removed'
BY DEF Removed

LEMMA WantMutexStep ==
  ASSUME IInv, NEW t \in Request \cup Keeper, WantMutex(t), UNCHANGED collects
  PROVE  IInv'
<1> USE LifecycleAssumption DEF IInv, WantMutex, Goto, manager, database, rwmutex
<1>1. TypeOK'
  BY DEF TypeOK, Labels, Shared, Exclusive, Thread
<1>2. Locked'
  BY DEF TypeOK, Locked, InCall, Inside, Writing, Shared, Exclusive, Thread
<1>3. Known'
  BY DEF TypeOK, Known, Locked, InCall, Inside, Writing, Thread
<1>4. Handles'
  BY DEF TypeOK, Handles, Known, Locked, InCall, Inside, Writing, Thread
<1>5. Managing'
  BY DEF TypeOK, Managing, InCall, Inside, Writing, Shared, Exclusive, Thread
<1>6. Acquired'
  BY DEF TypeOK, Acquired, Managing, Locked, InCall, Inside, Writing, Thread
<1>7. Removed'
  BY DEF TypeOK, Removed, Managing, Locked, ToClose, InCall, Inside, Writing, Thread
<1> QED
  BY <1>1, <1>2, <1>3, <1>4, <1>5, <1>6, <1>7

LEMMA RefuseStep ==
  ASSUME IInv, NEW t \in Request, Take(t, "manager"), Refuse(t), UNCHANGED collects
  PROVE  IInv'
<1> USE LifecycleAssumption DEF IInv, Take, Refuse, Goto, manager, database, rwmutex
<1>1. TypeOK'
  BY DEF TypeOK, Labels, Shared, Exclusive, Thread
<1>2. Locked'
  BY DEF TypeOK, Locked, InCall, Inside, Writing, Shared, Exclusive, Thread
<1>3. Known'
  BY DEF TypeOK, Known, Locked, InCall, Inside, Writing, Thread
<1>4. Handles'
  BY DEF TypeOK, Handles, Known, Locked, InCall, Inside, Writing, Thread
<1>5. Managing'
  BY DEF TypeOK, Managing, InCall, Inside, Writing, Shared, Exclusive, Thread
<1>6. Acquired'
  BY DEF TypeOK, Acquired, Managing, Locked, InCall, Inside, Writing, Thread
<1>7. Removed'
  BY DEF TypeOK, Removed, Managing, Locked, ToClose, InCall, Inside, Writing, Thread
<1> QED
  BY <1>1, <1>2, <1>3, <1>4, <1>5, <1>6, <1>7

LEMMA OpenDriveStep ==
  ASSUME IInv, NEW t \in Request, NEW u \in Dir, NEW forStats \in BOOLEAN, Take(t, "manager"), drives[u] = None,
         OpenDrive(t, u, forStats), UNCHANGED collects
  PROVE  IInv'
<1> USE LifecycleAssumption DEF IInv, Take, OpenDrive, Goto, manager, database, rwmutex
<1>1. TypeOK'
  BY SMTT(40) DEF TypeOK, Labels, Shared, Exclusive, Thread
<1>2. Locked'
  <2>1. PICK d \in Drive :
          /\ handle[d] = "new"
          /\ pc' = [pc EXCEPT ![t] = "ready", ![d] = IF collects THEN "select" ELSE @]
    OBVIOUS
  <2>2. pc[d] = "idle" /\ t # d /\ d \in Thread /\ t \in Thread
    BY <2>1 DEF Known, Thread
  <2>3. \A x \in Thread : pc'[x] = pc[x] \/ (pc[x] \in {"idle", "manager"} /\ pc'[x] \in {"ready", "select"})
    BY <2>1, <2>2 DEF TypeOK
  <2>4. UNCHANGED <<readers, writer, on, call>>
    OBVIOUS
  <2> HIDE DEF OpenDrive
  <2> QED
    BY <2>3, <2>4 DEF Locked, InCall, Inside, Writing
<1>3. Known'
  BY DEF TypeOK, Known, Locked, InCall, Inside, Writing, Thread
<1>4. Handles'
  BY DEF TypeOK, Handles, Known, Locked, InCall, Inside, Writing, Thread
<1>5. Managing'
  BY DEF TypeOK, Managing, InCall, Inside, Writing, Shared, Exclusive, Thread
<1>6. Acquired'
  BY DEF TypeOK, Acquired, Managing, Locked, InCall, Inside, Writing, Thread
<1>7. Removed'
  BY DEF TypeOK, Removed, Managing, Locked, ToClose, InCall, Inside, Writing, Thread
<1> QED
  BY <1>1, <1>2, <1>3, <1>4, <1>5, <1>6, <1>7

LEMMA AcquiredStep ==
  ASSUME IInv, NEW t \in Request, NEW u \in Dir, Take(t, "manager"), drives[u] # None,
         holds' = [holds EXCEPT ![t] = drives[u]], Goto(t, "ready"),
         UNCHANGED <<manager, database, rwmutex, call, on, rest>>, UNCHANGED collects
  PROVE  IInv'
<1> USE LifecycleAssumption DEF IInv, Take, Goto, manager, database, rwmutex
<1>1. TypeOK'
  BY DEF TypeOK, Labels, Shared, Exclusive, Thread
<1>2. Locked'
  BY DEF TypeOK, Locked, InCall, Inside, Writing, Shared, Exclusive, Thread
<1>3. Known'
  BY DEF TypeOK, Known, Locked, InCall, Inside, Writing, Thread
<1>4. Handles'
  BY DEF TypeOK, Handles, Known, Locked, InCall, Inside, Writing, Thread
<1>5. Managing'
  BY DEF TypeOK, Managing, InCall, Inside, Writing, Shared, Exclusive, Thread
<1>6. Acquired'
  BY DEF TypeOK, Acquired, Managing, Locked, InCall, Inside, Writing, Thread
<1>7. Removed'
  BY DEF TypeOK, Removed, Managing, Locked, ToClose, InCall, Inside, Writing, Thread
<1> QED
  BY <1>1, <1>2, <1>3, <1>4, <1>5, <1>6, <1>7

LEMMA CloseDrivesStep ==
  ASSUME IInv, NEW t \in Request \cup Keeper, NEW S \in SUBSET Drive, mutex = {}, ~InCall(t), pc[t] # "ready",
         \A d \in S : drives[DirOf[d]] = d, CloseDrives(t, S),
         holds' = holds \/ holds' = [holds EXCEPT ![t] = None], UNCHANGED collects
  PROVE  IInv'
<1> USE LifecycleAssumption DEF IInv, CloseDrives, Goto, manager, database, rwmutex
<1>1. TypeOK'
  BY DEF TypeOK, Labels, Shared, Exclusive, Thread
<1>2. Locked'
  BY DEF TypeOK, Locked, InCall, Inside, Writing, Shared, Exclusive, Thread
<1>3. Known'
  BY DEF TypeOK, Known, Locked, InCall, Inside, Writing, Thread
<1>4. Handles'
  BY DEF TypeOK, Handles, Known, Locked, InCall, Inside, Writing, Thread
<1>5. Managing'
  BY DEF TypeOK, Managing, InCall, Inside, Writing, Shared, Exclusive, Thread
<1>6. Acquired'
  BY DEF TypeOK, Acquired, Managing, Locked, InCall, Inside, Writing, Thread
<1>7. Removed'
  BY DEF TypeOK, Removed, Managing, Locked, ToClose, InCall, Inside, Writing, Thread
<1> QED
  BY <1>1, <1>2, <1>3, <1>4, <1>5, <1>6, <1>7

LEMMA AskToCloseStep ==
  ASSUME IInv, NEW t \in Keeper, NEW S \in SUBSET Drive, Take(t, "manager"), asked' = asked \cup S, Goto(t, "idle"),
         UNCHANGED <<mutex, drives, closed, database, rwmutex, call, on, rest, holds>>, UNCHANGED collects
  PROVE  IInv'
<1> USE LifecycleAssumption DEF IInv, Take, Goto, manager, database, rwmutex
<1>1. TypeOK'
  BY DEF TypeOK, Labels, Shared, Exclusive, Thread
<1>2. Locked'
  BY DEF TypeOK, Locked, InCall, Inside, Writing, Shared, Exclusive, Thread
<1>3. Known'
  BY DEF TypeOK, Known, Locked, InCall, Inside, Writing, Thread
<1>4. Handles'
  BY DEF TypeOK, Handles, Known, Locked, InCall, Inside, Writing, Thread
<1>5. Managing'
  BY DEF TypeOK, Managing, InCall, Inside, Writing, Shared, Exclusive, Thread
<1>6. Acquired'
  BY DEF TypeOK, Acquired, Managing, Locked, InCall, Inside, Writing, Thread
<1>7. Removed'
  BY DEF TypeOK, Removed, Managing, Locked, ToClose, InCall, Inside, Writing, Thread
<1> QED
  BY <1>1, <1>2, <1>3, <1>4, <1>5, <1>6, <1>7

LEMMA RefuseNewStep ==
  ASSUME IInv, NEW t \in Keeper, RefuseNew(t), UNCHANGED collects
  PROVE  IInv'
<1> USE LifecycleAssumption DEF IInv, RefuseNew, Take, Goto, manager, database, rwmutex
<1>1. TypeOK'
  BY DEF TypeOK, Labels, Shared, Exclusive, Thread
<1>2. Locked'
  BY DEF TypeOK, Locked, InCall, Inside, Writing, Shared, Exclusive, Thread
<1>3. Known'
  BY DEF TypeOK, Known, Locked, InCall, Inside, Writing, Thread
<1>4. Handles'
  BY DEF TypeOK, Handles, Known, Locked, InCall, Inside, Writing, Thread
<1>5. Managing'
  BY DEF TypeOK, Managing, InCall, Inside, Writing, Shared, Exclusive, Thread
<1>6. Acquired'
  BY DEF TypeOK, Acquired, Managing, Locked, InCall, Inside, Writing, Thread
<1>7. Removed'
  BY DEF TypeOK, Removed, Managing, Locked, ToClose, InCall, Inside, Writing, Thread
<1> QED
  BY <1>1, <1>2, <1>3, <1>4, <1>5, <1>6, <1>7

LEMMA ResourcesStep ==
  ASSUME IInv, NEW t \in Keeper, Resources(t), UNCHANGED collects
  PROVE  IInv'
<1> USE LifecycleAssumption DEF IInv, Resources, Take, Goto, manager, database, rwmutex
<1>1. TypeOK'
  BY DEF TypeOK, Labels, Shared, Exclusive, Thread
<1>2. Locked'
  BY DEF TypeOK, Locked, InCall, Inside, Writing, Shared, Exclusive, Thread
<1>3. Known'
  BY DEF TypeOK, Known, Locked, InCall, Inside, Writing, Thread
<1>4. Handles'
  BY DEF TypeOK, Handles, Known, Locked, InCall, Inside, Writing, Thread
<1>5. Managing'
  BY DEF TypeOK, Managing, InCall, Inside, Writing, Shared, Exclusive, Thread
<1>6. Acquired'
  BY DEF TypeOK, Acquired, Managing, Locked, InCall, Inside, Writing, Thread
<1>7. Removed'
  BY DEF TypeOK, Removed, Managing, Locked, ToClose, InCall, Inside, Writing, Thread
<1> QED
  BY <1>1, <1>2, <1>3, <1>4, <1>5, <1>6, <1>7

LEMMA LockStep ==
  ASSUME IInv, NEW t \in Thread, Lock(t), UNCHANGED collects
  PROVE  IInv'
<1> USE LifecycleAssumption DEF IInv, Lock, Goto, manager, database, rwmutex
<1>1. TypeOK'
  BY ZenonT(40) DEF TypeOK, Labels, Shared, Exclusive, Thread
<1>2. Locked'
  BY DEF TypeOK, Locked, InCall, Inside, Writing, Shared, Exclusive, Thread
<1>3. Known'
  BY DEF TypeOK, Known, Locked, InCall, Inside, Writing, Thread
<1>4. Handles'
  BY DEF TypeOK, Handles, Known, Locked, InCall, Inside, Writing, Thread
<1>5. Managing'
  BY DEF TypeOK, Managing, InCall, Inside, Writing, Shared, Exclusive, Thread
<1>6. Acquired'
  BY DEF TypeOK, Acquired, Managing, Locked, InCall, Inside, Writing, Thread
<1>7. Removed'
  BY DEF TypeOK, Removed, Managing, Locked, ToClose, InCall, Inside, Writing, Thread
<1> QED
  BY <1>1, <1>2, <1>3, <1>4, <1>5, <1>6, <1>7

LEMMA GrantedStep ==
  ASSUME IInv, NEW t \in Thread, Granted(t), UNCHANGED collects
  PROVE  IInv'
<1> USE LifecycleAssumption DEF IInv, Granted, Goto, manager, database, rwmutex
<1>1. TypeOK'
  BY DEF TypeOK, Labels, Shared, Exclusive, Thread
<1>2. Locked'
  BY DEF TypeOK, Locked, InCall, Inside, Writing, Shared, Exclusive, Thread
<1>3. Known'
  BY DEF TypeOK, Known, Locked, InCall, Inside, Writing, Thread
<1>4. Handles'
  BY DEF TypeOK, Handles, Known, Locked, InCall, Inside, Writing, Thread
<1>5. Managing'
  BY DEF TypeOK, Managing, InCall, Inside, Writing, Shared, Exclusive, Thread
<1>6. Acquired'
  BY DEF TypeOK, Acquired, Managing, Locked, InCall, Inside, Writing, Thread
<1>7. Removed'
  BY DEF TypeOK, Removed, Managing, Locked, ToClose, InCall, Inside, Writing, Thread
<1> QED
  BY <1>1, <1>2, <1>3, <1>4, <1>5, <1>6, <1>7

LEMMA NextDriveStep ==
  ASSUME IInv, NEW t \in Request \cup Keeper, NextDrive(t), UNCHANGED collects
  PROVE  IInv'
<1> USE LifecycleAssumption DEF IInv, NextDrive, Begin, Goto, manager, database, rwmutex
<1>1. TypeOK'
  BY DEF TypeOK, Labels, Shared, Exclusive, Thread
<1>2. Locked'
  <2>1. PICK d \in rest[t] : Begin(t, d, call[t])
    OBVIOUS
  <2>2. t \in Thread /\ d \in Drive
    BY DEF TypeOK, Thread
  <2>3. call[t] \in Shared \cup Exclusive /\ ~InCall(t)
    BY <2>2 DEF Managing, Shared, Exclusive, InCall, Inside, Writing
  <2> QED
    BY <2>1, <2>2, <2>3, BeginLocked
<1>3. Known'
  BY DEF TypeOK, Known, Locked, InCall, Inside, Writing, Thread
<1>4. Handles'
  BY DEF TypeOK, Handles, Known, Locked, InCall, Inside, Writing, Thread
<1>5. Managing'
  BY DEF TypeOK, Managing, InCall, Inside, Writing, Shared, Exclusive, Thread
<1>6. Acquired'
  BY DEF TypeOK, Acquired, Managing, Locked, InCall, Inside, Writing, Thread
<1>7. Removed'
  BY DEF TypeOK, Removed, Managing, Locked, ToClose, InCall, Inside, Writing, Thread
<1> QED
  BY <1>1, <1>2, <1>3, <1>4, <1>5, <1>6, <1>7

LEMMA GiveMutexBackStep ==
  ASSUME IInv, NEW t \in Request \cup Keeper, GiveMutexBack(t), UNCHANGED collects
  PROVE  IInv'
<1> USE LifecycleAssumption DEF IInv, GiveMutexBack, Goto, manager, database, rwmutex
<1>1. TypeOK'
  BY DEF TypeOK, Labels, Shared, Exclusive, Thread
<1>2. Locked'
  BY DEF TypeOK, Locked, InCall, Inside, Writing, Shared, Exclusive, Thread
<1>3. Known'
  BY DEF TypeOK, Known, Locked, InCall, Inside, Writing, Thread
<1>4. Handles'
  BY DEF TypeOK, Handles, Known, Locked, InCall, Inside, Writing, Thread
<1>5. Managing'
  BY DEF TypeOK, Managing, InCall, Inside, Writing, Shared, Exclusive, Thread
<1>6. Acquired'
  BY DEF TypeOK, Acquired, Managing, Locked, InCall, Inside, Writing, Thread
<1>7. Removed'
  BY DEF TypeOK, Removed, Managing, Locked, ToClose, InCall, Inside, Writing, Thread
<1> QED
  BY <1>1, <1>2, <1>3, <1>4, <1>5, <1>6, <1>7

LEMMA StartCallStep ==
  ASSUME IInv, NEW t \in Request, NEW c \in Calls, StartCall(t, c), UNCHANGED collects
  PROVE  IInv'
<1> USE LifecycleAssumption DEF IInv, StartCall, Begin, Goto, manager, database, rwmutex
<1>1. TypeOK'
  BY ZenonT(40) DEF TypeOK, Labels, Shared, Exclusive, Thread
<1>2. Locked'
  <2>1. t \in Thread /\ holds[t] \in Drive /\ c \in Shared \cup Exclusive /\ ~InCall(t)
    BY DEF TypeOK, Acquired, Thread, Shared, Exclusive, InCall, Inside, Writing
  <2> QED
    BY <2>1, BeginLocked
<1>3. Known'
  <2>1. t \in Thread /\ holds[t] \in Drive /\ handle[holds[t]] # "new"
    BY DEF TypeOK, Acquired, Known, Thread
  <2>2. \A x \in Thread \ {t} : pc'[x] = pc[x] /\ on'[x] = on[x]
    BY DEF TypeOK
  <2>3. on'[t] = holds[t] /\ UNCHANGED <<handle, drives, rest, holds>>
    BY <2>1 DEF TypeOK
  <2>4. \A d \in Drive : d # t
    OBVIOUS
  <2> QED
    BY <2>1, <2>2, <2>3, <2>4 DEF Known, InCall, Thread
<1>4. Handles'
  BY DEF TypeOK, Handles, Known, Locked, InCall, Inside, Writing, Thread
<1>5. Managing'
  BY DEF TypeOK, Managing, InCall, Inside, Writing, Shared, Exclusive, Thread
<1>6. Acquired'
  BY DEF TypeOK, Acquired, Managing, Locked, InCall, Inside, Writing, Thread
<1>7. Removed'
  BY SMTT(60) DEF TypeOK, Removed, Managing, Locked, ToClose, InCall, Inside, Writing, Thread
<1> QED
  BY <1>1, <1>2, <1>3, <1>4, <1>5, <1>6, <1>7

LEMMA EndRequestStep ==
  ASSUME IInv, NEW t \in Request, EndRequest(t), UNCHANGED collects
  PROVE  IInv'
<1> USE LifecycleAssumption DEF IInv, EndRequest, Goto, manager, database, rwmutex
<1>1. TypeOK'
  BY DEF TypeOK, Labels, Shared, Exclusive, Thread
<1>2. Locked'
  BY DEF TypeOK, Locked, InCall, Inside, Writing, Shared, Exclusive, Thread
<1>3. Known'
  BY DEF TypeOK, Known, Locked, InCall, Inside, Writing, Thread
<1>4. Handles'
  BY DEF TypeOK, Handles, Known, Locked, InCall, Inside, Writing, Thread
<1>5. Managing'
  BY DEF TypeOK, Managing, InCall, Inside, Writing, Shared, Exclusive, Thread
<1>6. Acquired'
  BY DEF TypeOK, Acquired, Managing, Locked, InCall, Inside, Writing, Thread
<1>7. Removed'
  BY DEF TypeOK, Removed, Managing, Locked, ToClose, InCall, Inside, Writing, Thread
<1> QED
  BY <1>1, <1>2, <1>3, <1>4, <1>5, <1>6, <1>7

LEMMA CheckStep ==
  ASSUME IInv, NEW t \in Thread, Check(t), UNCHANGED collects
  PROVE  IInv'
<1> USE LifecycleAssumption DEF IInv, Check, RUnlock, Leave, Return, Goto, manager, database, rwmutex
<1>1. TypeOK'
  BY SMTT(60) DEF TypeOK, Labels, Shared, Exclusive, Thread
<1>2. Locked'
  <2>1. CASE on[t] \in failed
    BY <2>1, RUnlockLocked DEF Inside
  <2>2. CASE on[t] \notin failed
    BY <2>2 DEF TypeOK, Locked, InCall, Inside, Writing
  <2> QED
    BY <2>1, <2>2
<1>3. Known'
  <2>1. UNCHANGED <<handle, drives, holds>>
    OBVIOUS
  <2>2. \A x \in Thread \ {t} : pc'[x] = pc[x] /\ on'[x] = on[x]
    BY DEF TypeOK
  <2>3. InCall(t)' => on'[t] = on[t] /\ InCall(t)
    BY DEF TypeOK, InCall, Inside, Writing
  <2>4. pc[t] # "idle"
    OBVIOUS
  <2>5. \A x \in Thread : rest'[x] \subseteq rest[x]
    BY DEF TypeOK
  <2> HIDE DEF Check, RUnlock, Leave, Return, Goto, TypeOK, manager, database, rwmutex
  <2> QED
    BY <2>1, <2>2, <2>3, <2>4, <2>5 DEF Known, InCall, Thread
<1>4. Handles'
  <2>1. UNCHANGED <<handle, failed, missed, once>>
    OBVIOUS
  <2>2. \A x \in Thread \ {t} : pc'[x] = pc[x] /\ on'[x] = on[x] /\ call'[x] = call[x]
    BY DEF TypeOK
  <2>3. pc'[t] # "rotating" /\ (pc'[t] \in {"using", "copied"} => on'[t] = on[t] /\ on[t] \notin failed)
    BY DEF TypeOK
  <2>4. on[t] \notin failed => handle[on[t]] = "open" \/ on[t] \in missed
    BY DEF TypeOK, Known, Handles, Locked, InCall, Inside
  <2> QED
    BY <2>1, <2>2, <2>3, <2>4 DEF Handles
<1>5. Managing'
  BY SMTT(40) DEF TypeOK, Managing, InCall, Inside, Writing, Shared, Exclusive, Thread
<1>6. Acquired'
  BY DEF TypeOK, Acquired, Managing, Locked, InCall, Inside, Writing, Thread
<1>7. Removed'
  <2>1. \A x \in mutex, d \in Drive : ToClose(x, d) => ToClose(x, d)'
    <3>1. call[t] # "close"
      BY DEF Locked, Inside, Shared
    <3>2. \A x \in Thread \ {t} : rest'[x] = rest[x] /\ on'[x] = on[x] /\ call'[x] = call[x]
                                   /\ (InCall(x) => InCall(x)')
      BY DEF TypeOK, InCall, Inside, Writing
    <3> QED
      BY <3>1, <3>2 DEF ToClose, TypeOK
  <2>2. UNCHANGED <<mutex, drives, once>> /\ \A d \in Drive : handle'[d] # "new" => handle[d] # "new"
    BY DEF TypeOK, Locked, Known, InCall, Inside, Writing
  <2> QED
    BY <2>1, <2>2, RemovedKept
<1> QED
  BY <1>1, <1>2, <1>3, <1>4, <1>5, <1>6, <1>7

LEMMA CopyReadsStep ==
  ASSUME IInv, NEW t \in Thread, CopyReads(t), UNCHANGED collects
  PROVE  IInv'
<1> USE LifecycleAssumption DEF IInv, CopyReads, Goto, manager, database, rwmutex
<1>1. TypeOK'
  BY DEF TypeOK, Labels, Shared, Exclusive, Thread
<1>2. Locked'
  BY DEF TypeOK, Locked, InCall, Inside, Writing, Shared, Exclusive, Thread
<1>3. Known'
  BY DEF TypeOK, Known, Locked, InCall, Inside, Writing, Thread
<1>4. Handles'
  BY DEF TypeOK, Handles, Known, Locked, InCall, Inside, Writing, Thread
<1>5. Managing'
  BY DEF TypeOK, Managing, InCall, Inside, Writing, Shared, Exclusive, Thread
<1>6. Acquired'
  BY DEF TypeOK, Acquired, Managing, Locked, InCall, Inside, Writing, Thread
<1>7. Removed'
  BY DEF TypeOK, Removed, Managing, Locked, ToClose, InCall, Inside, Writing, Thread
<1> QED
  BY <1>1, <1>2, <1>3, <1>4, <1>5, <1>6, <1>7

LEMMA EndReadingStep ==
  ASSUME IInv, NEW t \in Thread, EndShared(t) \/ EndBackup(t), UNCHANGED collects
  PROVE  IInv'
<1> USE LifecycleAssumption DEF IInv, EndShared, EndBackup, RUnlock, Leave, Return, Goto, manager, database, rwmutex
<1>1. TypeOK'
  <2>1. on[t] \in Drive /\ Return(t) \in Labels
    BY DEF Locked, InCall, Inside, Labels
  <2>2. pc' \in [Thread -> Labels] /\ call' \in [Thread -> Shared \cup Exclusive \cup {None}]
    BY <2>1 DEF TypeOK
  <2>3. on' \in [Thread -> Drive \cup {None}] /\ readers' \in [Drive -> SUBSET Thread]
    BY <2>1 DEF TypeOK
  <2> QED
    BY <2>2, <2>3 DEF TypeOK
<1>2. Locked'
  BY RUnlockLocked DEF Inside
<1>3. Known'
  <2>1. UNCHANGED <<handle, drives, rest, holds>>
    OBVIOUS
  <2>2. \A x \in Thread \ {t} : pc'[x] = pc[x] /\ on'[x] = on[x]
    BY DEF TypeOK
  <2>3. ~InCall(t)' /\ pc[t] # "idle"
    BY DEF TypeOK, InCall, Inside, Writing
  <2> QED
    BY <2>1, <2>2, <2>3 DEF Known, InCall, Thread
<1>4. Handles'
  <2>1. UNCHANGED <<handle, failed, once>>
    OBVIOUS
  <2>2. \A x \in Thread \ {t} : pc'[x] = pc[x] /\ on'[x] = on[x] /\ call'[x] = call[x]
    BY DEF TypeOK
  <2>3. ~InCall(t)'
    BY DEF TypeOK, InCall, Inside, Writing
  <2> QED
    BY <2>1, <2>2, <2>3 DEF Handles, InCall, Inside, Writing
<1>5. Managing'
  BY DEF TypeOK, Managing, InCall, Inside, Writing, Shared, Exclusive, Thread
<1>6. Acquired'
  BY DEF TypeOK, Acquired, Managing, Locked, InCall, Inside, Writing, Thread
<1>7. Removed'
  <2>1. \A x \in mutex, d \in Drive : ToClose(x, d) => ToClose(x, d)'
    <3>1. call[t] # "close"
      BY DEF Locked, Inside, Shared
    <3>2. \A x \in Thread \ {t} : rest'[x] = rest[x] /\ on'[x] = on[x] /\ call'[x] = call[x]
                                   /\ (InCall(x) => InCall(x)')
      BY DEF TypeOK, InCall, Inside, Writing
    <3> QED
      BY <3>1, <3>2 DEF ToClose, TypeOK
  <2>2. UNCHANGED <<mutex, drives, once>> /\ \A d \in Drive : handle'[d] # "new" => handle[d] # "new"
    BY DEF TypeOK, Locked, Known, InCall, Inside, Writing
  <2> QED
    BY <2>1, <2>2, RemovedKept
<1> QED
  BY <1>1, <1>2, <1>3, <1>4, <1>5, <1>6, <1>7

LEMMA LoadOrRefuseStep ==
  ASSUME IInv, NEW t \in Thread, LoadOrRefuse(t), UNCHANGED collects
  PROVE  IInv'
<1> USE LifecycleAssumption DEF IInv, LoadOrRefuse, Unlock, Blocked, Leave, Return, manager, database, rwmutex
<1>1. TypeOK'
  BY DEF TypeOK, Labels, Shared, Exclusive, Thread
<1>2. Locked'
  BY DEF TypeOK, Locked, InCall, Inside, Writing, Shared, Exclusive, Thread
<1>3. Known'
  BY DEF TypeOK, Known, Locked, InCall, Inside, Writing, Thread
<1>4. Handles'
  BY DEF TypeOK, Handles, Known, Locked, InCall, Inside, Writing, Thread
<1>5. Managing'
  BY DEF TypeOK, Managing, InCall, Inside, Writing, Shared, Exclusive, Thread
<1>6. Acquired'
  BY DEF TypeOK, Acquired, Managing, Locked, InCall, Inside, Writing, Thread
<1>7. Removed'
  BY ZenonT(40) DEF TypeOK, Removed, Managing, Locked, ToClose, InCall, Inside, Writing, Thread
<1> QED
  BY <1>1, <1>2, <1>3, <1>4, <1>5, <1>6, <1>7

LEMMA RotateClosesStep ==
  ASSUME IInv, NEW t \in Thread, RotateCloses(t), UNCHANGED collects
  PROVE  IInv'
<1> USE LifecycleAssumption DEF IInv, RotateCloses, MayRotate, Goto, manager, database, rwmutex
<1>1. TypeOK'
  <2>1. on[t] \in Drive
    BY DEF Locked, InCall, Inside, Writing
  <2> QED
    BY <2>1 DEF TypeOK, Labels, Shared, Exclusive
<1>2. Locked'
  BY DEF TypeOK, Locked, InCall, Inside, Writing, Shared, Exclusive, Thread
<1>3. Known'
  BY DEF TypeOK, Known, Locked, InCall, Inside, Writing, Thread
<1>4. Handles'
  BY DEF TypeOK, Handles, Known, Locked, InCall, Inside, Writing, Thread
<1>5. Managing'
  BY DEF TypeOK, Managing, InCall, Inside, Writing, Shared, Exclusive, Thread
<1>6. Acquired'
  BY DEF TypeOK, Acquired, Managing, Locked, InCall, Inside, Writing, Thread
<1>7. Removed'
  <2>1. \A x \in mutex, d \in Drive : ToClose(x, d) => ToClose(x, d)'
    <3>1. call[t] # "close"
      BY DEF Handles
    <3>2. \A x \in Thread \ {t} : rest'[x] = rest[x] /\ on'[x] = on[x] /\ call'[x] = call[x]
                                   /\ (InCall(x) => InCall(x)')
      BY DEF TypeOK, InCall, Inside, Writing
    <3> QED
      BY <3>1, <3>2 DEF ToClose, TypeOK
  <2>2. UNCHANGED <<mutex, drives, once>> /\ \A d \in Drive : handle'[d] # "new" => handle[d] # "new"
    BY DEF TypeOK, Locked, Known, InCall, Inside, Writing
  <2> QED
    BY <2>1, <2>2, RemovedKept
<1> QED
  BY <1>1, <1>2, <1>3, <1>4, <1>5, <1>6, <1>7

LEMMA RotateCloseFailsStep ==
  ASSUME IInv, NEW t \in Thread, RotateCloseFails(t), UNCHANGED collects
  PROVE  IInv'
<1> USE LifecycleAssumption DEF IInv, RotateCloseFails, MayRotate, Unlock, Blocked, Leave, Return, manager, database, rwmutex
<1>1. TypeOK'
  <2>1. on[t] \in Drive
    BY DEF Locked, InCall, Inside, Writing
  <2> QED
    BY <2>1 DEF TypeOK, Labels, Shared, Exclusive
<1>2. Locked'
  BY DEF TypeOK, Locked, InCall, Inside, Writing, Shared, Exclusive, Thread
<1>3. Known'
  BY DEF TypeOK, Known, Locked, InCall, Inside, Writing, Thread
<1>4. Handles'
  BY DEF TypeOK, Handles, Known, Locked, InCall, Inside, Writing, Thread
<1>5. Managing'
  BY DEF TypeOK, Managing, InCall, Inside, Writing, Shared, Exclusive, Thread
<1>6. Acquired'
  BY DEF TypeOK, Acquired, Managing, Locked, InCall, Inside, Writing, Thread
<1>7. Removed'
  <2>1. \A x \in mutex, d \in Drive : ToClose(x, d) => ToClose(x, d)'
    <3>1. call[t] # "close"
      BY DEF Handles
    <3>2. \A x \in Thread \ {t} : rest'[x] = rest[x] /\ on'[x] = on[x] /\ call'[x] = call[x]
                                   /\ (InCall(x) => InCall(x)')
      BY DEF TypeOK, InCall, Inside, Writing
    <3> QED
      BY <3>1, <3>2 DEF ToClose, TypeOK
  <2>2. UNCHANGED <<mutex, drives, once>> /\ \A d \in Drive : handle'[d] # "new" => handle[d] # "new"
    BY DEF TypeOK, Locked, Known, InCall, Inside, Writing
  <2> QED
    BY <2>1, <2>2, RemovedKept
<1> QED
  BY <1>1, <1>2, <1>3, <1>4, <1>5, <1>6, <1>7

LEMMA RotateReopensStep ==
  ASSUME IInv, NEW t \in Thread, RotateReopens(t), UNCHANGED collects
  PROVE  IInv'
<1> USE LifecycleAssumption DEF IInv, RotateReopens, Unlock, Blocked, Leave, Return, manager, database, rwmutex
<1>1. TypeOK'
  BY DEF TypeOK, Labels, Shared, Exclusive, Thread
<1>2. Locked'
  BY DEF TypeOK, Locked, InCall, Inside, Writing, Shared, Exclusive, Thread
<1>3. Known'
  BY DEF TypeOK, Known, Locked, InCall, Inside, Writing, Thread
<1>4. Handles'
  BY DEF TypeOK, Handles, Known, Locked, InCall, Inside, Writing, Thread
<1>5. Managing'
  BY DEF TypeOK, Managing, InCall, Inside, Writing, Shared, Exclusive, Thread
<1>6. Acquired'
  BY DEF TypeOK, Acquired, Managing, Locked, InCall, Inside, Writing, Thread
<1>7. Removed'
  <2>1. \A x \in mutex, d \in Drive : ToClose(x, d) => ToClose(x, d)'
    <3>1. call[t] # "close"
      BY DEF Handles
    <3>2. \A x \in Thread \ {t} : rest'[x] = rest[x] /\ on'[x] = on[x] /\ call'[x] = call[x]
                                   /\ (InCall(x) => InCall(x)')
      BY DEF TypeOK, InCall, Inside, Writing
    <3> QED
      BY <3>1, <3>2 DEF ToClose, TypeOK
  <2>2. UNCHANGED <<mutex, drives, once>> /\ \A d \in Drive : handle'[d] # "new" => handle[d] # "new"
    BY DEF TypeOK, Locked, Known, InCall, Inside, Writing
  <2> QED
    BY <2>1, <2>2, RemovedKept
<1> QED
  BY <1>1, <1>2, <1>3, <1>4, <1>5, <1>6, <1>7

LEMMA RotateFailsStep ==
  ASSUME IInv, NEW t \in Thread, RotateFails(t), UNCHANGED collects
  PROVE  IInv'
<1> USE LifecycleAssumption DEF IInv, RotateFails, Unlock, Blocked, Leave, Return, manager, database, rwmutex
<1>1. TypeOK'
  BY DEF TypeOK, Labels, Shared, Exclusive, Thread
<1>2. Locked'
  BY DEF TypeOK, Locked, InCall, Inside, Writing, Shared, Exclusive, Thread
<1>3. Known'
  BY DEF TypeOK, Known, Locked, InCall, Inside, Writing, Thread
<1>4. Handles'
  BY DEF TypeOK, Handles, Known, Locked, InCall, Inside, Writing, Thread
<1>5. Managing'
  BY DEF TypeOK, Managing, InCall, Inside, Writing, Shared, Exclusive, Thread
<1>6. Acquired'
  BY DEF TypeOK, Acquired, Managing, Locked, InCall, Inside, Writing, Thread
<1>7. Removed'
  <2>1. \A x \in mutex, d \in Drive : ToClose(x, d) => ToClose(x, d)'
    <3>1. call[t] # "close"
      BY DEF Handles
    <3>2. \A x \in Thread \ {t} : rest'[x] = rest[x] /\ on'[x] = on[x] /\ call'[x] = call[x]
                                   /\ (InCall(x) => InCall(x)')
      BY DEF TypeOK, InCall, Inside, Writing
    <3> QED
      BY <3>1, <3>2 DEF ToClose, TypeOK
  <2>2. UNCHANGED <<mutex, drives, once>> /\ \A d \in Drive : handle'[d] # "new" => handle[d] # "new"
    BY DEF TypeOK, Locked, Known, InCall, Inside, Writing
  <2> QED
    BY <2>1, <2>2, RemovedKept
<1> QED
  BY <1>1, <1>2, <1>3, <1>4, <1>5, <1>6, <1>7

LEMMA CloseHandleStep ==
  ASSUME IInv, NEW t \in Thread, CloseHandle(t), UNCHANGED collects
  PROVE  IInv'
<1> USE LifecycleAssumption DEF IInv, CloseHandle, Unlock, Blocked, Leave, Return, manager, database, rwmutex
<1>1. TypeOK'
  <2>1. on[t] \in Drive
    BY DEF Locked, InCall, Inside, Writing
  <2> QED
    BY <2>1 DEF TypeOK, Labels, Shared, Exclusive
<1>2. Locked'
  BY DEF TypeOK, Locked, InCall, Inside, Writing, Shared, Exclusive, Thread
<1>3. Known'
  BY DEF TypeOK, Known, Locked, InCall, Inside, Writing, Thread
<1>4. Handles'
  BY DEF TypeOK, Handles, Known, Locked, InCall, Inside, Writing, Thread
<1>5. Managing'
  BY DEF TypeOK, Managing, InCall, Inside, Writing, Shared, Exclusive, Thread
<1>6. Acquired'
  BY DEF TypeOK, Acquired, Managing, Locked, InCall, Inside, Writing, Thread
<1>7. Removed'
  <2>1. \A x \in mutex, d \in Drive : ToClose(x, d) => ToClose(x, d)' \/ d \in once'
    <3>1. \A x \in Thread \ {t} : rest'[x] = rest[x] /\ on'[x] = on[x] /\ call'[x] = call[x]
                                   /\ (InCall(x) => InCall(x)')
      BY DEF TypeOK, InCall, Inside, Writing
    <3>2. rest'[t] = rest[t] /\ on[t] \in once' /\ (t \in mutex => call'[t] = call[t])
      BY DEF TypeOK, Managing
    <3> QED
      BY <3>1, <3>2 DEF ToClose, TypeOK
  <2>2. UNCHANGED <<mutex, drives>> /\ once \subseteq once'
          /\ \A d \in Drive : handle'[d] # "new" => handle[d] # "new"
    BY DEF TypeOK, Locked, Known, InCall, Inside, Writing
  <2> QED
    BY <2>1, <2>2, RemovedKept
<1> QED
  BY <1>1, <1>2, <1>3, <1>4, <1>5, <1>6, <1>7

LEMMA SelectStep ==
  ASSUME IInv, NEW d \in Drive, NEW c \in {"collect", "close"}, Select(d, c), UNCHANGED collects
  PROVE  IInv'
<1> USE LifecycleAssumption DEF IInv, Select, Begin, Goto, manager, database, rwmutex
<1>1. TypeOK'
  BY DEF TypeOK, Labels, Shared, Exclusive, Thread
<1>2. Locked'
  BY DEF TypeOK, Locked, InCall, Inside, Writing, Shared, Exclusive, Thread
<1>3. Known'
  BY DEF TypeOK, Known, Locked, InCall, Inside, Writing, Thread
<1>4. Handles'
  BY DEF TypeOK, Handles, Known, Locked, InCall, Inside, Writing, Thread
<1>5. Managing'
  BY DEF TypeOK, Managing, InCall, Inside, Writing, Shared, Exclusive, Thread
<1>6. Acquired'
  BY DEF TypeOK, Acquired, Managing, Locked, InCall, Inside, Writing, Thread
<1>7. Removed'
  BY DEF TypeOK, Removed, Managing, Locked, ToClose, InCall, Inside, Writing, Thread
<1> QED
  BY <1>1, <1>2, <1>3, <1>4, <1>5, <1>6, <1>7

LEMMA CancelStep ==
  ASSUME IInv, Cancel, UNCHANGED collects
  PROVE  IInv'
<1> USE LifecycleAssumption DEF IInv, Cancel, goroutine, manager, database, rwmutex
<1>1. TypeOK'
  BY DEF TypeOK, Labels, Shared, Exclusive, Thread
<1>2. Locked'
  BY DEF TypeOK, Locked, InCall, Inside, Writing, Shared, Exclusive, Thread
<1>3. Known'
  BY DEF TypeOK, Known, Locked, InCall, Inside, Writing, Thread
<1>4. Handles'
  BY DEF TypeOK, Handles, Known, Locked, InCall, Inside, Writing, Thread
<1>5. Managing'
  BY DEF TypeOK, Managing, InCall, Inside, Writing, Shared, Exclusive, Thread
<1>6. Acquired'
  BY DEF TypeOK, Acquired, Managing, Locked, InCall, Inside, Writing, Thread
<1>7. Removed'
  BY DEF TypeOK, Removed, Managing, Locked, ToClose, InCall, Inside, Writing, Thread
<1> QED
  BY <1>1, <1>2, <1>3, <1>4, <1>5, <1>6, <1>7

LEMMA StutterStep ==
  ASSUME IInv, UNCHANGED vars
  PROVE  IInv'
<1> USE LifecycleAssumption DEF IInv, vars, goroutine, manager, database, rwmutex
<1>1. TypeOK'
  BY DEF TypeOK, Labels, Shared, Exclusive, Thread
<1>2. Locked'
  BY DEF TypeOK, Locked, InCall, Inside, Writing, Shared, Exclusive, Thread
<1>3. Known'
  BY DEF TypeOK, Known, Locked, InCall, Inside, Writing, Thread
<1>4. Handles'
  BY DEF TypeOK, Handles, Known, Locked, InCall, Inside, Writing, Thread
<1>5. Managing'
  BY DEF TypeOK, Managing, InCall, Inside, Writing, Shared, Exclusive, Thread
<1>6. Acquired'
  BY DEF TypeOK, Acquired, Managing, Locked, InCall, Inside, Writing, Thread
<1>7. Removed'
  BY DEF TypeOK, Removed, Managing, Locked, ToClose, InCall, Inside, Writing, Thread
<1> QED
  BY <1>1, <1>2, <1>3, <1>4, <1>5, <1>6, <1>7
-----------------------------------------------------------------------------
(* The calls of the manager, by what they do with its drives.              *)
LEMMA TakeMutexStep ==
  ASSUME IInv, NEW t \in Thread, TakeMutex(t), UNCHANGED collects
  PROVE  IInv'
<1> USE LifecycleAssumption
<1>1. ASSUME t \in Request, NEW u \in Dir, NEW forStats \in BOOLEAN, Acquire(t, u, forStats)
      PROVE  IInv'
  <2>1. Take(t, "manager")
    BY <1>1 DEF Acquire
  <2>2. CASE Refuse(t)
    BY <1>1, <2>1, <2>2, RefuseStep
  <2>3. CASE drives[u] = None /\ OpenDrive(t, u, forStats)
    BY <1>1, <2>1, <2>3, OpenDriveStep
  <2>4. CASE /\ drives[u] # None /\ holds' = [holds EXCEPT ![t] = drives[u]]
             /\ Goto(t, "ready") /\ UNCHANGED <<manager, database, rwmutex, call, on, rest>>
    BY <1>1, <2>1, <2>4, AcquiredStep
  <2> QED
    BY <1>1, <2>2, <2>3, <2>4 DEF Acquire
<1>2. ASSUME t \in Request, Release(t) PROVE IInv'
  <2> DEFINE d == holds[t]
             last == d \in asked /\ ~\E r \in Request \ {t} : holds[r] = d
             S == {x \in {d} : last /\ drives[DirOf[d]] = d}
  <2>1. pc[t] = "release" /\ mutex = {} /\ d \in Drive
    BY <1>2 DEF Release, Take, IInv, Acquired, TypeOK
  <2>2. S \in SUBSET Drive /\ \A x \in S : drives[DirOf[x]] = x
    BY <2>1
  <2>3. CloseDrives(t, S) /\ holds' = [holds EXCEPT ![t] = None]
    BY <1>2 DEF Release
  <2>4. ~InCall(t) /\ pc[t] # "ready"
    BY <2>1 DEF InCall, Inside, Writing
  <2> HIDE DEF S
  <2> QED
    BY <1>2, <2>1, <2>2, <2>3, <2>4, CloseDrivesStep
<1>3. ASSUME t \in Keeper, NEW S \in SUBSET Drive, CloseDrives(t, S), mutex = {},
             pc[t] \in {"manager", "closeAll"}, \A d \in S : drives[DirOf[d]] = d, UNCHANGED holds
      PROVE  IInv'
  <2>1. ~InCall(t) /\ pc[t] # "ready"
    BY <1>3 DEF InCall, Inside, Writing
  <2> QED
    BY <1>3, <2>1, CloseDrivesStep
<1>4. \A u \in Dir : drives[u] # None => drives[u] \in Drive /\ DirOf[drives[u]] = u
  BY DEF IInv, TypeOK, Known
<1>5. ASSUME t \in Keeper, NEW u \in Dir, CloseDrive(t, u) PROVE IInv'
  <2> DEFINE S == {drives[u]} \ {None}
  <2>1. S \in SUBSET Drive /\ \A d \in S : drives[DirOf[d]] = d
    BY <1>4
  <2>2. Take(t, "manager") /\ UNCHANGED holds
    BY <1>5 DEF CloseDrive
  <2>3. CASE CloseDrives(t, S)
    BY <1>3, <1>5, <2>1, <2>2, <2>3 DEF Take
  <2>4. CASE /\ asked' = asked \cup S /\ Goto(t, "idle")
             /\ UNCHANGED <<mutex, drives, closed, database, rwmutex, call, on, rest>>
    BY <1>5, <2>1, <2>2, <2>4, AskToCloseStep
  <2> QED
    BY <1>5, <2>3, <2>4 DEF CloseDrive
<1>6. ASSUME t \in Keeper, CloseIdle(t) PROVE IInv'
  <2>1. PICK S \in SUBSET Unused : CloseDrives(t, S)
    BY <1>6 DEF CloseIdle
  <2>2. S \in SUBSET Drive /\ \A d \in S : drives[DirOf[d]] = d
    BY DEF Unused
  <2> QED
    BY <1>3, <1>6, <2>1, <2>2 DEF CloseIdle, Take
<1>7. ASSUME t \in Keeper, CloseAll(t) PROVE IInv'
  <2>1. \A d \in {drives[u] : u \in Dir} \ {None} : d \in Drive /\ drives[DirOf[d]] = d
    BY <1>4
  <2> QED
    BY <1>3, <1>7, <2>1 DEF CloseAll, Take
<1> QED
  BY <1>1, <1>2, <1>5, <1>6, <1>7, RefuseNewStep, ResourcesStep DEF TakeMutex

LEMMA NextStep == IInv /\ [Next]_vars => IInv'
<1> SUFFICES ASSUME IInv, [Next]_vars PROVE IInv'
  OBVIOUS
<1>1. CASE UNCHANGED vars
  BY <1>1, StutterStep
<1>2. ASSUME NEW t \in Request \cup Keeper, UNCHANGED collects,
             WantMutex(t) \/ TakeMutex(t) \/ Loop(t)
      PROVE  IInv'
  <2>1. t \in Thread
    BY DEF Thread
  <2> QED
    BY <1>2, <2>1, WantMutexStep, TakeMutexStep, NextDriveStep, GiveMutexBackStep DEF Loop
<1>3. ASSUME NEW t \in Request, UNCHANGED collects, UseDrive(t) PROVE IInv'
  <2>1. t \in Thread
    BY DEF Thread
  <2> QED
    BY <1>3, <2>1, EndReadingStep, EndRequestStep, StartCallStep DEF UseDrive
<1>4. ASSUME NEW t \in Thread, UNCHANGED collects, Locking(t) \/ Working(t) PROVE IInv'
  BY <1>4, LockStep, GrantedStep, CheckStep, CopyReadsStep, EndReadingStep, LoadOrRefuseStep,
     RotateClosesStep, RotateCloseFailsStep, RotateReopensStep, RotateFailsStep,
     CloseHandleStep DEF Locking, Working
<1>5. ASSUME NEW d \in Drive, UNCHANGED collects, Tick(d) \/ ContextDone(d) PROVE IInv'
  BY <1>5, SelectStep DEF Tick, ContextDone
<1>6. CASE Cancel /\ UNCHANGED collects
  BY <1>6, CancelStep
<1> QED
  BY <1>1, <1>2, <1>3, <1>4, <1>5, <1>6 DEF Next

LEMMA Invariant == Spec => []IInv
BY InitInv, NextStep, PTL DEF Spec

(* badger.go, the lock and failed: whoever works with a handle works with  *)
(* an open one, in every method of the driver and in its collector; or, in *)
(* the one exception, with one that a rotation failed to close properly    *)
(* and that no rotation or close since has put right.                      *)
THEOREM WorksOnOpenHandle == Spec => []HandleOpenInUse
<1>1. IInv => HandleOpenInUse
  BY DEF IInv, Handles, HandleOpenInUse
<1> QED
  BY Invariant, <1>1, PTL

(* badger.go Close and drives.go: once nobody is inside the manager, the   *)
(* directory of a drive that has left it can be opened again.              *)
THEOREM DirectoryGivenBack == Spec => []DirectoryReleased
<1>1. IInv => DirectoryReleased
  <2> SUFFICES ASSUME IInv, mutex = {}, NEW u \in Dir, drives[u] = None,
                      NEW d \in Drive, DirOf[d] = u, handle[d] = "open"
               PROVE  FALSE
    BY DEF DirectoryReleased, DirectoryLocked
  <2>1. drives[DirOf[d]] # d
    BY LifecycleAssumption
  <2>2. d \in once
    BY <2>1 DEF IInv, Removed
  <2> QED
    BY <2>2 DEF IInv, Handles
<1> QED
  BY Invariant, <1>1, PTL

(* badger.go Close and Rotate: a drive that was closed is not opened again *)
(* by a rotation that waited for the close.                                *)
THEOREM StaysClosed == Spec => ClosedForGood
<1>1. ASSUME IInv, IInv', once \subseteq once', NEW d \in once PROVE handle'[d] = "closed"
  BY <1>1 DEF IInv, TypeOK, Handles
<1>2. [Next]_vars => once \subseteq once'
  BY DEF Next, vars, manager, database, rwmutex, goroutine, WantMutex, TakeMutex, Loop, Release,
         Acquire, Refuse, OpenDrive, CloseDrives, CloseDrive, CloseIdle, RefuseNew, CloseAll,
         Resources, NextDrive, GiveMutexBack, UseDrive, EndBackup, EndRequest, StartCall, Locking,
         Lock, Granted, Working, Check, CopyReads, EndShared, LoadOrRefuse, RotateCloses, RotateCloseFails,
         RotateReopens, RotateFails, CloseHandle, Tick, ContextDone, Select, Cancel
<1>3. IInv /\ IInv' /\ [Next]_vars => [\A d \in once : handle'[d] = "closed"]_vars
  BY <1>1, <1>2
<1> QED
  BY Invariant, <1>3, PTL DEF Spec, ClosedForGood
=============================================================================
