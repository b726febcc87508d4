---------------------------- MODULE DriveManager ----------------------------
(***************************************************************************)
(* The drives of the server's users: opened on first use, shared by the    *)
(* requests of a user, closed when nobody has used them for a while, on    *)
(* logout, or when the server stops.                                       *)
(*                                                                         *)
(* Every method holds m.mu for all it does, so it is one step; the steps   *)
(* of CloseWithContext between which it lets go of m.mu are actions of     *)
(* their own.  A request is a handler and possibly the goroutine or the    *)
(* stream it hands its release function to.                                *)
(***************************************************************************)
EXTENDS Naturals, FiniteSets

CONSTANTS
  User,
  Request,
  MaxDrives,    \* drives that may exist at a time, as a bound on their names
  IdleTimeout   \* clock ticks after which an unused drive may be closed

ASSUME DriveAssumption ==
  /\ IsFiniteSet(User) /\ IsFiniteSet(Request)
  /\ MaxDrives \in Nat /\ MaxDrives >= Cardinality(User) + Cardinality(Request)
  /\ IdleTimeout \in Nat \ {0}

VARIABLES
  drives,      \* m.drives
  open,        \* drives that are open
  active,      \* m.active
  drained,     \* m.drained
  closedChan,  \* the channels that are closed
  closed,      \* m.closed
  stop,        \* m.stop is closed
  gc,          \* the goroutine of gc runs
  request,     \* what each request holds
  shutdown,    \* control point of CloseWithContext
  captured,    \* its local variable drained
  forced,      \* it did not wait for the last release
  quiet        \* ticks since a request of the user ended (no part of the code)

table == <<drives, open>>
counter == <<active, drained, closedChan>>
stopping == <<closed, stop, gc, shutdown, captured, forced>>
vars == <<table, counter, stopping, request, quiet>>

Drive == 1..MaxDrives
Chan == 1..3   \* the current, the captured and a fresh one
NoEntry == [drive |-> 0, users |-> 0, closeRequested |-> FALSE, age |-> 0]
Entry == [drive : Drive, users : 0..Cardinality(Request), closeRequested : BOOLEAN,
          age : 0..IdleTimeout]

(* The handler and the worker say whether they still run; owner is the one *)
(* that is to call the release function of the request.                    *)
Idle == [user |-> {}, drive |-> 0, handler |-> FALSE, worker |-> FALSE, owner |-> "nobody"]

Init ==
  /\ drives = [u \in User |-> NoEntry] /\ open = {}
  /\ active = 0 /\ drained = 1 /\ closedChan = {1}
  /\ closed = FALSE /\ stop = FALSE /\ gc = TRUE
  /\ shutdown = "no" /\ captured = 1 /\ forced = FALSE
  /\ request = [r \in Request |-> Idle]
  /\ quiet = [u \in User |-> 0]

Used(r) == request[r].worker \/ (request[r].handler /\ request[r].owner = "handler")
UsedBy(u) == \E r \in Request : request[r].user = {u} /\ Used(r)
-----------------------------------------------------------------------------
(* (DetachOnly and other variants that stand before the       *)
(* operator they vary are wrong on purpose: the runs detect them.)         *)

FreeDrive ==
  CHOOSE d \in Drive : d \notin open /\ \A r \in Request : request[r].drive # d

(* driveLocked: the entry of the user, a new one if the drive is not open. *)
EntryOf(u) ==
  IF drives[u] # NoEntry THEN [drives[u] EXCEPT !.age = 0]
  ELSE [NoEntry EXCEPT !.drive = FreeDrive]

Accepts == ~closed

Count(entry) == [entry EXCEPT !.users = @ + 1]

FreshChan == CHOOSE c \in Chan : c \notin {drained, captured}

(* Acquire, and Stats, which asks for the drive to be closed again when it *)
(* is the one to open it.  Opening may also fail: then nothing changes.    *)
Acquire(r, u, forStats) ==
  /\ Accepts /\ request[r] = Idle
  /\ LET entry == Count(EntryOf(u))
         asked == entry.closeRequested \/ (forStats /\ drives[u] = NoEntry)
     IN  /\ drives' = [drives EXCEPT ![u] = [entry EXCEPT !.closeRequested = asked]]
         /\ open' = open \cup {entry.drive}
         /\ request' = [request EXCEPT ![r] =
              [user |-> {u}, drive |-> entry.drive, handler |-> TRUE, worker |-> FALSE,
               owner |-> "handler"]]
  /\ active' = active + 1
  /\ IF active = 0
     THEN drained' = FreshChan /\ closedChan' = closedChan \ {FreshChan}
     ELSE UNCHANGED <<drained, closedChan>>
  /\ quiet' = [quiet EXCEPT ![u] = 0]
  /\ UNCHANGED stopping

(* release: the deferred function counts down on every path. *)
CountDown ==
  /\ active' = active - 1
  /\ closedChan' = IF active = 1 THEN closedChan \cup {drained} ELSE closedChan
  /\ UNCHANGED drained

Close(u) == drives' = [drives EXCEPT ![u] = NoEntry] /\ open' = open \ {drives[u].drive}
Keep(u, entry) == drives' = [drives EXCEPT ![u] = entry] /\ UNCHANGED open

Released(u) == [drives[u] EXCEPT !.users = @ - 1, !.age = 0]

ReleaseKeepsAge(u) ==
  LET entry == [Released(u) EXCEPT !.age = drives[u].age]
  IN  /\ CountDown
      /\ \/ drives[u] = NoEntry /\ UNCHANGED table
         \/ drives[u] # NoEntry /\ entry.users = 0 /\ entry.closeRequested /\ Close(u)
         \/ drives[u] # NoEntry /\ ~(entry.users = 0 /\ entry.closeRequested) /\ Keep(u, entry)
ReleaseNeverCloses(u) ==
  CountDown /\ IF drives[u] = NoEntry THEN UNCHANGED table ELSE Keep(u, Released(u))
Release(u) ==
  LET entry == Released(u)
  IN  /\ CountDown
      /\ \/ drives[u] = NoEntry /\ UNCHANGED table
         \/ drives[u] # NoEntry /\ entry.users = 0 /\ entry.closeRequested /\ Close(u)
         \/ drives[u] # NoEntry /\ ~(entry.users = 0 /\ entry.closeRequested) /\ Keep(u, entry)

(* The end of a handler or a worker, which releases the drive if that is   *)
(* its part: sync.Once lets nobody release twice.                          *)
End(r, part) ==
  LET left == [request[r] EXCEPT ![part] = FALSE,
                                 !.owner = IF @ = part THEN "nobody" ELSE @]
  IN  /\ request' = [request EXCEPT ![r] = IF left.handler \/ left.worker THEN left ELSE Idle]
      /\ \A u \in request[r].user :
           IF request[r].owner = part
           THEN Release(u) /\ quiet' = [quiet EXCEPT ![u] = 0]
           ELSE UNCHANGED <<table, counter, quiet>>
      /\ UNCHANGED stopping

(* takeRelease: an asynchronous operation, a download or a backup goes on  *)
(* after the handler has returned, and releases the drive instead of it.   *)
DetachOnly(r) ==
  /\ request[r].handler /\ request[r].owner = "handler" /\ ~request[r].worker
  /\ request' = [request EXCEPT ![r].worker = TRUE]
  /\ UNCHANGED <<table, counter, stopping, quiet>>
Detach(r) ==
  /\ request[r].handler /\ request[r].owner = "handler"
  /\ request' = [request EXCEPT ![r].worker = TRUE, ![r].owner = "worker"]
  /\ UNCHANGED <<table, counter, stopping, quiet>>

Return(r) == request[r].handler /\ End(r, "handler")
Finish(r) == request[r].worker /\ End(r, "worker")
-----------------------------------------------------------------------------
CloseDriveNow(u) ==
  /\ drives[u] # NoEntry
  /\ IF drives[u].users > 0
     THEN drives' = [drives EXCEPT ![u] = NoEntry] /\ UNCHANGED open
     ELSE Close(u)
  /\ UNCHANGED <<counter, stopping, request, quiet>>
CloseDrive(u) ==
  /\ drives[u] # NoEntry
  /\ IF drives[u].users > 0
     THEN Keep(u, [drives[u] EXCEPT !.closeRequested = TRUE])
     ELSE Close(u)
  /\ UNCHANGED <<counter, stopping, request, quiet>>

(* A logout closes the drive of the user. *)
Logout(u) == CloseDrive(u)

(* closeIdle.  The time it compares with was taken before it got the lock, *)
(* so a drive that has just reached the timeout may be left for next time. *)
CloseIdle(S) ==
  /\ gc /\ S # {}
  /\ \A u \in S : drives[u] # NoEntry /\ drives[u].users = 0 /\ drives[u].age >= IdleTimeout
  /\ drives' = [u \in User |-> IF u \in S THEN NoEntry ELSE drives[u]]
  /\ open' = open \ {drives[u].drive : u \in S}
  /\ UNCHANGED <<counter, stopping, request, quiet>>

Older(age) == IF age < IdleTimeout THEN age + 1 ELSE age

Tick ==
  /\ drives' = [u \in User |-> IF drives[u] = NoEntry THEN NoEntry
                               ELSE [drives[u] EXCEPT !.age = Older(@)]]
  /\ quiet' = [u \in User |-> IF UsedBy(u) THEN 0 ELSE Older(quiet[u])]
  /\ UNCHANGED <<open, counter, stopping, request>>
-----------------------------------------------------------------------------
(* CloseWithContext, which the hook of the server runs only once. *)
OnPostShutdown == shutdown = "no"
StartClose ==
  /\ OnPostShutdown
  /\ closed' = TRUE /\ captured' = drained /\ shutdown' = "stop"
  /\ UNCHANGED <<table, counter, stop, gc, forced, request, quiet>>

ForgetsStop ==
  /\ shutdown = "stop"
  /\ shutdown' = "wait"
  /\ UNCHANGED <<table, counter, closed, stop, gc, captured, forced, request, quiet>>
StopGC ==
  /\ shutdown = "stop"
  /\ stop' = TRUE /\ shutdown' = "wait"
  /\ UNCHANGED <<table, counter, closed, gc, captured, forced, request, quiet>>

GCReturns ==
  /\ gc /\ stop
  /\ gc' = FALSE
  /\ UNCHANGED <<table, counter, closed, stop, shutdown, captured, forced, request, quiet>>

CloseGoto(label, late) ==
  /\ shutdown' = label /\ forced' = late
  /\ UNCHANGED <<table, counter, closed, stop, gc, captured, request, quiet>>

(* The first select takes the channel if it is closed already; the second  *)
(* may take the deadline although the channel has been closed meanwhile.   *)
GCWaited == shutdown = "wait" /\ ~gc /\ CloseGoto("check", FALSE)
NotDrained == shutdown = "check" /\ captured \notin closedChan /\ CloseGoto("drain", FALSE)
Drained == shutdown \in {"check", "drain"} /\ captured \in closedChan /\ CloseGoto("close", FALSE)
Deadline == shutdown = "drain" /\ CloseGoto("close", TRUE)

CloseAll ==
  /\ shutdown = "close"
  /\ drives' = [u \in User |-> NoEntry]
  /\ open' = open \ {drives[u].drive : u \in User}
  /\ shutdown' = "done"
  /\ UNCHANGED <<counter, closed, stop, gc, captured, forced, request, quiet>>
-----------------------------------------------------------------------------
ShutdownStep ==
  StartClose \/ StopGC \/ GCWaited \/ NotDrained \/ Drained \/ Deadline \/ CloseAll

Next ==
  \/ \E r \in Request, u \in User, forStats \in BOOLEAN : Acquire(r, u, forStats)
  \/ \E r \in Request : Detach(r) \/ Return(r) \/ Finish(r)
  \/ \E u \in User : Logout(u)
  \/ \E S \in SUBSET User : CloseIdle(S)
  \/ Tick
  \/ GCReturns
  \/ ShutdownStep

(* Of the scheduler and the deadline only: nothing says a request ends.    *)
ClosingGoesOn ==
  WF_vars(StopGC \/ GCWaited \/ NotDrained \/ Drained \/ Deadline \/ CloseAll)

Spec == Init /\ [][Next]_vars /\ ClosingGoesOn /\ WF_vars(GCReturns)
-----------------------------------------------------------------------------
(* The manager's state has its type; no count falls below zero. *)
TypeOK ==
  /\ drives \in [User -> Entry \cup {NoEntry}]
  /\ open \subseteq Drive
  /\ active \in 0..Cardinality(Request)
  /\ drained \in Chan /\ captured \in Chan /\ closedChan \subseteq Chan
  /\ closed \in BOOLEAN /\ stop \in BOOLEAN /\ gc \in BOOLEAN /\ forced \in BOOLEAN
  /\ shutdown \in {"no", "stop", "wait", "check", "drain", "close", "done"}
  /\ request \in [Request -> [user : {{}} \cup {{u} : u \in User}, drive : Drive \cup {0},
                              handler : BOOLEAN, worker : BOOLEAN,
                              owner : {"handler", "worker", "nobody"}]]
  /\ quiet \in [User -> 0..IdleTimeout]

(* A drive a request still works with is open: neither a logout, nor the   *)
(* idle collection, nor statistics, nor a shutdown that is not past its    *)
(* deadline closes it (Acquire's promise, drives.go:84-85).                *)
DriveInUseStaysOpen ==
  TypeOK /\ \A r \in Request : Used(r) /\ ~forced => request[r].drive \in open

(* A user has one open drive at most, and the manager knows it, so that no *)
(* second driver works on the same directory and none stays open after the *)
(* shutdown (driveLocked, CloseDrive, CloseWithContext).                   *)
NoDriveLeaks ==
  /\ open = {drives[u].drive : u \in {v \in User : drives[v] # NoEntry}}
  /\ shutdown = "done" => open = {}

(* A close asked for by a logout or by Stats is not forgotten: while it is *)
(* due, somebody still uses the drive and will release it.                 *)
CloseNotForgotten ==
  \A u \in User : drives[u].closeRequested =>
    \E r \in Request : request[r].drive = drives[u].drive /\ request[r].owner # "nobody"

(* The idle collection takes only drives whose user has been quiet for the *)
(* whole timeout, counted from the end of the last request, streams and    *)
(* asynchronous operations included (closeIdle, release).                  *)
GCTakesQuietOnly ==
  [][\A S \in SUBSET User : CloseIdle(S) => \A u \in S : quiet[u] >= IdleTimeout]_vars

(* A shutdown ends, also when a request never does (CloseWithContext).     *)
ShutdownCompletes == shutdown # "no" ~> shutdown = "done"
=============================================================================
