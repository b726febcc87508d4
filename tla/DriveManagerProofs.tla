------------------------- MODULE DriveManagerProofs -------------------------
(***************************************************************************)
(* However many users and requests there are, the drive manager closes no  *)
(* drive that is in use, leaks none, forgets no close that was asked for,  *)
(* and collects only what has been idle for the whole timeout.             *)
(*                                                                         *)
(* The counters say how many requests have still to release their drive:   *)
(* users of an entry those of the user, active all of them (TableInv,      *)
(* CounterInv).  From this follows that the channel a shutdown waits for   *)
(* is closed only when nobody uses a drive any more.                       *)
(***************************************************************************)
EXTENDS DriveManager, FiniteSetTheorems, TLAPS

(* The requests that have still to release their drive.                    *)
Holders == {r \in Request : request[r].owner # "nobody"}
HoldersOf(u) == {r \in Holders : request[r].user = {u}}

(* A request is handed to its worker once, with the duty to release.       *)
Running(q) ==
  /\ \E u \in User : q.user = {u}
  /\ q.drive \in Drive /\ (q.handler \/ q.worker)
  /\ (q.owner = "handler" => q.handler) /\ (q.owner = "worker" <=> q.worker)
RequestInv == \A r \in Request : request[r] = Idle \/ Running(request[r])

Entries == {u \in User : drives[u] # NoEntry}
TableInv ==
  /\ open = {drives[u].drive : u \in Entries}
  /\ \A u, v \in Entries : drives[u].drive = drives[v].drive => u = v
  /\ shutdown = "done" => Entries = {}
  /\ shutdown # "done" =>
       \A u \in User :
         /\ drives[u].users = Cardinality(HoldersOf(u))
         /\ \A r \in HoldersOf(u) : drives[u].drive = request[r].drive
  /\ \A u \in Entries : drives[u].closeRequested => drives[u].users > 0
  /\ \A u \in Entries : drives[u].users = 0 => drives[u].age <= quiet[u]

CounterInv ==
  /\ active = Cardinality(Holders)
  /\ drained \in closedChan <=> active = 0
  /\ closed <=> shutdown # "no"
  /\ shutdown # "no" => captured = drained
  /\ shutdown \in {"close", "done"} /\ ~forced => active = 0

IInv == TypeOK /\ RequestInv /\ TableInv /\ CounterInv
-----------------------------------------------------------------------------
(* Counting.                                                               *)

LEMMA HoldersFinite ==
  IsFiniteSet(Holders) /\ \A u \in User : IsFiniteSet(HoldersOf(u))
BY DriveAssumption, FS_Subset DEF Holders, HoldersOf

(* A set of requests is not larger than all of them, and smaller when one  *)
(* is missing.                                                             *)
LEMMA Bounded ==
  ASSUME NEW S \in SUBSET Request
  PROVE  /\ IsFiniteSet(S) /\ Cardinality(S) \in 0..Cardinality(Request)
         /\ S = {} <=> Cardinality(S) = 0
         /\ \A r \in Request \ S : Cardinality(S \cup {r}) = Cardinality(S) + 1
         /\ \A r \in S : Cardinality(S \ {r}) = Cardinality(S) - 1
<1>1. IsFiniteSet(S) /\ Cardinality(S) \in Nat /\ Cardinality(Request) \in Nat
        /\ Cardinality(S) <= Cardinality(Request)
  BY DriveAssumption, FS_Subset, FS_CardinalityType
<1>2. S = {} <=> Cardinality(S) = 0
  BY <1>1, FS_EmptySet
<1>3. \A r : Cardinality(S \cup {r}) = IF r \in S THEN Cardinality(S) ELSE Cardinality(S) + 1
  BY <1>1, FS_AddElement
<1>4. \A r : Cardinality(S \ {r}) = IF r \in S THEN Cardinality(S) - 1 ELSE Cardinality(S)
  BY <1>1, FS_RemoveElement
<1> QED
  BY <1>1, <1>2, <1>3, <1>4

(* The values of a function are not more than its arguments.               *)
LEMMA Values ==
  ASSUME NEW S, IsFiniteSet(S), NEW f, f = [x \in S |-> f[x]]
  PROVE  /\ IsFiniteSet({f[x] : x \in S})
         /\ Cardinality({f[x] : x \in S}) <= Cardinality(S)
<1>1. f \in Surjection(S, {f[x] : x \in S})
  BY DEF Surjection
<1> QED
  BY <1>1, FS_Surjection

(* There is a drive for a user who has none: the open ones belong to other *)
(* users, those still named by requests to other requests.                 *)
LEMMA FreeDriveExists ==
  ASSUME TypeOK, TableInv, NEW r \in Request, request[r] = Idle,
         NEW u \in User, drives[u] = NoEntry
  PROVE  /\ FreeDrive \in Drive /\ FreeDrive \notin open
         /\ \A x \in Request : request[x].drive # FreeDrive
<1> DEFINE U == User \ {u}
           R == Request \ {r}
           f == [v \in U |-> drives[v].drive]
           g == [x \in R |-> request[x].drive]
           A == {f[v] : v \in U}
           B == {g[x] : x \in R}
<1>1. /\ IsFiniteSet(U) /\ Cardinality(U) = Cardinality(User) - 1
      /\ IsFiniteSet(R) /\ Cardinality(R) = Cardinality(Request) - 1
      /\ Cardinality(User) \in Nat /\ Cardinality(Request) \in Nat
  BY DriveAssumption, FS_RemoveElement, FS_CardinalityType
<1>2. /\ IsFiniteSet(A) /\ Cardinality(A) \in Nat /\ Cardinality(A) <= Cardinality(User) - 1
      /\ IsFiniteSet(B) /\ Cardinality(B) \in Nat /\ Cardinality(B) <= Cardinality(Request) - 1
  <2>1. f = [v \in U |-> f[v]] /\ g = [x \in R |-> g[x]]
    OBVIOUS
  <2> HIDE DEF f, g, U, R
  <2> QED
    BY <1>1, <2>1, Values, FS_CardinalityType
<1>3. IsFiniteSet(A \cup B) /\ Cardinality(A \cup B) \in Nat
        /\ Cardinality(A \cup B) < MaxDrives
  <2>1. IsFiniteSet(A \cap B) /\ Cardinality(A \cap B) \in Nat
    BY <1>2, FS_Subset, FS_CardinalityType, A \cap B \in SUBSET A
  <2>2. IsFiniteSet(A \cup B)
        /\ Cardinality(A \cup B) = Cardinality(A) + Cardinality(B) - Cardinality(A \cap B)
    BY <1>2, FS_Union
  <2> HIDE DEF A, B
  <2> QED
    BY <1>1, <1>2, <2>1, <2>2, DriveAssumption, FS_CardinalityType
<1>4. IsFiniteSet(Drive) /\ Cardinality(Drive) = MaxDrives
  BY DriveAssumption, FS_Interval DEF Drive
<1>5. ~(Drive \subseteq A \cup B)
  <2> HIDE DEF A, B
  <2> QED
    BY <1>3, <1>4, FS_Subset, DriveAssumption
<1>6. PICK d \in Drive : d \notin A /\ d \notin B
  BY <1>5
<1>7. d \notin open
  BY <1>6 DEF TableInv, Entries
<1>8. \A x \in Request : request[x].drive # d
  <2>1. request[r].drive # d
    BY <1>6 DEF Idle, Drive
  <2> QED
    BY <1>6, <2>1
<1> QED
  BY <1>6, <1>7, <1>8 DEF FreeDrive
-----------------------------------------------------------------------------
LEMMA InitInv == Init => IInv
<1> SUFFICES ASSUME Init PROVE IInv
  OBVIOUS
<1> USE DriveAssumption DEF Init
<1>1. Cardinality(Request) \in Nat /\ Holders = {} /\ \A u \in User : HoldersOf(u) = {}
  BY FS_CardinalityType DEF Holders, HoldersOf, Idle
<1>2. Cardinality({}) = 0
  BY FS_EmptySet
<1>3. TypeOK
  <2>1. Idle \in [user : {{}} \cup {{u} : u \in User}, drive : Drive \cup {0},
                  handler : BOOLEAN, worker : BOOLEAN, owner : {"handler", "worker", "nobody"}]
    BY DEF Idle
  <2>2. request \in [Request -> [user : {{}} \cup {{u} : u \in User}, drive : Drive \cup {0},
                  handler : BOOLEAN, worker : BOOLEAN, owner : {"handler", "worker", "nobody"}]]
    BY <2>1
  <2>3. drives \in [User -> Entry \cup {NoEntry}] /\ quiet \in [User -> 0..IdleTimeout]
    OBVIOUS
  <2>4. active \in 0..Cardinality(Request) /\ open \subseteq Drive
    BY <1>1
  <2>5. drained \in Chan /\ captured \in Chan /\ closedChan \subseteq Chan
    BY DEF Chan
  <2> QED
    BY <2>2, <2>3, <2>4, <2>5 DEF TypeOK
<1>4. RequestInv /\ TableInv /\ CounterInv
  BY <1>1, <1>2 DEF RequestInv, TableInv, CounterInv, Entries, NoEntry
<1> QED
  BY <1>3, <1>4 DEF IInv

LEMMA Counted ==
  ASSUME NEW d, NEW n \in Nat, NEW asked \in BOOLEAN, NEW age
  PROVE  Count([drive |-> d, users |-> n, closeRequested |-> asked, age |-> age])
           = [drive |-> d, users |-> n + 1, closeRequested |-> asked, age |-> age]
BY DEF Count

(* What Acquire does to the table: the entry of the user is one request    *)
(* more, for the drive that is open or a new one.                          *)
LEMMA AcquireEntry ==
  ASSUME IInv, NEW r \in Request, NEW u \in User, NEW forStats \in BOOLEAN,
         Acquire(r, u, forStats)
  PROVE  \E e \in Entry :
           /\ e.users = drives[u].users + 1
           /\ IF drives[u] = NoEntry THEN e.drive \notin open ELSE e.drive = drives[u].drive
           /\ drives' = [drives EXCEPT ![u] = e] /\ open' = open \cup {e.drive}
           /\ request' = [request EXCEPT ![r] =
                [user |-> {u}, drive |-> e.drive, handler |-> TRUE, worker |-> FALSE,
                 owner |-> "handler"]]
<1> DEFINE entry == Count(EntryOf(u))
           asked == entry.closeRequested \/ (forStats /\ drives[u] = NoEntry)
           e == [entry EXCEPT !.closeRequested = asked]
<1>1. r \notin HoldersOf(u) /\ HoldersOf(u) \subseteq Request
  BY DEF Acquire, Holders, HoldersOf, Idle
<1>2. drives[u].users = Cardinality(HoldersOf(u)) /\ drives[u].users + 1 \in 0..Cardinality(Request)
  <2>1. drives[u].users = Cardinality(HoldersOf(u))
    BY DEF IInv, TableInv, CounterInv, Acquire, Accepts
  <2>2. HoldersOf(u) \cup {r} \in SUBSET Request
    BY <1>1
  <2>3. Cardinality(HoldersOf(u) \cup {r}) = Cardinality(HoldersOf(u)) + 1
    BY <1>1, Bounded
  <2>4. Cardinality(HoldersOf(u) \cup {r}) \in 0..Cardinality(Request)
    BY <2>2, Bounded
  <2> QED
    BY <2>1, <2>3, <2>4
<1>3. CASE drives[u] = NoEntry
  <2>1. FreeDrive \in Drive /\ FreeDrive \notin open
    BY <1>3, FreeDriveExists DEF Acquire, IInv
  <2>2. entry = [drive |-> FreeDrive, users |-> 1, closeRequested |-> FALSE, age |-> 0]
    <3>1. EntryOf(u) = [drive |-> FreeDrive, users |-> 0, closeRequested |-> FALSE, age |-> 0]
      BY <1>3 DEF EntryOf, NoEntry
    <3>2. Count([drive |-> FreeDrive, users |-> 0, closeRequested |-> FALSE, age |-> 0])
            = [drive |-> FreeDrive, users |-> 0 + 1, closeRequested |-> FALSE, age |-> 0]
      BY Counted
    <3> QED
      BY <3>1, <3>2
  <2>3. e = [drive |-> FreeDrive, users |-> 1, closeRequested |-> asked, age |-> 0] /\ asked \in BOOLEAN
    BY <2>2
  <2>4. drives[u].users + 1 = 1
    BY <1>3 DEF NoEntry
  <2>5. e \in Entry /\ e.users = 1 /\ e.drive = FreeDrive /\ entry.drive = FreeDrive
    <3>1. 1 \in 0..Cardinality(Request) /\ 0 \in 0..IdleTimeout
      BY <1>2, <2>4, DriveAssumption
    <3> HIDE DEF e, entry, asked
    <3> QED
      BY <2>1, <2>2, <2>3, <3>1 DEF Entry
  <2> HIDE DEF e
  <2>6. /\ drives' = [drives EXCEPT ![u] = e] /\ open' = open \cup {e.drive}
        /\ request' = [request EXCEPT ![r] =
                [user |-> {u}, drive |-> e.drive, handler |-> TRUE, worker |-> FALSE,
                 owner |-> "handler"]]
    BY <2>5 DEF Acquire, e
  <2> QED
    BY <1>3, <2>1, <2>4, <2>5, <2>6
<1>4. CASE drives[u] # NoEntry
  <2>1. drives[u] \in Entry
    BY <1>4 DEF IInv, TypeOK
  <2>2. entry = [drive |-> drives[u].drive, users |-> drives[u].users + 1,
                 closeRequested |-> drives[u].closeRequested, age |-> 0]
    <3>1. EntryOf(u) = [drive |-> drives[u].drive, users |-> drives[u].users,
                        closeRequested |-> drives[u].closeRequested, age |-> 0]
      BY <1>4, <2>1 DEF EntryOf, Entry
    <3> QED
      BY <3>1 DEF Count
  <2>3. e = [drive |-> drives[u].drive, users |-> drives[u].users + 1,
             closeRequested |-> asked, age |-> 0] /\ asked \in BOOLEAN
    BY <2>1, <2>2 DEF Entry
  <2>4. e \in Entry /\ e.users = drives[u].users + 1 /\ e.drive = drives[u].drive
          /\ entry.drive = drives[u].drive
    BY <1>2, <2>1, <2>2, <2>3, DriveAssumption DEF Entry
  <2> HIDE DEF e
  <2>5. /\ drives' = [drives EXCEPT ![u] = e] /\ open' = open \cup {e.drive}
        /\ request' = [request EXCEPT ![r] =
                [user |-> {u}, drive |-> e.drive, handler |-> TRUE, worker |-> FALSE,
                 owner |-> "handler"]]
    BY <2>4 DEF Acquire, e
  <2> QED
    BY <1>4, <2>4, <2>5
<1> QED
  BY <1>3, <1>4

LEMMA AcquireStep ==
  ASSUME IInv, NEW r \in Request, NEW u \in User, NEW forStats \in BOOLEAN,
         Acquire(r, u, forStats)
  PROVE  IInv'
<1>1. PICK e \in Entry :
           /\ e.users = drives[u].users + 1
           /\ IF drives[u] = NoEntry THEN e.drive \notin open ELSE e.drive = drives[u].drive
           /\ drives' = [drives EXCEPT ![u] = e] /\ open' = open \cup {e.drive}
           /\ request' = [request EXCEPT ![r] =
                [user |-> {u}, drive |-> e.drive, handler |-> TRUE, worker |-> FALSE,
                 owner |-> "handler"]]
  BY AcquireEntry
<1>2. /\ active' = active + 1 /\ quiet' = [quiet EXCEPT ![u] = 0] /\ UNCHANGED stopping
      /\ shutdown = "no" /\ ~closed
      /\ IF active = 0 THEN drained' = FreshChan /\ closedChan' = closedChan \ {FreshChan}
                       ELSE UNCHANGED <<drained, closedChan>>
      /\ r \notin Holders
  BY DEF IInv, CounterInv, Acquire, Accepts, Holders, Idle
<1>3. FreshChan \in Chan \ {drained, captured}
  <2>1. \E c \in Chan : c \notin {drained, captured}
    BY DEF IInv, TypeOK, Chan
  <2> QED
    BY <2>1 DEF FreshChan
<1>4. /\ Holders' = Holders \cup {r} /\ HoldersOf(u)' = HoldersOf(u) \cup {r}
      /\ \A v \in User \ {u} : HoldersOf(v)' = HoldersOf(v)
  BY <1>1, <1>2 DEF Holders, HoldersOf, IInv, TypeOK
<1>5. /\ Cardinality(Holders') = active + 1 /\ active + 1 \in 0..Cardinality(Request)
      /\ Cardinality(HoldersOf(u)') = drives[u].users + 1
  <2>1. Holders \cup {r} \in SUBSET Request /\ HoldersOf(u) \in SUBSET Request /\ Holders \in SUBSET Request
    BY DEF Holders, HoldersOf
  <2>2. Cardinality(Holders \cup {r}) = active + 1
    BY <1>2, <2>1, Bounded DEF IInv, CounterInv
  <2>3. Cardinality(HoldersOf(u) \cup {r}) = drives[u].users + 1
    <3>1. r \in Request \ HoldersOf(u) /\ drives[u].users = Cardinality(HoldersOf(u))
      BY <1>2 DEF IInv, TableInv, HoldersOf
    <3> QED
      BY <2>1, <3>1, Bounded
  <2> QED
    BY <1>4, <2>1, <2>2, <2>3, Bounded
<1>6. TypeOK'
  <2>1. drives' \in [User -> Entry \cup {NoEntry}] /\ open' \subseteq Drive
    BY <1>1 DEF IInv, TypeOK, Entry
  <2>2. active' \in 0..Cardinality(Request) /\ drained' \in Chan /\ closedChan' \subseteq Chan
    BY <1>2, <1>3, <1>5 DEF IInv, TypeOK
  <2>3. request' \in [Request -> [user : {{}} \cup {{w} : w \in User}, drive : Drive \cup {0},
                              handler : BOOLEAN, worker : BOOLEAN,
                              owner : {"handler", "worker", "nobody"}]]
    BY <1>1 DEF IInv, TypeOK, Entry
  <2>4. quiet' \in [User -> 0..IdleTimeout]
    BY <1>2, DriveAssumption DEF IInv, TypeOK
  <2> QED
    BY <1>2, <2>1, <2>2, <2>3, <2>4 DEF IInv, TypeOK, stopping
<1>7. RequestInv'
  BY <1>1 DEF IInv, TypeOK, RequestInv, Running, Entry
<1>8. TableInv'
  <2>1. e # NoEntry /\ e.users > 0 /\ \A v \in User : drives'[v] = IF v = u THEN e ELSE drives[v]
    BY <1>1 DEF IInv, TypeOK, Entry, NoEntry, Drive
  <2>2. Entries' = Entries \cup {u} /\ Entries \subseteq User
    BY <2>1 DEF Entries
  <2>3. open' = {drives'[v].drive : v \in Entries'}
    <3>1. open = {drives[v].drive : v \in Entries}
      BY DEF IInv, TableInv
    <3>2. CASE drives[u] = NoEntry
      BY <1>1, <2>1, <2>2, <3>1, <3>2 DEF Entries
    <3>3. CASE drives[u] # NoEntry
      BY <1>1, <2>1, <2>2, <3>1, <3>3 DEF Entries
    <3> QED
      BY <3>2, <3>3
  <2>4. \A v \in Entries : v # u => drives[v].drive # e.drive
    BY <1>1 DEF IInv, TableInv, Entries
  <2>5. \A v, w \in Entries' : drives'[v].drive = drives'[w].drive => v = w
    BY <2>1, <2>2, <2>4 DEF IInv, TableInv
  <2>6. \A v \in User : drives'[v].users = Cardinality(HoldersOf(v)')
    <3>1. \A v \in User : drives[v].users = Cardinality(HoldersOf(v))
      BY <1>2 DEF IInv, TableInv
    <3>2. drives'[u].users = Cardinality(HoldersOf(u)')
      BY <1>1, <1>5, <2>1
    <3>3. \A v \in User \ {u} : drives'[v].users = Cardinality(HoldersOf(v)')
      BY <1>4, <2>1, <3>1
    <3> QED
      BY <3>2, <3>3
  <2>7. \A v \in User : \A x \in HoldersOf(v)' : drives'[v].drive = request'[x].drive
    <3>1. \A x \in HoldersOf(u) : drives[u].drive = request[x].drive /\ drives[u] # NoEntry
      <4>1. \A x \in HoldersOf(u) : drives[u].drive = request[x].drive /\ x \in Request
        BY <1>2 DEF IInv, TableInv, HoldersOf, Holders
      <4>2. \A x \in HoldersOf(u) : request[x].drive \in Drive
        BY DEF IInv, RequestInv, Running, HoldersOf, Holders, Idle
      <4> QED
        BY <4>1, <4>2 DEF NoEntry, Drive
    <3>2. \A x \in Request : request'[x].drive = IF x = r THEN e.drive ELSE request[x].drive
      BY <1>1 DEF IInv, TypeOK
    <3>3. \A v \in User : \A x \in HoldersOf(v) : drives[v].drive = request[x].drive /\ x \in Request /\ x # r
      BY <1>2 DEF IInv, TableInv, HoldersOf, Holders
    <3>4. \A x \in HoldersOf(u)' : drives'[u].drive = request'[x].drive
      BY <1>1, <1>4, <2>1, <3>1, <3>2, <3>3
    <3>5. \A v \in User \ {u} : \A x \in HoldersOf(v)' : drives'[v].drive = request'[x].drive
      BY <1>4, <2>1, <3>2, <3>3
    <3> QED
      BY <3>4, <3>5
  <2>8. \A v \in Entries' : drives'[v].closeRequested => drives'[v].users > 0
    BY <2>1, <2>2 DEF IInv, TableInv
  <2>9. \A v \in Entries' : drives'[v].users = 0 => drives'[v].age <= quiet'[v]
    BY <1>2, <2>1, <2>2 DEF IInv, TableInv, TypeOK
  <2>10. shutdown' = "no"
    BY <1>2 DEF stopping
  <2> QED
    BY <2>3, <2>5, <2>6, <2>7, <2>8, <2>9, <2>10 DEF TableInv
<1>9. CounterInv'
  BY <1>2, <1>3, <1>5 DEF IInv, TypeOK, CounterInv, stopping
<1> QED
  BY <1>6, <1>7, <1>8, <1>9 DEF IInv
-----------------------------------------------------------------------------
(* Closing drives of the table leaves the others as they were.             *)
LEMMA Closing ==
  ASSUME TypeOK, TableInv, NEW S \in SUBSET User,
         drives' = [u \in User |-> IF u \in S THEN NoEntry ELSE drives[u]],
         open' = open \ {drives[u].drive : u \in S}
  PROVE  /\ drives' \in [User -> Entry \cup {NoEntry}] /\ open' \subseteq Drive
         /\ Entries' = Entries \ S
         /\ open' = {drives'[u].drive : u \in Entries'}
         /\ \A u, v \in Entries' : drives'[u].drive = drives'[v].drive => u = v
<1>1. \A u \in User : drives'[u] = IF u \in S THEN NoEntry ELSE drives[u]
  OBVIOUS
<1>2. Entries' = Entries \ S
  BY <1>1 DEF Entries
<1>3. \A u \in Entries \ S, v \in S : drives[u].drive # drives[v].drive
  BY DEF TypeOK, TableInv, Entries, Entry, NoEntry, Drive
<1>4. open' = {drives'[u].drive : u \in Entries'}
  <2>1. open = {drives[u].drive : u \in Entries}
    BY DEF TableInv
  <2>2. \A u \in Entries : u \in S => drives[u].drive \notin open'
    OBVIOUS
  <2>3. \A u \in Entries : u \notin S => drives[u].drive \in open'
    BY <1>3, <2>1
  <2>4. \A u \in Entries' : u \in Entries /\ u \notin S /\ drives'[u].drive = drives[u].drive
    BY <1>1, <1>2 DEF Entries
  <2>5. open' \subseteq open
    OBVIOUS
  <2> QED
    BY <1>2, <2>1, <2>2, <2>3, <2>4, <2>5
<1>5. drives' \in [User -> Entry \cup {NoEntry}] /\ open' \subseteq Drive
  BY DEF TypeOK
<1>6. \A u, v \in Entries' : drives'[u].drive = drives'[v].drive => u = v
  BY <1>1, <1>2 DEF TableInv, Entries
<1> QED
  BY <1>2, <1>4, <1>5, <1>6

(* No request holds a drive of which the table counts no user.             *)
LEMMA Unheld ==
  ASSUME IInv, NEW u \in User, drives[u].users = 0, shutdown # "done"
  PROVE  HoldersOf(u) = {}
<1>1. HoldersOf(u) \in SUBSET Request /\ drives[u].users = Cardinality(HoldersOf(u))
  BY DEF HoldersOf, Holders, IInv, TableInv
<1> QED
  BY <1>1, Bounded

(* Drives without users are closed by nobody's release.                    *)
LEMMA ClosingUnused ==
  ASSUME IInv, NEW S \in SUBSET User, \A u \in S : drives[u].users = 0,
         drives' = [u \in User |-> IF u \in S THEN NoEntry ELSE drives[u]],
         open' = open \ {drives[u].drive : u \in S},
         UNCHANGED <<counter, stopping, request, quiet>>
  PROVE  IInv'
<1> USE DEF counter, stopping
<1>1. /\ drives' \in [User -> Entry \cup {NoEntry}] /\ open' \subseteq Drive
      /\ Entries' = Entries \ S
      /\ open' = {drives'[u].drive : u \in Entries'}
      /\ \A u, v \in Entries' : drives'[u].drive = drives'[v].drive => u = v
  BY Closing DEF IInv
<1>2. /\ Holders' = Holders /\ \A u \in User : HoldersOf(u)' = HoldersOf(u)
      /\ \A u \in User : drives'[u] = IF u \in S THEN NoEntry ELSE drives[u]
  BY DEF Holders, HoldersOf
<1>3. TypeOK'
  BY <1>1 DEF IInv, TypeOK
<1>4. RequestInv'
  BY DEF IInv, RequestInv, Running
<1>5. TableInv'
  <2>1. shutdown' = "done" => Entries' = {}
    BY <1>1 DEF IInv, TableInv
  <2>2. ASSUME shutdown' # "done", NEW u \in User
        PROVE  /\ drives'[u].users = Cardinality(HoldersOf(u)')
               /\ \A r \in HoldersOf(u)' : drives'[u].drive = request'[r].drive
    <3>1. CASE u \in S
      <4>1. HoldersOf(u) = {}
        BY <2>2, <3>1, Unheld
      <4> QED
        BY <1>2, <3>1, <4>1, FS_EmptySet DEF NoEntry
    <3>2. CASE u \notin S
      BY <1>2, <2>2, <3>2 DEF IInv, TableInv
    <3> QED
      BY <3>1, <3>2
  <2>3. /\ \A u \in Entries' : drives'[u].closeRequested => drives'[u].users > 0
        /\ \A u \in Entries' : drives'[u].users = 0 => drives'[u].age <= quiet'[u]
    BY <1>1, <1>2 DEF IInv, TableInv, Entries
  <2> QED
    BY <1>1, <2>1, <2>2, <2>3 DEF TableInv
<1>6. CounterInv'
  BY <1>2 DEF IInv, CounterInv
<1> QED
  BY <1>3, <1>4, <1>5, <1>6 DEF IInv

LEMMA LogoutStep == ASSUME IInv, NEW u \in User, Logout(u) PROVE IInv'
<1> USE DEF Logout, CloseDrive
<1>1. CASE drives[u].users > 0
  <2> DEFINE e == [drives[u] EXCEPT !.closeRequested = TRUE]
  <2>1. /\ drives' = [drives EXCEPT ![u] = e] /\ UNCHANGED open
        /\ UNCHANGED <<counter, stopping, request, quiet>>
    BY <1>1 DEF Keep
  <2>2. drives[u] \in Entry /\ u \in Entries
    BY DEF IInv, TypeOK, Entries
  <2>3. e \in Entry /\ e # NoEntry /\ e.drive = drives[u].drive /\ e.users = drives[u].users
          /\ e.users > 0
    BY <1>1, <2>2 DEF Entry, NoEntry, Drive
  <2> HIDE DEF e
  <2>4. \A v \in User : drives'[v] = IF v = u THEN e ELSE drives[v]
    BY <2>1 DEF IInv, TypeOK
  <2>5. Entries' = Entries /\ \A v \in Entries : drives'[v].drive = drives[v].drive
    BY <2>2, <2>3, <2>4 DEF Entries, IInv, TypeOK
  <2>6. Holders' = Holders /\ \A v \in User : HoldersOf(v)' = HoldersOf(v)
    BY <2>1 DEF Holders, HoldersOf
  <2>7. TypeOK'
    BY <2>1, <2>3 DEF IInv, TypeOK, counter, stopping
  <2>8. RequestInv'
    BY <2>1 DEF IInv, RequestInv, Running
  <2>9. TableInv'
    <3>1. /\ open' = {drives'[v].drive : v \in Entries'}
          /\ \A v, w \in Entries' : drives'[v].drive = drives'[w].drive => v = w
          /\ shutdown' = "done" => Entries' = {}
      BY <2>1, <2>5 DEF IInv, TableInv, stopping
    <3>2. shutdown' # "done" =>
            \A v \in User :
              /\ drives'[v].users = Cardinality(HoldersOf(v)')
              /\ \A r \in HoldersOf(v)' : drives'[v].drive = request'[r].drive
      BY <2>1, <2>3, <2>4, <2>6 DEF IInv, TableInv, stopping
    <3>3. /\ \A v \in Entries' : drives'[v].closeRequested => drives'[v].users > 0
          /\ \A v \in Entries' : drives'[v].users = 0 => drives'[v].age <= quiet'[v]
      BY <2>1, <2>3, <2>4, <2>5 DEF IInv, TableInv, Entries
    <3> QED
      BY <3>1, <3>2, <3>3 DEF TableInv
  <2>10. CounterInv'
    BY <2>1, <2>6 DEF IInv, CounterInv, counter, stopping
  <2> QED
    BY <2>7, <2>8, <2>9, <2>10 DEF IInv
<1>2. CASE ~(drives[u].users > 0)
  <2>1. drives[u].users = 0
    BY <1>2 DEF IInv, TypeOK, Entry, NoEntry
  <2>2. /\ drives' = [v \in User |-> IF v \in {u} THEN NoEntry ELSE drives[v]]
        /\ open' = open \ {drives[v].drive : v \in {u}}
        /\ UNCHANGED <<counter, stopping, request, quiet>>
    BY <1>2 DEF Close, IInv, TypeOK
  <2>3. {u} \in SUBSET User /\ \A v \in {u} : drives[v].users = 0
    BY <2>1
  <2> QED
    BY <2>2, <2>3, ClosingUnused
<1> QED
  BY <1>1, <1>2

LEMMA CloseIdleStep == ASSUME IInv, NEW S \in SUBSET User, CloseIdle(S) PROVE IInv'
BY ClosingUnused DEF CloseIdle
-----------------------------------------------------------------------------
(* The end of a handler or a worker leaves the request idle or running as  *)
(* before, and with it goes the duty to release if it was his.             *)
LEMMA EndRequest ==
  ASSUME IInv, NEW r \in Request, NEW part \in {"handler", "worker"},
         request[r][part], End(r, part)
  PROVE  \E u \in User :
           \E q \in [user : {{}} \cup {{w} : w \in User}, drive : Drive \cup {0},
                     handler : BOOLEAN, worker : BOOLEAN,
                     owner : {"handler", "worker", "nobody"}] :
             /\ request[r].user = {u}
             /\ request' = [request EXCEPT ![r] = q]
             /\ q = Idle \/ Running(q)
             /\ q.owner # "nobody" => q.user = {u} /\ q.drive = request[r].drive
             /\ UNCHANGED stopping
             /\ IF request[r].owner = part
                THEN q.owner = "nobody" /\ Release(u) /\ quiet' = [quiet EXCEPT ![u] = 0]
                ELSE q.owner = request[r].owner /\ UNCHANGED <<table, counter, quiet>>
<1> DEFINE left == [request[r] EXCEPT ![part] = FALSE,
                                      !.owner = IF @ = part THEN "nobody" ELSE @]
           q == IF left.handler \/ left.worker THEN left ELSE Idle
           Type == [user : {{}} \cup {{w} : w \in User}, drive : Drive \cup {0},
                    handler : BOOLEAN, worker : BOOLEAN,
                    owner : {"handler", "worker", "nobody"}]
<1>1. request[r] \in Type /\ Running(request[r])
  <2>1. request[r] # Idle
    BY DEF Idle
  <2> QED
    BY <2>1 DEF IInv, TypeOK, RequestInv
<1>2. PICK u \in User : request[r].user = {u}
  BY <1>1 DEF Running
<1>3. left \in Type /\ left.user = {u} /\ left.drive = request[r].drive
        /\ left.owner = IF request[r].owner = part THEN "nobody" ELSE request[r].owner
  <2>1. CASE part = "handler"
    BY <1>1, <1>2, <2>1
  <2>2. CASE part = "worker"
    BY <1>1, <1>2, <2>2
  <2> QED
    BY <2>1, <2>2
<1>4. left.handler \/ left.worker => Running(left)
  <2>1. CASE part = "handler"
    BY <1>1, <1>2, <2>1 DEF Running
  <2>2. CASE part = "worker"
    BY <1>1, <1>2, <2>2 DEF Running
  <2> QED
    BY <2>1, <2>2
<1>5. ~(left.handler \/ left.worker) => left.owner = "nobody"
  <2>1. CASE part = "handler"
    BY <1>1, <2>1 DEF Running
  <2>2. CASE part = "worker"
    BY <1>1, <2>2 DEF Running
  <2> QED
    BY <2>1, <2>2
<1>6. /\ request' = [request EXCEPT ![r] = q]
      /\ UNCHANGED stopping
      /\ IF request[r].owner = part
         THEN Release(u) /\ quiet' = [quiet EXCEPT ![u] = 0]
         ELSE UNCHANGED <<table, counter, quiet>>
  BY <1>2 DEF End
<1>7. Idle \in Type /\ Idle.owner = "nobody"
  BY DEF Idle
<1> HIDE DEF left
<1>8. q \in Type /\ (q = Idle \/ Running(q)) /\ q.owner = left.owner
        /\ (q.owner # "nobody" => q.user = {u} /\ q.drive = request[r].drive)
  BY <1>3, <1>4, <1>5, <1>7
<1> HIDE DEF q
<1> QED
  BY <1>2, <1>3, <1>6, <1>8

LEMMA Discounted ==
  ASSUME NEW x \in Entry
  PROVE  [x EXCEPT !.users = @ - 1, !.age = 0]
           = [drive |-> x.drive, users |-> x.users - 1, closeRequested |-> x.closeRequested, age |-> 0]
<1>1. DOMAIN x = {"drive", "users", "closeRequested", "age"}
        /\ x = [f \in {"drive", "users", "closeRequested", "age"} |-> x[f]]
  BY DEF Entry
<1>2. [x EXCEPT !.users = @ - 1, !.age = 0]
        = [f \in DOMAIN x |-> IF f = "age" THEN 0 ELSE IF f = "users" THEN x.users - 1 ELSE x[f]]
  BY <1>1
<1> QED
  BY <1>1, <1>2

(* What a release does to the table: the drive is closed if it was to be   *)
(* closed and this was its last user, otherwise it has one user less.      *)
LEMMA ReleaseTable ==
  ASSUME IInv, NEW u \in User, Release(u), shutdown # "done", HoldersOf(u) # {}
  PROVE  /\ drives[u] \in Entry /\ drives[u].users > 0
         /\ \/ /\ drives[u].users = 1
               /\ drives' = [v \in User |-> IF v \in {u} THEN NoEntry ELSE drives[v]]
               /\ open' = open \ {drives[v].drive : v \in {u}}
            \/ \E e \in Entry :
                 /\ e.drive = drives[u].drive /\ e.users = drives[u].users - 1
                 /\ e.closeRequested => e.users > 0
                 /\ e.age = 0
                 /\ drives' = [drives EXCEPT ![u] = e] /\ open' = open
<1>1. drives[u] \in Entry /\ drives[u].users > 0 /\ drives[u] # NoEntry
  <2>1. HoldersOf(u) \in SUBSET Request /\ drives[u].users = Cardinality(HoldersOf(u))
    BY DEF HoldersOf, Holders, IInv, TableInv
  <2>2. drives[u].users \in 0..Cardinality(Request) /\ drives[u].users # 0
    BY <2>1, Bounded
  <2> QED
    BY <2>2 DEF IInv, TypeOK, NoEntry
<1> DEFINE e == Released(u)
<1>2. e = [drive |-> drives[u].drive, users |-> drives[u].users - 1,
           closeRequested |-> drives[u].closeRequested, age |-> 0]
  BY <1>1, Discounted DEF Released
<1>3. e \in Entry /\ e.drive = drives[u].drive /\ e.users = drives[u].users - 1 /\ e.age = 0
        /\ drives[u].users \in Nat
  <2>1. Cardinality(Request) \in Nat
    BY DriveAssumption, FS_CardinalityType
  <2>2. drives[u].users - 1 \in 0..Cardinality(Request) /\ drives[u].users \in Nat
    BY <1>1, <2>1 DEF Entry
  <2>3. 0 \in 0..IdleTimeout
    BY DriveAssumption
  <2> QED
    BY <1>1, <1>2, <2>2, <2>3 DEF Entry
<1>4. \/ e.users = 0 /\ e.closeRequested /\ Close(u)
      \/ ~(e.users = 0 /\ e.closeRequested) /\ Keep(u, e)
  BY <1>1 DEF Release
<1> HIDE DEF e
<1>5. CASE e.users = 0 /\ e.closeRequested /\ Close(u)
  <2>1. drives[u].users = 1
    BY <1>3, <1>5
  <2>2. /\ drives' = [v \in User |-> IF v \in {u} THEN NoEntry ELSE drives[v]]
        /\ open' = open \ {drives[v].drive : v \in {u}}
    BY <1>5 DEF Close, IInv, TypeOK
  <2> QED
    BY <1>1, <2>1, <2>2
<1>6. CASE ~(e.users = 0 /\ e.closeRequested) /\ Keep(u, e)
  <2>1. e.closeRequested => e.users > 0
    BY <1>1, <1>3, <1>6
  <2> QED
    BY <1>1, <1>3, <1>6, <2>1 DEF Keep
<1> QED
  BY <1>4, <1>5, <1>6

(* After the shutdown a release only counts down.                          *)
LEMMA ReleaseLate ==
  ASSUME IInv, NEW u \in User, Release(u), shutdown = "done"
  PROVE  UNCHANGED table
<1>1. drives[u] = NoEntry
  BY DEF IInv, TableInv, Entries
<1> QED
  BY <1>1 DEF Release

(* The request that released its drive no longer holds it; table, counters *)
(* and requests agree again.                                               *)
LEMMA ReleaseStep ==
  ASSUME IInv, NEW r \in Request, NEW u \in User, request[r].user = {u},
         request[r].owner # "nobody", Release(u), quiet' = [quiet EXCEPT ![u] = 0],
         UNCHANGED stopping,
         NEW q, request' = [request EXCEPT ![r] = q], q.owner = "nobody",
         q = Idle \/ Running(q),
         q \in [user : {{}} \cup {{w} : w \in User}, drive : Drive \cup {0},
                handler : BOOLEAN, worker : BOOLEAN, owner : {"handler", "worker", "nobody"}]
  PROVE  IInv'
<1> USE DEF stopping
<1>1. \A x \in Request : request'[x] = IF x = r THEN q ELSE request[x]
  BY DEF IInv, TypeOK
<1>2. /\ r \in Holders /\ r \in HoldersOf(u) /\ Holders' = Holders \ {r}
      /\ HoldersOf(u)' = HoldersOf(u) \ {r}
      /\ \A v \in User \ {u} : HoldersOf(v)' = HoldersOf(v)
  <2>1. r \in Holders /\ r \in HoldersOf(u) /\ Holders' = Holders \ {r}
    BY <1>1 DEF Holders, HoldersOf
  <2>2. \A v \in User : HoldersOf(v)' = HoldersOf(v) \ {r}
    BY <1>1, <2>1 DEF HoldersOf, Holders
  <2>3. \A v \in User \ {u} : r \notin HoldersOf(v)
    BY DEF HoldersOf
  <2> QED
    BY SMTT(40), <2>1, <2>2, <2>3
<1>3. /\ Cardinality(Holders') = active - 1 /\ active - 1 \in 0..Cardinality(Request)
      /\ active \in Nat /\ active # 0
      /\ Cardinality(HoldersOf(u)') = Cardinality(HoldersOf(u)) - 1
  <2>1. Holders \in SUBSET Request /\ HoldersOf(u) \in SUBSET Request
          /\ Holders \ {r} \in SUBSET Request
    BY DEF Holders, HoldersOf
  <2>2. Cardinality(Holders \ {r}) = active - 1 /\ active \in Nat /\ active # 0
    BY <1>2, <2>1, Bounded DEF IInv, CounterInv
  <2>3. Cardinality(HoldersOf(u) \ {r}) = Cardinality(HoldersOf(u)) - 1
    BY <1>2, <2>1, Bounded
  <2> QED
    BY <1>2, <2>1, <2>2, <2>3, Bounded
<1>4. /\ active' = active - 1 /\ drained' = drained
      /\ closedChan' = IF active = 1 THEN closedChan \cup {drained} ELSE closedChan
  BY DEF Release, CountDown
<1>5. CounterInv'
  BY <1>2, <1>3, <1>4 DEF IInv, TypeOK, CounterInv
<1>6. RequestInv'
  BY <1>1 DEF IInv, RequestInv, Running
<1>7. /\ active' \in 0..Cardinality(Request) /\ drained' \in Chan /\ closedChan' \subseteq Chan
      /\ request' \in [Request -> [user : {{}} \cup {{w} : w \in User}, drive : Drive \cup {0},
                              handler : BOOLEAN, worker : BOOLEAN,
                              owner : {"handler", "worker", "nobody"}]]
      /\ quiet' \in [User -> 0..IdleTimeout]
  BY <1>3, <1>4, DriveAssumption DEF IInv, TypeOK
<1>8. CASE shutdown = "done"
  <2>1. UNCHANGED table /\ Entries = {} /\ Entries' = {}
    <3>1. UNCHANGED table
      BY <1>8, ReleaseLate
    <3> QED
      BY <1>8, <3>1 DEF IInv, TableInv, Entries, table
  <2>2. TypeOK'
    BY <1>7, <2>1 DEF IInv, TypeOK, table
  <2>3. TableInv'
    BY <1>8, <2>1 DEF IInv, TableInv, table
  <2> QED
    BY <1>5, <1>6, <2>2, <2>3 DEF IInv
<1>9. CASE shutdown # "done"
  <2>1. /\ drives[u] \in Entry /\ drives[u].users > 0
        /\ \/ /\ drives[u].users = 1
              /\ drives' = [v \in User |-> IF v \in {u} THEN NoEntry ELSE drives[v]]
              /\ open' = open \ {drives[v].drive : v \in {u}}
           \/ \E e \in Entry :
                /\ e.drive = drives[u].drive /\ e.users = drives[u].users - 1
                /\ e.closeRequested => e.users > 0
                /\ e.age = 0
                /\ drives' = [drives EXCEPT ![u] = e] /\ open' = open
    BY <1>2, <1>9, ReleaseTable
  <2>2. /\ \A v \in User : drives[v].users = Cardinality(HoldersOf(v))
        /\ \A v \in User : \A x \in HoldersOf(v) : drives[v].drive = request[x].drive
    BY <1>9 DEF IInv, TableInv
  <2>3. \A v \in User : \A x \in HoldersOf(v)' : x \in HoldersOf(v) /\ request'[x] = request[x]
    BY <1>1, <1>2 DEF HoldersOf, Holders
  <2>4. CASE /\ drives[u].users = 1
             /\ drives' = [v \in User |-> IF v \in {u} THEN NoEntry ELSE drives[v]]
             /\ open' = open \ {drives[v].drive : v \in {u}}
    <3>1. /\ drives' \in [User -> Entry \cup {NoEntry}] /\ open' \subseteq Drive
          /\ Entries' = Entries \ {u}
          /\ open' = {drives'[v].drive : v \in Entries'}
          /\ \A v, w \in Entries' : drives'[v].drive = drives'[w].drive => v = w
      BY ZenonT(40), <2>4, Closing DEF IInv
    <3>2. \A v \in User : drives'[v] = IF v = u THEN NoEntry ELSE drives[v]
      BY <2>4
    <3>3. Cardinality(HoldersOf(u)') = 0 /\ HoldersOf(u)' = {}
      <4>1. HoldersOf(u)' \in SUBSET Request
        BY <1>2 DEF HoldersOf, Holders
      <4>2. Cardinality(HoldersOf(u)') = 0
        BY <1>3, <2>2, <2>4
      <4> QED
        BY <1>2, <4>1, <4>2, Bounded
    <3>4. \A v \in User : drives'[v].users = Cardinality(HoldersOf(v)')
      <4>1. drives'[u].users = Cardinality(HoldersOf(u)')
        BY <3>2, <3>3 DEF NoEntry
      <4>2. \A v \in User \ {u} : drives'[v].users = Cardinality(HoldersOf(v)')
        BY <1>2, <2>2, <3>2
      <4> QED
        BY <4>1, <4>2
    <3>5. \A v \in User : \A x \in HoldersOf(v)' : drives'[v].drive = request'[x].drive
      BY <2>2, <2>3, <3>2, <3>3
    <3>6. /\ \A v \in Entries' : drives'[v].closeRequested => drives'[v].users > 0
          /\ \A v \in Entries' : drives'[v].users = 0 => drives'[v].age <= quiet'[v]
      BY <3>1, <3>2 DEF IInv, TypeOK, TableInv, Entries
    <3>7. TableInv'
      BY <1>9, <3>1, <3>4, <3>5, <3>6 DEF TableInv
    <3>8. TypeOK'
      BY <1>7, <3>1 DEF IInv, TypeOK
    <3> QED
      BY <1>5, <1>6, <3>7, <3>8 DEF IInv
  <2>5. ASSUME NEW e \in Entry, e.drive = drives[u].drive, e.users = drives[u].users - 1,
               e.closeRequested => e.users > 0, e.age = 0,
               drives' = [drives EXCEPT ![u] = e], open' = open
        PROVE  IInv'
    <3>1. \A v \in User : drives'[v] = IF v = u THEN e ELSE drives[v]
      BY <2>5 DEF IInv, TypeOK
    <3>2. u \in Entries /\ e # NoEntry
      BY <2>1 DEF Entries, NoEntry, Entry, Drive
    <3>3. Entries' = Entries /\ \A v \in Entries : drives'[v].drive = drives[v].drive
      BY <2>5, <3>1, <3>2 DEF Entries
    <3>4. /\ open' = {drives'[v].drive : v \in Entries'}
          /\ \A v, w \in Entries' : drives'[v].drive = drives'[w].drive => v = w
      BY <2>5, <3>3 DEF IInv, TableInv
    <3>5. \A v \in User : drives'[v].users = Cardinality(HoldersOf(v)')
      <4>1. drives'[u].users = Cardinality(HoldersOf(u)')
        BY <1>3, <2>2, <2>5, <3>1
      <4>2. \A v \in User \ {u} : drives'[v].users = Cardinality(HoldersOf(v)')
        BY <1>2, <2>2, <3>1
      <4> QED
        BY <4>1, <4>2
    <3>6. \A v \in User : \A x \in HoldersOf(v)' : drives'[v].drive = request'[x].drive
      BY <2>2, <2>3, <2>5, <3>1
    <3>7. \A v \in Entries' : drives'[v].closeRequested => drives'[v].users > 0
      BY <2>5, <3>1, <3>3 DEF IInv, TableInv, Entries
    <3>8. \A v \in Entries' : drives'[v].users = 0 => drives'[v].age <= quiet'[v]
      BY <2>5, <3>1, <3>3 DEF IInv, TypeOK, TableInv, Entries
    <3>9. TableInv'
      BY <1>9, <3>4, <3>5, <3>6, <3>7, <3>8 DEF TableInv
    <3>10. TypeOK'
      BY <1>7, <2>5 DEF IInv, TypeOK
    <3> QED
      BY <1>5, <1>6, <3>9, <3>10 DEF IInv
  <2> QED
    BY <2>1, <2>4, <2>5
<1> QED
  BY <1>8, <1>9

(* Steps that leave the table, the counters and the duties as they are.    *)
LEMMA SameDuties ==
  ASSUME IInv, TypeOK', RequestInv', UNCHANGED <<table, counter, stopping, quiet>>,
         \A x \in Request : /\ request'[x].owner # "nobody" <=> request[x].owner # "nobody"
                            /\ request[x].owner # "nobody" =>
                                 /\ request'[x].user = request[x].user
                                 /\ request'[x].drive = request[x].drive
  PROVE  IInv'
<1>1. Holders' = Holders /\ \A v \in User : HoldersOf(v)' = HoldersOf(v)
  BY DEF Holders, HoldersOf
<1>2. CounterInv'
  BY <1>1 DEF IInv, CounterInv, counter, stopping
<1>3. Entries' = Entries
  BY DEF Entries, table
<1>4. \A v \in User : \A x \in HoldersOf(v) : request'[x].drive = request[x].drive
  BY DEF Holders, HoldersOf
<1>5. TableInv'
  BY <1>1, <1>3, <1>4 DEF IInv, TableInv, table, stopping
<1> QED
  BY <1>2, <1>5 DEF IInv

LEMMA EndStep ==
  ASSUME IInv, NEW r \in Request, NEW part \in {"handler", "worker"},
         request[r][part], End(r, part)
  PROVE  IInv'
<1> DEFINE Type == [user : {{}} \cup {{w} : w \in User}, drive : Drive \cup {0},
                    handler : BOOLEAN, worker : BOOLEAN,
                    owner : {"handler", "worker", "nobody"}]
<1>1. PICK u \in User : \E q \in Type :
             /\ request[r].user = {u}
             /\ request' = [request EXCEPT ![r] = q]
             /\ q = Idle \/ Running(q)
             /\ q.owner # "nobody" => q.user = {u} /\ q.drive = request[r].drive
             /\ UNCHANGED stopping
             /\ IF request[r].owner = part
                THEN q.owner = "nobody" /\ Release(u) /\ quiet' = [quiet EXCEPT ![u] = 0]
                ELSE q.owner = request[r].owner /\ UNCHANGED <<table, counter, quiet>>
  BY ZenonT(40), EndRequest
<1>2. PICK q \in Type :
             /\ request[r].user = {u}
             /\ request' = [request EXCEPT ![r] = q]
             /\ q = Idle \/ Running(q)
             /\ q.owner # "nobody" => q.user = {u} /\ q.drive = request[r].drive
             /\ UNCHANGED stopping
             /\ IF request[r].owner = part
                THEN q.owner = "nobody" /\ Release(u) /\ quiet' = [quiet EXCEPT ![u] = 0]
                ELSE q.owner = request[r].owner /\ UNCHANGED <<table, counter, quiet>>
  BY <1>1
<1>3. CASE request[r].owner = part
  BY <1>2, <1>3, ReleaseStep
<1>4. CASE request[r].owner # part
  <2>1. \A x \in Request : request'[x] = IF x = r THEN q ELSE request[x]
    BY <1>2 DEF IInv, TypeOK
  <2>2. RequestInv'
    BY <1>2, <2>1 DEF IInv, RequestInv, Running
  <2>3. TypeOK'
    BY <1>2, <1>4 DEF IInv, TypeOK, table, counter, stopping
  <2>4. \A x \in Request : /\ request'[x].owner # "nobody" <=> request[x].owner # "nobody"
                           /\ request[x].owner # "nobody" =>
                                /\ request'[x].user = request[x].user
                                /\ request'[x].drive = request[x].drive
    BY <1>2, <1>4, <2>1
  <2>5. UNCHANGED <<table, counter, stopping, quiet>>
    BY <1>2, <1>4
  <2> QED
    BY <2>2, <2>3, <2>4, <2>5, SameDuties
<1> QED
  BY <1>3, <1>4

LEMMA DetachStep == ASSUME IInv, NEW r \in Request, Detach(r) PROVE IInv'
<1> DEFINE q == [request[r] EXCEPT !.worker = TRUE, !.owner = "worker"]
<1>1. request' = [request EXCEPT ![r] = q]
  BY DEF Detach, IInv, TypeOK
<1>2. request[r] # Idle /\ Running(request[r]) /\ request[r].owner = "handler"
  BY DEF Detach, IInv, RequestInv, Idle
<1>3. /\ q \in [user : {{}} \cup {{w} : w \in User}, drive : Drive \cup {0},
                handler : BOOLEAN, worker : BOOLEAN, owner : {"handler", "worker", "nobody"}]
      /\ q.user = request[r].user /\ q.drive = request[r].drive /\ q.owner = "worker"
      /\ q.worker /\ q.handler = request[r].handler
  BY DEF IInv, TypeOK
<1>4. Running(q)
  BY <1>2, <1>3 DEF Running
<1> HIDE DEF q
<1>5. \A x \in Request : request'[x] = IF x = r THEN q ELSE request[x]
  BY <1>1 DEF IInv, TypeOK
<1>6. RequestInv'
  BY <1>4, <1>5 DEF IInv, RequestInv, Running
<1>7. UNCHANGED <<table, counter, stopping, quiet>>
  BY DEF Detach
<1>8. TypeOK'
  BY <1>1, <1>3, <1>7 DEF IInv, TypeOK, table, counter, stopping
<1> QED
  BY <1>2, <1>3, <1>5, <1>6, <1>7, <1>8, SameDuties
-----------------------------------------------------------------------------
LEMMA TickStep == ASSUME IInv, Tick PROVE IInv'
<1> USE DEF counter, stopping
<1>1. UNCHANGED <<open, counter, stopping, request>>
  BY DEF Tick
<1>2. \A a \in 0..IdleTimeout : Older(a) \in 0..IdleTimeout
  BY DriveAssumption DEF Older
<1>3. \A a, b \in 0..IdleTimeout : a <= b => Older(a) <= Older(b)
  BY DriveAssumption DEF Older
<1>4. ASSUME NEW u \in User
      PROVE  /\ drives'[u] \in Entry \cup {NoEntry}
             /\ drives'[u] = NoEntry <=> drives[u] = NoEntry
             /\ drives'[u].drive = drives[u].drive /\ drives'[u].users = drives[u].users
             /\ drives'[u].closeRequested = drives[u].closeRequested
             /\ drives[u] # NoEntry => drives'[u].age = Older(drives[u].age)
  <2>1. CASE drives[u] = NoEntry
    BY <2>1 DEF Tick
  <2>2. CASE drives[u] # NoEntry
    <3> DEFINE a == Older(drives[u].age)
    <3>1. drives[u] \in Entry /\ drives'[u] = [drives[u] EXCEPT !.age = a]
      BY <2>2 DEF Tick, IInv, TypeOK
    <3>2. a \in 0..IdleTimeout
      BY <1>2, <3>1 DEF Entry
    <3> HIDE DEF a
    <3>3. drives'[u] \in Entry /\ drives'[u].drive = drives[u].drive
            /\ drives'[u].users = drives[u].users
            /\ drives'[u].closeRequested = drives[u].closeRequested
            /\ drives'[u].age = a
      BY <3>1, <3>2 DEF Entry
    <3>4. drives'[u] # NoEntry
      BY <3>3 DEF Entry, NoEntry, Drive
    <3> QED
      BY <2>2, <3>3, <3>4 DEF a
  <2> QED
    BY <2>1, <2>2
<1>5. ASSUME NEW u \in User
      PROVE  /\ quiet'[u] \in 0..IdleTimeout
             /\ quiet'[u] = IF UsedBy(u) THEN 0 ELSE Older(quiet[u])
  BY <1>2, DriveAssumption DEF Tick, IInv, TypeOK
<1>6. /\ Holders' = Holders /\ Entries' = Entries
      /\ \A u \in User : HoldersOf(u)' = HoldersOf(u)
  BY <1>1, <1>4 DEF Holders, HoldersOf, Entries
<1>7. TypeOK'
  <2>1. drives' = [u \in User |-> drives'[u]] /\ quiet' = [u \in User |-> quiet'[u]]
    BY DEF Tick
  <2>2. drives' \in [User -> Entry \cup {NoEntry}] /\ quiet' \in [User -> 0..IdleTimeout]
    BY <1>4, <1>5, <2>1
  <2> QED
    BY <1>1, <2>2 DEF IInv, TypeOK
<1>8. RequestInv'
  BY <1>1 DEF IInv, RequestInv, Running
<1>9. TableInv'
  <2>1. /\ open' = {drives'[u].drive : u \in Entries'}
        /\ \A u, v \in Entries' : drives'[u].drive = drives'[v].drive => u = v
    <3>1. \A u \in Entries : drives'[u].drive = drives[u].drive
      BY <1>4 DEF Entries
    <3> QED
      BY <1>1, <1>6, <3>1 DEF IInv, TableInv
  <2>2. shutdown' = "done" => Entries' = {}
    BY <1>1, <1>6 DEF IInv, TableInv
  <2>3. shutdown' # "done" =>
          \A u \in User :
            /\ drives'[u].users = Cardinality(HoldersOf(u)')
            /\ \A r \in HoldersOf(u)' : drives'[u].drive = request'[r].drive
    BY <1>1, <1>4, <1>6 DEF IInv, TableInv
  <2>4. \A u \in Entries' : drives'[u].closeRequested => drives'[u].users > 0
    BY <1>4, <1>6 DEF IInv, TableInv, Entries
  <2>5. ASSUME NEW u \in Entries, drives'[u].users = 0
        PROVE  drives'[u].age <= quiet'[u]
    <3>1. HoldersOf(u) = {}
      <4>1. shutdown # "done"
        BY DEF IInv, TableInv
      <4> QED
        BY <1>4, <2>5, <4>1, Unheld DEF Entries
    <3>2. ~UsedBy(u)
      BY <3>1 DEF UsedBy, Used, Holders, HoldersOf, IInv, RequestInv, Running, Idle
    <3>3. /\ drives[u].age \in 0..IdleTimeout /\ quiet[u] \in 0..IdleTimeout
          /\ drives[u].age <= quiet[u]
      BY <1>4, <2>5 DEF IInv, TypeOK, TableInv, Entries, Entry
    <3>4. drives'[u].age = Older(drives[u].age) /\ quiet'[u] = Older(quiet[u])
      BY <1>4, <1>5, <3>2 DEF Entries
    <3> QED
      BY <1>3, <3>3, <3>4
  <2> QED
    BY <1>6, <2>1, <2>2, <2>3, <2>4, <2>5 DEF TableInv
<1>10. CounterInv'
  BY <1>1, <1>6 DEF IInv, CounterInv
<1> QED
  BY <1>7, <1>8, <1>9, <1>10 DEF IInv

(* A step of the shutdown before the drives are closed concerns nothing    *)
(* but its own variables.                                                  *)
LEMMA StoppingStep ==
  ASSUME IInv, StartClose \/ StopGC \/ GCReturns \/ GCWaited \/ NotDrained \/ Drained \/ Deadline
  PROVE  IInv'
<1> USE DEF StartClose, OnPostShutdown, StopGC, GCReturns, GCWaited, NotDrained, Drained,
            Deadline, CloseGoto, table, counter
<1>1. UNCHANGED <<table, counter, request, quiet>>
  OBVIOUS
<1>2. Holders' = Holders /\ Entries' = Entries /\ \A u \in User : HoldersOf(u)' = HoldersOf(u)
  BY <1>1 DEF Holders, HoldersOf, Entries
<1>3. TypeOK'
  BY DEF IInv, TypeOK
<1>4. RequestInv'
  BY <1>1 DEF IInv, RequestInv, Running
<1>5. (shutdown # "done" /\ shutdown' # "done") \/ shutdown' = shutdown
  OBVIOUS
<1>6. TableInv'
  <2> HIDE DEF StartClose, OnPostShutdown, StopGC, GCReturns, GCWaited, NotDrained, Drained,
               Deadline, CloseGoto
  <2> QED
    BY <1>1, <1>2, <1>5 DEF IInv, TableInv
<1>7. CounterInv'
  <2>1. closed' <=> shutdown' # "no"
    BY DEF IInv, CounterInv
  <2>2. shutdown' # "no" => captured' = drained'
    BY DEF IInv, CounterInv
  <2>3. shutdown' \in {"close", "done"} /\ ~forced' => active' = 0
    BY DEF IInv, CounterInv
  <2> QED
    BY <1>1, <1>2, <2>1, <2>2, <2>3 DEF IInv, CounterInv
<1> QED
  BY <1>3, <1>4, <1>6, <1>7 DEF IInv

LEMMA CloseAllStep == ASSUME IInv, CloseAll PROVE IInv'
<1> USE DEF counter
<1>1. /\ shutdown = "close" /\ shutdown' = "done"
      /\ UNCHANGED <<counter, closed, stop, gc, captured, forced, request, quiet>>
      /\ drives' = [u \in User |-> IF u \in User THEN NoEntry ELSE drives[u]]
      /\ open' = open \ {drives[u].drive : u \in User}
  BY DEF CloseAll
<1>2. /\ drives' \in [User -> Entry \cup {NoEntry}] /\ open' \subseteq Drive
      /\ Entries' = Entries \ User
      /\ open' = {drives'[u].drive : u \in Entries'}
  BY <1>1, Closing DEF IInv
<1>3. Entries' = {} /\ Holders' = Holders
  BY <1>1, <1>2 DEF Entries, Holders
<1>4. TypeOK'
  BY <1>1, <1>2 DEF IInv, TypeOK
<1>5. RequestInv'
  BY <1>1 DEF IInv, RequestInv, Running
<1>6. TableInv'
  BY <1>1, <1>2, <1>3 DEF TableInv
<1>7. CounterInv'
  BY <1>1, <1>3 DEF IInv, CounterInv
<1> QED
  BY <1>4, <1>5, <1>6, <1>7 DEF IInv

LEMMA StutterStep == ASSUME IInv, UNCHANGED vars PROVE IInv'
<1>1. UNCHANGED <<table, counter, stopping, quiet>> /\ UNCHANGED request
  BY DEF vars
<1>2. TypeOK' /\ RequestInv'
  BY <1>1 DEF IInv, TypeOK, RequestInv, Running, table, counter, stopping
<1> QED
  BY <1>1, <1>2, SameDuties

LEMMA NextStep == ASSUME IInv, [Next]_vars PROVE IInv'
<1>1. ASSUME NEW r \in Request, Return(r) PROVE IInv'
  BY <1>1, EndStep DEF Return
<1>2. ASSUME NEW r \in Request, Finish(r) PROVE IInv'
  BY <1>2, EndStep DEF Finish
<1> QED
  BY <1>1, <1>2, AcquireStep, DetachStep, LogoutStep, CloseIdleStep, TickStep, StoppingStep,
     CloseAllStep, StutterStep DEF Next, ShutdownStep

LEMMA Invariant == Spec => []IInv
BY InitInv, NextStep, PTL DEF Spec
-----------------------------------------------------------------------------
(* A drive that a request works with is open until the deadline of a       *)
(* shutdown passes: the request holds it, so its entry counts a user, and  *)
(* a shutdown that does not wait any longer has seen the last release.     *)
THEOREM NoDriveClosedInUse == Spec => []DriveInUseStaysOpen
<1>1. IInv => DriveInUseStaysOpen
  <2> SUFFICES ASSUME IInv, NEW r \in Request, Used(r), ~forced
               PROVE  request[r].drive \in open
    BY DEF IInv, DriveInUseStaysOpen
  <2>1. PICK u \in User : request[r].user = {u} /\ r \in HoldersOf(u)
    BY DEF Used, Holders, HoldersOf, IInv, RequestInv, Running, Idle
  <2>2. shutdown # "done"
    <3>1. Holders \in SUBSET Request /\ Holders # {}
      BY <2>1 DEF Holders, HoldersOf
    <3>2. active # 0
      BY <3>1, Bounded DEF IInv, CounterInv
    <3> QED
      BY <3>2 DEF IInv, CounterInv
  <2>3. drives[u].users # 0 /\ drives[u].drive = request[r].drive
    <3>1. HoldersOf(u) \in SUBSET Request /\ HoldersOf(u) # {}
      BY <2>1 DEF Holders, HoldersOf
    <3> QED
      BY <2>1, <2>2, <3>1, Bounded DEF IInv, TableInv
  <2>4. u \in Entries
    BY <2>3 DEF Entries, NoEntry
  <2> QED
    BY <2>3, <2>4 DEF IInv, TableInv
<1> QED
  BY <1>1, Invariant, PTL

(* Every open drive is the one the table has for some user, and none is    *)
(* left open by a shutdown.                                                *)
THEOREM NoDriveLost == Spec => []NoDriveLeaks
<1>1. IInv => NoDriveLeaks
  BY DEF IInv, TableInv, Entries, NoDriveLeaks
<1> QED
  BY <1>1, Invariant, PTL

(* A close that was asked for waits for a request that will release the    *)
(* drive.                                                                  *)
THEOREM CloseRemembered == Spec => []CloseNotForgotten
<1>1. IInv => CloseNotForgotten
  <2> SUFFICES ASSUME IInv, NEW u \in User, drives[u].closeRequested
               PROVE  \E r \in Request : request[r].drive = drives[u].drive
                                           /\ request[r].owner # "nobody"
    BY DEF CloseNotForgotten
  <2>1. u \in Entries /\ shutdown # "done"
    BY DEF Entries, NoEntry, IInv, TableInv
  <2>2. drives[u].users > 0 /\ drives[u].users = Cardinality(HoldersOf(u))
    BY <2>1 DEF IInv, TableInv
  <2>3. HoldersOf(u) \in SUBSET Request
    BY DEF Holders, HoldersOf
  <2>4. HoldersOf(u) # {}
    BY <2>2, <2>3, Bounded
  <2>5. PICK r \in HoldersOf(u) : TRUE
    BY <2>4
  <2>6. drives[u].drive = request[r].drive
    BY <2>1, <2>5 DEF IInv, TableInv
  <2> QED
    BY <2>5, <2>6 DEF Holders, HoldersOf
<1> QED
  BY <1>1, Invariant, PTL

(* The idle collection takes no drive before its user has been quiet for   *)
(* the whole timeout: the age of an unused entry is at most that time.     *)
THEOREM QuietBeforeCollected == Spec => GCTakesQuietOnly
<1>1. ASSUME IInv, NEW S \in SUBSET User, CloseIdle(S), NEW u \in S
      PROVE  quiet[u] >= IdleTimeout
  <2>1. u \in Entries /\ drives[u].users = 0 /\ drives[u].age >= IdleTimeout
    BY <1>1 DEF CloseIdle, Entries
  <2>2. drives[u].age <= quiet[u] /\ drives[u].age \in 0..IdleTimeout /\ quiet[u] \in 0..IdleTimeout
    BY <1>1, <2>1 DEF IInv, TypeOK, TableInv, Entries, Entry
  <2> QED
    BY <2>1, <2>2, DriveAssumption
<1>2. IInv => [\A S \in SUBSET User : CloseIdle(S) => \A u \in S : quiet[u] >= IdleTimeout]_vars
  BY <1>1
<1> QED
  BY <1>2, Invariant, PTL DEF GCTakesQuietOnly
=============================================================================
