------------------------------ MODULE Accounts ------------------------------
(***************************************************************************)
(* The accounts of the server: the user records and the username index in  *)
(* the system database, the tokens a login issues, the requests of users   *)
(* and administrators that change accounts, and the audit log they leave.  *)
(*                                                                         *)
(* Every db.Update is a Badger transaction: what it reads and writes is    *)
(* computed from the store it starts on, and its commit fails if a key it  *)
(* read was written since (stale).  Nothing retries it.                    *)
(***************************************************************************)
EXTENDS Naturals, FiniteSets, Sequences, SequencesExt

CONSTANTS
  Id,          \* user identifiers
  Root,        \* the one of the first administrator
  Spelling,    \* user names as they are typed
  Normalize,   \* normalizeUsername
  Password,
  Call,        \* requests under way at a time
  Changes,     \* changes an administrator asks for
  MaxVersion,  \* bound on the password changes of a user
  MaxTokens,   \* bound on the tokens in circulation
  MaxEvents    \* bound on the audit log

Name == {Normalize[s] : s \in Spelling}

Optional(S) == {{}} \cup {{x} : x \in S}
NoChange == [admin |-> {}, disabled |-> {}, password |-> {}]
Change == [admin : Optional(BOOLEAN), disabled : Optional(BOOLEAN), password : Optional(Password)]

ASSUME AccountAssumption ==
  /\ IsFiniteSet(Id) /\ Root \in Id
  /\ Spelling # {} /\ Password # {}
  /\ Name \subseteq Spelling /\ \A n \in Name : Normalize[n] = n
  /\ Changes \subseteq Change
  /\ MaxVersion \in Nat /\ MaxTokens \in Nat /\ MaxEvents \in Nat

VARIABLES
  users,   \* user:<id>, a set of at most one record
  names,   \* username:<name>, a set of at most one identifier
  events,  \* event:<time>:<id>, oldest first
  tokens,  \* the valid signed tokens somebody holds
  call     \* the requests under way

vars == <<users, names, events, tokens, call>>

User == [name : Name, version : 0..MaxVersion, password : Password,
         admin : BOOLEAN, disabled : BOOLEAN]
Token == [id : Id, version : 0..MaxVersion, password : Password]
Cached == [id : Id, user : User]
Event == [id : 1..MaxEvents, user : Id]

NoTxn == [reads |-> {}, puts |-> {}, index |-> {}, dels |-> {}, stale |-> FALSE]
Idle == [pc |-> "idle", cached |-> {}, txn |-> NoTxn]

(* server.Init creates the configured administrator in an empty store. *)
Init ==
  /\ \E s \in Spelling, p \in Password :
       LET first == [name |-> Normalize[s], version |-> 0, password |-> p,
                     admin |-> TRUE, disabled |-> FALSE]
       IN  /\ users = [i \in Id |-> IF i = Root THEN {first} ELSE {}]
           /\ names = [n \in Name |-> IF n = first.name THEN {Root} ELSE {}]
  /\ events = <<>>
  /\ tokens = {}
  /\ call = [c \in Call |-> Idle]

Goto(c, label, cached) ==
  call' = [call EXCEPT ![c] = [pc |-> label, cached |-> cached, txn |-> NoTxn]]
-----------------------------------------------------------------------------
(* (NotTracked, KeepsVersion and other variants that stand before the       *)
(* operator they vary are wrong on purpose: the runs detect them.)         *)

(* Authenticate: the user of that name, if enabled and the password is his. *)
Authenticate(n, p) ==
  {k \in [id : names[n], user : UNION {users[i] : i \in names[n]}] :
     ~k.user.disabled /\ k.user.password = p}

(* Login reads the user, then signs a token for the version it has read.   *)
Login(c, s, p) ==
  /\ call[c].pc = "idle"
  /\ \E k \in Authenticate(Normalize[s], p) : Goto(c, "sign", {k})
  /\ UNCHANGED <<users, names, events, tokens>>

Sign(k) == {[id |-> k.id, version |-> k.user.version, password |-> k.user.password]}

(* Those events of a log that are in S. *)
Selected(log, S) ==
  LET selected[n \in 0..Len(log)] ==
        IF n = 0 THEN <<>>
        ELSE IF log[n] \in S THEN Append(selected[n - 1], log[n]) ELSE selected[n - 1]
  IN selected[Len(log)]

(* RecordEvent: the log is ordered by the time the event was made, which is *)
(* before its transaction, so that events of other calls under way may come *)
(* after it.  A failure is only logged.                                     *)
FreshEvent(i) ==
  LET taken == Range(events) \cup UNION {call[c].txn.dels : c \in Call}
      free == {n \in 1..MaxEvents : \A e \in taken : e.id # n}
  IN  {[id |-> n, user |-> i] : n \in {m \in free : \A o \in free : m <= o}}
RecordEvent(i) ==
  \/ UNCHANGED events
  \/ \E e \in FreshEvent(i), at \in 1..(Len(events) + 1) :
       /\ Len(events) - at < Cardinality(Call) - 1
       /\ events' = InsertAt(events, at, e)

Issue(c) ==
  /\ call[c].pc = "sign"
  /\ \E k \in call[c].cached : tokens' = tokens \cup Sign(k) /\ RecordEvent(k.id)
  /\ Cardinality(tokens') <= MaxTokens
  /\ Goto(c, "idle", {})
  /\ UNCHANGED <<users, names>>

Expire(t) == tokens' = tokens \ {t} /\ UNCHANGED <<users, names, events, call>>

(* UserMiddleware: handlers work with the user as it is read here. *)
Valid(t, u) == ~u.disabled /\ u.version = t.version

Admit(c, t) ==
  /\ call[c].pc = "idle"
  /\ \E u \in users[t.id] : Valid(t, u) /\ Goto(c, "admitted", {[id |-> t.id, user |-> u]})
  /\ UNCHANGED <<users, names, events, tokens>>

(* Audit: every request but a GET ends with an event of the user admitted. *)
Audited(c) == IF call[c].cached = {} \/ call[c].pc = "sign" THEN Idle
              ELSE [pc |-> "audit", cached |-> call[c].cached, txn |-> NoTxn]
Audit(c) ==
  /\ call[c].pc = "audit"
  /\ \E k \in call[c].cached : RecordEvent(k.id)
  /\ Goto(c, "idle", {})
  /\ UNCHANGED <<users, names, tokens>>
-----------------------------------------------------------------------------
UserKey(i) == <<"user", i>>
NameKey(n) == <<"username", n>>
EventKey(e) == <<"event", e>>

Begin(c, reads, puts, index) ==
  /\ call' = [call EXCEPT ![c] =
       [pc |-> "commit", cached |-> @.cached,
        txn |-> [NoTxn EXCEPT !.reads = reads, !.puts = puts, !.index = index]]]
  /\ UNCHANGED <<users, names, events, tokens>>

AdminOnly(c) == \E k \in call[c].cached : call[c].pc = "admitted" /\ k.user.admin

Unused(i) ==
  users[i] = {} /\ \A c \in Call : \A put \in call[c].txn.puts : put.id # i

(* Create: the index entry and the record are written together, and the    *)
(* look-up of a name that is free counts as read.                          *)
Stored(s) == Normalize[s]

NameMissed(n) == {}
NameRead(n) == {NameKey(n)}

Create(c, s, p, admin) ==
  \E n \in {Stored(s)}, i \in Id :
    /\ Unused(i)
    /\ n \in Name => names[n] = {}
    /\ Begin(c, NameRead(n),
             {[id |-> i, user |-> [name |-> n, version |-> 0, password |-> p,
                                   admin |-> admin, disabled |-> FALSE]]},
             {[name |-> n, id |-> i]})

CreateUser(c, s, p, admin) == AdminOnly(c) /\ Create(c, s, p, admin)

ActiveAdmins == {i \in Id : \E u \in users[i] : u.admin /\ ~u.disabled}

(* What activeAdminCount reads: the iterator of an update transaction       *)
(* counts the items it shows as read.                                       *)
NotTracked == {}
AdminReads == {UserKey(i) : i \in {j \in Id : users[j] # {}}}

KeepsVersion(u, p) == [u EXCEPT !.password = p]
SetPassword(u, p) == [u EXCEPT !.password = p, !.version = @ + 1]

(* Update: a change is a set of at most one new value per field. *)
Changed(old, S) == IF S = {} THEN old ELSE CHOOSE x \in S : TRUE

Updated(u, change) ==
  LET enabled == [u EXCEPT !.admin = Changed(@, change.admin),
                           !.disabled = Changed(@, change.disabled)]
  IN  IF change.password = {} THEN enabled
      ELSE SetPassword(enabled, Changed(u.password, change.password))

LosesAdmin(u, new) == u.admin /\ ~u.disabled /\ ~(new.admin /\ ~new.disabled)

NotRead(i) == {}
RecordRead(i) == {UserKey(i)}

Update(c, i, change) ==
  \E u \in users[i] :
    LET new == Updated(u, change)
    IN  /\ LosesAdmin(u, new) => Cardinality(ActiveAdmins) # 1
        /\ new.version <= MaxVersion
        /\ Begin(c, RecordRead(i) \cup (IF LosesAdmin(u, new) THEN AdminReads ELSE {}),
                 {[id |-> i, user |-> new]}, {})

UpdateUser(c, i, change) == AdminOnly(c) /\ Update(c, i, change)

(* ChangePassword proves the current password in a transaction of its own. *)
Prove(c, p) ==
  /\ call[c].pc = "admitted"
  /\ \E k \in call[c].cached :
       Authenticate(k.user.name, p) # {} /\ Goto(c, "proved", {k})
  /\ UNCHANGED <<users, names, events, tokens>>

ChangePassword(c, p) ==
  /\ call[c].pc = "proved"
  /\ \E k \in call[c].cached : Update(c, k.id, [NoChange EXCEPT !.password = {p}])

(* ClearEvents: the transaction reads the whole log and deletes the events  *)
(* of one user that it has found.                                           *)
ClearEvents(c, i) ==
  /\ call' = [call EXCEPT ![c] =
       [pc |-> "commit", cached |-> @.cached,
        txn |-> [NoTxn EXCEPT !.reads = {EventKey(e) : e \in Range(events)},
                              !.dels = {e \in Range(events) : e.user = i}]]]
  /\ UNCHANGED <<users, names, events, tokens>>

ClearUserEvents(c, i) == AdminOnly(c) /\ users[i] # {} /\ ClearEvents(c, i)

(* ListEvents walks the log backwards; filter holds the user asked for, or  *)
(* nobody.  It counts all the events and takes those of the page.           *)
Start(page, size) == (page - 1) * size
SkipsOneMore(acc, start, size) == acc.total <= start \/ Len(acc.page) = size
Skips(acc, start, size) == acc.total < start \/ Len(acc.page) = size
Takes(acc, start, size) == acc.total >= start /\ Len(acc.page) < size
Walk(acc, e, filter, start, size) ==
  CASE filter = {} /\ Skips(acc, start, size) -> [acc EXCEPT !.total = @ + 1]
    [] filter # {} /\ e.user \notin filter -> acc
    [] filter # {} /\ e.user \in filter /\ ~Takes(acc, start, size) -> [acc EXCEPT !.total = @ + 1]
    [] OTHER -> [page |-> Append(acc.page, e), total |-> acc.total + 1]
ListEvents(log, page, size, filter) ==
  LET walked[n \in 0..Len(log)] ==
        IF n = 0 THEN [page |-> <<>>, total |-> 0]
        ELSE Walk(walked[n - 1], log[Len(log) + 1 - n], filter, Start(page, size), size)
  IN walked[Len(log)]
-----------------------------------------------------------------------------
Writes(txn) == {UserKey(put.id) : put \in txn.puts} \cup {NameKey(e.name) : e \in txn.index}
                 \cup {EventKey(e) : e \in txn.dels}

(* External: Badger lets a transaction commit if what it read is current,  *)
(* and what it writes outdates the open transactions that have read it.    *)
Commit(c) ==
  LET txn == call[c].txn IN
  /\ call[c].pc = "commit" /\ ~txn.stale
  /\ users' = [i \in Id |-> IF \E put \in txn.puts : put.id = i
                            THEN {put.user : put \in txn.puts} ELSE users[i]]
  /\ names' = [n \in Name |-> IF \E e \in txn.index : e.name = n
                              THEN {e.id : e \in txn.index} ELSE names[n]]
  /\ events' = Selected(events, Range(events) \ txn.dels)
  /\ call' = [d \in Call |->
       IF d = c THEN Audited(c)
       ELSE [call[d] EXCEPT !.txn.stale = @ \/ call[d].txn.reads \cap Writes(txn) # {}]]
  /\ UNCHANGED tokens

(* A conflict, any other error or refusal, and the end of a request that    *)
(* changes no account; a GET leaves no event.                               *)
Fail(c) ==
  /\ call[c].pc \notin {"idle", "audit"}
  /\ \E after \in {Audited(c)} \cup (IF call[c].pc = "admitted" THEN {Idle} ELSE {}) :
       call' = [call EXCEPT ![c] = after]
  /\ UNCHANGED <<users, names, events, tokens>>

Next ==
  \/ \E c \in Call, p \in Password :
       \/ \E s \in Spelling : Login(c, s, p) \/ \E admin \in BOOLEAN : CreateUser(c, s, p, admin)
       \/ Prove(c, p)
       \/ ChangePassword(c, p)
  \/ \E c \in Call, t \in tokens : Admit(c, t)
  \/ \E c \in Call, i \in Id, change \in Changes : UpdateUser(c, i, change)
  \/ \E c \in Call, i \in Id : ClearUserEvents(c, i)
  \/ \E c \in Call : Issue(c) \/ Audit(c) \/ Commit(c) \/ Fail(c)
  \/ \E t \in tokens : Expire(t)

Spec == Init /\ [][Next]_vars
-----------------------------------------------------------------------------
(* The stored records, tokens and requests have their types; stored names  *)
(* are normalized ones.  (The log has its type in PagesCoverLog.)          *)
TypeOK ==
  /\ users \in [Id -> Optional(User)]
  /\ names \in [Name -> Optional(Id)]
  /\ tokens \subseteq Token
  /\ \A c \in Call :
       /\ call[c].pc \in {"idle", "sign", "admitted", "proved", "commit", "audit"}
       /\ call[c].cached \in Optional(Cached)
       /\ call[c].txn.puts \in Optional(Cached)
       /\ call[c].txn.index \in Optional([name : Name, id : Id])

(* The index and the records agree, so no two users share a name, however  *)
(* it is typed, and each can be found (Create, ByUsername).  (This is about *)
(* well typed states.)                                                      *)
NamesAgree ==
  TypeOK /\ \A i \in Id, n \in Name : i \in names[n] <=> \E u \in users[i] : u.name = n

(* Somebody can always administer the server: an enabled administrator is  *)
(* left, also when two administrators demote each other at once (Update,   *)
(* ErrLastAdmin).                                                          *)
SomeAdminStays == ActiveAdmins # {}

(* A token that is accepted was issued to somebody who knew the password   *)
(* that is still the user's (Login, UserMiddleware, README.md:117).        *)
TokenOfCurrentPassword ==
  \A t \in tokens : \A u \in users[t.id] : Valid(t, u) => t.password = u.password

(* Read one after the other, the pages of the log hold every event of the  *)
(* user asked for, or of all, once and newest first, and every page tells   *)
(* how many there are (ListEvents).                                         *)
PagesCoverLog ==
  /\ events \in Seq(Event) /\ \A c \in Call : call[c].txn.dels \subseteq Event
  /\ \A filter \in Optional(Id), size \in 1..MaxEvents :
       LET asked == Selected(events, {e \in Event : filter = {} \/ e.user \in filter})
           pages == [n \in 1..MaxEvents |-> ListEvents(events, n, size, filter)]
       IN  /\ FlattenSeq([n \in 1..MaxEvents |-> pages[n].page]) = Reverse(asked)
           /\ \A n \in 1..MaxEvents : pages[n].total = Len(asked)

(* A token that a password change has made invalid never becomes valid     *)
(* again: no concurrent change of the same user takes its version back     *)
(* (Update).                                                               *)
RevokedStaysRevoked ==
  [][\A t \in tokens \cap tokens', u \in UNION {users[i] : i \in Id}, new \in UNION {users'[i] : i \in Id} :
       u \in users[t.id] /\ new \in users'[t.id] /\ u.version # t.version
       => new.version # t.version]_vars
=============================================================================
