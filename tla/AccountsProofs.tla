--------------------------- MODULE AccountsProofs ---------------------------
(***************************************************************************)
(* However many accounts and requests there are: the username index and    *)
(* the records agree, an enabled administrator is left, a token that is    *)
(* accepted was issued for the current password, and one that a password   *)
(* change has revoked stays revoked; and the pages of the audit log hold   *)
(* all of it, however long it is.                                          *)
(*                                                                         *)
(* The argument is about the transactions under way.  One that is not      *)
(* stale still knows what it has decided upon: the record it replaces is   *)
(* the stored one, the name it takes is free, and another administrator it *)
(* has counted still is one (Current).  A stale one is refused.  The pages *)
(* are followed along the walk of ListEvents through the log (PageIs), and *)
(* put together one by one (FirstOf).                                      *)
(***************************************************************************)
EXTENDS Accounts, FiniteSetTheorems, SequenceTheorems, WellFoundedInduction, TLAPS

(* The fields of a request; what its transaction reads and deletes may be  *)
(* any set.                                                                *)
Shape(x) ==
  x \in [pc : {"idle", "sign", "admitted", "proved", "commit", "audit"},
         cached : Optional(Cached),
         txn : [reads : {x.txn.reads}, puts : Optional(Cached),
                index : Optional([name : Name, id : Id]),
                dels : {x.txn.dels}, stale : BOOLEAN]]
Typed == TypeOK /\ call = [c \in Call |-> call[c]] /\ \A c \in Call : Shape(call[c])

Creates(txn) == txn.index # {}

(* The transaction of c: one that creates a user has an identifier of its  *)
(* own; one that updates a user keeps his name.                            *)
Planned(c, txn) ==
  /\ \A e \in txn.index : \E put \in txn.puts : put.id = e.id /\ put.user.name = e.name
  /\ \A put \in txn.puts :
       IF Creates(txn)
       THEN /\ users[put.id] = {} /\ \E e \in txn.index : e.id = put.id /\ e.name = put.user.name
            /\ \A d \in Call \ {c} : \A other \in call[d].txn.puts : other.id # put.id
       ELSE \E u \in users[put.id] : u.name = put.user.name

(* The version of a record grows with every change of its password.        *)
Follows(new, version, password) ==
  version <= new.version /\ (version = new.version => password = new.password)

(* What a transaction that may still commit has read is as it was.         *)
Current(txn) ==
  ~txn.stale =>
    /\ \A e \in txn.index : NameKey(e.name) \in txn.reads /\ names[e.name] = {}
    /\ \A put \in txn.puts : ~Creates(txn) =>
         /\ UserKey(put.id) \in txn.reads
         /\ \A u \in users[put.id] :
              /\ Follows(put.user, u.version, u.password)
              /\ LosesAdmin(u, put.user) =>
                   \E j \in ActiveAdmins \ {put.id} : UserKey(j) \in txn.reads

Known(id, version, password) ==
  \E u \in users[id] : Follows(u, version, password)
Remembered ==
  /\ \A t \in tokens : Known(t.id, t.version, t.password)
  /\ \A c \in Call : \A k \in call[c].cached : Known(k.id, k.user.version, k.user.password)

IInv ==
  /\ Typed /\ NamesAgree /\ SomeAdminStays /\ Remembered
  /\ \A c \in Call : Planned(c, call[c].txn) /\ Current(call[c].txn)
-----------------------------------------------------------------------------
(* A set of at most one element.                                           *)
LEMMA AtMostOne ==
  ASSUME NEW S
  PROVE  /\ {} \in Optional(S) /\ \A x \in S : {x} \in Optional(S)
         /\ \A o \in Optional(S) : \A x \in o : x \in S /\ o = {x}
BY DEF Optional

LEMMA UserAt ==
  ASSUME Typed, NEW i \in Id, NEW u \in users[i]
  PROVE  u \in User /\ users[i] = {u} /\ u.version \in Nat
<1>1. users[i] \in Optional(User)
  BY DEF Typed, TypeOK
<1>2. u \in User /\ users[i] = {u}
  BY <1>1, AtMostOne
<1> QED
  BY <1>2, AccountAssumption DEF User

LEMMA KnownItself ==
  ASSUME Typed, NEW i \in Id, NEW u \in users[i]
  PROVE  Known(i, u.version, u.password)
BY UserAt DEF Known, Follows

(* Authenticate returns a stored record.                                   *)
LEMMA Authenticated ==
  ASSUME Typed, NEW n \in Name, NEW p, NEW k \in Authenticate(n, p)
  PROVE  k \in Cached /\ k.user \in users[k.id]
<1>1. /\ k \in [id : names[n], user : UNION {users[i] : i \in names[n]}]
      /\ names[n] \in Optional(Id)
  BY DEF Authenticate, Typed, TypeOK
<1>2. k.id \in names[n] /\ k.user \in UNION {users[i] : i \in names[n]}
        /\ k = [id |-> k.id, user |-> k.user]
  BY <1>1
<1>3. names[n] = {k.id} /\ k.id \in Id
  BY <1>1, <1>2, AtMostOne
<1>4. k.user \in users[k.id]
  BY <1>2, <1>3
<1>5. k.user \in User
  BY <1>3, <1>4, UserAt
<1> QED
  BY <1>2, <1>3, <1>4, <1>5 DEF Cached

LEMMA NoTxnShape ==
  ASSUME NEW pc \in {"idle", "sign", "admitted", "proved", "commit", "audit"},
         NEW cached \in Optional(Cached)
  PROVE  Shape([pc |-> pc, cached |-> cached, txn |-> NoTxn])
BY AtMostOne DEF Shape, NoTxn

LEMMA InitInv == Init => IInv
<1> SUFFICES ASSUME Init PROVE IInv
  OBVIOUS
<1>1. PICK s \in Spelling, p \in Password :
        LET first == [name |-> Normalize[s], version |-> 0, password |-> p,
                      admin |-> TRUE, disabled |-> FALSE]
        IN  /\ users = [i \in Id |-> IF i = Root THEN {first} ELSE {}]
            /\ names = [n \in Name |-> IF n = first.name THEN {Root} ELSE {}]
  BY DEF Init
<1> DEFINE first == [name |-> Normalize[s], version |-> 0, password |-> p,
                     admin |-> TRUE, disabled |-> FALSE]
<1>2. /\ first \in User /\ first.name = Normalize[s] /\ first.name \in Name
      /\ first.admin /\ ~first.disabled
  BY AccountAssumption DEF User, Name
<1> HIDE DEF first
<1>3. /\ users = [i \in Id |-> IF i = Root THEN {first} ELSE {}]
      /\ names = [n \in Name |-> IF n = first.name THEN {Root} ELSE {}]
      /\ tokens = {} /\ call = [c \in Call |-> Idle]
  BY <1>1, <1>2 DEF Init, first
<1>4. Shape(Idle) /\ {} \in Optional(Cached) /\ {} \in Optional([name : Name, id : Id])
  BY NoTxnShape, AtMostOne DEF Idle
<1>5. users \in [Id -> Optional(User)] /\ names \in [Name -> Optional(Id)]
  BY <1>2, <1>3, AtMostOne, AccountAssumption
<1>6. Typed
  BY <1>3, <1>4, <1>5 DEF Typed, TypeOK, Idle, NoTxn
<1>7. NamesAgree
  BY <1>2, <1>3, <1>6, AccountAssumption DEF NamesAgree, Typed
<1>8. SomeAdminStays
  BY <1>2, <1>3, AccountAssumption DEF SomeAdminStays, ActiveAdmins
<1>9. Remembered /\ \A c \in Call : Planned(c, call[c].txn) /\ Current(call[c].txn)
  BY <1>3 DEF Remembered, Planned, Current, Idle, NoTxn
<1> QED
  BY <1>6, <1>7, <1>8, <1>9 DEF IInv

(* A step of one request that changes neither users nor names.             *)
LEMMA CallStep ==
  ASSUME IInv, NEW c \in Call, NEW x, call' = [call EXCEPT ![c] = x], Shape(x),
         UNCHANGED <<users, names>>,
         tokens' \subseteq Token, \A t \in tokens' : Known(t.id, t.version, t.password),
         \A k \in x.cached : Known(k.id, k.user.version, k.user.password),
         Planned(c, x.txn), Current(x.txn),
         \A d \in Call \ {c} : \A put \in call[d].txn.puts, other \in x.txn.puts :
           Creates(call[d].txn) => other.id # put.id
  PROVE  IInv'
<1>1. \A d \in Call : call'[d] = IF d = c THEN x ELSE call[d]
  BY DEF IInv, Typed
<1>2. \A d \in Call : Shape(call'[d])
  BY <1>1 DEF IInv, Typed
<1>3. Typed'
  <2>1. \A d \in Call :
          /\ call'[d].pc \in {"idle", "sign", "admitted", "proved", "commit", "audit"}
          /\ call'[d].cached \in Optional(Cached)
          /\ call'[d].txn.puts \in Optional(Cached)
          /\ call'[d].txn.index \in Optional([name : Name, id : Id])
    BY <1>2 DEF Shape
  <2>2. call' = [d \in Call |-> call'[d]]
    BY DEF IInv, Typed
  <2> QED
    BY <1>2, <2>1, <2>2 DEF IInv, Typed, TypeOK, Shape
<1>4. NamesAgree'
  BY <1>3 DEF IInv, Typed, NamesAgree
<1>5. ActiveAdmins' = ActiveAdmins
  BY DEF ActiveAdmins
<1>6. SomeAdminStays'
  BY <1>5 DEF IInv, SomeAdminStays
<1>7. Remembered'
  BY <1>1 DEF IInv, Remembered, Known, Follows
<1>8. ASSUME NEW d \in Call PROVE Planned(d, call[d].txn)'
  <2>1. CASE d = c
    <3>1. call'[d].txn = x.txn /\ \A e \in Call \ {d} : call'[e] = call[e]
      BY <1>1, <2>1
    <3>2. Planned(d, x.txn)
      BY <2>1
    <3> QED
      BY <3>1, <3>2 DEF Planned, Creates
  <2>2. CASE d # c
    <3>1. Planned(d, call[d].txn) /\ call'[d] = call[d] /\ call'[c] = x
      BY <1>1, <2>2 DEF IInv
    <3>2. ASSUME NEW put \in call[d].txn.puts, Creates(call[d].txn),
                 NEW e \in Call \ {d}, NEW other \in call'[e].txn.puts
          PROVE  other.id # put.id
      <4>1. CASE e = c
        BY <2>2, <3>1, <3>2, <4>1
      <4>2. CASE e # c
        BY <1>1, <3>1, <3>2, <4>2 DEF Planned
      <4> QED
        BY <4>1, <4>2
    <3>3. ASSUME NEW put \in call[d].txn.puts
          PROVE  IF Creates(call[d].txn)
                 THEN /\ users'[put.id] = {}
                      /\ \E e \in call[d].txn.index : e.id = put.id /\ e.name = put.user.name
                      /\ \A e \in Call \ {d} : \A other \in call'[e].txn.puts : other.id # put.id
                 ELSE \E u \in users'[put.id] : u.name = put.user.name
      BY <3>1, <3>2, <3>3 DEF Planned
    <3>4. \A e \in call[d].txn.index :
            \E put \in call[d].txn.puts : put.id = e.id /\ put.user.name = e.name
      BY <3>1 DEF Planned
    <3> QED
      BY <3>1, <3>3, <3>4 DEF Planned, Creates
  <2> QED
    BY <2>1, <2>2
<1>9. ASSUME NEW d \in Call PROVE Current(call[d].txn)'
  BY <1>1, <1>5 DEF IInv, Current, Creates, Follows, LosesAdmin
<1> QED
  BY <1>3, <1>4, <1>6, <1>7, <1>8, <1>9 DEF IInv
-----------------------------------------------------------------------------
(* Steps after which the request has no transaction.                       *)
LEMMA WithoutTxn ==
  ASSUME IInv, NEW c \in Call,
         NEW pc \in {"idle", "sign", "admitted", "proved", "commit", "audit"},
         NEW cached \in Optional(Cached),
         \A k \in cached : Known(k.id, k.user.version, k.user.password),
         call' = [call EXCEPT ![c] = [pc |-> pc, cached |-> cached, txn |-> NoTxn]],
         UNCHANGED <<users, names>>,
         tokens' \subseteq Token, \A t \in tokens' : Known(t.id, t.version, t.password)
  PROVE  IInv'
<1> DEFINE x == [pc |-> pc, cached |-> cached, txn |-> NoTxn]
<1>1. Shape(x)
  BY NoTxnShape
<1>2. x.txn.puts = {} /\ x.txn.index = {} /\ x.txn = NoTxn /\ x.cached = cached
  BY DEF NoTxn
<1>3. Planned(c, x.txn) /\ Current(x.txn)
  BY <1>2 DEF Planned, Current
<1>4. call' = [call EXCEPT ![c] = x]
  OBVIOUS
<1> HIDE DEF x
<1> QED
  BY <1>1, <1>2, <1>3, <1>4, CallStep

LEMMA KnownToken ==
  ASSUME IInv, NEW t \in tokens
  PROVE  t \in Token /\ Known(t.id, t.version, t.password)
BY DEF IInv, Typed, TypeOK, Remembered

LEMMA CachedKnown ==
  ASSUME IInv, NEW c \in Call
  PROVE  /\ call[c].cached \in Optional(Cached)
         /\ \A k \in call[c].cached : k \in Cached /\ Known(k.id, k.user.version, k.user.password)
         /\ tokens \subseteq Token /\ \A t \in tokens : Known(t.id, t.version, t.password)
<1>1. call[c].cached \in Optional(Cached)
  BY DEF IInv, Typed, TypeOK
<1> QED
  BY <1>1, AtMostOne DEF IInv, Typed, TypeOK, Remembered

LEMMA LoginStep ==
  ASSUME IInv, NEW c \in Call, NEW s \in Spelling, NEW p \in Password, Login(c, s, p)
  PROVE  IInv'
<1>1. PICK k \in Authenticate(Normalize[s], p) : Goto(c, "sign", {k})
  BY DEF Login
<1>2. k \in Cached /\ k.user \in users[k.id] /\ {k} \in Optional(Cached)
  BY Authenticated, AtMostOne DEF Name, IInv
<1>3. Known(k.id, k.user.version, k.user.password)
  BY <1>2, KnownItself DEF IInv, Cached
<1>4. UNCHANGED <<users, names, tokens>>
  BY DEF Login
<1> QED
  BY <1>1, <1>2, <1>3, <1>4, CachedKnown, WithoutTxn DEF Goto

LEMMA IssueStep == ASSUME IInv, NEW c \in Call, Issue(c) PROVE IInv'
<1>1. PICK k \in call[c].cached : tokens' = tokens \cup Sign(k)
  BY DEF Issue
<1>2. k \in Cached /\ Known(k.id, k.user.version, k.user.password)
  BY CachedKnown
<1> DEFINE t == [id |-> k.id, version |-> k.user.version, password |-> k.user.password]
<1>3. t \in Token /\ Known(t.id, t.version, t.password) /\ Sign(k) = {t}
  BY <1>2 DEF Token, Cached, User, Sign
<1> HIDE DEF t
<1>4. tokens' \subseteq Token /\ \A o \in tokens' : Known(o.id, o.version, o.password)
  BY <1>1, <1>3, CachedKnown
<1>5. {} \in Optional(Cached) /\ Goto(c, "idle", {}) /\ UNCHANGED <<users, names>>
  BY AtMostOne DEF Issue
<1> QED
  BY <1>4, <1>5, WithoutTxn DEF Goto

LEMMA AuditStep == ASSUME IInv, NEW c \in Call, Audit(c) PROVE IInv'
<1>1. {} \in Optional(Cached) /\ Goto(c, "idle", {}) /\ UNCHANGED <<users, names, tokens>>
  BY AtMostOne DEF Audit
<1> QED
  BY <1>1, CachedKnown, WithoutTxn DEF Goto

LEMMA AdmitStep == ASSUME IInv, NEW c \in Call, NEW t \in tokens, Admit(c, t) PROVE IInv'
<1>1. PICK u \in users[t.id] : Goto(c, "admitted", {[id |-> t.id, user |-> u]})
  BY DEF Admit
<1> DEFINE k == [id |-> t.id, user |-> u]
<1>2. t.id \in Id
  BY CachedKnown DEF Token
<1>3. /\ k \in Cached /\ {k} \in Optional(Cached)
      /\ Known(k.id, k.user.version, k.user.password)
  <2>1. u \in User /\ Known(t.id, u.version, u.password)
    BY <1>2, UserAt, KnownItself DEF IInv
  <2>2. k \in Cached /\ k.id = t.id /\ k.user = u
    BY <1>2, <2>1 DEF Cached
  <2> HIDE DEF k
  <2> QED
    BY <2>1, <2>2, AtMostOne
<1>4. UNCHANGED <<users, names, tokens>> /\ Goto(c, "admitted", {k})
  BY <1>1 DEF Admit
<1> HIDE DEF k
<1> QED
  BY <1>3, <1>4, CachedKnown, WithoutTxn DEF Goto

LEMMA ProveStep == ASSUME IInv, NEW c \in Call, NEW p \in Password, Prove(c, p) PROVE IInv'
<1>1. PICK k \in call[c].cached : Goto(c, "proved", {k})
  BY DEF Prove
<1>2. k \in Cached /\ {k} \in Optional(Cached) /\ Known(k.id, k.user.version, k.user.password)
  BY CachedKnown, AtMostOne
<1>3. UNCHANGED <<users, names, tokens>>
  BY DEF Prove
<1> QED
  BY <1>1, <1>2, <1>3, CachedKnown, WithoutTxn DEF Goto

(* What is left of a request whose work is done.                           *)
LEMMA AfterWork ==
  ASSUME IInv, NEW c \in Call, NEW x \in {Audited(c), Idle}
  PROVE  \E pc \in {"idle", "sign", "admitted", "proved", "commit", "audit"} :
           \E cached \in Optional(Cached) :
             /\ x = [pc |-> pc, cached |-> cached, txn |-> NoTxn]
             /\ \A k \in cached : Known(k.id, k.user.version, k.user.password)
<1>1. {} \in Optional(Cached) /\ call[c].cached \in Optional(Cached)
        /\ \A k \in call[c].cached : Known(k.id, k.user.version, k.user.password)
  BY AtMostOne, CachedKnown
<1>2. CASE x = Idle
  BY <1>1, <1>2 DEF Idle
<1>3. CASE x = [pc |-> "audit", cached |-> call[c].cached, txn |-> NoTxn]
  BY <1>1, <1>3
<1> QED
  BY <1>2, <1>3 DEF Audited

LEMMA FailStep == ASSUME IInv, NEW c \in Call, Fail(c) PROVE IInv'
<1>1. PICK x \in {Audited(c), Idle} : call' = [call EXCEPT ![c] = x]
  BY DEF Fail
<1>2. UNCHANGED <<users, names, tokens>>
  BY DEF Fail
<1> QED
  BY <1>1, <1>2, AfterWork, CachedKnown, WithoutTxn

LEMMA ExpireStep == ASSUME IInv, NEW t \in tokens, Expire(t) PROVE IInv'
<1>1. UNCHANGED <<users, names, call>> /\ tokens' \subseteq tokens
  BY DEF Expire
<1>2. Typed' /\ ActiveAdmins' = ActiveAdmins
  BY <1>1 DEF IInv, Typed, TypeOK, Shape, ActiveAdmins
<1>3. NamesAgree' /\ SomeAdminStays' /\ Remembered'
  BY <1>1, <1>2 DEF IInv, Typed, NamesAgree, SomeAdminStays, Remembered, Known, Follows
<1>4. \A c \in Call : Planned(c, call[c].txn)' /\ Current(call[c].txn)'
  BY <1>1, <1>2 DEF IInv, Planned, Current, Creates, Follows, LosesAdmin
<1> QED
  BY <1>2, <1>3, <1>4 DEF IInv
-----------------------------------------------------------------------------
(* The transactions.                                                       *)
Txn(reads, puts, index, dels) ==
  [reads |-> reads, puts |-> puts, index |-> index, dels |-> dels, stale |-> FALSE]

LEMMA TxnStep ==
  ASSUME IInv, NEW c \in Call, NEW reads, NEW puts \in Optional(Cached),
         NEW index \in Optional([name : Name, id : Id]), NEW dels,
         call' = [call EXCEPT ![c] = [pc |-> "commit", cached |-> call[c].cached,
                                      txn |-> Txn(reads, puts, index, dels)]],
         UNCHANGED <<users, names, tokens>>,
         Planned(c, Txn(reads, puts, index, dels)), Current(Txn(reads, puts, index, dels)),
         \A d \in Call \ {c} : \A put \in call[d].txn.puts, other \in puts :
           Creates(call[d].txn) => other.id # put.id
  PROVE  IInv'
<1> DEFINE x == [pc |-> "commit", cached |-> call[c].cached, txn |-> Txn(reads, puts, index, dels)]
<1>1. /\ Shape(x) /\ x.cached = call[c].cached /\ x.txn = Txn(reads, puts, index, dels)
      /\ x.txn.puts = puts
  BY CachedKnown DEF Shape, Txn
<1>2. call' = [call EXCEPT ![c] = x]
  OBVIOUS
<1> HIDE DEF x
<1> QED
  BY ZenonT(40), <1>1, <1>2, CachedKnown, CallStep

LEMMA BeginTxn ==
  ASSUME NEW c \in Call, IInv, NEW reads, NEW puts, NEW index, Begin(c, reads, puts, index)
  PROVE  /\ call' = [call EXCEPT ![c] = [pc |-> "commit", cached |-> call[c].cached,
                                         txn |-> Txn(reads, puts, index, {})]]
         /\ UNCHANGED <<users, names, tokens>>
<1>1. [NoTxn EXCEPT !.reads = reads, !.puts = puts, !.index = index] = Txn(reads, puts, index, {})
  <2> DEFINE t == [NoTxn EXCEPT !.reads = reads, !.puts = puts, !.index = index]
             o == Txn(reads, puts, index, {})
             F == {"reads", "puts", "index", "dels", "stale"}
  <2>1. t = [f \in F |-> t[f]] /\ o = [f \in F |-> o[f]]
    BY DEF NoTxn, Txn
  <2>2. /\ t.reads = reads /\ t.puts = puts /\ t.index = index
        /\ t.dels = {} /\ t.stale = FALSE
    BY DEF NoTxn
  <2>3. /\ o.reads = reads /\ o.puts = puts /\ o.index = index
        /\ o.dels = {} /\ o.stale = FALSE
    BY DEF Txn
  <2> HIDE DEF t, o
  <2>4. t = o
    BY <2>1, <2>2, <2>3
  <2> QED
    BY <2>4 DEF t, o
<1> QED
  BY <1>1 DEF Begin, IInv, Typed

(* What a transaction that creates a user has read: nobody has the name,   *)
(* and nobody else the identifier.                                         *)
LEMMA CreateStep ==
  ASSUME IInv, NEW c \in Call, NEW s \in Spelling, NEW p \in Password, NEW admin \in BOOLEAN,
         CreateUser(c, s, p, admin)
  PROVE  IInv'
<1> DEFINE n == Normalize[s]
           u == [name |-> n, version |-> 0, password |-> p, admin |-> admin, disabled |-> FALSE]
<1>1. PICK i \in Id :
        /\ Unused(i) /\ (n \in Name => names[n] = {})
        /\ Begin(c, {NameKey(n)}, {[id |-> i, user |-> u]}, {[name |-> n, id |-> i]})
  BY DEF CreateUser, Create, Stored, NameRead
<1>2. n \in Name
  BY DEF Name
<1>3. u \in User /\ u.name = n
  BY <1>2, AccountAssumption DEF User
<1> HIDE DEF u, n
<1> DEFINE put == [id |-> i, user |-> u]
           entry == [name |-> n, id |-> i]
           txn == Txn({NameKey(n)}, {put}, {entry}, {})
<1>4. /\ {put} \in Optional(Cached) /\ {entry} \in Optional([name : Name, id : Id])
      /\ put.id = i /\ put.user = u /\ entry.name = n /\ entry.id = i
  <2>1. put \in Cached /\ entry \in [name : Name, id : Id]
    BY <1>2, <1>3 DEF Cached
  <2>2. {put} \in Optional(Cached) /\ {entry} \in Optional([name : Name, id : Id])
    <3> HIDE DEF put, entry
    <3> QED
      BY <2>1, AtMostOne
  <2> QED
    BY <2>2
<1>5. /\ txn.puts = {put} /\ txn.index = {entry} /\ txn.reads = {NameKey(n)}
      /\ Creates(txn)
  BY DEF Txn, Creates
<1>6. Begin(c, {NameKey(n)}, {put}, {entry})
  BY <1>1
<1>7. /\ call' = [call EXCEPT ![c] = [pc |-> "commit", cached |-> call[c].cached,
                                      txn |-> txn]]
      /\ UNCHANGED <<users, names, tokens>>
  BY <1>6, BeginTxn
<1>8. users[i] = {} /\ \A d \in Call : \A other \in call[d].txn.puts : other.id # i
  BY <1>1 DEF Unused
<1> HIDE DEF put, entry
<1>9. Planned(c, txn)
  BY <1>3, <1>4, <1>5, <1>8 DEF Planned
<1>10. Current(txn)
  BY <1>1, <1>2, <1>4, <1>5 DEF Current
<1>11. \A d \in Call \ {c} : \A mine \in call[d].txn.puts, other \in {put} :
         Creates(call[d].txn) => other.id # mine.id
  BY <1>4, <1>8
<1> QED
  BY <1>4, <1>7, <1>9, <1>10, <1>11, TxnStep

LEMMA ChangedValue ==
  ASSUME NEW S, NEW old \in S, NEW o \in Optional(S)
  PROVE  Changed(old, o) \in S
BY DEF Changed, Optional

(* An update keeps the name, and the version unless it sets a password.    *)
LEMMA UpdatedUser ==
  ASSUME NEW u \in User, NEW change \in Change, Updated(u, change).version <= MaxVersion
  PROVE  /\ Updated(u, change) \in User /\ Updated(u, change).name = u.name
         /\ Follows(Updated(u, change), u.version, u.password)
<1> DEFINE enabled == [u EXCEPT !.admin = Changed(@, change.admin),
                                !.disabled = Changed(@, change.disabled)]
           word == Changed(u.password, change.password)
<1>1. /\ Changed(u.admin, change.admin) \in BOOLEAN
      /\ Changed(u.disabled, change.disabled) \in BOOLEAN /\ word \in Password
  BY ChangedValue DEF User, Change
<1>2. /\ enabled \in User /\ enabled.name = u.name
      /\ enabled.version = u.version /\ enabled.password = u.password
  BY <1>1 DEF User
<1>3. u.version \in Nat /\ MaxVersion \in Nat
  BY AccountAssumption DEF User
<1> HIDE DEF enabled, word
<1>4. CASE change.password = {}
  <2>1. Updated(u, change) = enabled
    BY <1>4 DEF Updated, enabled
  <2> QED
    BY <1>2, <1>3, <2>1 DEF Follows
<1>5. CASE change.password # {}
  <2> DEFINE new == Updated(u, change)
  <2>1. new = [enabled EXCEPT !.password = word, !.version = @ + 1]
    BY <1>5 DEF Updated, SetPassword, enabled, word
  <2>2. /\ new.version = u.version + 1 /\ new.password = word /\ new.name = enabled.name
        /\ new.admin = enabled.admin /\ new.disabled = enabled.disabled
        /\ new = [name |-> new.name, version |-> new.version, password |-> new.password,
                  admin |-> new.admin, disabled |-> new.disabled]
    <3>1. DOMAIN enabled = {"name", "version", "password", "admin", "disabled"}
      BY <1>2 DEF User
    <3>2. new = [f \in DOMAIN enabled |-> IF f = "version" THEN enabled.version + 1
                                          ELSE IF f = "password" THEN word ELSE enabled[f]]
      BY <2>1, <3>1
    <3> HIDE DEF new
    <3> QED
      BY <1>2, <3>1, <3>2
  <2>3. new.version \in 0..MaxVersion
    BY <1>3, <2>2
  <2> HIDE DEF new
  <2>4. new \in User /\ new.name = u.name
    BY <1>1, <1>2, <2>2, <2>3 DEF User
  <2>5. Follows(new, u.version, u.password)
    BY <1>3, <2>2 DEF Follows
  <2> QED
    BY <2>4, <2>5 DEF new
<1> QED
  BY <1>4, <1>5

(* Update lets an administrator lose his right only if it has counted      *)
(* another one, whose record it has read.                                  *)
LEMMA UpdateStep ==
  ASSUME IInv, NEW c \in Call, NEW i \in Id, NEW change \in Change, Update(c, i, change)
  PROVE  IInv'
<1>1. PICK u \in users[i] :
        LET new == Updated(u, change)
        IN  /\ LosesAdmin(u, new) => Cardinality(ActiveAdmins) # 1
            /\ new.version <= MaxVersion
            /\ Begin(c, RecordRead(i) \cup (IF LosesAdmin(u, new) THEN AdminReads ELSE {}),
                     {[id |-> i, user |-> new]}, {})
  BY DEF Update
<1>2. u \in User /\ users[i] = {u}
  BY UserAt DEF IInv
<1> DEFINE new == Updated(u, change)
           reads == RecordRead(i) \cup (IF LosesAdmin(u, new) THEN AdminReads ELSE {})
           put == [id |-> i, user |-> new]
           txn == Txn(reads, {put}, {}, {})
<1>3. new \in User /\ new.name = u.name /\ Follows(new, u.version, u.password)
  BY <1>1, <1>2, UpdatedUser
<1>4. LosesAdmin(u, new) => Cardinality(ActiveAdmins) # 1
  BY <1>1
<1>5. Begin(c, reads, {put}, {})
  BY <1>1
<1>6. UserKey(i) \in reads /\ (LosesAdmin(u, new) => AdminReads \subseteq reads)
  BY DEF RecordRead
<1> HIDE DEF new, reads
<1>7. put \in Cached /\ put.id = i /\ put.user = new
  BY <1>3 DEF Cached
<1> HIDE DEF put
<1>8. {put} \in Optional(Cached) /\ {} \in Optional([name : Name, id : Id])
  BY <1>7, AtMostOne
<1>9. /\ txn.puts = {put} /\ txn.index = {} /\ txn.reads = reads /\ ~Creates(txn)
  BY DEF Txn, Creates
<1>10. /\ call' = [call EXCEPT ![c] = [pc |-> "commit", cached |-> call[c].cached,
                                       txn |-> txn]]
       /\ UNCHANGED <<users, names, tokens>>
  BY <1>5, BeginTxn
<1>11. Planned(c, txn)
  <2> HIDE DEF txn
  <2> QED
    BY <1>2, <1>3, <1>7, <1>9 DEF Planned
<1>12. LosesAdmin(u, new) => \E j \in ActiveAdmins \ {i} : UserKey(j) \in reads
  <2> SUFFICES ASSUME LosesAdmin(u, new) PROVE \E j \in ActiveAdmins \ {i} : UserKey(j) \in reads
    OBVIOUS
  <2>1. i \in ActiveAdmins
    BY <1>2 DEF LosesAdmin, ActiveAdmins
  <2>2. ActiveAdmins # {i}
    BY <1>4, FS_Singleton
  <2>3. PICK j \in ActiveAdmins : j # i
    BY <2>1, <2>2
  <2>4. UserKey(j) \in AdminReads
    BY <2>3 DEF ActiveAdmins, AdminReads
  <2> QED
    BY <1>6, <2>3, <2>4
<1>13. Current(txn)
  <2> HIDE DEF txn
  <2>1. \A v \in users[put.id] : v = u
    BY <1>2, <1>7
  <2> QED
    BY <1>3, <1>6, <1>7, <1>9, <1>12, <2>1 DEF Current
<1>14. \A d \in Call \ {c} : \A mine \in call[d].txn.puts, other \in {put} :
         Creates(call[d].txn) => other.id # mine.id
  <2> SUFFICES ASSUME NEW d \in Call \ {c}, NEW mine \in call[d].txn.puts,
                      Creates(call[d].txn)
               PROVE  mine.id # i
    BY <1>7
  <2>1. Planned(d, call[d].txn)
    BY DEF IInv
  <2>2. users[mine.id] = {}
    BY <2>1 DEF Planned
  <2> QED
    BY <1>2, <2>2
<1> QED
  BY <1>8, <1>10, <1>11, <1>13, <1>14, TxnStep

LEMMA UpdateUserStep ==
  ASSUME IInv, NEW c \in Call, NEW i \in Id, NEW change \in Changes, UpdateUser(c, i, change)
  PROVE  IInv'
BY UpdateStep, AccountAssumption DEF UpdateUser

LEMMA ChangePasswordStep ==
  ASSUME IInv, NEW c \in Call, NEW p \in Password, ChangePassword(c, p)
  PROVE  IInv'
<1> DEFINE change == [NoChange EXCEPT !.password = {p}]
<1>1. PICK k \in call[c].cached : Update(c, k.id, change)
  BY DEF ChangePassword
<1>2. k.id \in Id
  BY CachedKnown DEF Cached
<1>3. change \in Change
  BY AtMostOne DEF Change, NoChange
<1> HIDE DEF change
<1> QED
  BY <1>1, <1>2, <1>3, UpdateStep

LEMMA ClearUserEventsStep ==
  ASSUME IInv, NEW c \in Call, NEW i \in Id, ClearUserEvents(c, i)
  PROVE  IInv'
<1> DEFINE reads == {EventKey(e) : e \in Range(events)}
           dels == {e \in Range(events) : e.user = i}
<1>1. call' = [call EXCEPT ![c] = [pc |-> "commit", cached |-> call[c].cached,
                 txn |-> [NoTxn EXCEPT !.reads = reads, !.dels = dels]]]
  BY DEF ClearUserEvents, ClearEvents, IInv, Typed
<1>2. [NoTxn EXCEPT !.reads = reads, !.dels = dels] = Txn(reads, {}, {}, dels)
  <2> DEFINE t == [NoTxn EXCEPT !.reads = reads, !.dels = dels]
             o == Txn(reads, {}, {}, dels)
             F == {"reads", "puts", "index", "dels", "stale"}
  <2> HIDE DEF reads, dels
  <2>1. t = [f \in F |-> t[f]] /\ o = [f \in F |-> o[f]]
    BY DEF NoTxn, Txn
  <2>2. /\ t.reads = reads /\ t.puts = {} /\ t.index = {} /\ t.dels = dels /\ t.stale = FALSE
    BY DEF NoTxn
  <2>3. /\ o.reads = reads /\ o.puts = {} /\ o.index = {} /\ o.dels = dels /\ o.stale = FALSE
    BY DEF Txn
  <2> HIDE DEF t, o
  <2>4. t = o
    BY <2>1, <2>2, <2>3
  <2> QED
    BY <2>4 DEF t, o
<1>3. UNCHANGED <<users, names, tokens>>
  BY DEF ClearUserEvents, ClearEvents
<1> HIDE DEF reads, dels
<1> DEFINE txn == Txn(reads, {}, {}, dels)
<1>4. txn.puts = {} /\ txn.index = {}
  BY DEF Txn
<1>5. Planned(c, txn) /\ Current(txn)
  BY <1>4 DEF Planned, Current
<1>6. {} \in Optional(Cached) /\ {} \in Optional([name : Name, id : Id])
  BY AtMostOne
<1> QED
  BY ZenonT(40), <1>1, <1>2, <1>3, <1>5, <1>6, TxnStep
-----------------------------------------------------------------------------
(* A commit: what it writes, and what it leaves to the other transactions. *)
LEMMA CommitStores ==
  ASSUME IInv, NEW c \in Call, Commit(c)
  PROVE  /\ ~call[c].txn.stale /\ UNCHANGED tokens
         /\ \A put \in call[c].txn.puts :
              put \in Cached /\ call[c].txn.puts = {put} /\ users'[put.id] = {put.user}
         /\ \A i \in Id : (\A put \in call[c].txn.puts : put.id # i) => users'[i] = users[i]
         /\ \A e \in call[c].txn.index :
              /\ e \in [name : Name, id : Id] /\ call[c].txn.index = {e}
              /\ names'[e.name] = {e.id}
         /\ \A n \in Name : (\A e \in call[c].txn.index : e.name # n) => names'[n] = names[n]
         /\ users' \in [Id -> Optional(User)] /\ names' \in [Name -> Optional(Id)]
<1> DEFINE txn == call[c].txn
<1>1. txn.puts \in Optional(Cached) /\ txn.index \in Optional([name : Name, id : Id])
  BY DEF IInv, Typed, TypeOK
<1>2. /\ \A put \in txn.puts : put \in Cached /\ txn.puts = {put}
      /\ \A e \in txn.index : e \in [name : Name, id : Id] /\ txn.index = {e}
  <2> DEFINE E == [name : Name, id : Id]
  <2>1. txn.index \in Optional(E)
    BY <1>1
  <2> HIDE DEF E, txn
  <2>2. \A e \in txn.index : e \in E /\ txn.index = {e}
    BY <2>1, AtMostOne
  <2>3. \A put \in txn.puts : put \in Cached /\ txn.puts = {put}
    BY <1>1, AtMostOne
  <2> QED
    BY <2>2, <2>3 DEF E
<1>3. /\ ~txn.stale /\ UNCHANGED tokens
      /\ users' = [i \in Id |-> IF \E put \in txn.puts : put.id = i
                                THEN {put.user : put \in txn.puts} ELSE users[i]]
      /\ names' = [n \in Name |-> IF \E e \in txn.index : e.name = n
                                  THEN {e.id : e \in txn.index} ELSE names[n]]
  BY DEF Commit
<1> HIDE DEF txn
<1>4. \A put \in txn.puts : put.id \in Id /\ put.user \in User /\ users'[put.id] = {put.user}
  <2> SUFFICES ASSUME NEW put \in txn.puts
               PROVE  put.id \in Id /\ put.user \in User /\ users'[put.id] = {put.user}
    OBVIOUS
  <2>1. put.id \in Id /\ put.user \in User /\ txn.puts = {put}
    BY <1>2 DEF Cached
  <2>2. {x.user : x \in txn.puts} = {put.user}
    BY <2>1
  <2> QED
    BY <1>3, <2>1, <2>2
<1>5. \A e \in txn.index : e.name \in Name /\ e.id \in Id /\ names'[e.name] = {e.id}
  <2> SUFFICES ASSUME NEW e \in txn.index
               PROVE  e.name \in Name /\ e.id \in Id /\ names'[e.name] = {e.id}
    OBVIOUS
  <2>1. e.name \in Name /\ e.id \in Id /\ txn.index = {e}
    BY <1>2
  <2>2. {x.id : x \in txn.index} = {e.id}
    BY <2>1
  <2> QED
    BY <1>3, <2>1, <2>2
<1>6. /\ \A i \in Id : (\A put \in txn.puts : put.id # i) => users'[i] = users[i]
      /\ \A n \in Name : (\A e \in txn.index : e.name # n) => names'[n] = names[n]
  BY <1>3
<1>7. \A i \in Id : users'[i] \in Optional(User)
  <2>1. \A i \in Id : users[i] \in Optional(User)
    BY DEF IInv, Typed, TypeOK
  <2> QED
    BY <1>4, <1>6, <2>1, AtMostOne
<1>8. \A n \in Name : names'[n] \in Optional(Id)
  <2>1. \A n \in Name : names[n] \in Optional(Id)
    BY DEF IInv, Typed, TypeOK
  <2> QED
    BY <1>5, <1>6, <2>1, AtMostOne
<1>9. users' \in [Id -> Optional(User)] /\ names' \in [Name -> Optional(Id)]
  BY <1>3, <1>7, <1>8
<1> QED
  BY <1>2, <1>3, <1>4, <1>5, <1>6, <1>9 DEF txn

LEMMA CommitCalls ==
  ASSUME IInv, NEW c \in Call, Commit(c)
  PROVE  /\ call' = [d \in Call |-> call'[d]]
         /\ call'[c] = Audited(c)
         /\ call'[c].txn = NoTxn /\ call'[c].cached \subseteq call[c].cached
         /\ \A d \in Call \ {c} :
              /\ Shape(call'[d]) /\ call'[d].cached = call[d].cached
              /\ call'[d].txn.reads = call[d].txn.reads /\ call'[d].txn.puts = call[d].txn.puts
              /\ call'[d].txn.index = call[d].txn.index
              /\ ~call'[d].txn.stale =>
                   ~call[d].txn.stale /\ call[d].txn.reads \cap Writes(call[c].txn) = {}
<1>1. call' = [d \in Call |->
        IF d = c THEN Audited(c)
        ELSE [call[d] EXCEPT !.txn.stale =
               @ \/ call[d].txn.reads \cap Writes(call[c].txn) # {}]]
  BY DEF Commit
<1>2. ASSUME NEW d \in Call \ {c}
      PROVE  /\ Shape(call'[d]) /\ call'[d].cached = call[d].cached
             /\ call'[d].txn.reads = call[d].txn.reads /\ call'[d].txn.puts = call[d].txn.puts
             /\ call'[d].txn.index = call[d].txn.index
             /\ ~call'[d].txn.stale =>
                  ~call[d].txn.stale /\ call[d].txn.reads \cap Writes(call[c].txn) = {}
  <2> DEFINE b == call[d].txn.stale \/ call[d].txn.reads \cap Writes(call[c].txn) # {}
  <2>1. call'[d] = [call[d] EXCEPT !.txn.stale = b]
    BY <1>1
  <2>2. Shape(call[d])
    BY DEF IInv, Typed
  <2>3. b \in BOOLEAN
    OBVIOUS
  <2>4. ~b => ~call[d].txn.stale /\ call[d].txn.reads \cap Writes(call[c].txn) = {}
    OBVIOUS
  <2> HIDE DEF b
  <2>5. /\ Shape(call'[d]) /\ call'[d].cached = call[d].cached
        /\ call'[d].txn.reads = call[d].txn.reads /\ call'[d].txn.puts = call[d].txn.puts
        /\ call'[d].txn.index = call[d].txn.index /\ call'[d].txn.stale = b
    BY <2>1, <2>2, <2>3 DEF Shape
  <2> QED
    BY <2>4, <2>5
<1>3. call'[c] = Audited(c) /\ call' = [d \in Call |-> call'[d]]
  BY <1>1
<1>4. Audited(c).txn = NoTxn /\ Audited(c).cached \subseteq call[c].cached
  <2>1. CASE Audited(c) = Idle
    BY <2>1 DEF Idle
  <2>2. CASE Audited(c) = [pc |-> "audit", cached |-> call[c].cached, txn |-> NoTxn]
    BY <2>2
  <2> QED
    BY <2>1, <2>2 DEF Audited
<1> QED
  BY <1>2, <1>3, <1>4

(* A stored record is followed by one of the same name and of a version    *)
(* that is not lower.                                                      *)
LEMMA CommitFollows ==
  ASSUME IInv, NEW c \in Call, Commit(c), NEW i \in Id, NEW u \in users[i]
  PROVE  \E new \in users'[i] : new.name = u.name /\ Follows(new, u.version, u.password)
<1>1. CASE \A put \in call[c].txn.puts : put.id # i
  BY <1>1, CommitStores, UserAt DEF Follows, IInv
<1>2. ASSUME NEW put \in call[c].txn.puts, put.id = i
      PROVE  \E new \in users'[i] : new.name = u.name /\ Follows(new, u.version, u.password)
  <2>1. Planned(c, call[c].txn) /\ Current(call[c].txn) /\ ~call[c].txn.stale
          /\ users'[i] = {put.user}
    BY <1>2, CommitStores DEF IInv
  <2>2. users[i] = {u}
    BY UserAt DEF IInv
  <2>3. ~Creates(call[c].txn) /\ put.user.name = u.name
    BY <1>2, <2>1, <2>2 DEF Planned
  <2>4. Follows(put.user, u.version, u.password)
    BY <1>2, <2>1, <2>2, <2>3 DEF Current
  <2> QED
    BY <2>1, <2>3, <2>4
<1> QED
  BY <1>1, <1>2

LEMMA CommitRemembers ==
  ASSUME IInv, NEW c \in Call, Commit(c), NEW i \in Id, NEW version \in Nat, NEW password,
         Known(i, version, password)
  PROVE  Known(i, version, password)'
<1>1. PICK u \in users[i] : Follows(u, version, password)
  BY DEF Known
<1>2. PICK new \in users'[i] : Follows(new, u.version, u.password)
  BY CommitFollows
<1>3. u.version \in Nat
  BY UserAt DEF IInv
<1>4. new.version \in Nat
  <2>1. users'[i] \in Optional(User)
    BY CommitStores
  <2>2. new \in User
    BY <2>1, AtMostOne
  <2> QED
    BY <2>2, AccountAssumption DEF User
<1>5. Follows(new, version, password)
  BY <1>1, <1>2, <1>3, <1>4 DEF Follows
<1> QED
  BY <1>5 DEF Known, Follows

LEMMA CommitTyped == ASSUME IInv, NEW c \in Call, Commit(c) PROVE Typed'
<1>1. /\ users' \in [Id -> Optional(User)] /\ names' \in [Name -> Optional(Id)]
      /\ tokens' \subseteq Token
  BY CommitStores, CachedKnown
<1>2. \A d \in Call : Shape(call'[d])
  <2>1. Shape(Audited(c))
    <3>1. PICK pc \in {"idle", "sign", "admitted", "proved", "commit", "audit"},
               cached \in Optional(Cached) :
                 Audited(c) = [pc |-> pc, cached |-> cached, txn |-> NoTxn]
      BY AfterWork
    <3> QED
      BY <3>1, NoTxnShape
  <2> QED
    BY <2>1, CommitCalls
<1>3. \A d \in Call :
        /\ call'[d].pc \in {"idle", "sign", "admitted", "proved", "commit", "audit"}
        /\ call'[d].cached \in Optional(Cached)
        /\ call'[d].txn.puts \in Optional(Cached)
        /\ call'[d].txn.index \in Optional([name : Name, id : Id])
  BY <1>2 DEF Shape
<1>4. call' = [d \in Call |-> call'[d]]
  BY CommitCalls
<1> QED
  BY <1>1, <1>2, <1>3, <1>4 DEF Typed, TypeOK, Shape

(* The index entry of a new user is written with his record, to a name     *)
(* that is still free.                                                     *)
LEMMA CommitAgrees == ASSUME IInv, NEW c \in Call, Commit(c) PROVE NamesAgree'
<1> DEFINE txn == call[c].txn
<1>1. Planned(c, txn) /\ Current(txn) /\ ~txn.stale
  BY CommitStores DEF IInv
<1>2. /\ \A put \in txn.puts :
           put \in Cached /\ txn.puts = {put} /\ users'[put.id] = {put.user}
      /\ \A i \in Id : (\A put \in txn.puts : put.id # i) => users'[i] = users[i]
      /\ \A e \in txn.index :
           e \in [name : Name, id : Id] /\ txn.index = {e} /\ names'[e.name] = {e.id}
      /\ \A n \in Name : (\A e \in txn.index : e.name # n) => names'[n] = names[n]
  BY CommitStores
<1>3. \A i \in Id, n \in Name : i \in names[n] <=> \E u \in users[i] : u.name = n
  BY DEF IInv, NamesAgree
<1> HIDE DEF txn
<1>4. ASSUME NEW i \in Id, NEW n \in Name
      PROVE  i \in names'[n] <=> \E u \in users'[i] : u.name = n
  <2>1. CASE ~Creates(txn)
    <3>1. names'[n] = names[n]
      BY <1>2, <2>1 DEF Creates
    <3>2. (\E u \in users'[i] : u.name = n) <=> \E u \in users[i] : u.name = n
      <4>1. CASE \A put \in txn.puts : put.id # i
        BY <1>2, <4>1
      <4>2. ASSUME NEW put \in txn.puts, put.id = i
            PROVE  (\E u \in users'[i] : u.name = n) <=> \E u \in users[i] : u.name = n
        <5>1. PICK u \in users[i] : u.name = put.user.name
          BY <1>1, <2>1, <4>2 DEF Planned
        <5>2. users[i] = {u} /\ users'[i] = {put.user}
          BY <1>2, <4>2, UserAt DEF IInv
        <5> QED
          BY <5>1, <5>2
      <4> QED
        BY <4>1, <4>2
    <3> QED
      BY <1>3, <3>1, <3>2
  <2>2. CASE Creates(txn)
    <3>1. PICK e \in txn.index, put \in txn.puts : put.id = e.id /\ put.user.name = e.name
      BY <1>1, <2>2 DEF Planned, Creates
    <3>2. /\ names[e.name] = {} /\ names'[e.name] = {e.id} /\ txn.index = {e}
          /\ users[e.id] = {} /\ users'[e.id] = {put.user} /\ txn.puts = {put}
          /\ e.name \in Name /\ e.id \in Id
      BY <1>1, <1>2, <2>2, <3>1 DEF Planned, Current
    <3>3. CASE i = e.id /\ n = e.name
      BY <3>1, <3>2, <3>3
    <3>4. CASE i = e.id /\ n # e.name
      <4>1. names'[n] = names[n] /\ i \notin names[n]
        BY <1>2, <1>3, <3>2, <3>4
      <4> QED
        BY <3>1, <3>2, <3>4, <4>1
    <3>5. CASE i # e.id /\ n = e.name
      <4>1. users'[i] = users[i]
        BY <1>2, <3>1, <3>2, <3>5
      <4>2. i \notin names[n] /\ i \notin names'[n]
        BY <3>2, <3>5
      <4> QED
        BY <1>3, <4>1, <4>2
    <3>6. CASE i # e.id /\ n # e.name
      <4>1. users'[i] = users[i] /\ names'[n] = names[n]
        BY <1>2, <3>1, <3>2, <3>6
      <4> QED
        BY <1>3, <4>1
    <3> QED
      BY <3>3, <3>4, <3>5, <3>6
  <2> QED
    BY <2>1, <2>2
<1>5. TypeOK'
  BY CommitTyped DEF Typed
<1> QED
  BY <1>4, <1>5 DEF NamesAgree

(* The administrator whom a transaction has counted is still one when it   *)
(* commits.                                                                *)
LEMMA CommitLeavesAdmin == ASSUME IInv, NEW c \in Call, Commit(c) PROVE SomeAdminStays'
<1>1. Planned(c, call[c].txn) /\ Current(call[c].txn) /\ ~call[c].txn.stale
  BY CommitStores DEF IInv
<1>2. \A j \in ActiveAdmins : (\A put \in call[c].txn.puts : put.id # j) => j \in ActiveAdmins'
  BY CommitStores DEF ActiveAdmins
<1>3. PICK a \in ActiveAdmins : TRUE
  BY DEF IInv, SomeAdminStays
<1>4. CASE \A put \in call[c].txn.puts : put.id # a
  BY <1>2, <1>3, <1>4 DEF SomeAdminStays
<1>5. ASSUME NEW put \in call[c].txn.puts, put.id = a
      PROVE  ActiveAdmins' # {}
  <2>1. PICK u \in users[a] : u.admin /\ ~u.disabled
    BY <1>3 DEF ActiveAdmins
  <2>2. a \in Id /\ users[a] = {u} /\ users'[a] = {put.user} /\ call[c].txn.puts = {put}
    BY <1>3, <1>5, <2>1, CommitStores, UserAt DEF ActiveAdmins, IInv
  <2>3. ~Creates(call[c].txn)
    BY <1>1, <1>5, <2>2 DEF Planned
  <2>4. CASE put.user.admin /\ ~put.user.disabled
    BY <2>2, <2>4 DEF ActiveAdmins
  <2>5. CASE ~(put.user.admin /\ ~put.user.disabled)
    <3>1. LosesAdmin(u, put.user)
      BY <2>1, <2>5 DEF LosesAdmin
    <3>2. PICK j \in ActiveAdmins \ {put.id} : TRUE
      BY <1>1, <1>5, <2>2, <2>3, <3>1 DEF Current
    <3> QED
      BY <1>2, <2>2, <3>2
  <2> QED
    BY <2>4, <2>5
<1> QED
  BY <1>4, <1>5 DEF SomeAdminStays

LEMMA CommitRemembered == ASSUME IInv, NEW c \in Call, Commit(c) PROVE Remembered'
<1>1. ASSUME NEW t \in tokens' PROVE Known(t.id, t.version, t.password)'
  <2>1. t \in Token /\ Known(t.id, t.version, t.password)
    BY <1>1, CommitStores, CachedKnown
  <2>2. t.id \in Id /\ t.version \in Nat
    BY <2>1, AccountAssumption DEF Token
  <2> QED
    BY <2>1, <2>2, CommitRemembers
<1>2. ASSUME NEW d \in Call, NEW k \in call'[d].cached
      PROVE  Known(k.id, k.user.version, k.user.password)'
  <2>1. k \in call[d].cached
    BY <1>2, CommitCalls
  <2>2. k \in Cached /\ Known(k.id, k.user.version, k.user.password)
    BY <2>1, CachedKnown
  <2>3. k.id \in Id /\ k.user.version \in Nat
    BY <2>2, AccountAssumption DEF Cached, User
  <2> QED
    BY <2>2, <2>3, CommitRemembers
<1> QED
  BY <1>1, <1>2 DEF Remembered

(* What the other transactions have planned and read: a commit writes no   *)
(* record they have read, or makes them stale.                             *)
LEMMA CommitPlanned ==
  ASSUME IInv, NEW c \in Call, Commit(c), NEW d \in Call
  PROVE  Planned(d, call[d].txn)'
<1>1. \A e \in Call : /\ call'[e].txn.puts \subseteq call[e].txn.puts
                      /\ e # c => /\ call'[e].txn.puts = call[e].txn.puts
                                  /\ call'[e].txn.index = call[e].txn.index
                      /\ e = c => call'[e].txn = NoTxn
  BY CommitCalls DEF NoTxn
<1>2. CASE d = c
  BY <1>1, <1>2 DEF Planned, NoTxn
<1>3. CASE d # c
  <2>1. Planned(d, call[d].txn) /\ Planned(c, call[c].txn)
    BY DEF IInv
  <2>2. Creates(call'[d].txn) <=> Creates(call[d].txn)
    BY <1>1, <1>3 DEF Creates
  <2>3. ASSUME NEW put \in call[d].txn.puts
        PROVE  put.id \in Id
    <3>1. call[d].txn.puts \in Optional(Cached)
      BY DEF IInv, Typed, TypeOK
    <3>2. put \in Cached
      BY <3>1, AtMostOne
    <3> QED
      BY <3>2 DEF Cached
  <2>4. ASSUME NEW put \in call[d].txn.puts, Creates(call[d].txn)
        PROVE  /\ users'[put.id] = {}
               /\ \E e \in call[d].txn.index : e.id = put.id /\ e.name = put.user.name
               /\ \A e \in Call \ {d} : \A other \in call'[e].txn.puts : other.id # put.id
    <3>1. /\ users[put.id] = {}
          /\ \E e \in call[d].txn.index : e.id = put.id /\ e.name = put.user.name
          /\ \A e \in Call \ {d} : \A other \in call[e].txn.puts : other.id # put.id
      BY <2>1, <2>4 DEF Planned
    <3>2. users'[put.id] = users[put.id]
      BY <1>3, <2>3, <3>1, CommitStores
    <3> QED
      BY <1>1, <3>1, <3>2
  <2>5. ASSUME NEW put \in call[d].txn.puts, ~Creates(call[d].txn)
        PROVE  \E u \in users'[put.id] : u.name = put.user.name
    <3>1. PICK u \in users[put.id] : u.name = put.user.name
      BY <2>1, <2>5 DEF Planned
    <3> QED
      BY <2>3, <3>1, CommitFollows
  <2>6. \A e \in call[d].txn.index :
          \E put \in call[d].txn.puts : put.id = e.id /\ put.user.name = e.name
    BY <2>1 DEF Planned
  <2> QED
    BY <1>1, <1>3, <2>2, <2>4, <2>5, <2>6 DEF Planned, Creates
<1> QED
  BY <1>2, <1>3

LEMMA CommitCurrent ==
  ASSUME IInv, NEW c \in Call, Commit(c), NEW d \in Call
  PROVE  Current(call[d].txn)'
<1>1. CASE d = c
  BY <1>1, CommitCalls DEF Current, NoTxn
<1>2. CASE d # c /\ ~call'[d].txn.stale
  <2>1. /\ call'[d].txn.reads = call[d].txn.reads /\ call'[d].txn.puts = call[d].txn.puts
        /\ call'[d].txn.index = call[d].txn.index
        /\ ~call[d].txn.stale /\ call[d].txn.reads \cap Writes(call[c].txn) = {}
        /\ Current(call[d].txn)
    BY <1>2, CommitCalls DEF IInv
  <2>2. \A i \in Id : UserKey(i) \in call[d].txn.reads => users'[i] = users[i]
    <3>1. \A i \in Id : UserKey(i) \in call[d].txn.reads =>
            \A put \in call[c].txn.puts : put.id # i
      BY <2>1 DEF Writes
    <3> QED
      BY <3>1, CommitStores
  <2>3. \A n \in Name : NameKey(n) \in call[d].txn.reads => names'[n] = names[n]
    <3>1. \A n \in Name : NameKey(n) \in call[d].txn.reads =>
            \A e \in call[c].txn.index : e.name # n
      BY <2>1 DEF Writes
    <3> QED
      BY <3>1, CommitStores
  <2>4. \A j \in ActiveAdmins : UserKey(j) \in call[d].txn.reads => j \in ActiveAdmins'
    BY <2>2 DEF ActiveAdmins
  <2>5. ASSUME NEW e \in call[d].txn.index
        PROVE  NameKey(e.name) \in call[d].txn.reads /\ names'[e.name] = {}
    <3>1. NameKey(e.name) \in call[d].txn.reads /\ names[e.name] = {}
      BY <2>1 DEF Current
    <3>2. e.name \in Name
      <4>1. call[d].txn.index \in Optional([name : Name, id : Id])
        BY DEF IInv, Typed, TypeOK
      <4>2. e \in [name : Name, id : Id]
        BY <4>1 DEF Optional
      <4> QED
        BY <4>2
    <3> QED
      BY <2>3, <3>1, <3>2
  <2>6. ASSUME NEW put \in call[d].txn.puts, ~Creates(call[d].txn)
        PROVE  /\ UserKey(put.id) \in call[d].txn.reads
               /\ \A u \in users'[put.id] :
                    /\ Follows(put.user, u.version, u.password)
                    /\ LosesAdmin(u, put.user) =>
                         \E j \in ActiveAdmins' \ {put.id} : UserKey(j) \in call[d].txn.reads
    <3>1. /\ UserKey(put.id) \in call[d].txn.reads
          /\ \A u \in users[put.id] :
               /\ Follows(put.user, u.version, u.password)
               /\ LosesAdmin(u, put.user) =>
                    \E j \in ActiveAdmins \ {put.id} : UserKey(j) \in call[d].txn.reads
      BY <2>1, <2>6 DEF Current
    <3>2. put.id \in Id
      <4>1. call[d].txn.puts \in Optional(Cached)
        BY DEF IInv, Typed, TypeOK
      <4>2. put \in Cached
        BY <4>1, AtMostOne
      <4> QED
        BY <4>2 DEF Cached
    <3>3. users'[put.id] = users[put.id]
      BY <2>2, <3>1, <3>2
    <3> QED
      BY <2>4, <3>1, <3>3
  <2>7. Creates(call'[d].txn) <=> Creates(call[d].txn)
    BY <2>1 DEF Creates
  <2> QED
    BY <2>1, <2>5, <2>6, <2>7 DEF Current, Creates, Follows, LosesAdmin
<1>3. CASE d # c /\ call'[d].txn.stale
  BY <1>3 DEF Current
<1> QED
  BY <1>1, <1>2, <1>3

LEMMA CommitStep == ASSUME IInv, NEW c \in Call, Commit(c) PROVE IInv'
BY CommitTyped, CommitAgrees, CommitLeavesAdmin, CommitRemembered, CommitPlanned, CommitCurrent
   DEF IInv
-----------------------------------------------------------------------------
LEMMA StutterStep == ASSUME IInv, UNCHANGED vars PROVE IInv'
<1>1. UNCHANGED <<users, names, tokens, call>>
  BY DEF vars
<1>2. Typed' /\ ActiveAdmins' = ActiveAdmins
  BY <1>1 DEF IInv, Typed, TypeOK, Shape, ActiveAdmins
<1>3. NamesAgree' /\ SomeAdminStays' /\ Remembered'
  BY <1>1, <1>2 DEF IInv, Typed, NamesAgree, SomeAdminStays, Remembered, Known, Follows
<1>4. \A c \in Call : Planned(c, call[c].txn)' /\ Current(call[c].txn)'
  BY <1>1, <1>2 DEF IInv, Planned, Current, Creates, Follows, LosesAdmin
<1> QED
  BY <1>2, <1>3, <1>4 DEF IInv

LEMMA NextStep == ASSUME IInv, [Next]_vars PROVE IInv'
BY LoginStep, CreateStep, ProveStep, ChangePasswordStep, AdmitStep, UpdateUserStep,
   ClearUserEventsStep, IssueStep, AuditStep, CommitStep, FailStep, ExpireStep, StutterStep
   DEF Next

LEMMA Invariant == Spec => []IInv
BY InitInv, NextStep, PTL DEF Spec
-----------------------------------------------------------------------------
(* No two users share a name, and each is found by his.                    *)
THEOREM IndexAgrees == Spec => []NamesAgree
<1>1. IInv => NamesAgree
  BY DEF IInv
<1> QED
  BY <1>1, Invariant, PTL

(* An enabled administrator is left, whatever administrators do to each    *)
(* other at once.                                                          *)
THEOREM AdminLeft == Spec => []SomeAdminStays
<1>1. IInv => SomeAdminStays
  BY DEF IInv
<1> QED
  BY <1>1, Invariant, PTL

(* A token that is accepted was issued for the password the user has.      *)
THEOREM TokensCurrent == Spec => []TokenOfCurrentPassword
<1>1. IInv => TokenOfCurrentPassword
  <2> SUFFICES ASSUME IInv, NEW t \in tokens, NEW u \in users[t.id], Valid(t, u)
               PROVE  t.password = u.password
    BY DEF TokenOfCurrentPassword
  <2>1. t.id \in Id /\ Known(t.id, t.version, t.password)
    BY KnownToken DEF Token
  <2>2. users[t.id] = {u}
    BY <2>1, UserAt DEF IInv
  <2> QED
    BY <2>1, <2>2 DEF Known, Follows, Valid
<1> QED
  BY <1>1, Invariant, PTL

(* A token that does not have the version of its user has a lower one, and *)
(* no step lowers the version of a user.                                   *)
THEOREM RevokedForGood == Spec => RevokedStaysRevoked
<1> DEFINE A == \A t \in tokens \cap tokens', u \in UNION {users[i] : i \in Id},
                   new \in UNION {users'[i] : i \in Id} :
                  u \in users[t.id] /\ new \in users'[t.id] /\ u.version # t.version
                  => new.version # t.version
<1>1. ASSUME IInv, [Next]_vars, IInv',
             NEW t \in tokens \cap tokens', NEW u \in users[t.id], NEW new \in users'[t.id],
             u.version # t.version
      PROVE  new.version # t.version
  <2>1. t.id \in Id /\ t.version \in Nat /\ Known(t.id, t.version, t.password)
    BY <1>1, KnownToken, AccountAssumption DEF Token
  <2>2. users[t.id] = {u} /\ u.version \in Nat
    BY <1>1, <2>1, UserAt DEF IInv
  <2>3. t.version < u.version
    BY <1>1, <2>1, <2>2 DEF Known, Follows
  <2>4. CASE \E c \in Call : Commit(c)
    <3>1. PICK next \in users'[t.id] : Follows(next, u.version, u.password)
      BY <1>1, <2>1, <2>4, CommitFollows
    <3>2. users'[t.id] \in Optional(User)
      BY <1>1, <2>1 DEF IInv, Typed, TypeOK
    <3>3. next = new /\ new \in User
      BY <1>1, <3>1, <3>2, AtMostOne
    <3>4. new.version \in Nat
      BY <3>3, AccountAssumption DEF User
    <3> QED
      BY <2>1, <2>2, <2>3, <3>1, <3>3, <3>4 DEF Follows
  <2>5. CASE ~\E c \in Call : Commit(c)
    <3>1. UNCHANGED users
      BY ZenonT(40), <1>1, <2>5 DEF Next, vars, Login, CreateUser, Create, Begin, Prove, ChangePassword,
         Update, Admit, UpdateUser, ClearUserEvents, ClearEvents, Issue, Audit, Fail, Expire
    <3> QED
      BY <1>1, <2>2, <3>1
  <2> QED
    BY <2>4, <2>5
<1>2. IInv /\ [Next]_vars /\ IInv' => [A]_vars
  BY <1>1
<1> QED
  BY <1>2, Invariant, PTL DEF Spec, RevokedStaysRevoked
-----------------------------------------------------------------------------
(***************************************************************************)
(* The audit log.  Sequences that are defined step by step: a recursive    *)
(* definition has a value at every step, as long as each step stays in D.  *)
(***************************************************************************)
LEMMA Successors ==
  \E R : IsWellFoundedOn(R, Nat) /\ \A n \in Nat : <<n, n + 1>> \in R
<1>1. IsWellFoundedOn(OpToRel(<, Nat), Nat)
  BY NatLessThanWellFounded
<1>2. \A n \in Nat : <<n, n + 1>> \in OpToRel(<, Nat)
  BY DEF OpToRel
<1> QED
  BY <1>1, <1>2

LEMMA Induction ==
  ASSUME NEW S \in SUBSET Nat, 0 \in S, \A n \in S : n + 1 \in S
  PROVE  S = Nat
<1> SUFFICES ASSUME Nat \ S # {} PROVE FALSE
  OBVIOUS
<1>1. PICK R : IsWellFoundedOn(R, Nat) /\ \A n \in Nat : <<n, n + 1>> \in R
  BY Successors
<1>2. PICK x \in Nat \ S : \A y \in Nat \ S : <<y, x>> \notin R
  BY <1>1, WFMin
<1>3. x # 0 /\ x - 1 \in Nat
  OBVIOUS
<1>4. <<x - 1, x>> \in R
  BY <1>3, <1>1
<1>5. x - 1 \in S
  BY <1>2, <1>3, <1>4
<1> QED
  BY <1>5, <1>2, <1>3

Steps(s, n, b, F) == s[0] = b /\ \A m \in 1..n : s[m] = F[m][s[m - 1]]

LEMMA Recursion ==
  ASSUME NEW D, NEW b \in D, NEW N \in Nat, NEW F \in [1..N -> [D -> D]]
  PROVE  \E s \in [0..N -> D] : Steps(s, N, b, F)
<1> DEFINE Good(n) == \E s \in [0..n -> D] : Steps(s, n, b, F)
           S == {n \in Nat : n <= N => Good(n)}
<1>1. Good(0)
  <2>1. [i \in 0..0 |-> b] \in [0..0 -> D] /\ Steps([i \in 0..0 |-> b], 0, b, F)
    BY DEF Steps
  <2> QED
    BY <2>1
<1>2. ASSUME NEW n \in Nat, Good(n), n + 1 <= N PROVE Good(n + 1)
  <2>1. PICK s \in [0..n -> D] : Steps(s, n, b, F)
    BY <1>2
  <2>2. s[n] \in D /\ n + 1 \in 1..N
    BY <1>2
  <2>3. F[n + 1][s[n]] \in D
    BY <2>2
  <2> DEFINE y == F[n + 1][s[n]]
             t == [i \in 0..(n + 1) |-> IF i = n + 1 THEN y ELSE s[i]]
  <2> HIDE DEF y
  <2>4. t \in [0..(n + 1) -> D] /\ t[n + 1] = y /\ \A i \in 0..n : t[i] = s[i]
    BY <2>3 DEF y
  <2> HIDE DEF t
  <2>5. \A m \in 1..(n + 1) : t[m] = F[m][t[m - 1]]
    <3>1. ASSUME NEW m \in 1..n PROVE t[m] = F[m][t[m - 1]]
      BY <2>1, <2>4 DEF Steps
    <3>2. t[n + 1] = F[n + 1][t[n]] /\ n + 1 - 1 = n
      BY <2>4 DEF y
    <3>3. \A m \in 1..(n + 1) : m \in 1..n \/ m = n + 1
      OBVIOUS
    <3> QED
      BY <3>1, <3>2, <3>3
  <2>6. t[0] = b
    BY <2>1, <2>4, 0 \in 0..n DEF Steps
  <2>7. Steps(t, n + 1, b, F)
    BY ONLY <2>5, <2>6 DEF Steps
  <2> QED
    BY <2>4, <2>7
<1> HIDE DEF Good
<1>3. S = Nat
  <2>1. 0 \in S /\ \A n \in S : n + 1 \in S
    BY <1>1, <1>2
  <2> HIDE DEF S
  <2>2. S \in SUBSET Nat
    BY DEF S
  <2> QED
    BY <2>1, <2>2, Induction
<1>4. Good(N)
  BY <1>3
<1> QED
  BY <1>4 DEF Good
-----------------------------------------------------------------------------
(* The selection from a log, event by event.                               *)
Extended(log, S, n, x) == IF log[n] \in S THEN Append(x, log[n]) ELSE x
Selecting(s, log, S) ==
  s = [n \in 0..Len(log) |->
         IF n = 0 THEN <<>> ELSE IF log[n] \in S THEN Append(s[n - 1], log[n]) ELSE s[n - 1]]
Selects(s, log, S) ==
  /\ s \in [0..Len(log) -> Seq(Event)] /\ s[0] = <<>>
  /\ \A n \in 1..Len(log) : s[n] = IF log[n] \in S THEN Append(s[n - 1], log[n]) ELSE s[n - 1]

LEMMA SelectedBySteps ==
  ASSUME NEW log, NEW S
  PROVE  Selected(log, S) = (CHOOSE s : Selecting(s, log, S))[Len(log)]
BY DEF Selected, Selecting

LEMMA SelectedIs ==
  ASSUME NEW log \in Seq(Event), NEW S
  PROVE  \E s : Selects(s, log, S) /\ Selected(log, S) = s[Len(log)]
<1> DEFINE F == [n \in 1..Len(log) |-> [x \in Seq(Event) |-> Extended(log, S, n, x)]]
<1>1. ASSUME NEW n \in 1..Len(log), NEW x \in Seq(Event)
      PROVE  Extended(log, S, n, x) \in Seq(Event) /\ F[n][x] = Extended(log, S, n, x)
  BY DEF Extended
<1>2. F \in [1..Len(log) -> [Seq(Event) -> Seq(Event)]]
  BY <1>1
<1> HIDE DEF F
<1>3. Len(log) \in Nat /\ <<>> \in Seq(Event)
  OBVIOUS
<1>4. PICK t \in [0..Len(log) -> Seq(Event)] : Steps(t, Len(log), <<>>, F)
  BY <1>2, <1>3, Recursion
<1>5. Selecting(t, log, S)
  <2> DEFINE u == [n \in 0..Len(log) |->
                     IF n = 0 THEN <<>> ELSE IF log[n] \in S THEN Append(t[n - 1], log[n]) ELSE t[n - 1]]
  <2>1. ASSUME NEW n \in 0..Len(log) PROVE t[n] = u[n]
    <3>1. CASE n = 0
      BY <3>1, <1>4 DEF Steps
    <3>2. CASE n # 0
      <4>1. n \in 1..Len(log) /\ n - 1 \in 0..Len(log)
        BY <3>2
      <4>2. t[n] = F[n][t[n - 1]] /\ t[n - 1] \in Seq(Event)
        BY <4>1, <1>4 DEF Steps
      <4>3. t[n] = Extended(log, S, n, t[n - 1])
        BY <4>1, <4>2, <1>1
      <4> QED
        BY <4>3, <3>2 DEF Extended
    <3> QED
      BY <3>1, <3>2
  <2>2. t = [n \in 0..Len(log) |-> t[n]] /\ u = [n \in 0..Len(log) |-> u[n]]
    OBVIOUS
  <2> HIDE DEF u
  <2>3. t = u
    BY <2>1, <2>2
  <2> QED
    BY <2>3 DEF Selecting, u
<1> DEFINE s == CHOOSE v : Selecting(v, log, S)
<1>6. Selecting(s, log, S)
  BY <1>5
<1> HIDE DEF s
<1>7. ASSUME NEW n \in 0..Len(log)
      PROVE  s[n] = IF n = 0 THEN <<>> ELSE IF log[n] \in S THEN Append(s[n - 1], log[n]) ELSE s[n - 1]
  BY <1>6 DEF Selecting
<1>8. \A n \in 0..Len(log) : s[n] \in Seq(Event)
  <2> DEFINE N == {n \in Nat : n <= Len(log) => s[n] \in Seq(Event)}
  <2>1. 0 \in N
    <3>1. 0 \in 0..Len(log)
      BY <1>3
    <3>2. s[0] = <<>>
      BY <3>1, <1>7
    <3>3. s[0] \in Seq(Event)
      BY <3>2, <1>3
    <3> QED
      BY <3>3
  <2>2. ASSUME NEW n \in N PROVE n + 1 \in N
    <3>1. CASE n + 1 <= Len(log)
      <4>1. n + 1 \in 0..Len(log) /\ n + 1 # 0 /\ n + 1 - 1 = n /\ s[n] \in Seq(Event) /\ log[n + 1] \in Event
        BY <3>1
      <4> DEFINE m == n + 1
      <4> HIDE DEF m
      <4>2. s[m] = IF log[m] \in S THEN Append(s[n], log[m]) ELSE s[n]
        BY <4>1, <1>7 DEF m
      <4>3. s[m] \in Seq(Event)
        BY <4>1, <4>2 DEF m
      <4> QED
        BY <4>3 DEF m
    <3> QED
      BY <3>1
  <2> HIDE DEF N
  <2>3. N = Nat
    <3>1. N \in SUBSET Nat
      BY DEF N
    <3> QED
      BY <2>1, <2>2, <3>1, Induction
  <2> QED
    BY <2>3 DEF N
<1>9. s = [n \in 0..Len(log) |-> s[n]]
  <2> DEFINE u == [n \in 0..Len(log) |->
                     IF n = 0 THEN <<>> ELSE IF log[n] \in S THEN Append(s[n - 1], log[n]) ELSE s[n - 1]]
  <2>1. s = u
    BY <1>6 DEF Selecting
  <2>2. u = [n \in 0..Len(log) |-> u[n]]
    OBVIOUS
  <2> QED
    BY <2>1, <2>2
<1>10. Selects(s, log, S)
  <2>1. s \in [0..Len(log) -> Seq(Event)]
    BY <1>8, <1>9
  <2>2. s[0] = <<>> /\ \A n \in 1..Len(log) : s[n] = IF log[n] \in S THEN Append(s[n - 1], log[n]) ELSE s[n - 1]
    BY <1>7
  <2> QED
    BY <2>1, <2>2 DEF Selects
<1>11. Selected(log, S) = s[Len(log)]
  BY SelectedBySteps DEF s
<1> QED
  BY <1>10, <1>11

Distinct(log) == \A i, j \in 1..Len(log) : i # j => log[i].id # log[j].id

(* What is selected of the first n events is what the whole selection      *)
(* begins with.                                                            *)
LEMMA Beginning ==
  ASSUME NEW log \in Seq(Event), NEW S, NEW s, Selects(s, log, S), NEW n \in 1..Len(log)
  PROVE  /\ s[n] \in Seq(Event) /\ s[n - 1] \in Seq(Event) /\ log[n] \in Event
         /\ Len(s[n - 1]) <= Len(s[n]) /\ \A i \in 1..Len(s[n - 1]) : s[n][i] = s[n - 1][i]
         /\ log[n] \in S => Len(s[n]) = Len(s[n - 1]) + 1 /\ s[n][Len(s[n])] = log[n]
         /\ log[n] \notin S => s[n] = s[n - 1]
<1>1. /\ s[n] \in Seq(Event) /\ s[n - 1] \in Seq(Event) /\ log[n] \in Event
      /\ s[n] = IF log[n] \in S THEN Append(s[n - 1], log[n]) ELSE s[n - 1]
  <2>1. n \in 0..Len(log) /\ n - 1 \in 0..Len(log) /\ log[n] \in Event
    OBVIOUS
  <2>2. /\ s \in [0..Len(log) -> Seq(Event)]
        /\ \A m \in 1..Len(log) : s[m] = IF log[m] \in S THEN Append(s[m - 1], log[m]) ELSE s[m - 1]
    BY DEF Selects
  <2>3. s[n] \in Seq(Event) /\ s[n - 1] \in Seq(Event)
    BY <2>1, <2>2
  <2> QED
    BY <2>1, <2>2, <2>3
<1> DEFINE x == s[n - 1]
           y == s[n]
           e == log[n]
<1>2. /\ x \in Seq(Event) /\ y \in Seq(Event) /\ e \in Event
      /\ y = IF e \in S THEN Append(x, e) ELSE x
  BY <1>1
<1> HIDE DEF x, y, e
<1>3. /\ Len(x) <= Len(y) /\ \A i \in 1..Len(x) : y[i] = x[i]
      /\ e \in S => Len(y) = Len(x) + 1 /\ y[Len(y)] = e
      /\ e \notin S => y = x
  BY <1>2
<1> QED
  BY <1>2, <1>3 DEF x, y, e

LEMMA SelectedFrom ==
  ASSUME NEW log \in Seq(Event), NEW S, NEW s, Selects(s, log, S)
  PROVE  \A n \in 0..Len(log) :
           /\ Len(s[n]) <= n
           /\ \A i \in 1..Len(s[n]) : \E k \in 1..n : s[n][i] = log[k]
           /\ Distinct(log) => Distinct(s[n])
<1> DEFINE Good(n) == /\ Len(s[n]) <= n
                      /\ \A i \in 1..Len(s[n]) : \E k \in 1..n : s[n][i] = log[k]
                      /\ Distinct(log) => Distinct(s[n])
           N == {n \in Nat : n <= Len(log) => Good(n)}
<1>1. Good(0)
  BY DEF Selects, Distinct
<1>2. ASSUME NEW m \in Nat, m + 1 <= Len(log), Good(m) PROVE Good(m + 1)
  <2> DEFINE n == m + 1
             x == s[m]
             y == s[n]
  <2>1. n \in 1..Len(log) /\ n - 1 = m
    BY <1>2
  <2>2. /\ y \in Seq(Event) /\ x \in Seq(Event)
        /\ \A i \in 1..Len(x) : y[i] = x[i]
        /\ (Len(y) = Len(x) + 1 /\ y[Len(y)] = log[n]) \/ y = x
    <3> HIDE DEF n
    <3>1. /\ s[n] \in Seq(Event) /\ s[n - 1] \in Seq(Event)
          /\ \A i \in 1..Len(s[n - 1]) : s[n][i] = s[n - 1][i]
          /\ (Len(s[n]) = Len(s[n - 1]) + 1 /\ s[n][Len(s[n])] = log[n]) \/ s[n] = s[n - 1]
      BY <2>1, Beginning
    <3> QED
      BY <3>1, <2>1
  <2>3. /\ Len(x) <= m /\ \A i \in 1..Len(x) : \E k \in 1..m : x[i] = log[k]
        /\ Distinct(log) => Distinct(x)
    BY <1>2
  <2>4. \A k \in 1..m : k \in 1..n /\ k # n
    BY <1>2
  <2>5. m \in Nat /\ n = m + 1
    BY <1>2
  <2> HIDE DEF n, x, y
  <2>6. CASE y = x
    <3>1. Len(x) <= n
      BY <2>3, <2>5, <2>2
    <3>2. \A i \in 1..Len(x) : \E k \in 1..n : x[i] = log[k]
      BY <2>3, <2>4
    <3> QED
      BY <2>6, <2>3, <3>1, <3>2 DEF n, y
  <2>7. CASE Len(y) = Len(x) + 1 /\ y[Len(y)] = log[n]
    <3>1. Len(y) <= n
      BY <2>3, <2>5, <2>7, <2>2
    <3>2. \A i \in 1..Len(y) : i \in 1..Len(x) \/ i = Len(y)
      BY <2>2, <2>7
    <3>3. ASSUME NEW i \in 1..Len(x) PROVE \E k \in 1..m : y[i] = log[k]
      BY <2>2, <2>3
    <3>4. \A i \in 1..Len(y) : \E k \in 1..n : y[i] = log[k]
      BY <3>2, <3>3, <2>1, <2>4, <2>7
    <3>5. ASSUME Distinct(log) PROVE Distinct(y)
      <4>1. ASSUME NEW i \in 1..Len(x) PROVE y[i].id # log[n].id
        <5>1. PICK k \in 1..m : y[i] = log[k]
          BY <3>3
        <5>2. k \in 1..Len(log) /\ n \in 1..Len(log) /\ k # n
          BY <2>1, <2>4
        <5> QED
          BY <5>1, <5>2, <3>5 DEF Distinct
      <4>2. \A i, j \in 1..Len(x) : i # j => y[i].id # y[j].id
        BY <2>2, <2>3, <3>5 DEF Distinct
      <4> QED
        BY <3>2, <4>1, <4>2, <2>7 DEF Distinct
    <3> QED
      BY <3>1, <3>4, <3>5 DEF n, y
  <2> QED
    BY <2>2, <2>6, <2>7
<1> HIDE DEF Good
<1>3. 0 \in N /\ \A n \in N : n + 1 \in N
  BY <1>1, <1>2
<1> HIDE DEF N
<1>4. N = Nat
  <2>1. N \in SUBSET Nat
    BY DEF N
  <2> QED
    BY <1>3, <2>1, Induction
<1>5. \A n \in 0..Len(log) : Good(n)
  BY <1>4 DEF N
<1> QED
  BY <1>5 DEF Good

LEMMA SelectedUpTo ==
  ASSUME NEW log \in Seq(Event), NEW S, NEW s, Selects(s, log, S), NEW a, a = s[Len(log)]
  PROVE  \A n \in 0..Len(log) : Len(s[n]) <= Len(a) /\ \A i \in 1..Len(s[n]) : a[i] = s[n][i]
<1> DEFINE L == Len(log)
           Good(n) == Len(s[n]) <= Len(a) /\ \A i \in 1..Len(s[n]) : a[i] = s[n][i]
           N == {k \in Nat : k <= L => Good(L - k)}
<1>1. L \in Nat
  OBVIOUS
<1> HIDE DEF L
<1>2. Good(L) /\ L - 0 = L
  <2>1. s[L] \in Seq(Event)
    BY <1>1 DEF Selects, L
  <2>2. Len(s[L]) \in Nat /\ a = s[L]
    BY <2>1 DEF L
  <2> QED
    BY <1>1, <2>2
<1>3. ASSUME NEW k \in Nat, k + 1 <= L, Good(L - k) PROVE Good(L - (k + 1))
  <2> DEFINE n == L - k
  <2>1. n \in 1..Len(log) /\ n - 1 = L - (k + 1)
    BY <1>1, <1>3 DEF L
  <2>2. Len(s[n]) <= Len(a) /\ \A i \in 1..Len(s[n]) : a[i] = s[n][i]
    BY <1>3
  <2> HIDE DEF n
  <2>3. /\ s[n] \in Seq(Event) /\ s[n - 1] \in Seq(Event)
        /\ Len(s[n - 1]) <= Len(s[n]) /\ \A i \in 1..Len(s[n - 1]) : s[n][i] = s[n - 1][i]
    BY <2>1, Beginning
  <2>4. /\ Len(s[n - 1]) \in Nat /\ Len(s[n]) \in Nat
        /\ \A i \in 1..Len(s[n - 1]) : i \in 1..Len(s[n])
    BY <2>3
  <2>5. Len(a) \in Nat
    <3>1. s[L] \in Seq(Event)
      BY <1>1 DEF Selects, L
    <3> QED
      BY <3>1 DEF L
  <2>6. Len(s[n - 1]) <= Len(a)
    BY <2>2, <2>3, <2>4, <2>5
  <2>7. Good(n - 1)
    BY <2>2, <2>3, <2>4, <2>6
  <2> QED
    BY <2>1, <2>7
<1> HIDE DEF Good
<1>4. 0 \in N /\ \A k \in N : k + 1 \in N
  BY <1>1, <1>2, <1>3
<1> HIDE DEF N
<1>5. N = Nat
  <2>1. N \in SUBSET Nat
    BY DEF N
  <2> QED
    BY <1>4, <2>1, Induction
<1>6. ASSUME NEW n \in 0..L PROVE Good(n)
  <2>1. L - n \in N /\ L - n <= L /\ L - (L - n) = n
    BY <1>1, <1>5
  <2> QED
    BY <2>1 DEF N
<1> QED
  BY <1>6 DEF L, Good

LEMMA SelectedType ==
  ASSUME NEW log \in Seq(Event), NEW S
  PROVE  /\ Selected(log, S) \in Seq(Event) /\ Len(Selected(log, S)) <= Len(log)
         /\ Distinct(log) => Distinct(Selected(log, S))
<1>1. PICK s : Selects(s, log, S) /\ Selected(log, S) = s[Len(log)]
  BY SelectedIs
<1>2. Len(log) \in 0..Len(log) /\ s \in [0..Len(log) -> Seq(Event)]
  BY <1>1 DEF Selects
<1>3. Len(s[Len(log)]) <= Len(log) /\ (Distinct(log) => Distinct(s[Len(log)]))
  BY <1>1, <1>2, SelectedFrom
<1> QED
  BY <1>1, <1>2, <1>3
-----------------------------------------------------------------------------
(* The invariant of the log: every event has an identifier of its own.     *)
LogInv ==
  /\ events \in Seq(Event) /\ Distinct(events)
  /\ \A c \in Call : call[c].txn.dels \subseteq Event

LEMMA RangeOf ==
  ASSUME NEW s \in Seq(Event)
  PROVE  Range(s) = {s[i] : i \in 1..Len(s)} /\ Range(s) \subseteq Event
BY DEF Range

LEMMA Joined ==
  ASSUME NEW x \in Seq(Event), NEW y \in Seq(Event)
  PROVE  /\ x \o y \in Seq(Event) /\ Len(x \o y) = Len(x) + Len(y)
         /\ \A i \in 1..(Len(x) + Len(y)) : (x \o y)[i] = IF i <= Len(x) THEN x[i] ELSE y[i - Len(x)]
BY ConcatProperties

LEMMA Inserted ==
  ASSUME NEW s \in Seq(Event), NEW e \in Event, NEW at \in 1..(Len(s) + 1),
         Distinct(s), \A i \in 1..Len(s) : s[i].id # e.id
  PROVE  InsertAt(s, at, e) \in Seq(Event) /\ Distinct(InsertAt(s, at, e))
<1> DEFINE r == InsertAt(s, at, e)
<1>1. /\ r \in Seq(Event) /\ Len(r) = Len(s) + 1
      /\ \A i \in 1..Len(r) : r[i] = IF i < at THEN s[i] ELSE IF i = at THEN e ELSE s[i - 1]
  <2> DEFINE x == SubSeq(s, 1, at - 1)
             y == SubSeq(s, at, Len(s))
             o == x \o <<e>>
  <2>1. /\ x \in Seq(Event) /\ Len(x) = at - 1 /\ \A i \in 1..(at - 1) : x[i] = s[i]
    OBVIOUS
  <2>2. /\ y \in Seq(Event) /\ Len(y) = Len(s) + 1 - at
        /\ \A i \in 1..(Len(s) + 1 - at) : y[i] = s[at + i - 1]
    OBVIOUS
  <2> HIDE DEF x, y
  <2>3. o \in Seq(Event) /\ Len(o) = at /\ o[at] = e /\ \A i \in 1..(at - 1) : o[i] = s[i]
    BY <2>1
  <2> HIDE DEF o
  <2>4. r = o \o y
    BY DEF InsertAt, x, y, o
  <2>5. /\ o \o y \in Seq(Event) /\ Len(o \o y) = Len(o) + Len(y)
        /\ \A i \in 1..(Len(o) + Len(y)) : (o \o y)[i] = IF i <= Len(o) THEN o[i] ELSE y[i - Len(o)]
    BY <2>2, <2>3, Joined
  <2>6. /\ Len(s) \in Nat /\ at \in Nat /\ at >= 1 /\ Len(o) + Len(y) = Len(s) + 1
    BY <2>2, <2>3
  <2> DEFINE z == o \o y
  <2>7. /\ z \in Seq(Event) /\ Len(z) = Len(s) + 1
        /\ \A i \in 1..(Len(s) + 1) : z[i] = IF i <= at THEN o[i] ELSE y[i - at]
    BY <2>3, <2>5, <2>6
  <2> HIDE DEF z
  <2>8. ASSUME NEW i \in 1..(Len(s) + 1)
        PROVE  z[i] = IF i < at THEN s[i] ELSE IF i = at THEN e ELSE s[i - 1]
    <3>1. i \in Nat /\ z[i] = IF i <= at THEN o[i] ELSE y[i - at]
      BY <2>7
    <3>2. CASE i < at
      <4>1. i <= at /\ i \in 1..(at - 1)
        BY <3>1, <3>2, <2>6
      <4> QED
        BY <4>1, <3>1, <3>2, <2>3
    <3>3. CASE i = at
      <4>1. i <= at /\ ~(i < at)
        BY <3>1, <3>3, <2>6
      <4> QED
        BY <4>1, <3>1, <3>3, <2>3
    <3>4. CASE i > at
      <4>1. ~(i <= at) /\ ~(i < at) /\ i # at /\ i - at \in 1..(Len(s) + 1 - at) /\ at + (i - at) - 1 = i - 1
        BY <3>1, <3>4, <2>6
      <4>2. y[i - at] = s[at + (i - at) - 1]
        BY <4>1, <2>2
      <4> QED
        BY <4>1, <4>2, <3>1
    <3>5. i < at \/ i = at \/ i > at
      BY <3>1, <2>6
    <3> QED
      BY <3>2, <3>3, <3>4, <3>5
  <2> QED
    BY <2>4, <2>7, <2>8 DEF z
<1> HIDE DEF r
<1> DEFINE K == [i \in 1..Len(r) |-> IF i < at THEN i ELSE i - 1]
<1>2. ASSUME NEW i \in 1..Len(r)
      PROVE  \/ i = at /\ r[i] = e
             \/ i # at /\ K[i] \in 1..Len(s) /\ r[i] = s[K[i]]
  <2>1. Len(s) \in Nat /\ at \in 1..(Len(s) + 1) /\ i \in 1..(Len(s) + 1) /\ K[i] = IF i < at THEN i ELSE i - 1
    BY <1>1
  <2>2. r[i] = IF i < at THEN s[i] ELSE IF i = at THEN e ELSE s[i - 1]
    BY <1>1
  <2> HIDE DEF K
  <2>3. CASE i < at
    BY <2>1, <2>2, <2>3
  <2>4. CASE i = at
    <3>1. ~(i < at)
      BY <2>1, <2>4
    <3>2. r[i] = e
      BY ONLY <3>1, <2>2, <2>4
    <3> QED
      BY <3>2, <2>4
  <2>5. CASE i > at
    <3>1. ~(i < at) /\ i # at /\ i - 1 \in 1..Len(s)
      BY <2>1, <2>5
    <3> QED
      BY <3>1, <2>1, <2>2
  <2>6. i < at \/ i = at \/ i > at
    BY <2>1
  <2> QED
    BY <2>3, <2>4, <2>5, <2>6
<1>3. \A i, j \in 1..Len(r) : i # j /\ i # at /\ j # at => K[i] # K[j]
  BY <1>1
<1> HIDE DEF K
<1>4. ASSUME NEW i \in 1..Len(r), NEW j \in 1..Len(r), i # j PROVE r[i].id # r[j].id
  <2>1. CASE i # at /\ j # at
    BY <2>1, <1>2, <1>3, <1>4 DEF Distinct
  <2>2. CASE i = at
    BY <2>2, <1>2, <1>4
  <2>3. CASE j = at
    BY <2>3, <1>2, <1>4
  <2> QED
    BY <2>1, <2>2, <2>3
<1> QED
  BY <1>1, <1>4 DEF Distinct, r

LEMMA Recorded ==
  ASSUME IInv, LogInv, NEW i \in Id, RecordEvent(i)
  PROVE  events' \in Seq(Event) /\ Distinct(events')
<1>1. CASE UNCHANGED events
  BY <1>1 DEF LogInv, Distinct
<1>2. CASE \E e \in FreshEvent(i), at \in 1..(Len(events) + 1) : events' = InsertAt(events, at, e)
  <2>1. PICK e \in FreshEvent(i), at \in 1..(Len(events) + 1) : events' = InsertAt(events, at, e)
    BY <1>2
  <2>2. \E n \in 1..MaxEvents : /\ \A o \in Range(events) : o.id # n
                                /\ e = [id |-> n, user |-> i]
    BY DEF FreshEvent
  <2>3. e \in Event /\ \A k \in 1..Len(events) : events[k].id # e.id
    <3>1. PICK n \in 1..MaxEvents : (\A o \in Range(events) : o.id # n) /\ e = [id |-> n, user |-> i]
      BY <2>2
    <3>2. e \in Event /\ e.id = n
      BY <3>1 DEF Event
    <3>3. \A k \in 1..Len(events) : events[k] \in Range(events)
      BY RangeOf DEF LogInv
    <3> QED
      BY <3>1, <3>2, <3>3
  <2> QED
    BY <2>1, <2>3, Inserted DEF LogInv
<1> QED
  BY <1>1, <1>2 DEF RecordEvent

(* What one request plans, the others keep.                                *)
LEMMA OthersKeep ==
  ASSUME IInv, LogInv, NEW c \in Call, NEW x, call' = [call EXCEPT ![c] = x], x.txn.dels \subseteq Event
  PROVE  \A d \in Call : call'[d].txn.dels \subseteq Event
<1>1. \A d \in Call : call'[d] = IF d = c THEN x ELSE call[d]
  BY DEF IInv, Typed
<1> QED
  BY <1>1 DEF LogInv

LEMMA GotoKeeps ==
  ASSUME IInv, LogInv, NEW c \in Call, NEW label, NEW cached, Goto(c, label, cached)
  PROVE  \A d \in Call : call'[d].txn.dels \subseteq Event
<1> DEFINE x == [pc |-> label, cached |-> cached, txn |-> NoTxn]
<1>1. x.txn.dels = {} /\ call' = [call EXCEPT ![c] = x]
  BY DEF Goto, NoTxn
<1> HIDE DEF x
<1> QED
  BY <1>1, OthersKeep

LEMMA BeginKeeps ==
  ASSUME IInv, LogInv, NEW c \in Call, NEW reads, NEW puts, NEW index, Begin(c, reads, puts, index)
  PROVE  LogInv'
<1> DEFINE txn == [NoTxn EXCEPT !.reads = reads, !.puts = puts, !.index = index]
           x == [pc |-> "commit", cached |-> call[c].cached, txn |-> txn]
<1>1. txn.dels = {}
  BY DEF NoTxn
<1>2. call' = [call EXCEPT ![c] = x] /\ UNCHANGED events
  BY DEF Begin, IInv, Typed
<1> HIDE DEF txn
<1>3. x.txn.dels = {}
  BY <1>1
<1> HIDE DEF x
<1>4. \A d \in Call : call'[d].txn.dels \subseteq Event
  BY <1>2, <1>3, OthersKeep
<1> QED
  BY <1>2, <1>4 DEF LogInv, Distinct

LEMMA ClearKeeps ==
  ASSUME IInv, LogInv, NEW c \in Call, NEW i, ClearEvents(c, i)
  PROVE  LogInv'
<1> DEFINE reads == {EventKey(e) : e \in Range(events)}
           dels == {e \in Range(events) : e.user = i}
           txn == [NoTxn EXCEPT !.reads = reads, !.dels = dels]
           x == [pc |-> "commit", cached |-> call[c].cached, txn |-> txn]
<1>1. call' = [call EXCEPT ![c] = x] /\ UNCHANGED events
  BY DEF ClearEvents, IInv, Typed
<1>2. dels \subseteq Event
  BY RangeOf DEF LogInv
<1> HIDE DEF reads, dels
<1>3. txn.dels = dels
  BY DEF NoTxn
<1> HIDE DEF txn
<1>4. x.txn.dels \subseteq Event
  BY <1>2, <1>3
<1> HIDE DEF x
<1>5. \A d \in Call : call'[d].txn.dels \subseteq Event
  BY <1>1, <1>4, OthersKeep
<1> QED
  BY <1>1, <1>5 DEF LogInv, Distinct

LEMMA AuditedDels ==
  ASSUME NEW c \in Call, NEW x \in {Audited(c), Idle}
  PROVE  x.txn.dels = {}
BY DEF Audited, Idle, NoTxn

LEMMA CommitKeeps ==
  ASSUME IInv, LogInv, NEW c \in Call, Commit(c)
  PROVE  LogInv'
<1>1. events' \in Seq(Event) /\ Distinct(events')
  <2>1. events' = Selected(events, Range(events) \ call[c].txn.dels)
    BY DEF Commit
  <2> QED
    BY <2>1, SelectedType DEF LogInv
<1>2. ASSUME NEW d \in Call PROVE call'[d].txn.dels \subseteq Event
  <2>1. call'[d] = IF d = c THEN Audited(c)
                   ELSE [call[d] EXCEPT !.txn.stale = @ \/ call[d].txn.reads \cap Writes(call[c].txn) # {}]
    BY DEF Commit
  <2>2. CASE d = c
    BY <2>1, <2>2, AuditedDels
  <2>3. CASE d # c
    <3> DEFINE b == call[d].txn.stale \/ call[d].txn.reads \cap Writes(call[c].txn) # {}
    <3>1. call'[d] = [call[d] EXCEPT !.txn.stale = b] /\ Shape(call[d])
      BY <2>1, <2>3 DEF IInv, Typed
    <3> HIDE DEF b
    <3>2. call'[d].txn.dels = call[d].txn.dels
      BY <3>1 DEF Shape
    <3> QED
      BY <3>2 DEF LogInv
  <2> QED
    BY <2>2, <2>3
<1> QED
  BY <1>1, <1>2 DEF LogInv

LEMMA LogStep == ASSUME IInv, LogInv, [Next]_vars PROVE LogInv'
<1>1. ASSUME NEW c \in Call, NEW label, NEW cached, Goto(c, label, cached), UNCHANGED events PROVE LogInv'
  BY <1>1, GotoKeeps DEF LogInv, Distinct
<1>2. ASSUME NEW c \in Call, NEW s \in Spelling, NEW p \in Password, Login(c, s, p) PROVE LogInv'
  BY <1>1, <1>2 DEF Login
<1>3. ASSUME NEW c \in Call, NEW s \in Spelling, NEW p \in Password, NEW admin \in BOOLEAN,
             CreateUser(c, s, p, admin)
      PROVE  LogInv'
  BY <1>3, BeginKeeps DEF CreateUser, Create
<1>4. ASSUME NEW c \in Call, NEW p \in Password, Prove(c, p) PROVE LogInv'
  BY <1>1, <1>4 DEF Prove
<1>5. ASSUME NEW c \in Call, NEW p \in Password, ChangePassword(c, p) PROVE LogInv'
  BY <1>5, BeginKeeps DEF ChangePassword, Update
<1>6. ASSUME NEW c \in Call, NEW t \in tokens, Admit(c, t) PROVE LogInv'
  BY <1>1, <1>6 DEF Admit
<1>7. ASSUME NEW c \in Call, NEW i \in Id, NEW change \in Changes, UpdateUser(c, i, change) PROVE LogInv'
  BY <1>7, BeginKeeps DEF UpdateUser, Update
<1>8. ASSUME NEW c \in Call, NEW i \in Id, ClearUserEvents(c, i) PROVE LogInv'
  BY <1>8, ClearKeeps DEF ClearUserEvents
<1>9. ASSUME NEW c \in Call, NEW label, Goto(c, label, {}),
             NEW k \in call[c].cached, RecordEvent(k.id)
      PROVE  LogInv'
  <2>1. k.id \in Id
    BY <1>9, CachedKnown DEF Cached
  <2>2. events' \in Seq(Event) /\ Distinct(events')
    BY <1>9, <2>1, Recorded
  <2>3. \A d \in Call : call'[d].txn.dels \subseteq Event
    BY <1>9, GotoKeeps
  <2> QED
    BY <2>2, <2>3 DEF LogInv
<1>10. ASSUME NEW c \in Call, Issue(c) \/ Audit(c) PROVE LogInv'
  <2>1. \E k \in call[c].cached : RecordEvent(k.id)
    BY <1>10 DEF Issue, Audit
  <2>2. Goto(c, "idle", {})
    BY <1>10 DEF Issue, Audit
  <2> QED
    BY <2>1, <2>2, <1>9
<1>11. ASSUME NEW c \in Call, Fail(c) PROVE LogInv'
  <2>1. PICK x \in {Audited(c), Idle} : call' = [call EXCEPT ![c] = x]
    BY <1>11 DEF Fail
  <2>2. x.txn.dels \subseteq Event
    BY AuditedDels
  <2>3. \A d \in Call : call'[d].txn.dels \subseteq Event
    BY <2>1, <2>2, OthersKeep
  <2> QED
    BY <1>11, <2>3 DEF Fail, LogInv, Distinct
<1>12. ASSUME (\E t \in tokens : Expire(t)) \/ UNCHANGED vars PROVE LogInv'
  BY <1>12 DEF Expire, vars, LogInv, Distinct
<1> QED
  BY <1>2, <1>3, <1>4, <1>5, <1>6, <1>7, <1>8, <1>10, <1>11, <1>12, CommitKeeps DEF Next

LEMMA LogInvariant == Spec => []LogInv
<1>1. Init => LogInv
  <2> SUFFICES ASSUME Init PROVE LogInv
    OBVIOUS
  <2>1. events = <<>> /\ \A c \in Call : call[c].txn.dels = {}
    BY DEF Init, Idle, NoTxn
  <2> QED
    BY <2>1 DEF LogInv, Distinct
<1>2. IInv /\ LogInv /\ [Next]_vars => LogInv'
  BY LogStep
<1> QED
  BY <1>1, <1>2, Invariant, PTL DEF Spec
-----------------------------------------------------------------------------
(* What ListEvents has after each event of its walk.                       *)
Asked(filter) == {e \in Event : filter = {} \/ e.user \in filter}
Acc(size) == {a \in [page : Seq(Event), total : Nat] : Len(a.page) <= size}
NoPage == [page |-> <<>>, total |-> 0]

LEMMA WalkStep ==
  ASSUME NEW size \in Nat, NEW start \in Nat, NEW filter, NEW acc \in Acc(size), NEW e \in Event
  PROVE  LET new == Walk(acc, e, filter, start, size)
         IN  /\ new \in Acc(size)
             /\ e \notin Asked(filter) => new = acc
             /\ e \in Asked(filter) => /\ new.total = acc.total + 1
                                       /\ new.page = IF Takes(acc, start, size) THEN Append(acc.page, e) ELSE acc.page
<1> DEFINE counted == [acc EXCEPT !.total = @ + 1]
           taken == [page |-> Append(acc.page, e), total |-> acc.total + 1]
           new == Walk(acc, e, filter, start, size)
<1>1. /\ acc.page \in Seq(Event) /\ acc.total \in Nat /\ Len(acc.page) <= size /\ Len(acc.page) \in Nat
      /\ acc = [page |-> acc.page, total |-> acc.total]
  BY DEF Acc
<1>2. counted = [page |-> acc.page, total |-> acc.total + 1]
  BY <1>1
<1>3. Skips(acc, start, size) <=> ~Takes(acc, start, size)
  BY <1>1 DEF Skips, Takes
<1>4. e \in Asked(filter) <=> filter = {} \/ e.user \in filter
  BY DEF Asked
<1>5. counted \in Acc(size) /\ counted.total = acc.total + 1 /\ counted.page = acc.page
  BY <1>1, <1>2 DEF Acc
<1>6. ASSUME Takes(acc, start, size)
      PROVE  taken \in Acc(size) /\ taken.total = acc.total + 1 /\ taken.page = Append(acc.page, e)
  <2>1. /\ Append(acc.page, e) \in Seq(Event) /\ Len(Append(acc.page, e)) = Len(acc.page) + 1
        /\ Len(acc.page) < size
    BY <1>1, <1>6 DEF Takes
  <2> QED
    BY <2>1, <1>1 DEF Acc
<1>7. new = IF e \notin Asked(filter) THEN acc
            ELSE IF Takes(acc, start, size) THEN taken ELSE counted
  <2> HIDE DEF counted, taken
  <2>1. new = CASE filter = {} /\ Skips(acc, start, size) -> counted
                [] filter # {} /\ e.user \notin filter -> acc
                [] filter # {} /\ e.user \in filter /\ ~Takes(acc, start, size) -> counted
                [] OTHER -> taken
    BY DEF Walk, counted, taken
  <2> HIDE DEF new
  <2>2. CASE filter = {}
    BY <2>1, <2>2, <1>3, <1>4
  <2>3. CASE filter # {}
    <3>1. CASE e.user \notin filter
      BY <3>1, <2>1, <2>3, <1>4
    <3>2. CASE e.user \in filter /\ Takes(acc, start, size)
      BY <3>2, <2>1, <2>3, <1>4
    <3>3. CASE e.user \in filter /\ ~Takes(acc, start, size)
      BY <3>3, <2>1, <2>3, <1>4
    <3> QED
      BY <3>1, <3>2, <3>3
  <2> QED
    BY <2>2, <2>3
<1> HIDE DEF new, counted, taken
<1>8. /\ new \in Acc(size)
      /\ e \notin Asked(filter) => new = acc
      /\ e \in Asked(filter) => /\ new.total = acc.total + 1
                                /\ new.page = IF Takes(acc, start, size) THEN Append(acc.page, e) ELSE acc.page
  BY <1>5, <1>6, <1>7
<1> QED
  BY <1>8 DEF new

Walking(w, log, filter, start, size) ==
  w = [n \in 0..Len(log) |->
         IF n = 0 THEN [page |-> <<>>, total |-> 0]
         ELSE Walk(w[n - 1], log[Len(log) + 1 - n], filter, start, size)]
Walks(w, log, filter, start, size) ==
  /\ w \in [0..Len(log) -> Acc(size)] /\ w[0] = NoPage
  /\ \A n \in 1..Len(log) : w[n] = Walk(w[n - 1], log[Len(log) + 1 - n], filter, start, size)

LEMMA ListedBySteps ==
  ASSUME NEW log, NEW page, NEW size, NEW filter
  PROVE  ListEvents(log, page, size, filter)
           = (CHOOSE w : Walking(w, log, filter, Start(page, size), size))[Len(log)]
BY DEF ListEvents, Walking

LEMMA ListedIs ==
  ASSUME NEW log \in Seq(Event), NEW page, NEW size \in Nat, NEW filter, Start(page, size) \in Nat
  PROVE  \E w : /\ Walks(w, log, filter, Start(page, size), size)
                /\ ListEvents(log, page, size, filter) = w[Len(log)]
<1> DEFINE start == Start(page, size)
           D == Acc(size)
           L == Len(log)
           F == [n \in 1..L |-> [x \in D |-> Walk(x, log[L + 1 - n], filter, start, size)]]
<1>1. start \in Nat /\ L \in Nat /\ \A n \in 1..L : log[L + 1 - n] \in Event
  OBVIOUS
<1>2. NoPage \in D
  BY DEF Acc, NoPage
<1> HIDE DEF start, L
<1>3. ASSUME NEW n \in 1..L, NEW x \in D
      PROVE  Walk(x, log[L + 1 - n], filter, start, size) \in D
  <2>1. log[L + 1 - n] \in Event
    BY <1>1
  <2> QED
    BY <2>1, <1>1, WalkStep
<1> HIDE DEF D
<1>4. F \in [1..L -> [D -> D]] /\ \A n \in 1..L, x \in D : F[n][x] = Walk(x, log[L + 1 - n], filter, start, size)
  BY <1>3
<1> HIDE DEF F
<1>5. PICK t \in [0..L -> D] : Steps(t, L, NoPage, F)
  BY <1>1, <1>2, <1>4, Recursion
<1>6. t = [n \in 0..L |-> IF n = 0 THEN NoPage ELSE Walk(t[n - 1], log[L + 1 - n], filter, start, size)]
  <2> DEFINE u == [n \in 0..L |-> IF n = 0 THEN NoPage ELSE Walk(t[n - 1], log[L + 1 - n], filter, start, size)]
  <2>1. ASSUME NEW n \in 0..L PROVE t[n] = u[n]
    <3>1. CASE n = 0
      BY <3>1, <1>5 DEF Steps
    <3>2. CASE n # 0
      <4>1. n \in 1..L /\ n - 1 \in 0..L
        BY <3>2, <1>1
      <4>2. t[n] = F[n][t[n - 1]] /\ t[n - 1] \in D
        BY <4>1, <1>5 DEF Steps
      <4>3. t[n] = Walk(t[n - 1], log[L + 1 - n], filter, start, size)
        BY <4>1, <4>2, <1>4
      <4> QED
        BY <4>3, <3>2
    <3> QED
      BY <3>1, <3>2
  <2>2. t = [n \in 0..L |-> t[n]] /\ u = [n \in 0..L |-> u[n]]
    OBVIOUS
  <2> HIDE DEF u
  <2>3. t = u
    BY <2>1, <2>2
  <2> QED
    BY <2>3 DEF u
<1>7. Walking(t, log, filter, start, size)
  BY <1>6 DEF Walking, NoPage, L
<1> DEFINE w == CHOOSE v : Walking(v, log, filter, start, size)
<1>8. Walking(w, log, filter, start, size)
  BY <1>7
<1> HIDE DEF w
<1>9. /\ w = [n \in 0..L |-> IF n = 0 THEN NoPage ELSE Walk(w[n - 1], log[L + 1 - n], filter, start, size)]
      /\ \A n \in 0..L : w[n] = IF n = 0 THEN NoPage ELSE Walk(w[n - 1], log[L + 1 - n], filter, start, size)
  BY <1>8 DEF Walking, NoPage, L
<1>10. \A n \in 0..L : w[n] \in D
  <2> DEFINE N == {n \in Nat : n <= L => w[n] \in D}
  <2>1. 0 \in N
    <3>1. 0 \in 0..L
      BY <1>1
    <3>2. w[0] \in D
      BY <3>1, <1>9, <1>2
    <3> QED
      BY <3>2
  <2>2. ASSUME NEW n \in N PROVE n + 1 \in N
    <3>1. CASE n + 1 <= L
      <4> DEFINE m == n + 1
      <4>1. m \in 0..L /\ m \in 1..L /\ m # 0 /\ m - 1 = n /\ w[n] \in D
        BY <3>1, <1>1
      <4> HIDE DEF m
      <4>2. w[m] = Walk(w[n], log[L + 1 - m], filter, start, size)
        BY <4>1, <1>9
      <4>3. w[m] \in D
        BY <4>1, <4>2, <1>3
      <4> QED
        BY <4>3 DEF m
    <3> QED
      BY <3>1
  <2> HIDE DEF N
  <2>3. N = Nat
    <3>1. N \in SUBSET Nat
      BY DEF N
    <3> QED
      BY <2>1, <2>2, <3>1, Induction
  <2> QED
    BY <2>3, <1>1 DEF N
<1>11. Walks(w, log, filter, start, size)
  <2>1. w \in [0..L -> D]
    <3> DEFINE u == [n \in 0..L |-> IF n = 0 THEN NoPage ELSE Walk(w[n - 1], log[L + 1 - n], filter, start, size)]
    <3>1. w = u /\ u = [n \in 0..L |-> u[n]]
      BY <1>9
    <3> HIDE DEF u
    <3>2. w = [n \in 0..L |-> w[n]]
      BY <3>1
    <3> QED
      BY <3>2, <1>10
  <2>2. w[0] = NoPage /\ \A n \in 1..L : w[n] = Walk(w[n - 1], log[L + 1 - n], filter, start, size)
    <3>1. 0 \in 0..L /\ \A n \in 1..L : n \in 0..L /\ n # 0
      BY <1>1
    <3> QED
      BY <3>1, <1>9
  <2> QED
    BY <2>1, <2>2 DEF Walks, L, D
<1> QED
  BY <1>11, ListedBySteps DEF w, start, L

(* How many of so many events are on the page that begins after start.     *)
OnPage(total, start, size) ==
  IF total <= start THEN 0 ELSE IF total - start >= size THEN size ELSE total - start

(* When n events are left to look at, the page holds those of the selected *)
(* ones that are its own, newest first.                                    *)
PageIs(acc, a, k, start, size) ==
  /\ acc.total = Len(a) - k
  /\ Len(acc.page) = OnPage(acc.total, start, size)
  /\ \A i \in 1..Len(acc.page) : acc.page[i] = a[Len(a) + 1 - (start + i)]

LEMMA PageGrows ==
  ASSUME NEW size \in Nat, NEW start \in Nat, NEW filter, NEW a \in Seq(Event), NEW k \in Nat,
         NEW e \in Asked(filter), k + 1 <= Len(a), a[k + 1] = e,
         NEW acc \in Acc(size), PageIs(acc, a, k + 1, start, size)
  PROVE  PageIs(Walk(acc, e, filter, start, size), a, k, start, size)
<1> DEFINE new == Walk(acc, e, filter, start, size)
           N == Len(a)
           p == acc.page
           t == acc.total
<1>1. /\ p \in Seq(Event) /\ Len(p) \in Nat /\ t \in Nat /\ N \in Nat /\ e \in Event
  BY DEF Acc, Asked
<1>2. /\ t = N - (k + 1) /\ Len(p) = OnPage(t, start, size)
      /\ \A i \in 1..Len(p) : p[i] = a[N + 1 - (start + i)]
  BY DEF PageIs
<1>3. /\ new.total = t + 1
      /\ new.page = IF t >= start /\ Len(p) < size THEN Append(p, e) ELSE p
  BY <1>1, WalkStep DEF Takes
<1> HIDE DEF new, N, p, t
<1>4. /\ t >= start /\ Len(p) < size => t = start + Len(p) /\ OnPage(t + 1, start, size) = Len(p) + 1
      /\ ~(t >= start /\ Len(p) < size) => OnPage(t + 1, start, size) = Len(p)
  <2> DEFINE n == Len(p)
  <2>1. t \in Nat /\ start \in Nat /\ size \in Nat /\ n = OnPage(t, start, size)
    BY <1>1, <1>2
  <2> HIDE DEF n
  <2>2. /\ t >= start /\ n < size => t = start + n /\ OnPage(t + 1, start, size) = n + 1
        /\ ~(t >= start /\ n < size) => OnPage(t + 1, start, size) = n
    BY ONLY <2>1 DEF OnPage
  <2> QED
    BY <2>2 DEF n
<1>5. new.total = N - k
  BY <1>1, <1>2, <1>3
<1>6. CASE t >= start /\ Len(p) < size
  <2> DEFINE q == Append(p, e)
  <2>1. /\ q \in Seq(Event) /\ Len(q) = Len(p) + 1 /\ q[Len(p) + 1] = e
        /\ \A i \in 1..Len(p) : q[i] = p[i]
    BY <1>1
  <2>2. new.page = q
    BY <1>3, <1>6
  <2> HIDE DEF q
  <2>3. a[N + 1 - (start + (Len(p) + 1))] = e
    <3>1. N + 1 - (start + (Len(p) + 1)) = k + 1
      BY <1>1, <1>2, <1>4, <1>6
    <3> QED
      BY <3>1
  <2>4. \A i \in 1..Len(q) : i \in 1..Len(p) \/ i = Len(p) + 1
    BY <1>1, <2>1
  <2>5. \A i \in 1..Len(q) : q[i] = a[N + 1 - (start + i)]
    BY <2>1, <2>3, <2>4, <1>2
  <2> QED
    BY <1>3, <1>4, <1>5, <1>6, <2>1, <2>2, <2>5 DEF PageIs, new, N
<1>7. CASE ~(t >= start /\ Len(p) < size)
  BY <1>2, <1>3, <1>4, <1>5, <1>7 DEF PageIs, new, N
<1> QED
  BY <1>6, <1>7

LEMMA PageListed ==
  ASSUME NEW log \in Seq(Event), NEW page, NEW size \in Nat, NEW filter, Start(page, size) \in Nat,
         NEW a, a = Selected(log, Asked(filter))
  PROVE  /\ ListEvents(log, page, size, filter) \in Acc(size)
         /\ PageIs(ListEvents(log, page, size, filter), a, 0, Start(page, size), size)
<1> DEFINE S == Asked(filter)
           start == Start(page, size)
           L == Len(log)
<1>1. start \in Nat /\ L \in Nat
  OBVIOUS
<1>2. PICK s : Selects(s, log, S) /\ a = s[L]
  BY SelectedIs
<1>3. PICK w : Walks(w, log, filter, start, size) /\ ListEvents(log, page, size, filter) = w[L]
  BY ListedIs
<1>4. a \in Seq(Event) /\ Len(a) \in Nat /\ s[0] = <<>>
  BY <1>1, <1>2 DEF Selects
<1>5. \A n \in 0..L : s[n] \in Seq(Event) /\ Len(s[n]) \in Nat /\ w[n] \in Acc(size)
  <2>1. s \in [0..L -> Seq(Event)]
    BY <1>2 DEF Selects
  <2>2. w \in [0..L -> Acc(size)]
    BY <1>3 DEF Walks
  <2>3. \A n \in 0..L : s[n] \in Seq(Event) /\ w[n] \in Acc(size)
    BY ONLY <2>1, <2>2
  <2> QED
    BY <2>3
<1>6. \A n \in 0..L : Len(s[n]) <= Len(a) /\ \A i \in 1..Len(s[n]) : a[i] = s[n][i]
  BY <1>2, SelectedUpTo
<1> DEFINE Good(n) == PageIs(w[n], a, Len(s[L - n]), start, size)
           N == {n \in Nat : n <= L => Good(n)}
<1>7. ASSUME NEW n \in 1..L PROVE log[n] \in Event /\ log[n] = log[L + 1 - (L + 1 - n)]
  BY <1>1
<1> HIDE DEF L, start, S
<1>8. Good(0)
  <2>1. w[0] = NoPage /\ L - 0 = L
    BY <1>1, <1>3 DEF Walks
  <2>2. w[0].total = 0 /\ w[0].page = <<>> /\ Len(<<>>) = 0
    BY <2>1 DEF NoPage
  <2>3. OnPage(0, start, size) = 0 /\ 0 = Len(a) - Len(a)
    BY <1>1, <1>4 DEF OnPage
  <2>4. \A i \in 1..0 : FALSE
    OBVIOUS
  <2> QED
    BY <2>1, <2>2, <2>3, <2>4, <1>2 DEF PageIs
<1>9. ASSUME NEW n \in Nat, n + 1 <= L, Good(n) PROVE Good(n + 1)
  <2> DEFINE j == L - n
             e == log[j]
             k == Len(s[j - 1])
             new == w[n + 1]
  <2>1. /\ j \in 1..L /\ j - 1 = L - (n + 1) /\ L + 1 - (n + 1) = j
        /\ n + 1 \in 1..L /\ n + 1 - 1 = n /\ j \in 0..L /\ j - 1 \in 0..L /\ n \in 0..L
    BY <1>1, <1>9
  <2>2. e \in Event
    BY <2>1, <1>7
  <2>3. new = Walk(w[n], e, filter, start, size)
    <3>1. \A m \in 1..L : w[m] = Walk(w[m - 1], log[L + 1 - m], filter, start, size)
      BY <1>3 DEF Walks, L
    <3> QED
      BY <2>1, <3>1
  <2> HIDE DEF j
  <2>4. /\ e \in S => Len(s[j]) = k + 1 /\ s[j][k + 1] = e
        /\ e \notin S => s[j] = s[j - 1]
    <3>1. Selects(s, log, S) /\ j \in 1..Len(log)
      BY <2>1, <1>2 DEF L
    <3>2. /\ log[j] \in S => Len(s[j]) = Len(s[j - 1]) + 1 /\ s[j][Len(s[j])] = log[j]
          /\ log[j] \notin S => s[j] = s[j - 1]
      BY <3>1, Beginning
    <3> QED
      BY <3>2
  <2>5. w[n] \in Acc(size) /\ PageIs(w[n], a, Len(s[j]), start, size)
    BY <2>1, <1>5, <1>9 DEF j
  <2>6. k \in Nat
    BY <2>1, <1>5
  <2> HIDE DEF new, e, k
  <2>7. PageIs(new, a, k, start, size)
    <3>1. CASE e \notin S
      <4>1. Walk(w[n], e, filter, start, size) = w[n]
        <5> DEFINE acc == w[n]
        <5>1. e \notin Asked(filter) /\ e \in Event /\ acc \in Acc(size) /\ start \in Nat /\ size \in Nat
          BY <3>1, <2>2, <2>5, <1>1 DEF S
        <5> HIDE DEF acc
        <5>2. Walk(acc, e, filter, start, size) = acc
          BY <5>1, WalkStep
        <5> QED
          BY <5>2 DEF acc
      <4> QED
        BY <4>1, <3>1, <2>3, <2>4, <2>5 DEF k
    <3>2. CASE e \in S
      <4>1. k + 1 <= Len(a) /\ a[k + 1] = e
        <5>1. Len(s[j]) = k + 1 /\ k + 1 \in 1..Len(s[j]) /\ s[j][k + 1] = e
          BY <3>2, <2>4, <2>6
        <5> QED
          BY <5>1, <1>6, <2>1
      <4>2. PageIs(w[n], a, k + 1, start, size)
        BY <3>2, <2>4, <2>5
      <4> QED
        BY <4>1, <4>2, <3>2, <2>3, <2>5, <2>6, <1>1, <1>4, PageGrows DEF S
    <3> QED
      BY <3>1, <3>2
  <2> QED
    BY <2>1, <2>7 DEF new, k
<1> HIDE DEF Good
<1>10. 0 \in N /\ \A n \in N : n + 1 \in N
  BY <1>1, <1>8, <1>9
<1> HIDE DEF N
<1>11. N = Nat
  <2>1. N \in SUBSET Nat
    BY DEF N
  <2> QED
    BY <1>10, <2>1, Induction
<1>12. Good(L) /\ L - L = 0 /\ Len(s[0]) = 0
  BY <1>1, <1>4, <1>11 DEF N
<1>13. w[L] \in Acc(size) /\ PageIs(w[L], a, 0, start, size)
  BY <1>1, <1>5, <1>12 DEF Good
<1> QED
  BY <1>3, <1>13 DEF start, L
-----------------------------------------------------------------------------
(* The pages one after the other.                                          *)
LEMMA Starts ==
  ASSUME NEW size \in Nat, NEW n \in Nat
  PROVE  /\ Start(1, size) = 0
         /\ Start(n + 1, size) \in Nat /\ Start(n + 2, size) = Start(n + 1, size) + size
         /\ size >= 1 => Start(n + 1, size) >= n
<1>1. n * size \in Nat /\ (n + 1) * size = n * size + size /\ 0 * size = 0
  OBVIOUS
<1>2. Start(1, size) = 0 * size /\ Start(n + 1, size) = n * size /\ Start(n + 2, size) = (n + 1) * size
  BY DEF Start
<1>3. size >= 1 => n * size >= n
  OBVIOUS
<1> QED
  BY <1>1, <1>2, <1>3

LEMMA LogFits ==
  ASSUME LogInv
  PROVE  Len(events) <= MaxEvents
<1>1. Len(events) \in Nat /\ MaxEvents \in Nat
  BY AccountAssumption DEF LogInv
<1> DEFINE f == [i \in 1..Len(events) |-> events[i].id]
<1>2. f \in [1..Len(events) -> 1..MaxEvents]
  <2>1. \A i \in 1..Len(events) : events[i] \in Event
    BY DEF LogInv
  <2>2. \A e \in Event : e.id \in 1..MaxEvents
    BY DEF Event
  <2> QED
    BY <2>1, <2>2
<1>3. \A i, j \in 1..Len(events) : i # j => f[i] # f[j]
  BY DEF LogInv, Distinct
<1> HIDE DEF f
<1>4. /\ IsFiniteSet(1..Len(events)) /\ Cardinality(1..Len(events)) = Len(events)
      /\ IsFiniteSet(1..MaxEvents) /\ Cardinality(1..MaxEvents) = MaxEvents
  <2>1. \A n \in Nat : IsFiniteSet(1..n) /\ Cardinality(1..n) = n
    <3> SUFFICES ASSUME NEW n \in Nat PROVE IsFiniteSet(1..n) /\ Cardinality(1..n) = n
      OBVIOUS
    <3>1. /\ IsFiniteSet(1..n)
          /\ Cardinality(1..n) = IF 1 > n THEN 0 ELSE n - 1 + 1
      BY FS_Interval
    <3> QED
      BY <3>1
  <2> QED
    BY <2>1, <1>1
<1>5. ~(MaxEvents < Len(events))
  BY <1>2, <1>3, <1>4, FS_PigeonHole
<1> QED
  BY <1>1, <1>5

Flattening(f, P) == f = [i \in 1..Len(P) |-> IF i = 1 THEN P[i] ELSE f[i - 1] \o P[i]]

LEMMA FlatBySteps ==
  ASSUME NEW P, Len(P) # 0
  PROVE  FlattenSeq(P) = (CHOOSE f : Flattening(f, P))[Len(P)]
BY DEF FlattenSeq, Flattening

LEMMA FlatIs ==
  ASSUME NEW M \in Nat, M # 0, NEW P \in [1..M -> Seq(Event)]
  PROVE  \E f : /\ FlattenSeq(P) = f[M] /\ f[1] = P[1]
                /\ \A n \in 1..M : n # 1 => f[n] = f[n - 1] \o P[n]
<1>1. Len(P) = M
  OBVIOUS
<1> DEFINE D == Seq(Event)
           F == [n \in 1..M |-> [x \in D |-> x \o P[n]]]
<1>2. /\ F \in [1..M -> [D -> D]] /\ <<>> \in D
      /\ \A n \in 1..M, x \in D : F[n][x] = x \o P[n]
  <2>1. ASSUME NEW n \in 1..M, NEW x \in D PROVE x \o P[n] \in D
    <3>1. P[n] \in Seq(Event)
      OBVIOUS
    <3> QED
      BY <3>1, Joined
  <2> QED
    BY <2>1
<1> HIDE DEF D, F
<1>3. PICK t \in [0..M -> D] : Steps(t, M, <<>>, F)
  BY <1>2, Recursion
<1> DEFINE f == [n \in 1..M |-> t[n]]
           u == [i \in 1..M |-> IF i = 1 THEN P[i] ELSE f[i - 1] \o P[i]]
<1>4. ASSUME NEW n \in 1..M PROVE f[n] = u[n]
  <2>1. n - 1 \in 0..M /\ t[n - 1] \in D /\ t[n] = F[n][t[n - 1]]
    BY <1>3 DEF Steps
  <2>2. t[n] = t[n - 1] \o P[n]
    BY <2>1, <1>2
  <2>3. CASE n = 1
    <3>1. t[0] = <<>> /\ n - 1 = 0 /\ P[1] \in Seq(Event)
      BY <1>3, <2>3 DEF Steps
    <3>2. <<>> \o P[1] = P[1]
      BY <3>1
    <3> QED
      BY <3>1, <3>2, <2>2, <2>3
  <2>4. CASE n # 1
    <3>1. n - 1 \in 1..M
      BY <2>4
    <3> QED
      BY <3>1, <2>2, <2>4
  <2> QED
    BY <2>3, <2>4
<1>5. f = u
  <2>1. f = [n \in 1..M |-> f[n]] /\ u = [n \in 1..M |-> u[n]]
    OBVIOUS
  <2> HIDE DEF f, u
  <2> QED
    BY <2>1, <1>4
<1>6. Flattening(f, P)
  <2> HIDE DEF f
  <2> QED
    BY <1>1, <1>5 DEF Flattening
<1> HIDE DEF f
<1> DEFINE g == CHOOSE v : Flattening(v, P)
<1>7. Flattening(g, P)
  BY <1>6
<1> HIDE DEF g
<1>8. \A n \in 1..M : g[n] = IF n = 1 THEN P[n] ELSE g[n - 1] \o P[n]
  BY <1>1, <1>7 DEF Flattening
<1>9. g[1] = P[1] /\ \A n \in 1..M : n # 1 => g[n] = g[n - 1] \o P[n]
  <2>1. 1 \in 1..M
    OBVIOUS
  <2> QED
    BY <2>1, <1>8
<1>10. FlattenSeq(P) = g[M]
  BY <1>1, FlatBySteps DEF g
<1> QED
  BY <1>9, <1>10

UpTo(v, N) == IF v >= N THEN N ELSE v

(* A sequence of the first so many events, newest first, and one more page.*)
FirstOf(x, a, v) ==
  /\ x \in Seq(Event) /\ Len(x) = UpTo(v, Len(a))
  /\ \A i \in 1..Len(x) : x[i] = a[Len(a) + 1 - i]

LEMMA NextPage ==
  ASSUME NEW a \in Seq(Event), NEW v \in Nat, NEW size \in Nat, NEW x, FirstOf(x, a, v),
         NEW p \in Seq(Event), Len(p) = OnPage(Len(a), v, size),
         \A i \in 1..Len(p) : p[i] = a[Len(a) + 1 - (v + i)]
  PROVE  FirstOf(x \o p, a, v + size)
<1> DEFINE N == Len(a)
           y == x \o p
<1>1. N \in Nat /\ Len(p) \in Nat /\ x \in Seq(Event) /\ Len(x) \in Nat
  BY DEF FirstOf
<1>2. Len(x) = UpTo(v, N) /\ \A i \in 1..Len(x) : x[i] = a[N + 1 - i]
  BY DEF FirstOf
<1>3. /\ y \in Seq(Event) /\ Len(y) = Len(x) + Len(p)
      /\ \A i \in 1..(Len(x) + Len(p)) : y[i] = IF i <= Len(x) THEN x[i] ELSE p[i - Len(x)]
  BY <1>1, Joined
<1> HIDE DEF N, y
<1>4. Len(p) = OnPage(N, v, size) /\ \A i \in 1..Len(p) : p[i] = a[N + 1 - (v + i)]
  BY DEF N
<1>5. Len(y) = UpTo(v + size, N) /\ (Len(p) # 0 => Len(x) = v)
  <2> DEFINE k == Len(x)
             m == Len(p)
             l == Len(y)
  <2>1. /\ k \in Nat /\ m \in Nat /\ l = k + m /\ N \in Nat
        /\ k = UpTo(v, N) /\ m = OnPage(N, v, size)
    BY <1>1, <1>2, <1>3, <1>4
  <2> HIDE DEF k, m, l
  <2>2. l = UpTo(v + size, N) /\ (m # 0 => k = v)
    BY <2>1 DEF UpTo, OnPage
  <2> QED
    BY <2>2 DEF k, m, l
<1>6. ASSUME NEW i \in 1..Len(y) PROVE y[i] = a[N + 1 - i]
  <2>1. i \in Nat /\ i \in 1..(Len(x) + Len(p)) /\ y[i] = IF i <= Len(x) THEN x[i] ELSE p[i - Len(x)]
    BY <1>3
  <2>2. CASE i <= Len(x)
    <3>1. i \in 1..Len(x)
      BY <1>1, <2>1, <2>2
    <3> QED
      BY <3>1, <2>1, <2>2, <1>2
  <2>3. CASE ~(i <= Len(x))
    <3>1. Len(x) = v /\ i - Len(x) \in 1..Len(p) /\ v + (i - Len(x)) = i
      BY <1>1, <1>5, <2>1, <2>3
    <3>2. p[i - Len(x)] = a[N + 1 - (v + (i - Len(x)))]
      BY <3>1, <1>4
    <3> QED
      BY <3>1, <3>2, <2>1, <2>3
  <2> QED
    BY <2>2, <2>3
<1> QED
  BY <1>3, <1>5, <1>6 DEF FirstOf, N, y

(* All pages of one size, of a log with at most as many events as pages.   *)
LEMMA AllPages ==
  ASSUME LogInv, NEW filter, NEW size \in 1..MaxEvents,
         NEW a, a = Selected(events, Asked(filter)),
         NEW P, P = [n \in 1..MaxEvents |-> ListEvents(events, n, size, filter).page]
  PROVE  /\ \A n \in 1..MaxEvents : ListEvents(events, n, size, filter).total = Len(a)
         /\ FlattenSeq(P) = Reverse(a)
<1> DEFINE M == MaxEvents
           N == Len(a)
<1>1. /\ M \in Nat /\ M # 0 /\ size \in Nat /\ size >= 1 /\ events \in Seq(Event)
      /\ a \in Seq(Event) /\ N \in Nat /\ N <= M
  <2>1. MaxEvents \in Nat /\ events \in Seq(Event)
    BY AccountAssumption DEF LogInv
  <2>2. a \in Seq(Event) /\ Len(a) <= Len(events) /\ Len(events) <= MaxEvents
    BY <2>1, SelectedType, LogFits
  <2> QED
    BY <2>1, <2>2
<1>2. ASSUME NEW n \in 1..M
      PROVE  /\ Start(n, size) \in Nat /\ ListEvents(events, n, size, filter) \in Acc(size)
             /\ PageIs(ListEvents(events, n, size, filter), a, 0, Start(n, size), size)
  <2>1. n - 1 \in Nat /\ n - 1 + 1 = n
    BY <1>1
  <2>2. Start(n - 1 + 1, size) \in Nat
    BY <1>1, <2>1, Starts
  <2>3. Start(n, size) \in Nat
    BY <2>1, <2>2
  <2> QED
    BY <2>3, <1>1, PageListed
<1>3. ASSUME NEW n \in 1..M
      PROVE  /\ ListEvents(events, n, size, filter).total = N
             /\ P[n] \in Seq(Event) /\ Len(P[n]) = OnPage(N, Start(n, size), size)
             /\ \A i \in 1..Len(P[n]) : P[n][i] = a[N + 1 - (Start(n, size) + i)]
  <2> DEFINE l == ListEvents(events, n, size, filter)
  <2>1. P[n] = l.page
    OBVIOUS
  <2>2. l.page \in Seq(Event) /\ l.total = N - 0 /\ Len(l.page) = OnPage(l.total, Start(n, size), size)
        /\ \A i \in 1..Len(l.page) : l.page[i] = a[N + 1 - (Start(n, size) + i)]
    BY <1>2 DEF PageIs, Acc
  <2>3. l.total = N
    BY <1>1, <2>2
  <2> HIDE DEF l, N
  <2> QED
    BY <2>1, <2>2, <2>3 DEF l
<1>4. P \in [1..M -> Seq(Event)]
  <2>1. P = [n \in 1..M |-> P[n]]
    OBVIOUS
  <2> QED
    BY <2>1, <1>3
<1> HIDE DEF M, N
<1>5. PICK f : /\ FlattenSeq(P) = f[M] /\ f[1] = P[1]
               /\ \A n \in 1..M : n # 1 => f[n] = f[n - 1] \o P[n]
  BY <1>1, <1>4, FlatIs
<1> DEFINE Good(n) == FirstOf(f[n], a, Start(n + 1, size))
           S == {n \in Nat : n + 1 <= M => Good(n + 1)}
<1>6. Good(1)
  <2>1. 1 \in 1..M /\ Start(1, size) = 0 /\ Start(2, size) = Start(1, size) + size
    <3>1. Start(1, size) = 0 /\ Start(0 + 2, size) = Start(0 + 1, size) + size
      BY <1>1, Starts
    <3> QED
      BY <3>1, <1>1
  <2>2. /\ P[1] \in Seq(Event) /\ Len(P[1]) = OnPage(N, 0, size)
        /\ \A i \in 1..Len(P[1]) : P[1][i] = a[N + 1 - (0 + i)]
    BY <2>1, <1>3
  <2>3. FirstOf(<<>>, a, 0)
    <3>1. UpTo(0, N) = 0 /\ <<>> \in Seq(Event) /\ Len(<<>>) = 0 /\ 1..0 = {}
      BY <1>1 DEF UpTo
    <3> QED
      BY <3>1 DEF FirstOf, N
  <2>4. FirstOf(<<>> \o P[1], a, 0 + size)
    BY <1>1, <2>2, <2>3, NextPage DEF N
  <2>5. <<>> \o P[1] = P[1] /\ 0 + size = Start(2, size)
    BY <2>1, <2>2, <1>1
  <2>6. FirstOf(P[1], a, Start(2, size))
    BY <2>4, <2>5
  <2> QED
    BY <2>6, <1>5
<1>7. ASSUME NEW n \in Nat, n + 2 <= M, Good(n + 1) PROVE Good(n + 2)
  <2> DEFINE m == n + 2
             v == Start(m, size)
  <2>1. m \in 1..M /\ m # 1 /\ m - 1 = n + 1 /\ n + 1 + 1 = m /\ m + 1 = n + 1 + 2 /\ m = n + 1 + 1
    BY <1>1, <1>7
  <2>2. v \in Nat /\ Start(m + 1, size) = v + size
    <3> DEFINE k == n + 1
    <3>1. k \in Nat
      BY <1>7
    <3> HIDE DEF k
    <3>2. Start(k + 1, size) \in Nat /\ Start(k + 2, size) = Start(k + 1, size) + size
      BY <3>1, <1>1, Starts
    <3>3. m = k + 1 /\ m + 1 = k + 2
      BY <2>1 DEF k
    <3> QED
      BY <3>2, <3>3
  <2>3. FirstOf(f[m - 1], a, v)
    BY <1>7, <2>1
  <2>4. f[m] = f[m - 1] \o P[m]
    BY <2>1, <1>5
  <2> HIDE DEF m
  <2>5. /\ P[m] \in Seq(Event) /\ Len(P[m]) = OnPage(N, v, size)
        /\ \A i \in 1..Len(P[m]) : P[m][i] = a[N + 1 - (v + i)]
    BY <2>1, <1>3
  <2> HIDE DEF v
  <2>6. FirstOf(f[m - 1] \o P[m], a, v + size)
    BY <1>1, <2>2, <2>3, <2>5, NextPage DEF N
  <2> QED
    BY <2>2, <2>4, <2>6 DEF m
<1>8. FirstOf(f[M], a, Start(M + 1, size))
  <2>1. 0 \in S
    BY <1>6
  <2>2. ASSUME NEW n \in S PROVE n + 1 \in S
    <3>1. n \in Nat /\ n + 1 + 1 = n + 2
      OBVIOUS
    <3>2. CASE n + 2 <= M
      <4>1. n + 1 <= M
        BY <1>1, <3>1, <3>2
      <4>2. Good(n + 1)
        BY <4>1
      <4>3. Good(n + 2)
        BY <4>2, <1>7, <3>1, <3>2
      <4> HIDE DEF Good
      <4> QED
        BY <4>3, <3>1
    <3>3. CASE ~(n + 2 <= M)
      <4> HIDE DEF Good
      <4> QED
        BY <3>1, <3>3
    <3> QED
      BY <3>2, <3>3
  <2> HIDE DEF Good
  <2>3. S \in SUBSET Nat
    OBVIOUS
  <2> HIDE DEF S
  <2>4. S = Nat
    BY <2>1, <2>2, <2>3, Induction
  <2>5. M - 1 \in Nat /\ M - 1 + 1 = M
    BY <1>1
  <2>6. M - 1 \in S
    BY <2>4, <2>5
  <2>7. Good(M)
    BY <2>5, <2>6, <1>1 DEF S
  <2> QED
    BY <2>7 DEF Good
<1>9. f[M] = Reverse(a)
  <2>1. Start(M + 1, size) \in Nat /\ Start(M + 1, size) >= M
    BY <1>1, Starts
  <2>2. UpTo(Start(M + 1, size), N) = N
    BY <2>1, <1>1 DEF UpTo
  <2> DEFINE x == f[M]
  <2>3. x \in Seq(Event) /\ Len(x) = N /\ \A i \in 1..N : x[i] = a[N + 1 - i]
    BY <1>8, <2>2 DEF FirstOf, N
  <2> HIDE DEF x
  <2>4. Reverse(a) = [i \in 1..N |-> a[N - i + 1]]
    BY DEF Reverse, N
  <2>5. \A i \in 1..N : N - i + 1 = N + 1 - i
    BY <1>1
  <2>6. x = [i \in 1..N |-> x[i]]
    BY <2>3
  <2>7. x = Reverse(a)
    BY <2>3, <2>4, <2>5, <2>6
  <2> QED
    BY <2>7 DEF x
<1>10. \A n \in 1..MaxEvents : ListEvents(events, n, size, filter).total = Len(a)
  BY <1>3 DEF M, N
<1> QED
  BY <1>5, <1>9, <1>10

(* Read one after the other, the pages of the audit log are the log of the *)
(* user asked for, newest event first and each once, whatever was recorded *)
(* and cleared, and every page tells how many events there are.            *)
THEOREM PagesComplete == Spec => []PagesCoverLog
<1>1. LogInv => PagesCoverLog
  <2> SUFFICES ASSUME LogInv PROVE PagesCoverLog
    OBVIOUS
  <2>1. events \in Seq(Event) /\ \A c \in Call : call[c].txn.dels \subseteq Event
    BY DEF LogInv
  <2>2. ASSUME NEW filter \in Optional(Id), NEW size \in 1..MaxEvents
        PROVE  LET asked == Selected(events, {e \in Event : filter = {} \/ e.user \in filter})
                   pages == [n \in 1..MaxEvents |-> ListEvents(events, n, size, filter)]
               IN  /\ FlattenSeq([n \in 1..MaxEvents |-> pages[n].page]) = Reverse(asked)
                   /\ \A n \in 1..MaxEvents : pages[n].total = Len(asked)
    <3> DEFINE asked == Selected(events, {e \in Event : filter = {} \/ e.user \in filter})
               pages == [n \in 1..MaxEvents |-> ListEvents(events, n, size, filter)]
               P == [n \in 1..MaxEvents |-> ListEvents(events, n, size, filter).page]
    <3>1. /\ \A n \in 1..MaxEvents : ListEvents(events, n, size, filter).total = Len(asked)
          /\ FlattenSeq(P) = Reverse(asked)
      <4>1. asked = Selected(events, Asked(filter))
        BY DEF Asked
      <4> HIDE DEF asked
      <4> QED
        BY <4>1, AllPages
    <3>2. [n \in 1..MaxEvents |-> pages[n].page] = P
      OBVIOUS
    <3>3. \A n \in 1..MaxEvents : pages[n].total = Len(asked)
      BY <3>1
    <3> HIDE DEF asked, P
    <3>4. FlattenSeq([n \in 1..MaxEvents |-> pages[n].page]) = Reverse(asked)
      BY <3>1, <3>2
    <3> QED
      BY <3>3, <3>4 DEF asked
  <2> QED
    BY <2>1, <2>2 DEF PagesCoverLog
<1> QED
  BY <1>1, LogInvariant, PTL
=============================================================================
