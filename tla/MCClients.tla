----------------------------- MODULE MCClients -----------------------------
(***************************************************************************)
(* TLC instance of Clients.  The drive is empty; beside a tool it may hold *)
(* the directory /a, beside the browser the file /a and the directory /b,  *)
(* which a Move may put in its place.  Two of the clients are active.      *)
(***************************************************************************)
EXTENDS Clients

CONSTANTS t1, t2, c1, c2, b1, x1, x2

MCPath == {<<"a">>, <<"a", "x">>, <<"b">>}
MCSize == [x \in Content |-> IF x = x1 THEN 1 ELSE 2]

File(id, p) == [id |-> id, key |-> FileKey(p), content |-> x1]
Directory(id, p) == [id |-> id, key |-> DirKey(p), content |-> Dir]
Drives == {{}, {Directory(1, <<"a">>)}}
Both == {File(1, <<"a">>), Directory(2, <<"b">>)}
Scenarios ==
  ({{t1, t2}, {t1, c1}} \X Drives) \cup ({{c1, c2}} \X {{}}) \cup ({{c1, b1}, {t1, b1}} \X {Both})

MCInit ==
  /\ \E s \in Scenarios : LET active == s[1] IN
       /\ items = s[2] /\ Tree(items)
       /\ drawn = Drive!Ids(items) /\ requests = {}
       /\ stream = [open |-> active \cap Tool # {}, queue |-> <<>>]
       /\ effects = {} /\ seen = {i.key : i \in items} /\ disturbed = FALSE
       /\ tool = [t \in Tool |->
            [pc |-> IF t \in active THEN "idle" ELSE "out", op |-> "none", path |-> Root,
             content |-> Dir, id |-> NoUuid, ok |-> FALSE]]
       /\ mutationMu = Nobody /\ uncertain = FALSE
       /\ cmd = [c \in Command |->
            [pc |-> IF c \in active THEN "idle" ELSE "out", kind |-> "none", plan |-> <<>>,
             n |-> 1, recursive |-> FALSE, id |-> NoUuid, todo |-> {},
             read |-> NoFile, size |-> 0]]
       /\ local = [c \in Command |-> {}]
       /\ browsed = Browser \ active

MCSpec == MCInit /\ [][Next]_vars /\ Fairness
=============================================================================
