---------------------------- MODULE AtomicDrive ----------------------------
(***************************************************************************)
(* What a driver that serialises its calls promises: a drive is a set of   *)
(* items, every call changes it in one step or not at all, and nothing     *)
(* else does: no failure, no crash and no reopening.                       *)
(***************************************************************************)
EXTENDS VfsPath, FiniteSets, Functions

CONSTANTS
  Content,   \* contents of files
  Dir,       \* in the place of a content for a directory: not one of them
  Archives   \* item sets that backups hold

VARIABLE items

Item == [id: Id, key: Key, content: Content \cup {Dir}]

(* What the set S of items holds at p, and at or below its subset T. *)
At(S, p) == {i \in S : i.key.path = p}
Below(S, T) ==
  {i \in S : \E t \in T : i = t \/ (t.key.dir /\ IsStrictPrefix(t.key.path, i.key.path))}
HasParent(S, p) == Len(p) = 1 \/ \E i \in At(S, ParentPath(p)) : i.key.dir
Ids(S) == {i.id : i \in S}

(* The calls, as relations between the items S before and N after. *)

Create(S, N, id, p, c) ==
  /\ id \notin Ids(S) /\ At(S, p) = {} /\ HasParent(S, p)
  /\ N = S \cup {[id |-> id, key |-> [path |-> p, dir |-> c = Dir], content |-> c]}

Write(S, N, i, c) == ~i.key.dir /\ N = (S \ {i}) \cup {[i EXCEPT !.content = c]}

Delete(S, N, i) == N = S \ Below(S, {i})

(* rep: the identifier the caller expects to replace. *)
Target(S, dst) == IF At(S, dst) = {} THEN NoUuid ELSE (CHOOSE i \in At(S, dst) : TRUE).id
TransferOK(S, i, dst, rep) ==
  /\ TransferAllowed(i.key, dst) /\ HasParent(S, dst)
  /\ CheckReplacement(Target(S, dst), rep)
Transferred(i, src, dst) == [i EXCEPT !.key.path = Rebase(i.key.path, src.key.path, dst)]

Move(S, N, i, dst, rep) ==
  /\ TransferOK(S, i, dst, rep)
  /\ N = (S \ Below(S, At(S, dst) \cup {i})) \cup {Transferred(j, i, dst) : j \in Below(S, {i})}

Copy(S, N, i, dst, rep) ==
  /\ rep # AnyTarget /\ TransferOK(S, i, dst, rep)
  /\ \E f \in Injection(Below(S, {i}), Id \ Ids(S)) :
       N = (S \ Below(S, At(S, dst)))
           \cup {[Transferred(j, i, dst) EXCEPT !.id = f[j]] : j \in Below(S, {i})}

Change(S, N) ==
  \/ \E id \in Id, p \in Path, c \in Content \cup {Dir} : Create(S, N, id, p, c)
  \/ \E i \in S : \/ \E c \in Content : Write(S, N, i, c)
                  \/ Delete(S, N, i)
                  \/ \E dst \in Path, rep \in Id \cup {NoUuid, AnyTarget} :
                       Move(S, N, i, dst, rep) \/ Copy(S, N, i, dst, rep)
  \/ N \in Archives

Init == items = {}

(* A call that leaves every item as it was is a stuttering step. *)
Next == items' # items /\ \E S \in {items}, N \in {items'} : Change(S, N)

Spec == Init /\ [][Next]_items
=============================================================================
