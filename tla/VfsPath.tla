------------------------------ MODULE VfsPath ------------------------------
(***************************************************************************)
(* Paths, storage keys and the transfer rules shared by the drivers.       *)
(*                                                                         *)
(* A path is the sequence of its names, the root is <<>>.  A key is a path *)
(* with the trailing slash of a directory: the code stores "/a" (a file)   *)
(* and "/a/" (a directory) under different keys.                           *)
(***************************************************************************)
EXTENDS Naturals, Sequences, SequencesExt

CONSTANTS
  Path,       \* the non-root paths of the instance (bounds names and depth)
  Id,         \* identifiers of items that uuid.NewV4 may draw (bounds items)
  NoUuid,     \* uuid.Nil
  AnyTarget   \* a transfer called without replaceID

Root == <<>>

(* The path of the directory that holds p. *)
ParentPath(p) == Front(p)

(***************************************************************************)
(* Names are abstract; nothing is a path and the root, an identifier and   *)
(* uuid.Nil at once.  A path is listed with the directories above it.      *)
(***************************************************************************)
ASSUME PathAssumption == /\ Root \notin Path
                         /\ \A p \in Path : p \in Seq({p[i] : i \in DOMAIN p})
                         /\ \A p \in Path : Len(p) = 1 \/ ParentPath(p) \in Path
                         /\ NoUuid \notin Id
                         /\ AnyTarget \notin Id \cup {NoUuid}

Key == [path: Path, dir: BOOLEAN]
NoKey == [path |-> Root, dir |-> FALSE]

FileKey(p) == [path |-> p, dir |-> FALSE]
DirKey(p)  == [path |-> p, dir |-> TRUE]

(* The path below dst that corresponds to the path p at or below src. *)
Rebase(p, src, dst) == dst \o SubSeq(p, Len(src) + 1, Len(p))

(***************************************************************************)
(* TransferPath refuses the root, the source itself, an ancestor of the    *)
(* source and, for a directory, anything inside the source.                *)
(***************************************************************************)
TransferAllowed(src, dst) ==
  /\ dst # Root
  /\ dst # src.path
  /\ ~IsStrictPrefix(dst, src.path)
  /\ ~(src.dir /\ IsStrictPrefix(src.path, dst))

(***************************************************************************)
(* CheckReplacement: rep is the identifier the caller expects at the       *)
(* destination (NoUuid: nothing may be there), target the one found.       *)
(***************************************************************************)
CheckReplacement(target, rep) == rep = AnyTarget \/ rep = target
=============================================================================
