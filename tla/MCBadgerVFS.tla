---------------------------- MODULE MCBadgerVFS ----------------------------
(***************************************************************************)
(* TLC instance of BadgerVFS: two names at the top level, one child each.  *)
(*                                                                         *)
(* A behaviour starts from a drive that holds the directory /a/            *)
(* (identifier 1) and the file /a/x (identifier 2, content 11), as Mkdir   *)
(* and Create leave it, so that the bounded identifiers are spent on what  *)
(* happens next.  Each behaviour is of one scene, which bounds what its    *)
(* clients do: operations, paths, contents they may draw, and whether a    *)
(* stream is read and deletions of contents may fail.                      *)
(***************************************************************************)
EXTENDS BadgerVFS, TLC

VARIABLE scene

MCPath == {<<"a">>, <<"b">>, <<"a", "x">>, <<"b", "x">>}
CallSymmetry == Permutations(Call)

A  == DirKey(<<"a">>)
AX == FileKey(<<"a", "x">>)

OneDirectory == MCPath \ {<<"b", "x">>}
Scenes ==
  [namespace |-> [ops |-> {"Create", "Delete", "Move"}, paths |-> MCPath,
                  blobs |-> {11, 12}, reads |-> FALSE, fails |-> FALSE],
   calls |-> [ops |-> OpName, paths |-> OneDirectory, blobs |-> {11, 12}, reads |-> FALSE,
             fails |-> FALSE],
   contents |-> [ops |-> {"Create", "Write", "WriteComments", "Delete", "Copy"},
                 paths |-> OneDirectory, blobs |-> {11, 12, 13}, reads |-> FALSE, fails |-> TRUE],
   streams |-> [ops |-> {"Write", "Delete"}, paths |-> OneDirectory,
                blobs |-> {11, 12, 13}, reads |-> TRUE, fails |-> FALSE]]
CONSTANT Play   \* the scenes of the run

MCInit ==
  /\ meta = [k \in Key |-> IF k = A THEN [NoItem EXCEPT !.id = 1]
                           ELSE IF k = AX THEN [id |-> 2, blob |-> 11, size |-> 11] ELSE NoItem]
  /\ index = [i \in Id |-> IF i = 1 THEN A ELSE IF i = 2 THEN AX ELSE NoKey]
  /\ chunk = [b \in Blob |-> IF b = 11 THEN [n \in Seqno |-> 11] ELSE NoChunks]
  /\ used = {1, 2, 11}
  /\ pc = [c \in Call |-> "idle"]
  /\ arg = [c \in Call |-> NoArg]
  /\ txn = [c \in Call |-> NoTxn]
  /\ stale = [c \in Call |-> FALSE]
  /\ trash = [c \in Call |-> {}]
  /\ file = [r \in Reader |-> NoFile]
  /\ orphan = {}
  /\ scene \in Play

InScene ==
  LET s == Scenes[scene] IN
    /\ used' \cap Blob \subseteq s.blobs
    /\ \A c \in Call : /\ arg'[c].op \in s.ops \cup {"none"}
                       /\ \A k \in DOMAIN txn'[c].wm \cup {arg'[c].key} : k = NoKey \/ k.path \in s.paths
    /\ s.reads \/ file' = file
    /\ s.fails \/ orphan' = {}

MCNext == Next /\ InScene /\ UNCHANGED scene
MCSpec == MCInit /\ [][MCNext]_<<vars, scene>>
=============================================================================
