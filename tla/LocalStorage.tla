--------------------------- MODULE LocalStorage ---------------------------
(***************************************************************************)
(* The LocalStorage driver: files in a base directory, their metadata in   *)
(* memory and in an index file, and every change a transaction that stages *)
(* its work in a directory of its own, journals the renames, performs them *)
(* and commits by renaming the new index over the old one.                 *)
(*                                                                         *)
(* Calls hold the driver's write lock, so one runs at a time; what can     *)
(* interleave with its steps is an I/O error or the end of the process.    *)
(* Comments, names and times are abstracted.  A rename and the creation of *)
(* a file are atomic; losing what was not yet synced is not modelled.      *)
(***************************************************************************)
EXTENDS VfsPath, Functions

CONSTANTS
  Content,       \* contents of files
  Size,          \* their sizes: different contents may have the same
  Dir, Torn,     \* what else a disk node may be: a directory, a file cut short
  Archives,      \* sets of items that a backup may hold
  Trimmed,       \* what storagePath makes of a path that a file has: the path, but
                 \* for one whose last name ends in white space, another
  Stray,         \* top-level names where the base directory may hold a file
                 \* that is not the driver's
  InterruptPurge \* whether the removal of the transaction directory that ends
                 \* a rollback may be cut short

TransactionDir == <<".vfs-transaction">>
New == TransactionDir \o <<"new">>
Old == TransactionDir \o <<"old">>

Node == Content \cup {Dir, Torn}
Meta == [id: Id, key: Key, size: {0} \cup Range(Size)]

(* An archive is one that readIndex and validateRestoredFiles accept.  The  *)
(* top level has no name that the entries of the transaction directory have *)
(* (the old-<n> of Load have the name of what they hold here).              *)
ASSUME StorageAssumption ==
  /\ Dir # Torn /\ {Dir, Torn} \cap Content = {}
  /\ Size \in [Content -> Nat]
  /\ DOMAIN Trimmed = Path
  /\ \A A \in Archives :
       /\ IsFiniteSet(A) /\ A \subseteq [id: Id, key: Key, content: Content \cup {Dir}]
       /\ \A i \in A : /\ i.content = Dir <=> i.key.dir
                       /\ i.key.dir \/ Trimmed[i.key.path] = i.key.path
                       /\ Len(i.key.path) = 1 \/ \E j \in A : j.key = DirKey(ParentPath(i.key.path))
       /\ \A i, j \in A : i # j => i.id # j.id /\ i.key.path # j.key.path
  /\ \A s \in {p[1] : p \in Path} \cup Stray : s \notin {TransactionDir[1], "new"}

VARIABLES
  tree,       \* the base directory: the node at each path that exists
  indexFile,  \* .vfs_index.json: a set of Meta
  txnIndex,   \* .vfs-transaction/index
  journal,    \* .vfs-transaction/journal
  idMap,      \* memory: Meta by identifier
  pathMap,    \* memory: Meta by key
  pc,         \* control point of the driver
  plan,       \* the running call: what it stages, renames and records
  at,         \* position in the list of renames
  opening     \* recovery runs for New, not for a call

disk == <<tree, indexFile, txnIndex, journal>>
memory == <<idMap, pathMap>>
vars == <<disk, memory, pc, plan, at, opening>>

NoIndex == [here |-> FALSE, metas |-> {}]
NoJournal == [here |-> FALSE, moves |-> <<>>]
NoMetas == [x \in {} |-> NoUuid]
NoPlan == [staged |-> NoMetas, absent |-> {}, moves |-> <<>>, ids |-> NoMetas,
           paths |-> NoMetas, oldIds |-> NoMetas, oldPaths |-> NoMetas]

Init ==
  /\ tree \in {NoMetas} \cup {[p \in {<<s>>} |-> Torn] : s \in Stray}
  /\ indexFile = {} /\ txnIndex = NoIndex /\ journal = NoJournal
  /\ idMap = NoMetas /\ pathMap = NoMetas
  /\ pc = "closed" /\ plan = NoPlan /\ at = 0 /\ opening = FALSE
-----------------------------------------------------------------------------
(* The file system.  (Variants like KeepMaps, defined before the operator  *)
(* they vary, are wrong on purpose: the runs detect them.)                 *)

Inside(t, p) == {q \in DOMAIN t : IsPrefix(p, q)}
RemoveAll(t, p) == Restrict(t, DOMAIN t \ Inside(t, p))
Put(t, p, sub) == [q \in DOMAIN t \cup {p \o r : r \in DOMAIN sub} |->
                     IF IsPrefix(p, q) /\ SubSeq(q, Len(p) + 1, Len(q)) \in DOMAIN sub
                       THEN sub[SubSeq(q, Len(p) + 1, Len(q))] ELSE t[q]]
SubtreeAt(t, p) == [r \in {SubSeq(q, Len(p) + 1, Len(q)) : q \in Inside(t, p)} |-> t[p \o r]]

(* rename(2) replaces a file by a file; the directory of the new name must be there. *)
CanRename(t, from, to) ==
  /\ from \in DOMAIN t
  /\ Len(to) = 1 \/ ParentPath(to) \in DOMAIN t
  /\ to \in DOMAIN t => t[to] # Dir /\ t[from] # Dir
Rename(t, from, to) == Put(RemoveAll(RemoveAll(t, to), from), to, SubtreeAt(t, from))

TopLevel(t) == {p \in DOMAIN t : Len(p) = 1 /\ p # TransactionDir}
-----------------------------------------------------------------------------
(* Lookups in memory. *)

(* statPath: the file of that path or the directory. *)
StatPath(p) == IF FileKey(p) \in DOMAIN pathMap THEN FileKey(p)
               ELSE IF DirKey(p) \in DOMAIN pathMap THEN DirKey(p) ELSE NoKey
CheckParent(p) == Len(p) = 1 \/ StatPath(ParentPath(p)) = DirKey(ParentPath(p))

(* The identifiers of m and, when m is a directory, of all below it. *)
Covered(m) == {i \in DOMAIN idMap : \/ i = m.id
                                    \/ m.key.dir /\ IsPrefix(m.key.path, idMap[i].key.path)}
KeysOf(I) == {idMap[i].key : i \in I}

Without(f, S) == Restrict(f, DOMAIN f \ S)
With(f, g) == [x \in DOMAIN f \cup DOMAIN g |-> IF x \in DOMAIN g THEN g[x] ELSE f[x]]
Only(x, v) == [y \in {x} |-> v]

(* uuid.NewV4: an identifier no item has.  An identifier of a removed item  *)
(* may come back, which real ones do not; nothing here remembers them.      *)
NewV4(S) == CHOOSE f \in Injection(S, Id \ DOMAIN idMap) : TRUE
CanDraw(S) == Injection(S, Id \ DOMAIN idMap) # {}
-----------------------------------------------------------------------------
(* Transactions: Mkdir of the transaction directory, then plan. *)

Start(staged, absent, moves, ids, paths) ==
  /\ TransactionDir \notin DOMAIN tree
  /\ tree' = With(tree, Only(TransactionDir, Dir))
  /\ plan' = [staged |-> staged, absent |-> absent, moves |-> moves, ids |-> ids,
              paths |-> paths, oldIds |-> idMap, oldPaths |-> pathMap]
  /\ pc' = "stage"
  /\ UNCHANGED <<indexFile, txnIndex, journal, memory, at, opening>>

Renaming(from, to) == [from |-> from, to |-> to]

(* A new item: its place is free and has a parent.  storagePath trims before *)
(* it cleans: "/a /" becomes the path "/a " of a file, but statPath, which    *)
(* goes through storagePath again, looks for "/a".                            *)
LookedUp(k) == IF k.dir THEN k.path ELSE Trimmed[k.path]
NewItem(k, node) ==
  /\ StatPath(LookedUp(k)) = NoKey /\ CheckParent(k.path)
  /\ CanDraw({k})
  /\ LET m == [id |-> NewV4({k})[k], key |-> k, size |-> IF k.dir THEN 0 ELSE Size[node]] IN
       Start(Only(<<>>, node), {k.path}, <<Renaming(New, k.path)>>,
             With(idMap, Only(m.id, m)), With(pathMap, Only(k, m)))

Create(p, content) == pc = "ready" /\ NewItem(FileKey(p), content)
Mkdir(p) == pc = "ready" /\ NewItem(DirKey(p), Dir)

Write(id, content) ==
  /\ pc = "ready"
  /\ id \in DOMAIN idMap /\ ~idMap[id].key.dir
  /\ LET m == [idMap[id] EXCEPT !.size = Size[content]] IN
       Start(Only(<<>>, content), {},
             <<Renaming(m.key.path, Old), Renaming(New, m.key.path)>>,
             With(idMap, Only(id, m)), With(pathMap, Only(m.key, m)))

WriteComments(id) ==
  /\ pc = "ready"
  /\ id \in DOMAIN idMap
  /\ Start(NoMetas, {}, <<>>, idMap, pathMap)

Delete(id) ==
  /\ pc = "ready"
  /\ id \in DOMAIN idMap
  /\ LET gone == Covered(idMap[id]) IN
       Start(NoMetas, {}, <<Renaming(idMap[id].key.path, Old)>>,
             Without(idMap, gone), Without(pathMap, KeysOf(gone)))

(* transferMetadata: the replaced items leave both maps, then every item of *)
(* the source is entered under its new path, under a new identifier when it *)
(* is a copy; a moved item leaves its old path.                             *)
TransferIds(items, gone, newId, src, dst) ==
  LET Moved(i) == [idMap[i] EXCEPT !.id = newId[i],
                                   !.key.path = Rebase(idMap[i].key.path, src.key.path, dst)]
  IN With(Without(idMap, gone), [j \in {newId[i] : i \in items} |->
                                   Moved(CHOOSE i \in items : newId[i] = j)])
TransferPaths(items, gone, newId, src, dst) ==
  LET ids == TransferIds(items, gone, newId, src, dst)
      new == {newId[i] : i \in items}
      left == IF \A i \in items : newId[i] = i THEN KeysOf(items) ELSE {}
  IN With(Without(pathMap, KeysOf(gone) \cup left),
          [k \in {ids[j].key : j \in new} |-> ids[CHOOSE j \in new : ids[j].key = k]])

(* TransferPath trims what storagePath has cleaned. *)
TransferOK(id, dst, rep) ==
  /\ id \in DOMAIN idMap
  /\ Trimmed[dst] = dst
  /\ TransferAllowed(idMap[id].key, dst)
  /\ CheckParent(dst)
  /\ CheckReplacement(IF StatPath(dst) = NoKey THEN NoUuid ELSE pathMap[StatPath(dst)].id, rep)
  /\ \A i \in Covered(idMap[id]) : Rebase(idMap[i].key.path, idMap[id].key.path, dst) \in Path

Transfer(id, dst, rep, copyItem, newId) ==
  LET src == idMap[id]
      items == Covered(src)
      exists == StatPath(dst) # NoKey
      gone == IF exists THEN Covered(pathMap[StatPath(dst)]) ELSE {}
  IN Start(IF copyItem THEN SubtreeAt(tree, src.key.path) ELSE NoMetas,
           IF exists THEN {} ELSE {dst},
           (IF exists THEN <<Renaming(dst, Old)>> ELSE <<>>)
             \o <<Renaming(IF copyItem THEN New ELSE src.key.path, dst)>>,
           TransferIds(items, gone, newId, src, dst),
           TransferPaths(items, gone, newId, src, dst))

Move(id, dst, rep) ==
  /\ pc = "ready"
  /\ TransferOK(id, dst, rep)
  /\ Transfer(id, dst, rep, FALSE, [i \in DOMAIN idMap |-> i])

Copy(id, dst, rep) ==
  /\ pc = "ready"
  /\ rep # AnyTarget /\ TransferOK(id, dst, rep)
  /\ CanDraw(Covered(idMap[id]))
  /\ Transfer(id, dst, rep, TRUE, NewV4(Covered(idMap[id])))

(* Load: the archive is unpacked, every entry of the base directory leaves  *)
(* (each to a name of its own) and the unpacked entries take their places.  *)
Load(A) ==
  /\ pc = "ready"
  /\ LET nodes == [p \in {<<>>} \cup {i.key.path : i \in A} |->
                     IF p = <<>> THEN Dir ELSE (CHOOSE i \in A : i.key.path = p).content]
         next == {p \in DOMAIN nodes : Len(p) = 1}
         metas == {[id |-> i.id, key |-> i.key,
                    size |-> IF i.key.dir THEN 0 ELSE Size[i.content]] : i \in A}
     IN \E out \in SetToSeqs(TopLevel(tree)), in \in SetToSeqs(next) :
          Start(nodes, {},
                [n \in DOMAIN out |-> Renaming(out[n], TransactionDir \o out[n])]
                  \o [n \in DOMAIN in |-> Renaming(New \o in[n], in[n])],
                [x \in {m.id : m \in metas} |-> CHOOSE m \in metas : m.id = x],
                [k \in {m.key : m \in metas} |-> CHOOSE m \in metas : m.key = k])
-----------------------------------------------------------------------------
(* The steps of a transaction. *)

(* An error before the commit: the maps go back, recovery follows. *)
KeepMaps == UNCHANGED memory
RestoreMaps == idMap' = plan.oldIds /\ pathMap' = plan.oldPaths
Abort == pc' = "recover" /\ RestoreMaps

(* The work is staged and the maps updated; a file of somebody else's at    *)
(* the new path fails the call, and so does the source of the content.      *)
SkipDestinationCheck == TRUE
DestinationFree == plan.absent \cap DOMAIN tree = {}
Stage ==
  /\ pc = "stage"
  /\ IF DestinationFree
       THEN /\ tree' = Put(tree, New, plan.staged)
            /\ idMap' = plan.ids /\ pathMap' = plan.paths
            /\ pc' = "index"
       ELSE Abort /\ UNCHANGED tree
  /\ UNCHANGED <<indexFile, txnIndex, journal, plan, at, opening>>

StageFails ==
  /\ pc = "stage"
  /\ plan.staged # NoMetas
  /\ tree' = With(tree, Only(New, Torn))
  /\ Abort
  /\ UNCHANGED <<indexFile, txnIndex, journal, plan, at, opening>>

WriteIndex ==
  /\ pc = "index"
  /\ txnIndex' = [here |-> TRUE, metas |-> Range(idMap)]
  /\ pc' = "journal"
  /\ UNCHANGED <<tree, indexFile, journal, memory, plan, at, opening>>

(* journal.new is renamed to journal once it is complete. *)
WriteJournal ==
  /\ pc = "journal"
  /\ journal' = [here |-> TRUE, moves |-> plan.moves]
  /\ pc' = "move" /\ at' = 1
  /\ UNCHANGED <<tree, indexFile, txnIndex, memory, plan, opening>>

DiskMove ==
  /\ pc = "move" /\ at <= Len(plan.moves)
  /\ LET m == plan.moves[at] IN
       IF CanRename(tree, m.from, m.to)
         THEN /\ tree' = Rename(tree, m.from, m.to)
              /\ at' = at + 1
              /\ UNCHANGED <<memory, pc>>
         ELSE Abort /\ UNCHANGED <<tree, at>>
  /\ UNCHANGED <<indexFile, txnIndex, journal, plan, opening>>

CommitBeforeMoves ==
  /\ pc = "move"
  /\ indexFile' = txnIndex.metas /\ txnIndex' = NoIndex
  /\ pc' = "recover"
  /\ UNCHANGED <<tree, journal, memory, plan, at, opening>>
CommitIndex ==
  /\ pc = "move" /\ at > Len(plan.moves)
  /\ indexFile' = txnIndex.metas /\ txnIndex' = NoIndex
  /\ pc' = "recover"
  /\ UNCHANGED <<tree, journal, memory, plan, at, opening>>

IOError ==
  /\ pc \in {"stage", "index", "journal", "move"}
  /\ Abort
  /\ UNCHANGED <<disk, plan, at, opening>>
-----------------------------------------------------------------------------
(* recoverTransaction, run at the end of every transaction and by New. *)

Recover ==
  /\ pc = "recover"
  /\ IF journal.here /\ txnIndex.here
       THEN pc' = "undo" /\ at' = Len(journal.moves)
       ELSE pc' = "clean" /\ at' = 0
  /\ UNCHANGED <<disk, memory, plan, opening>>

RecoveryFails ==
  /\ pc \in {"recover", "undo", "clean"} \/ (pc = "purge" /\ InterruptPurge)
  /\ pc' = IF opening THEN "closed" ELSE "failed"
  /\ plan' = NoPlan /\ at' = 0 /\ opening' = FALSE
  /\ UNCHANGED <<disk, memory>>

(* A rename is undone when its source is gone and its destination there. *)
UndoAlways(m, t) == IF m.to \notin DOMAIN t THEN t ELSE Rename(t, m.to, m.from)
UndoIfDone(m, t) ==
  IF m.from \in DOMAIN t \/ m.to \notin DOMAIN t THEN t ELSE Rename(t, m.to, m.from)
CanUndo(m, t) == m.from \in DOMAIN t \/ m.to \notin DOMAIN t \/ CanRename(t, m.to, m.from)

Undo ==
  /\ pc = "undo" /\ at > 0
  /\ CanUndo(journal.moves[at], tree)
  /\ tree' = UndoIfDone(journal.moves[at], tree)
  /\ at' = at - 1
  /\ UNCHANGED <<indexFile, txnIndex, journal, memory, pc, plan, opening>>

Undone ==
  /\ pc = "undo" /\ at = 0
  /\ pc' = "purge"
  /\ UNCHANGED <<disk, memory, plan, at, opening>>

(* RemoveAll of the transaction directory, entry by entry in any order. *)
Leaf(p) == Inside(tree, p) = {p}
RemoveEntry ==
  /\ pc \in {"clean", "purge"}
  /\ \/ /\ \E p \in Inside(tree, TransactionDir) \ {TransactionDir} :
             Leaf(p) /\ tree' = RemoveAll(tree, p)
        /\ UNCHANGED <<txnIndex, journal>>
     \/ txnIndex.here /\ txnIndex' = NoIndex /\ UNCHANGED <<tree, journal>>
     \/ journal.here /\ journal' = NoJournal /\ UNCHANGED <<tree, txnIndex>>
  /\ UNCHANGED <<indexFile, memory, pc, plan, at, opening>>

(* The directory itself goes last and the call, or New, continues. *)
RemovedEntriesOnly ==
  /\ pc \in {"clean", "purge"}
  /\ Inside(tree, TransactionDir) \subseteq {TransactionDir}
  /\ ~txnIndex.here /\ ~journal.here
  /\ pc' = IF opening THEN "load" ELSE "ready"
  /\ plan' = NoPlan /\ at' = 0
  /\ UNCHANGED <<disk, memory, opening>>
Removed ==
  /\ pc \in {"clean", "purge"}
  /\ Inside(tree, TransactionDir) \subseteq {TransactionDir}
  /\ ~txnIndex.here /\ ~journal.here
  /\ tree' = RemoveAll(tree, TransactionDir)
  /\ pc' = IF opening THEN "load" ELSE "ready"
  /\ plan' = NoPlan /\ at' = 0
  /\ UNCHANGED <<indexFile, txnIndex, journal, memory, opening>>
-----------------------------------------------------------------------------
(* Opening and closing. *)

Reopen ==
  /\ pc = "closed"
  /\ pc' = "recover" /\ opening' = TRUE
  /\ UNCHANGED <<disk, memory, plan, at>>

(* readIndex and checkIndexedFiles: New refuses an index that is not well   *)
(* formed or holds a path that storagePath would change, and a file that    *)
(* does not have the recorded size.                                         *)
WellFormed(metas) ==
  \A m \in metas :
    /\ \A n \in metas : n = m \/ (n.id # m.id /\ n.key.path # m.key.path)
    /\ Len(m.key.path) = 1 \/ \E n \in metas : n.key = DirKey(ParentPath(m.key.path))
IndexReadable(metas) == WellFormed(metas) /\ \A m \in metas : LookedUp(m.key) = m.key.path
FilesMatch(metas, t) ==
  \A m \in metas :
    /\ m.key.path \in DOMAIN t
    /\ (t[m.key.path] = Dir) = m.key.dir
    /\ ~m.key.dir => t[m.key.path] \in Content /\ Size[t[m.key.path]] = m.size

LoadIndex ==
  /\ pc = "load"
  /\ IF IndexReadable(indexFile) /\ FilesMatch(indexFile, tree)
       THEN /\ idMap' = [i \in {m.id : m \in indexFile} |-> CHOOSE m \in indexFile : m.id = i]
            /\ pathMap' = [k \in {m.key : m \in indexFile} |-> CHOOSE m \in indexFile : m.key = k]
            /\ pc' = "ready"
       ELSE UNCHANGED memory /\ pc' = "closed"
  /\ opening' = FALSE
  /\ UNCHANGED <<disk, plan, at>>

(* Close writes the index of the maps over the old one. *)
SaveIndex == indexFile' = Range(idMap)
Close ==
  /\ pc = "ready"
  /\ SaveIndex
  /\ pc' = "closed" /\ idMap' = NoMetas /\ pathMap' = NoMetas
  /\ UNCHANGED <<tree, txnIndex, journal, plan, at, opening>>

(* The process ends, at any point. *)
Crash ==
  /\ pc # "closed" /\ (pc = "purge" => InterruptPurge)
  /\ pc' = "closed" /\ idMap' = NoMetas /\ pathMap' = NoMetas
  /\ plan' = NoPlan /\ at' = 0 /\ opening' = FALSE
  /\ UNCHANGED disk

Call ==
  \/ \E p \in Path : Mkdir(p) \/ \E c \in Content : Create(p, c)
  \/ \E id \in Id : (\E c \in Content : Write(id, c)) \/ WriteComments(id) \/ Delete(id)
  \/ \E id \in Id, dst \in Path, rep \in Id \cup {NoUuid, AnyTarget} :
       Move(id, dst, rep) \/ Copy(id, dst, rep)
  \/ \E A \in Archives : Load(A)

Next ==
  \/ Call
  \/ Stage \/ StageFails \/ WriteIndex \/ WriteJournal \/ DiskMove \/ CommitIndex \/ IOError
  \/ Recover \/ RecoveryFails \/ Undo \/ Undone \/ RemoveEntry \/ Removed
  \/ Reopen \/ LoadIndex \/ Close \/ Crash

Spec == Init /\ [][Next]_vars
-----------------------------------------------------------------------------
(* Properties. *)

(* Every variable keeps its shape, and the maps hold what their keys say.  *)
TypeOK ==
  /\ \A p \in DOMAIN tree : tree[p] \in Node /\ (Len(p) = 1 \/ ParentPath(p) \in DOMAIN tree)
  /\ indexFile \subseteq Meta /\ txnIndex.metas \subseteq Meta
  /\ \A i \in DOMAIN idMap : idMap[i] \in Meta /\ idMap[i].id = i
  /\ \A k \in DOMAIN pathMap : pathMap[k] \in Meta /\ pathMap[k].key = k
  /\ pc \in {"closed", "recover", "undo", "clean", "purge", "load", "ready", "failed",
            "stage", "index", "journal", "move"}
  /\ at \in 0..(Len(plan.moves) + Len(journal.moves) + 1)
  /\ opening \in BOOLEAN

(* Between calls the two maps agree with each other and with the index on  *)
(* disk, also after a call that failed half way; all is well typed.        *)
MemoryMatchesDisk ==
  /\ TypeOK
  /\ pc = "ready" => /\ Range(idMap) = indexFile
                     /\ Range(pathMap) = indexFile /\ DOMAIN pathMap = KeysOf(DOMAIN idMap)

(* New accepts every drive this driver left behind, whenever it stopped,   *)
(* unless it left a file whose path storagePath would change: that file    *)
(* alone makes New refuse, not an index or a file left half done.          *)
ReopenSucceeds ==
  pc = "load" =>
    /\ WellFormed(indexFile) /\ FilesMatch(indexFile, tree)
    /\ \/ IndexReadable(indexFile)
       \/ \E m \in indexFile : ~m.key.dir /\ Trimmed[m.key.path] # m.key.path

(* A transaction never renames onto something that is there: neither an    *)
(* item's file nor a file of somebody else.                                *)
NothingOverwritten ==
  pc = "move" /\ at <= Len(plan.moves) => plan.moves[at].to \notin DOMAIN tree

(* A transaction always finds its directory free, so no call is refused    *)
(* for an unfinished transaction.                                          *)
NoLeftovers == pc = "ready" => TransactionDir \notin DOMAIN tree

(* The tree as the next recovery will leave it (a set with one element),   *)
(* and the drive seen as items.                                            *)
Recovered ==
  LET moves == IF journal.here /\ txnIndex.here /\ pc # "purge" THEN journal.moves ELSE <<>>
      undone[n \in 0..Len(moves)] ==
        IF n = 0 THEN {tree} ELSE {UndoIfDone(moves[Len(moves) + 1 - n], t) : t \in undone[n - 1]}
  IN undone[Len(moves)]
ItemsOf(metas, t) ==
  {[id |-> m.id, key |-> m.key,
    content |-> IF m.key.path \in DOMAIN t THEN t[m.key.path] ELSE Torn] : m \in metas}
Drive == INSTANCE AtomicDrive
           WITH items <- UNION {ItemsOf(indexFile, t) : t \in Recovered}

(* Each call changes the items, metadata and contents together, in one     *)
(* step or not at all, and I/O errors, crashes and reopening change none.  *)
Contract == Drive!Spec
=============================================================================
