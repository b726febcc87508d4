----------------------------- MODULE BadgerVFS -----------------------------
(***************************************************************************)
(* The Badger driver: a namespace of metadata, an identifier index and     *)
(* chunked contents in one key-value store, changed by concurrent calls.   *)
(*                                                                         *)
(* Every call holds the driver's read lock, so calls interleave freely.    *)
(* Metadata changes are Badger transactions: reads come from the snapshot  *)
(* taken at the beginning, writes are applied together at the commit, and  *)
(* the commit fails when a key the transaction read was written since.     *)
(* Keys a scan did not find are not read keys.  Contents are written and   *)
(* deleted outside those transactions, chunk by chunk.                     *)
(***************************************************************************)
EXTENDS VfsPath, Functions

CONSTANTS
  Blob,       \* identifiers of contents that uuid.NewV4 may draw (bounds writes)
  Call,       \* concurrent driver calls
  Reader,     \* open file streams
  Ops,        \* operations the instance's clients use
  NChunk,     \* chunks of every content
  ChunkSize,  \* bytes of a full chunk
  Length      \* bytes of a content; its last chunk may be short

OpName == {"Create", "Write", "WriteComments", "Delete", "Mkdir", "Move", "Copy"}

ASSUME BadgerAssumption == /\ Blob \cap Id = {} /\ NoUuid \notin Blob
                           /\ Ops \subseteq OpName
                           /\ NChunk \in Nat \ {0} /\ ChunkSize \in Nat \ {0} /\ Length \in Nat
                           /\ (NChunk - 1) * ChunkSize < Length /\ Length <= NChunk * ChunkSize

VARIABLES
  meta,      \* meta:{path}: the item stored under each key
  index,     \* index:{id}: the key of each identifier
  chunk,     \* blob:{id}{seq}: the version of the content in each chunk
  used,      \* the identifiers drawn so far
  pc, arg,   \* control point and arguments of each call
  txn,       \* its open transaction: keys read, planned writes
  stale,     \* whether a key it read was written since its snapshot
  trash,     \* contents it still has to delete
  file,      \* the open streams
  orphan     \* contents whose deletion failed (no part of the code)

store == <<meta, index, chunk>>
calls == <<pc, arg, txn, stale, trash>>
vars == <<meta, index, chunk, used, pc, arg, txn, stale, trash, file, orphan>>

(***************************************************************************)
(* An item: its identifier, the content it points to (InternalID) and the  *)
(* version of the content its size describes.  Comments, names and times   *)
(* are abstracted.                                                         *)
(***************************************************************************)
NoItem == [id |-> NoUuid, blob |-> NoUuid, size |-> NoUuid]

Seqno == 1..NChunk
NoChunks == [n \in Seqno |-> NoUuid]

NoArg == [op |-> "none", id |-> NoUuid, blob |-> NoUuid, key |-> NoKey, rep |-> NoUuid]
Empty == [x \in {} |-> NoItem]

(***************************************************************************)
(* A stream: the content and size it was opened on, its position, what the *)
(* Read in progress still has to fill, the chunk it keeps (its version and *)
(* number) and the last bytes it delivered (their version and the position *)
(* in the content after them).                                             *)
(***************************************************************************)
Nothing == [version |-> NoUuid, at |-> 0]
NoFile == [open |-> FALSE, blob |-> NoUuid, size |-> NoUuid, pos |-> 0, want |-> 0,
           cached |-> Nothing, got |-> Nothing]
NoTxn == [rm |-> Empty, ri |-> {}, wm |-> Empty, wi |-> Empty, del |-> {}, copies |-> {}]

Init ==
  /\ meta = [k \in Key |-> NoItem]
  /\ index = [i \in Id |-> NoKey]
  /\ chunk = [b \in Blob |-> NoChunks]
  /\ used = {}
  /\ pc = [c \in Call |-> "idle"]
  /\ arg = [c \in Call |-> NoArg]
  /\ txn = [c \in Call |-> NoTxn]
  /\ stale = [c \in Call |-> FALSE]
  /\ trash = [c \in Call |-> {}]
  /\ file = [r \in Reader |-> NoFile]
  /\ orphan = {}
-----------------------------------------------------------------------------
(* Lookups on the current store; a transaction uses them at its snapshot. *)

Exists(k) == k # NoKey /\ meta[k] # NoItem

(* findMetaItemByID: the key the index gives for id, if an item is there. *)
FindMetaItemByID(id) == IF Exists(index[id]) THEN index[id] ELSE NoKey

(* findByPath tries the file key, then the directory key. *)
FindByPath(p) ==
  IF Exists(FileKey(p)) THEN FileKey(p)
  ELSE IF Exists(DirKey(p)) THEN DirKey(p) ELSE NoKey

(* The keys findByPath reads: a key found absent is read too.  (Variants   *)
(* like FindReadsHitOnly, defined before the operator they vary, are wrong  *)
(* on purpose: the runs detect them.)                                       *)
FindReadsHitOnly(p) == {k \in {FileKey(p), DirKey(p)} : Exists(k)}
FindReads(p) == {FileKey(p)} \cup IF Exists(FileKey(p)) THEN {} ELSE {DirKey(p)}

(* transferItems, and the scan of Delete: the item and all below it. *)
TransferItems(k) ==
  {k} \cup {j \in Key : k.dir /\ Exists(j) /\ IsStrictPrefix(k.path, j.path)}

(* Create and Mkdir require the parent directory, except under the root. *)
ParentReads(k) == IF Len(k.path) = 1 THEN {} ELSE {DirKey(ParentPath(k.path))}
ParentExists(k) == \A p \in ParentReads(k) : Exists(p)

Files(S) == {k \in S : ~k.dir}
IdsOf(S) == {meta[k].id : k \in S}
BlobsOf(S) == {meta[k].blob : k \in Files(S)}

(* deleteItems: index and metadata of every item, contents of the files. *)
ErasedMeta(S) == [k \in S |-> NoItem]
ErasedIndex(S) == [i \in IdsOf(S) |-> NoKey]

(* uuid.NewV4 for every element of S: identifiers never drawn before. *)
CanDraw(S, pool) == Injection(S, pool \ used) # {}
NewV4(S, pool) == CHOOSE f \in Injection(S, pool \ used) : TRUE
-----------------------------------------------------------------------------
(* The body of each transaction: what it reads, checks and writes.  A set  *)
(* of writes is a function on the keys written; Only writes one key, and   *)
(* Before lets the writes f win over g.                                    *)
Only(x, v) == [y \in {x} |-> v]
Before(f, g) == [x \in DOMAIN f \cup DOMAIN g |-> IF x \in DOMAIN f THEN f[x] ELSE g[x]]

CreateOK(k) == ParentExists(k) /\ ~Exists(k)
CreateTxn(k, item) ==
  [NoTxn EXCEPT !.rm = Restrict(meta, ParentReads(k) \cup {k}),
                !.wm = Only(k, item),
                !.wi = Only(item.id, k)]

(* Write swaps the content in place of the old one; WriteComments keeps it. *)
WriteOK(id) == LET k == FindMetaItemByID(id) IN k # NoKey /\ ~k.dir
UpdateTxn(id, blob, size) ==
  LET k == FindMetaItemByID(id) IN
    [NoTxn EXCEPT !.rm = Restrict(meta, {k}),
                  !.ri = {id},
                  !.wm = Only(k, [meta[k] EXCEPT !.blob = blob, !.size = size])]

DeleteTxn(id) ==
  LET S == TransferItems(FindMetaItemByID(id)) IN
    [NoTxn EXCEPT !.rm = Restrict(meta, S),
                  !.ri = {id},
                  !.wm = ErasedMeta(S),
                  !.wi = ErasedIndex(S),
                  !.del = BlobsOf(S)]

(* prepareTransfer: the items at the destination that the transfer removes. *)
TargetId(p) == IF FindByPath(p) = NoKey THEN NoUuid ELSE meta[FindByPath(p)].id
Replaced(p) == IF FindByPath(p) = NoKey THEN {} ELSE TransferItems(FindByPath(p))

(* The key below dst that the item under key k gets. *)
DestKeyWithoutSlash(k, src, dst) == FileKey(Rebase(k.path, src.path, dst))
DestKey(k, src, dst) == [path |-> Rebase(k.path, src.path, dst), dir |-> k.dir]
DestKeys(src, dst) == {DestKey(k, src, dst) : k \in TransferItems(src)}
Origin(k, src, dst) == CHOOSE o \in TransferItems(src) : DestKey(o, src, dst) = k

(* DestKeys(src, dst) \subseteq Key bounds the depth of the instance. *)
TransferOK(id, dst, rep) ==
  LET src == FindMetaItemByID(id) IN
    /\ src # NoKey
    /\ TransferAllowed(src, dst)
    /\ CheckReplacement(TargetId(dst), rep)
    /\ DestKeys(src, dst) \subseteq Key

TransferReads(src, dst) == FindReads(dst) \cup Replaced(dst) \cup TransferItems(src)

(* moveItem and moveChildren after prepareTransfer. *)
MoveTxn(id, dst) ==
  LET src == FindMetaItemByID(id)
      items == TransferItems(src)
      KeyOf(i) == CHOOSE k \in items : meta[k].id = i
  IN [NoTxn EXCEPT
        !.rm = Restrict(meta, TransferReads(src, dst)),
        !.ri = {id},
        !.wm = Before([k \in DestKeys(src, dst) |-> meta[Origin(k, src, dst)]],
                      ErasedMeta(items \cup Replaced(dst))),
        !.wi = Before([i \in IdsOf(items) |-> DestKey(KeyOf(i), src, dst)],
                      ErasedIndex(Replaced(dst))),
        !.del = BlobsOf(Replaced(dst))]

(* Copy draws an identifier per item and a content per file. *)
CopyTxn(id, dst, newId, newBlob) ==
  LET src == FindMetaItemByID(id)
      items == TransferItems(src)
      Copied(o) == [meta[o] EXCEPT !.id = newId[o], !.blob = IF o.dir THEN NoUuid ELSE newBlob[o]]
      ItemOf(i) == CHOOSE o \in items : newId[o] = i
  IN [NoTxn EXCEPT
        !.rm = Restrict(meta, TransferReads(src, dst)),
        !.ri = {id},
        !.wm = Before([k \in DestKeys(src, dst) |-> Copied(Origin(k, src, dst))],
                      ErasedMeta(Replaced(dst))),
        !.wi = Before([i \in Range(newId) |-> DestKey(ItemOf(i), src, dst)],
                      ErasedIndex(Replaced(dst))),
        !.del = BlobsOf(Replaced(dst)),
        !.copies = {<<meta[o].blob, newBlob[o]>> : o \in Files(items)}]
-----------------------------------------------------------------------------
(* Steps common to the calls. *)

InTxn(c) == pc[c] \in {"copy", "commit"}
FreshBlobs(c) == ({arg[c].blob} \cup {p[2] : p \in txn[c].copies}) \ {NoUuid}

Finish(c) ==
  /\ pc' = [pc EXCEPT ![c] = "idle"]
  /\ arg' = [arg EXCEPT ![c] = NoArg]
  /\ txn' = [txn EXCEPT ![c] = NoTxn]
  /\ stale' = [stale EXCEPT ![c] = FALSE]
  /\ trash' = [trash EXCEPT ![c] = {}]

(* Go on to delete the contents B, then return. *)
CleanUp(c, B) ==
  /\ pc' = [pc EXCEPT ![c] = "cleanup"]
  /\ trash' = [trash EXCEPT ![c] = B]
  /\ UNCHANGED <<arg, txn, stale>>

(* The error path: the contents written so far are deleted. *)
FailKeepingChunks(c) == Finish(c)
Fail(c) == IF FreshBlobs(c) = {} THEN Finish(c) ELSE CleanUp(c, FreshBlobs(c))

Begin(c, a, t) ==
  /\ pc' = [pc EXCEPT ![c] = IF t.copies = {} THEN "commit" ELSE "copy"]
  /\ arg' = [arg EXCEPT ![c] = a]
  /\ txn' = [txn EXCEPT ![c] = t]
  /\ stale' = [stale EXCEPT ![c] = FALSE]
  /\ UNCHANGED trash

Upload(c, a) ==
  /\ pc' = [pc EXCEPT ![c] = "upload"]
  /\ arg' = [arg EXCEPT ![c] = a]
  /\ UNCHANGED <<txn, stale, trash>>
-----------------------------------------------------------------------------
(* Start of the calls.  A transaction function that returns an error        *)
(* without a write changes nothing: for the calls that hold no content yet  *)
(* that outcome is a stuttering step.                                       *)

StartCreate(c, k) ==
  /\ "Create" \in Ops /\ pc[c] = "idle"
  /\ CanDraw({k}, Id) /\ CanDraw({k}, Blob)
  /\ LET id == NewV4({k}, Id)[k]
         blob == NewV4({k}, Blob)[k] IN
       /\ used' = used \cup {id, blob}
       /\ Upload(c, [op |-> "Create", id |-> id, blob |-> blob, key |-> k, rep |-> NoUuid])
  /\ UNCHANGED <<store, file, orphan>>

StartWrite(c, id) ==
  /\ "Write" \in Ops /\ pc[c] = "idle"
  /\ CanDraw({id}, Blob)
  /\ LET blob == NewV4({id}, Blob)[id] IN
       /\ used' = used \cup {blob}
       /\ Upload(c, [NoArg EXCEPT !.op = "Write", !.id = id, !.blob = blob])
  /\ UNCHANGED <<store, file, orphan>>

(* writeChunks: the batch reaches the store in order; the version of a new  *)
(* content is named by its own identifier.                                  *)
NextChunk(b) == {n \in Seqno : chunk[b][n] = NoUuid /\ \A m \in 1..(n - 1) : chunk[b][m] # NoUuid}
WriteChunk(c) ==
  /\ pc[c] = "upload"
  /\ \E n \in NextChunk(arg[c].blob) :
       chunk' = [chunk EXCEPT ![arg[c].blob][n] = arg[c].blob]
  /\ UNCHANGED <<meta, index, used, calls, file, orphan>>

(* The reader of the request body fails, or the batch does. *)
UploadFails(c) ==
  /\ pc[c] = "upload"
  /\ NextChunk(arg[c].blob) # {}
  /\ Fail(c)
  /\ UNCHANGED <<store, used, file, orphan>>

(* The transaction of Create begins once every chunk is written. *)
BeginCreate(c) ==
  /\ pc[c] = "upload" /\ arg[c].op = "Create"
  /\ NextChunk(arg[c].blob) = {}
  /\ IF CreateOK(arg[c].key)
       THEN Begin(c, arg[c], CreateTxn(arg[c].key,
              [id |-> arg[c].id, blob |-> arg[c].blob, size |-> arg[c].blob]))
       ELSE Fail(c)
  /\ UNCHANGED <<store, used, file, orphan>>

BeginWrite(c) ==
  /\ pc[c] = "upload" /\ arg[c].op = "Write"
  /\ NextChunk(arg[c].blob) = {}
  /\ IF WriteOK(arg[c].id)
       THEN Begin(c, arg[c], UpdateTxn(arg[c].id, arg[c].blob, arg[c].blob))
       ELSE Fail(c)
  /\ UNCHANGED <<store, used, file, orphan>>

Mkdir(c, k) ==
  /\ "Mkdir" \in Ops /\ pc[c] = "idle"
  /\ CreateOK(k) /\ CanDraw({k}, Id)
  /\ LET id == NewV4({k}, Id)[k] IN
       /\ used' = used \cup {id}
       /\ Begin(c, [NoArg EXCEPT !.op = "Mkdir"], CreateTxn(k, [NoItem EXCEPT !.id = id]))
  /\ UNCHANGED <<store, file, orphan>>

WriteComments(c, id) ==
  /\ "WriteComments" \in Ops /\ pc[c] = "idle"
  /\ FindMetaItemByID(id) # NoKey
  /\ LET m == meta[FindMetaItemByID(id)] IN
       Begin(c, [NoArg EXCEPT !.op = "WriteComments"], UpdateTxn(id, m.blob, m.size))
  /\ UNCHANGED <<store, used, file, orphan>>

Delete(c, id) ==
  /\ "Delete" \in Ops /\ pc[c] = "idle"
  /\ FindMetaItemByID(id) # NoKey
  /\ Begin(c, [NoArg EXCEPT !.op = "Delete"], DeleteTxn(id))
  /\ UNCHANGED <<store, used, file, orphan>>

Move(c, id, dst, rep) ==
  /\ "Move" \in Ops /\ pc[c] = "idle"
  /\ TransferOK(id, dst, rep)
  /\ Begin(c, [NoArg EXCEPT !.op = "Move", !.key = FileKey(dst), !.rep = rep],
           MoveTxn(id, dst))
  /\ UNCHANGED <<store, used, file, orphan>>

(* Copy without replaceID asks for an absent destination. *)
Copy(c, id, dst, rep) ==
  /\ "Copy" \in Ops /\ pc[c] = "idle"
  /\ rep # AnyTarget /\ TransferOK(id, dst, rep)
  /\ LET items == TransferItems(FindMetaItemByID(id)) IN
       /\ CanDraw(items, Id) /\ CanDraw(Files(items), Blob)
       /\ LET newId == NewV4(items, Id)
              newBlob == NewV4(Files(items), Blob) IN
            /\ used' = used \cup Range(newId) \cup Range(newBlob)
            /\ Begin(c, [NoArg EXCEPT !.op = "Copy", !.key = FileKey(dst), !.rep = rep],
                     CopyTxn(id, dst, newId, newBlob))
  /\ UNCHANGED <<store, file, orphan>>

(* Inside its transaction Copy streams each source content as it is now;    *)
(* a source chunk that is gone fails the call.                              *)
CopyChunk(c) ==
  /\ pc[c] = "copy"
  /\ \E p \in txn[c].copies : \E n \in NextChunk(p[2]) :
       IF chunk[p[1]][n] # NoUuid
         THEN /\ chunk' = [chunk EXCEPT ![p[2]][n] = chunk[p[1]][n]]
              /\ UNCHANGED calls
         ELSE Fail(c) /\ UNCHANGED chunk
  /\ UNCHANGED <<meta, index, used, file, orphan>>

CopyDone(c) ==
  /\ pc[c] = "copy"
  /\ \A p \in txn[c].copies : NextChunk(p[2]) = {}
  /\ pc' = [pc EXCEPT ![c] = "commit"]
  /\ UNCHANGED <<store, used, arg, txn, stale, trash, file, orphan>>
-----------------------------------------------------------------------------
(* Commit: applied at once, or refused when a key read was written since.   *)

(* Whether the commit of transaction t writes a key that u has read. *)
NeverOverlaps(t, u) == FALSE
Overlaps(t, u) == \/ DOMAIN t.wm \cap DOMAIN u.rm # {}
                  \/ DOMAIN t.wi \cap u.ri # {}
                  \/ t.del \cap u.del # {}

(* ErrConflict, or the store fails to write: nothing is applied.            *)
Conflict(c) ==
  /\ pc[c] = "commit"
  /\ Fail(c)
  /\ UNCHANGED <<store, used, file, orphan>>

(* What the call still has to delete after its commit: Write's old content. *)
DropsNewContent(c) ==
  IF arg[c].op = "Write" THEN {txn[c].wm[k].blob : k \in DOMAIN txn[c].wm} ELSE {}
Superseded(c) ==
  IF arg[c].op = "Write" THEN {txn[c].rm[k].blob : k \in DOMAIN txn[c].rm} ELSE {}

Commit(c) ==
  /\ pc[c] = "commit" /\ ~stale[c]
  /\ LET t == txn[c] IN
       /\ meta' = [k \in Key |-> IF k \in DOMAIN t.wm THEN t.wm[k] ELSE meta[k]]
       /\ index' = [i \in Id |-> IF i \in DOMAIN t.wi THEN t.wi[i] ELSE index[i]]
       /\ chunk' = [b \in Blob |-> IF b \in t.del THEN NoChunks ELSE chunk[b]]
       /\ stale' = [d \in Call |-> IF d = c THEN FALSE
                                   ELSE stale[d] \/ (InTxn(d) /\ Overlaps(t, txn[d]))]
  /\ IF Superseded(c) = {}
       THEN /\ pc' = [pc EXCEPT ![c] = "idle"]
            /\ arg' = [arg EXCEPT ![c] = NoArg]
            /\ txn' = [txn EXCEPT ![c] = NoTxn]
            /\ UNCHANGED trash
       ELSE /\ pc' = [pc EXCEPT ![c] = "cleanup"]
            /\ trash' = [trash EXCEPT ![c] = Superseded(c)]
            /\ UNCHANGED <<arg, txn>>
  /\ UNCHANGED <<used, file, orphan>>

(* deleteChunks for one content, in a transaction of its own; the last one  *)
(* ends the call.  Where it fails all chunks stay, for good: the call goes  *)
(* on with its other contents and returns an error (its own, or this one).  *)
DeleteChunks(c) ==
  /\ pc[c] = "cleanup"
  /\ \E b \in trash[c] :
       /\ \/ chunk' = [chunk EXCEPT ![b] = NoChunks] /\ UNCHANGED orphan
          \/ orphan' = orphan \cup {b} /\ UNCHANGED chunk
       /\ IF trash[c] = {b}
            THEN Finish(c)
            ELSE trash' = [trash EXCEPT ![c] = @ \ {b}] /\ UNCHANGED <<pc, arg, txn, stale>>
  /\ UNCHANGED <<meta, index, used, file>>
-----------------------------------------------------------------------------
(* Open takes the content from the item.  Read fetches the chunks it needs  *)
(* one after the other, each in a transaction of its own, and returns an    *)
(* error when one is missing; the chunk fetched last is kept for the next   *)
(* Read.                                                                    *)

Open(r, id) ==
  /\ ~file[r].open
  /\ WriteOK(id)
  /\ LET m == meta[FindMetaItemByID(id)] IN
       file' = [file EXCEPT ![r] = [NoFile EXCEPT !.open = TRUE, !.blob = m.blob, !.size = m.size]]
  /\ UNCHANGED <<store, used, calls, orphan>>

(* Read starts to fill n bytes, as many as its buffer and the content have;  *)
(* at the end of the content it returns EOF.                                *)
Read(r, n) ==
  /\ file[r].open /\ file[r].want = 0
  /\ file[r].pos + n <= Length
  /\ file' = [file EXCEPT ![r].want = n]
  /\ UNCHANGED <<store, used, calls, orphan>>

ChunkEnd(n) == IF n = NChunk THEN Length ELSE n * ChunkSize
UsesAnyChunk(f, n) ==
  IF f.cached.version # NoUuid THEN f.cached ELSE [version |-> chunk[f.blob][n], at |-> n]
Loaded(f, n) ==
  IF f.cached.version # NoUuid /\ f.cached.at = n
    THEN f.cached ELSE [version |-> chunk[f.blob][n], at |-> n]

(* The stream after k bytes at offset off of the chunk loaded.              *)
Deliver(f, loaded, off, k) ==
  [f EXCEPT !.pos = f.pos + k, !.want = f.want - k, !.cached = loaded,
            !.got = [version |-> loaded.version, at |-> (loaded.at - 1) * ChunkSize + off + k]]

ReadChunk(r) ==
  LET f == file[r] IN
    /\ f.open /\ f.want > 0
    /\ \E n \in Seqno :
         LET off == f.pos - (n - 1) * ChunkSize
             k == IF f.want <= ChunkEnd(n) - f.pos THEN f.want ELSE ChunkEnd(n) - f.pos IN
           /\ 0 <= off /\ off < ChunkSize
           /\ file' = [file EXCEPT ![r] = IF Loaded(f, n).version = NoUuid
                                            THEN [f EXCEPT !.want = 0]
                                            ELSE Deliver(f, Loaded(f, n), off, k)]
    /\ UNCHANGED <<store, used, calls, orphan>>

(* Seek to any position; those past the end read as the end.                *)
Seek(r, p) ==
  /\ file[r].open /\ file[r].want = 0
  /\ file' = [file EXCEPT ![r].pos = p, ![r].got = Nothing]
  /\ UNCHANGED <<store, used, calls, orphan>>

CloseFile(r) ==
  /\ file[r].open /\ file[r].want = 0
  /\ file' = [file EXCEPT ![r] = NoFile]
  /\ UNCHANGED <<store, used, calls, orphan>>

(* The process dies: calls and streams vanish, the store stays. *)
Crash ==
  /\ pc' = [c \in Call |-> "idle"]
  /\ arg' = [c \in Call |-> NoArg]
  /\ txn' = [c \in Call |-> NoTxn]
  /\ stale' = [c \in Call |-> FALSE]
  /\ trash' = [c \in Call |-> {}]
  /\ file' = [r \in Reader |-> NoFile]
  /\ UNCHANGED <<store, used, orphan>>

(* Clients pass identifiers the driver gave them. *)
CallStep(c) ==
  \/ \E p \in Path : StartCreate(c, FileKey(p)) \/ Mkdir(c, DirKey(p))
  \/ \E id \in Id \cap used : StartWrite(c, id) \/ WriteComments(c, id) \/ Delete(c, id)
  \/ \E id \in Id \cap used, dst \in Path, rep \in (Id \cap used) \cup {NoUuid, AnyTarget} :
        Move(c, id, dst, rep) \/ Copy(c, id, dst, rep)
  \/ WriteChunk(c) \/ UploadFails(c) \/ BeginCreate(c) \/ BeginWrite(c)
  \/ CopyChunk(c) \/ CopyDone(c)
  \/ Conflict(c) \/ Commit(c) \/ DeleteChunks(c)

ReaderStep(r) ==
  \/ \E id \in Id \cap used : Open(r, id)
  \/ \E n \in 1..Length : Read(r, n)
  \/ \E p \in 0..Length : Seek(r, p)
  \/ ReadChunk(r) \/ CloseFile(r)

Next == (\E c \in Call : CallStep(c)) \/ (\E r \in Reader : ReaderStep(r)) \/ Crash

Spec == Init /\ [][Next]_vars
-----------------------------------------------------------------------------
(* Properties. *)

(* Every variable keeps its shape: a file has a content and a directory     *)
(* none, in the store and in the plans of the open transactions, and a call *)
(* that uploads or supersedes a content knows which.                        *)
ItemAt(k) == {NoItem} \cup IF k.dir THEN [id: Id, blob: {NoUuid}, size: {NoUuid}]
                          ELSE [id: Id, blob: Blob, size: Blob]
Arg == [op: OpName \cup {"none"}, id: Id \cup {NoUuid}, blob: Blob \cup {NoUuid},
        key: Key \cup {NoKey}, rep: Id \cup {NoUuid, AnyTarget}]

TxnOK(t) ==
  /\ DOMAIN t.rm \subseteq Key /\ \A k \in DOMAIN t.rm : t.rm[k] \in ItemAt(k)
  /\ t.ri \subseteq Id
  /\ DOMAIN t.wm \subseteq Key /\ \A k \in DOMAIN t.wm : t.wm[k] \in ItemAt(k)
  /\ DOMAIN t.wi \subseteq Id /\ \A i \in DOMAIN t.wi : t.wi[i] \in Key \cup {NoKey}
  /\ t.del \subseteq Blob
  /\ t.copies \subseteq Blob \X Blob

CallOK(c) ==
  /\ TxnOK(txn[c])
  /\ pc[c] = "upload" => arg[c].op \in {"Create", "Write"} /\ arg[c].id \in Id /\ arg[c].blob \in Blob
  /\ arg[c].op = "Create" => arg[c].key \in Key /\ ~arg[c].key.dir
  /\ InTxn(c) /\ arg[c].op = "Write" => \A k \in DOMAIN txn[c].rm : txn[c].rm[k].blob \in Blob

Piece == [version: Blob \cup {NoUuid}, at: Int]
Stream == [open: BOOLEAN, blob: Blob \cup {NoUuid}, size: Blob \cup {NoUuid},
           pos: Nat, want: Nat, cached: Piece, got: Piece]
StreamOK(f) ==
  /\ f \in Stream /\ f.pos + f.want <= Length
  /\ f.open => f.blob \in Blob /\ f.size \in Blob

TypeOK ==
  /\ DOMAIN meta = Key /\ \A k \in Key : meta[k] \in ItemAt(k)
  /\ index \in [Id -> Key \cup {NoKey}]
  /\ chunk \in [Blob -> [Seqno -> Blob \cup {NoUuid}]]
  /\ used \subseteq Id \cup Blob
  /\ pc \in [Call -> {"idle", "upload", "copy", "commit", "cleanup"}]
  /\ arg \in [Call -> Arg]
  /\ DOMAIN txn = Call /\ \A c \in Call : CallOK(c)
  /\ stale \in [Call -> BOOLEAN]
  /\ trash \in [Call -> SUBSET Blob]
  /\ DOMAIN file = Reader /\ \A r \in Reader : StreamOK(file[r])
  /\ orphan \subseteq Blob

(* An item is reached by its own identifier: the index entry of the        *)
(* identifier stored under a key is that key, whatever calls overlapped.   *)
(* (So no two items share an identifier.)                                  *)
MetaIndexed == \A k \in Key : Exists(k) => index[meta[k].id] = k

(* The content a file points to is there in full and is the version its    *)
(* size describes: no interleaving, failed call or crash leaves a file     *)
(* without data or with another version's data.                            *)
ContentPresent ==
  \A k \in Key : Exists(k) /\ ~k.dir => chunk[meta[k].blob] = [n \in Seqno |-> meta[k].size]

(* A stream delivers the bytes at its position of the version it was opened *)
(* on, and nothing else, however the Reads and Seeks of its client fall on  *)
(* the chunks and whatever is written, copied or deleted meanwhile.         *)
ReadConsistent ==
  \A r \in Reader :
    file[r].got # Nothing => file[r].got = [version |-> file[r].size, at |-> file[r].pos]

Referenced(b) == \E k \in Key : Exists(k) /\ meta[k].blob = b
BlobsRead(c) == {txn[c].rm[k].blob : k \in DOMAIN txn[c].rm} \cap Blob

(* What a call answers for: the new contents it wrote or, once its commit   *)
(* put them in place and it deletes what it superseded, that content.       *)
Held(c) ==
  IF trash[c] # {} /\ trash[c] \subseteq BlobsRead(c) THEN BlobsRead(c) ELSE FreshBlobs(c)

(* A call that returns leaves no content behind that no file points to and *)
(* no other call still has to delete, except one it tried to delete when   *)
(* the store failed: neither its own new content, when it failed or returns *)
(* by its commit, nor the one it superseded.  (A new content in place is no *)
(* longer its own: a transfer that overwrites it unread is another call,   *)
(* and does leak it.)                                                      *)
NoCallLeaks ==
  [][\A c \in Call :
       pc[c] # "idle" /\ pc'[c] = "idle" /\ ~Crash
         => \A b \in Held(c) \ orphan' :
              chunk'[b] # NoChunks => Referenced(b)' \/ \E d \in Call : b \in trash'[d]]_vars

(* At and below p nothing is stored but one item with what it contains: no  *)
(* file beside a directory of the same name, no item without its directory. *)
Settled(p) ==
  /\ ~(Exists(FileKey(p)) /\ Exists(DirKey(p)))
  /\ \A k \in Key : Exists(k) /\ IsStrictPrefix(p, k.path) => Exists(DirKey(p))

(* The step leaves no item with the identifier of the item under key k. *)
Lost(k) == \A j \in Key : meta'[j].id # meta[k].id

(* A transfer that commits finds at its destination path the item its      *)
(* caller expected there, when it commits and not only when it checked.    *)
(* Where the destination is settled no item is lost but that one and what  *)
(* it contains.  (Elsewhere moveItem and moveChildren overwrite what they  *)
(* find under the keys they write, which nobody named.)                    *)
ReplaceOnlyExpected ==
  [][\A c \in Call :
       arg[c].op \in {"Move", "Copy"} /\ pc[c] = "commit" /\ pc'[c] = "idle" /\ store' # store
         => LET dst == arg[c].key.path IN
              /\ CheckReplacement(TargetId(dst), arg[c].rep)
              /\ Settled(dst) => \A k \in Key : Exists(k) /\ Lost(k) => k \in Replaced(dst)]_vars

(* Stat, Open and the others find by an identifier the item that has it.   *)
FindsOwnItem == \A i \in Id : FindMetaItemByID(i) # NoKey => meta[FindMetaItemByID(i)].id = i
=============================================================================
