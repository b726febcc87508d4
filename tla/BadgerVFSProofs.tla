--------------------------- MODULE BadgerVFSProofs ---------------------------
(***************************************************************************)
(* Proofs about BadgerVFS, for every value of its constants: any number of *)
(* overlapping calls, paths, identifiers, contents and chunks.             *)
(***************************************************************************)
EXTENDS BadgerVFS, SequenceTheorems, TLAPS

(***************************************************************************)
(* Lookups.                                                                *)
(***************************************************************************)

(* What is stored under a key of the namespace has an identifier, and a    *)
(* content exactly when the key is a file's.                               *)
LEMMA StoredItem ==
  ASSUME TypeOK, NEW k \in Key, Exists(k)
  PROVE  /\ meta[k].id \in Id
         /\ ~k.dir => meta[k] \in [id: Id, blob: Blob, size: Blob]
         /\ k.dir => meta[k] \in [id: Id, blob: {NoUuid}, size: {NoUuid}]
  BY DEF TypeOK, ItemAt, Exists

(* The item an identifier resolves to is stored under a key of the namespace. *)
LEMMA FoundKey ==
  ASSUME TypeOK, NEW id \in Id, FindMetaItemByID(id) # NoKey
  PROVE  FindMetaItemByID(id) \in Key /\ Exists(FindMetaItemByID(id))
  BY DEF TypeOK, FindMetaItemByID, Exists

LEMMA FoundPath ==
  ASSUME TypeOK, NEW p \in Path, FindByPath(p) # NoKey
  PROVE  FindByPath(p) \in Key /\ Exists(FindByPath(p))
  BY DEF TypeOK, FindByPath, Exists, FileKey, DirKey, Key

(* The items a transfer or a Delete collects are all there. *)
LEMMA CollectedItems ==
  ASSUME NEW k \in Key, Exists(k)
  PROVE  /\ TransferItems(k) \subseteq Key
         /\ k \in TransferItems(k)
         /\ \A j \in TransferItems(k) : Exists(j)
  BY DEF TransferItems

LEMMA ReplacedItems ==
  ASSUME TypeOK, NEW p \in Path
  PROVE  Replaced(p) \subseteq Key /\ \A j \in Replaced(p) : Exists(j)
  BY FoundPath, CollectedItems DEF Replaced

(* The erasures of a set of stored items are well typed plans. *)
LEMMA Erasures ==
  ASSUME TypeOK, NEW S, S \subseteq Key, \A k \in S : Exists(k)
  PROVE  IdsOf(S) \subseteq Id /\ BlobsOf(S) \subseteq Blob
  BY StoredItem DEF IdsOf, BlobsOf, Files

(* uuid.NewV4 gives distinct identifiers that were never drawn. *)
LEMMA Draws ==
  ASSUME NEW S, NEW pool, CanDraw(S, pool)
  PROVE  /\ NewV4(S, pool) \in [S -> pool \ used]
         /\ \A x, y \in S : NewV4(S, pool)[x] = NewV4(S, pool)[y] => x = y
  <1>1. NewV4(S, pool) \in Injection(S, pool \ used)
    BY DEF CanDraw, NewV4
  <1> QED
    BY <1>1 DEF Injection, IsInjective
-----------------------------------------------------------------------------
(***************************************************************************)
(* The transactions are well typed.                                        *)
(***************************************************************************)

LEMMA CreateTxnTyped ==
  ASSUME TypeOK, NEW k \in Key, NEW item \in ItemAt(k), item.id \in Id, CreateOK(k)
  PROVE  TxnOK(CreateTxn(k, item))
  <1> DEFINE t == CreateTxn(k, item)
  <1>1. ParentReads(k) \cup {k} \subseteq Key
    <2>1. k.path \in Path
      BY DEF Key
    <2>2. CASE Len(k.path) = 1
      BY <2>2 DEF ParentReads
    <2>3. CASE Len(k.path) # 1
      <3>1. ParentPath(k.path) \in Path
        BY <2>1, <2>3, PathAssumption
      <3> QED
        BY <2>3, <3>1 DEF ParentReads, Key, DirKey
    <2> QED
      BY <2>2, <2>3
  <1>2. /\ t.rm = Restrict(meta, ParentReads(k) \cup {k})
        /\ t.wm = Only(k, item) /\ t.wi = Only(item.id, k)
        /\ t.ri = {} /\ t.del = {} /\ t.copies = {}
    BY DEF CreateTxn, NoTxn
  <1>3. DOMAIN t.rm \subseteq Key /\ \A j \in DOMAIN t.rm : t.rm[j] \in ItemAt(j)
    BY <1>1, <1>2 DEF Restrict, TypeOK
  <1>4. DOMAIN t.wm \subseteq Key /\ \A j \in DOMAIN t.wm : t.wm[j] \in ItemAt(j)
    BY <1>2 DEF Only
  <1>5. DOMAIN t.wi \subseteq Id /\ \A i \in DOMAIN t.wi : t.wi[i] \in Key \cup {NoKey}
    BY <1>2 DEF Only
  <1> QED
    BY <1>2, <1>3, <1>4, <1>5 DEF TxnOK

LEMMA UpdateTxnTyped ==
  ASSUME TypeOK, NEW id \in Id, NEW blob, NEW size, FindMetaItemByID(id) # NoKey,
         [meta[FindMetaItemByID(id)] EXCEPT !.blob = blob, !.size = size]
           \in ItemAt(FindMetaItemByID(id))
  PROVE  TxnOK(UpdateTxn(id, blob, size))
  <1> DEFINE t == UpdateTxn(id, blob, size)
             k == FindMetaItemByID(id)
  <1>1. k \in Key
    BY FoundKey
  <1>2. /\ t.rm = Restrict(meta, {k}) /\ t.ri = {id}
        /\ t.wm = Only(k, [meta[k] EXCEPT !.blob = blob, !.size = size])
        /\ t.wi = Empty /\ t.del = {} /\ t.copies = {}
    BY DEF UpdateTxn, NoTxn
  <1> HIDE DEF t, k
  <1>3. [meta[k] EXCEPT !.blob = blob, !.size = size] \in ItemAt(k)
    BY DEF k
  <1>4. DOMAIN t.rm \subseteq Key /\ \A j \in DOMAIN t.rm : t.rm[j] \in ItemAt(j)
    BY <1>1, <1>2 DEF Restrict, TypeOK
  <1>5. DOMAIN t.wm \subseteq Key /\ \A j \in DOMAIN t.wm : t.wm[j] \in ItemAt(j)
    BY <1>1, <1>2, <1>3 DEF Only
  <1> QED
    BY <1>2, <1>4, <1>5 DEF TxnOK, Empty, t

LEMMA DeleteTxnTyped ==
  ASSUME TypeOK, NEW id \in Id, FindMetaItemByID(id) # NoKey
  PROVE  TxnOK(DeleteTxn(id))
  <1> DEFINE t == DeleteTxn(id)
             S == TransferItems(FindMetaItemByID(id))
  <1>1. S \subseteq Key /\ \A j \in S : Exists(j)
    BY FoundKey, CollectedItems
  <1>2. IdsOf(S) \subseteq Id /\ BlobsOf(S) \subseteq Blob
    BY <1>1, Erasures
  <1>3. /\ t.rm = Restrict(meta, S) /\ t.ri = {id}
        /\ t.wm = ErasedMeta(S) /\ t.wi = ErasedIndex(S)
        /\ t.del = BlobsOf(S) /\ t.copies = {}
    BY DEF DeleteTxn, NoTxn
  <1> HIDE DEF t, S
  <1>4. DOMAIN t.rm \subseteq Key /\ \A j \in DOMAIN t.rm : t.rm[j] \in ItemAt(j)
    BY <1>1, <1>3 DEF Restrict, TypeOK
  <1>5. DOMAIN t.wm \subseteq Key /\ \A j \in DOMAIN t.wm : t.wm[j] \in ItemAt(j)
    BY <1>1, <1>3 DEF ErasedMeta, ItemAt
  <1>6. DOMAIN t.wi \subseteq Id /\ \A i \in DOMAIN t.wi : t.wi[i] \in Key \cup {NoKey}
    BY <1>2, <1>3 DEF ErasedIndex
  <1> QED
    BY <1>2, <1>3, <1>4, <1>5, <1>6 DEF TxnOK, t

(* Facts of a transfer that passed its checks: the items moved or copied   *)
(* and those replaced are stored, and every destination key has an origin  *)
(* of its own kind.                                                        *)
LEMMA TransferFacts ==
  ASSUME TypeOK, NEW id \in Id, NEW dst \in Path, NEW rep, TransferOK(id, dst, rep),
         NEW src, src = FindMetaItemByID(id)
  PROVE  /\ src \in Key /\ Exists(src)
         /\ TransferItems(src) \subseteq Key /\ \A j \in TransferItems(src) : Exists(j)
         /\ DestKeys(src, dst) \subseteq Key
         /\ \A k \in DestKeys(src, dst) : /\ Origin(k, src, dst) \in TransferItems(src)
                                          /\ DestKey(Origin(k, src, dst), src, dst) = k
                                          /\ Origin(k, src, dst).dir = k.dir
         /\ TransferReads(src, dst) \subseteq Key
         /\ TransferItems(src) \cup Replaced(dst) \subseteq TransferReads(src, dst)
  <1>1. src \in Key /\ Exists(src) /\ DestKeys(src, dst) \subseteq Key
    BY FoundKey DEF TransferOK
  <1>2. TransferItems(src) \subseteq Key /\ \A j \in TransferItems(src) : Exists(j)
    BY <1>1, CollectedItems
  <1>3. ASSUME NEW k \in DestKeys(src, dst)
        PROVE  /\ Origin(k, src, dst) \in TransferItems(src)
               /\ DestKey(Origin(k, src, dst), src, dst) = k
               /\ Origin(k, src, dst).dir = k.dir
    <2>1. \E o \in TransferItems(src) : DestKey(o, src, dst) = k
      BY DEF DestKeys
    <2>2. /\ Origin(k, src, dst) \in TransferItems(src)
          /\ DestKey(Origin(k, src, dst), src, dst) = k
      BY <2>1 DEF Origin
    <2> QED
      BY <2>2 DEF DestKey
  <1>4. TransferReads(src, dst) \subseteq Key
    <2>1. FileKey(dst) \in Key /\ DirKey(dst) \in Key
      BY DEF FileKey, DirKey, Key
    <2> QED
      BY <1>2, <2>1, ReplacedItems DEF TransferReads, FindReads
  <1>5. TransferItems(src) \cup Replaced(dst) \subseteq TransferReads(src, dst)
    BY DEF TransferReads
  <1> QED
    BY <1>1, <1>2, <1>3, <1>4, <1>5

LEMMA MoveTxnTyped ==
  ASSUME TypeOK, NEW id \in Id, NEW dst \in Path, NEW rep, TransferOK(id, dst, rep)
  PROVE  TxnOK(MoveTxn(id, dst))
  <1> DEFINE t == MoveTxn(id, dst)
             src == FindMetaItemByID(id)
             items == TransferItems(src)
             KeyOf(i) == CHOOSE k \in items : meta[k].id = i
  <1>1. /\ t.rm = Restrict(meta, TransferReads(src, dst)) /\ t.ri = {id}
        /\ t.wm = Before([k \in DestKeys(src, dst) |-> meta[Origin(k, src, dst)]],
                         ErasedMeta(items \cup Replaced(dst)))
        /\ t.wi = Before([i \in IdsOf(items) |-> DestKey(KeyOf(i), src, dst)],
                         ErasedIndex(Replaced(dst)))
        /\ t.del = BlobsOf(Replaced(dst)) /\ t.copies = {}
    BY DEF MoveTxn, NoTxn
  <1> HIDE DEF t, src
  <1>2. /\ src \in Key /\ DestKeys(src, dst) \subseteq Key
        /\ items \subseteq Key /\ \A j \in items : Exists(j)
        /\ \A k \in DestKeys(src, dst) : Origin(k, src, dst) \in items /\ Origin(k, src, dst).dir = k.dir
        /\ TransferReads(src, dst) \subseteq Key
    BY TransferFacts DEF src
  <1>3. /\ Replaced(dst) \subseteq Key
        /\ IdsOf(items) \subseteq Id /\ IdsOf(Replaced(dst)) \subseteq Id
        /\ BlobsOf(Replaced(dst)) \subseteq Blob
    BY <1>2, ReplacedItems, Erasures
  <1> HIDE DEF items
  <1>4. DOMAIN t.rm \subseteq Key /\ \A j \in DOMAIN t.rm : t.rm[j] \in ItemAt(j)
    BY <1>1, <1>2 DEF Restrict, TypeOK
  <1>5. DOMAIN t.wm \subseteq Key /\ \A j \in DOMAIN t.wm : t.wm[j] \in ItemAt(j)
    <2>1. DOMAIN t.wm \subseteq Key
      BY <1>1, <1>2, <1>3 DEF Before, ErasedMeta
    <2>2. ASSUME NEW j \in DOMAIN t.wm
          PROVE  t.wm[j] \in ItemAt(j)
      <3>1. CASE j \in DestKeys(src, dst)
        <4>1. t.wm[j] = meta[Origin(j, src, dst)]
          BY <1>1, <3>1 DEF Before
        <4>2. meta[Origin(j, src, dst)] \in ItemAt(Origin(j, src, dst))
          BY <1>2, <3>1 DEF TypeOK
        <4> QED
          BY <1>2, <3>1, <4>1, <4>2 DEF ItemAt
      <3>2. CASE j \notin DestKeys(src, dst)
        BY <1>1, <3>2 DEF Before, ErasedMeta, ItemAt
      <3> QED
        BY <3>1, <3>2
    <2> QED
      BY <2>1, <2>2
  <1>6. DOMAIN t.wi \subseteq Id /\ \A i \in DOMAIN t.wi : t.wi[i] \in Key \cup {NoKey}
    <2>1. DOMAIN t.wi \subseteq Id
      BY <1>1, <1>3 DEF Before, ErasedIndex
    <2>2. ASSUME NEW i \in IdsOf(items)
          PROVE  DestKey(KeyOf(i), src, dst) \in Key
      <3>1. KeyOf(i) \in items
        BY DEF IdsOf
      <3> QED
        BY <1>2, <3>1 DEF DestKeys, items
    <2>3. ASSUME NEW i \in DOMAIN t.wi
          PROVE  t.wi[i] \in Key \cup {NoKey}
      BY <1>1, <2>2 DEF Before, ErasedIndex
    <2> QED
      BY <2>1, <2>3
  <1> QED
    BY <1>1, <1>3, <1>4, <1>5, <1>6 DEF TxnOK, t

LEMMA CopyTxnTyped ==
  ASSUME TypeOK, NEW id \in Id, NEW dst \in Path, NEW rep, TransferOK(id, dst, rep),
         NEW items, items = TransferItems(FindMetaItemByID(id)),
         NEW newId \in [items -> Id], NEW newBlob \in [Files(items) -> Blob]
  PROVE  TxnOK(CopyTxn(id, dst, newId, newBlob))
  <1> DEFINE t == CopyTxn(id, dst, newId, newBlob)
             src == FindMetaItemByID(id)
             Copied(o) == [meta[o] EXCEPT !.id = newId[o],
                                          !.blob = IF o.dir THEN NoUuid ELSE newBlob[o]]
             ItemOf(i) == CHOOSE o \in items : newId[o] = i
  <1>1. /\ t.rm = Restrict(meta, TransferReads(src, dst)) /\ t.ri = {id}
        /\ t.wm = Before([k \in DestKeys(src, dst) |-> Copied(Origin(k, src, dst))],
                         ErasedMeta(Replaced(dst)))
        /\ t.wi = Before([i \in Range(newId) |-> DestKey(ItemOf(i), src, dst)],
                         ErasedIndex(Replaced(dst)))
        /\ t.del = BlobsOf(Replaced(dst))
        /\ t.copies = {<<meta[o].blob, newBlob[o]>> : o \in Files(items)}
    BY DEF CopyTxn, NoTxn
  <1> HIDE DEF t, src, Copied, ItemOf
  <1>2. /\ src \in Key /\ DestKeys(src, dst) \subseteq Key
        /\ items \subseteq Key /\ \A j \in items : Exists(j)
        /\ \A k \in DestKeys(src, dst) : Origin(k, src, dst) \in items /\ Origin(k, src, dst).dir = k.dir
        /\ TransferReads(src, dst) \subseteq Key
    BY TransferFacts DEF src
  <1>3. /\ Replaced(dst) \subseteq Key
        /\ IdsOf(Replaced(dst)) \subseteq Id /\ Range(newId) \subseteq Id
        /\ BlobsOf(Replaced(dst)) \subseteq Blob
    BY ReplacedItems, Erasures DEF Range
  <1>4. DOMAIN t.rm \subseteq Key /\ \A j \in DOMAIN t.rm : t.rm[j] \in ItemAt(j)
    BY <1>1, <1>2 DEF Restrict, TypeOK
  <1>5. DOMAIN t.wm \subseteq Key /\ \A j \in DOMAIN t.wm : t.wm[j] \in ItemAt(j)
    <2>1. DOMAIN t.wm \subseteq Key
      BY <1>1, <1>2, <1>3 DEF Before, ErasedMeta
    <2>2. ASSUME NEW o \in items
          PROVE  Copied(o) \in ItemAt(o)
      <3>1. newId[o] \in Id /\ (~o.dir => newBlob[o] \in Blob)
        BY <2>2 DEF Files
      <3>2. CASE o.dir
        <4>1. meta[o] \in [id: Id, blob: {NoUuid}, size: {NoUuid}]
          BY <1>2, <3>2, StoredItem
        <4> QED
          BY <3>1, <3>2, <4>1 DEF ItemAt, Copied
      <3>3. CASE ~o.dir
        <4>1. meta[o] \in [id: Id, blob: Blob, size: Blob]
          BY <1>2, <3>3, StoredItem
        <4> QED
          BY <3>1, <3>3, <4>1 DEF ItemAt, Copied
      <3> QED
        BY <3>2, <3>3
    <2>3. ASSUME NEW j \in DOMAIN t.wm
          PROVE  t.wm[j] \in ItemAt(j)
      <3>1. CASE j \in DestKeys(src, dst)
        <4>1. t.wm[j] = Copied(Origin(j, src, dst))
          BY <1>1, <3>1 DEF Before
        <4> QED
          BY <1>2, <2>2, <3>1, <4>1 DEF ItemAt
      <3>2. CASE j \notin DestKeys(src, dst)
        BY <1>1, <3>2 DEF Before, ErasedMeta, ItemAt
      <3> QED
        BY <3>1, <3>2
    <2> QED
      BY <2>1, <2>3
  <1>6. DOMAIN t.wi \subseteq Id /\ \A i \in DOMAIN t.wi : t.wi[i] \in Key \cup {NoKey}
    <2>1. DOMAIN t.wi \subseteq Id
      BY <1>1, <1>3 DEF Before, ErasedIndex
    <2>2. ASSUME NEW i \in Range(newId)
          PROVE  DestKey(ItemOf(i), src, dst) \in Key
      <3>1. ItemOf(i) \in items
        BY DEF Range, ItemOf
      <3> QED
        BY <1>2, <3>1 DEF DestKeys, src
    <2>3. ASSUME NEW i \in DOMAIN t.wi
          PROVE  t.wi[i] \in Key \cup {NoKey}
      BY <1>1, <2>2 DEF Before, ErasedIndex
    <2> QED
      BY <2>1, <2>3
  <1>7. t.copies \subseteq Blob \X Blob
    <2>1. ASSUME NEW o \in Files(items)
          PROVE  meta[o].blob \in Blob /\ newBlob[o] \in Blob
      BY <1>2, StoredItem DEF Files
    <2> QED
      BY <1>1, <2>1
  <1> QED
    BY <1>1, <1>3, <1>4, <1>5, <1>6, <1>7 DEF TxnOK, t
-----------------------------------------------------------------------------
(***************************************************************************)
(* The type invariant.  The variables fall in three groups that a step     *)
(* disturbs separately: the store, the calls and the streams.              *)
(***************************************************************************)

StoreTyped ==
  /\ DOMAIN meta = Key /\ \A k \in Key : meta[k] \in ItemAt(k)
  /\ index \in [Id -> Key \cup {NoKey}]
  /\ chunk \in [Blob -> [Seqno -> Blob \cup {NoUuid}]]

CallsTyped ==
  /\ pc \in [Call -> {"idle", "upload", "copy", "commit", "cleanup"}]
  /\ arg \in [Call -> Arg]
  /\ DOMAIN txn = Call /\ \A c \in Call : CallOK(c)
  /\ stale \in [Call -> BOOLEAN]
  /\ trash \in [Call -> SUBSET Blob]

StreamsTyped == DOMAIN file = Reader /\ \A r \in Reader : StreamOK(file[r])

OrphansTyped == orphan \subseteq Blob

LEMMA Groups ==
  TypeOK <=> StoreTyped /\ used \subseteq Id \cup Blob /\ CallsTyped /\ StreamsTyped /\ OrphansTyped
  BY DEF TypeOK, StoreTyped, CallsTyped, StreamsTyped, OrphansTyped

LEMMA Regroup ==
  ASSUME StoreTyped', (used \subseteq Id \cup Blob)', CallsTyped', StreamsTyped', OrphansTyped'
  PROVE  TypeOK'
  BY DEF TypeOK, StoreTyped, CallsTyped, StreamsTyped, OrphansTyped

LEMMA StoreKept ==
  ASSUME StoreTyped, UNCHANGED store
  PROVE  StoreTyped'
  BY DEF StoreTyped, store

LEMMA StreamsKept ==
  ASSUME StreamsTyped, UNCHANGED file
  PROVE  StreamsTyped'
  BY DEF StreamsTyped, StreamOK

LEMMA OrphansKept ==
  ASSUME OrphansTyped, UNCHANGED orphan
  PROVE  OrphansTyped'
  BY DEF OrphansTyped

LEMMA CallsKept ==
  ASSUME CallsTyped, UNCHANGED calls
  PROVE  CallsTyped'
  BY DEF CallsTyped, CallOK, TxnOK, InTxn, calls

LEMMA NoTxnTyped == TxnOK(NoTxn) /\ NoArg \in Arg
  BY DEF TxnOK, NoTxn, Empty, NoArg, Arg

LEMMA NoFileTyped == StreamOK(NoFile)
  BY BadgerAssumption DEF StreamOK, Stream, Piece, NoFile, Nothing

LEMMA FinishTyped ==
  ASSUME CallsTyped, NEW c \in Call, Finish(c)
  PROVE  CallsTyped'
  <1>1. ASSUME NEW d \in Call PROVE CallOK(d)'
    <2>1. CASE d = c
      <3>1. pc'[d] = "idle" /\ arg'[d] = NoArg /\ txn'[d] = NoTxn
        BY <2>1 DEF Finish, CallsTyped
      <3> QED
        BY <3>1, NoTxnTyped DEF CallOK, TxnOK, NoArg, InTxn
    <2>2. CASE d # c
      <3>1. pc'[d] = pc[d] /\ arg'[d] = arg[d] /\ txn'[d] = txn[d]
        BY <2>2 DEF Finish, CallsTyped
      <3> QED
        BY <3>1 DEF CallsTyped, CallOK, TxnOK, InTxn
    <2> QED
      BY <2>1, <2>2
  <1> QED
    BY <1>1, NoTxnTyped DEF Finish, CallsTyped

LEMMA CleanUpTyped ==
  ASSUME CallsTyped, NEW c \in Call, NEW B \in SUBSET Blob, CleanUp(c, B)
  PROVE  CallsTyped'
  <1>1. ASSUME NEW d \in Call PROVE CallOK(d)'
    BY DEF CleanUp, CallsTyped, CallOK, TxnOK, InTxn
  <1> QED
    BY <1>1 DEF CleanUp, CallsTyped

LEMMA FreshBlobsTyped ==
  ASSUME CallsTyped, NEW c \in Call
  PROVE  FreshBlobs(c) \subseteq Blob
  <1>1. arg[c].blob \in Blob \cup {NoUuid}
    BY DEF CallsTyped, Arg
  <1>2. txn[c].copies \subseteq Blob \X Blob
    BY DEF CallsTyped, CallOK, TxnOK
  <1> QED
    BY <1>1, <1>2 DEF FreshBlobs

LEMMA FailTyped ==
  ASSUME CallsTyped, NEW c \in Call, Fail(c)
  PROVE  CallsTyped'
  BY FinishTyped, CleanUpTyped, FreshBlobsTyped DEF Fail

LEMMA BeginTyped ==
  ASSUME CallsTyped, NEW c \in Call, NEW a \in Arg, NEW t, TxnOK(t), Begin(c, a, t),
         a.op = "Create" => a.key \in Key /\ ~a.key.dir,
         a.op = "Write" => \A k \in DOMAIN t.rm : t.rm[k].blob \in Blob
  PROVE  CallsTyped'
  <1>1. ASSUME NEW d \in Call PROVE CallOK(d)'
    <2>1. CASE d = c
      <3>1. pc'[d] \in {"copy", "commit"} /\ arg'[d] = a /\ txn'[d] = t
        BY <2>1 DEF Begin, CallsTyped
      <3> QED
        BY <3>1 DEF CallOK, TxnOK, InTxn
    <2>2. CASE d # c
      <3>1. pc'[d] = pc[d] /\ arg'[d] = arg[d] /\ txn'[d] = txn[d]
        BY <2>2 DEF Begin, CallsTyped
      <3> QED
        BY <3>1 DEF CallsTyped, CallOK, TxnOK, InTxn
    <2> QED
      BY <2>1, <2>2
  <1> QED
    BY <1>1 DEF Begin, CallsTyped

LEMMA UploadTyped ==
  ASSUME CallsTyped, NEW c \in Call, NEW a \in Arg, Upload(c, a),
         a.op \in {"Create", "Write"}, a.id \in Id, a.blob \in Blob,
         a.op = "Create" => a.key \in Key /\ ~a.key.dir
  PROVE  CallsTyped'
  <1>1. ASSUME NEW d \in Call PROVE CallOK(d)'
    <2>1. CASE d = c
      <3>1. pc'[d] = "upload" /\ arg'[d] = a /\ txn'[d] = txn[d]
        BY <2>1 DEF Upload, CallsTyped
      <3> QED
        BY <3>1 DEF CallsTyped, CallOK, TxnOK, InTxn
    <2>2. CASE d # c
      <3>1. pc'[d] = pc[d] /\ arg'[d] = arg[d] /\ txn'[d] = txn[d]
        BY <2>2 DEF Upload, CallsTyped
      <3> QED
        BY <3>1 DEF CallsTyped, CallOK, TxnOK, InTxn
    <2> QED
      BY <2>1, <2>2
  <1> QED
    BY <1>1 DEF Upload, CallsTyped

(* Drawing: the identifier that a single draw returns. *)
LEMMA DrawOne ==
  ASSUME NEW x, NEW pool, CanDraw({x}, pool)
  PROVE  NewV4({x}, pool)[x] \in pool \ used
  BY Draws

LEMMA StartCreateTyped ==
  ASSUME TypeOK, NEW c \in Call, NEW p \in Path, StartCreate(c, FileKey(p))
  PROVE  TypeOK'
  <1> DEFINE k == FileKey(p)
             id == NewV4({k}, Id)[k]
             blob == NewV4({k}, Blob)[k]
             a == [op |-> "Create", id |-> id, blob |-> blob, key |-> k, rep |-> NoUuid]
  <1>1. id \in Id /\ blob \in Blob
    BY DrawOne DEF StartCreate
  <1>2. k \in Key /\ ~k.dir
    BY DEF FileKey, Key
  <1>3. Upload(c, a) /\ used' = used \cup {id, blob} /\ UNCHANGED <<store, file, orphan>>
    BY DEF StartCreate
  <1> HIDE DEF id, blob, k
  <1>4. a \in Arg
    BY <1>1, <1>2 DEF Arg, OpName
  <1>5. CallsTyped'
    BY <1>1, <1>2, <1>3, <1>4, Groups, UploadTyped
  <1> QED
    BY <1>1, <1>3, <1>5, Groups, Regroup, OrphansKept, StoreKept, StreamsKept

LEMMA StartWriteTyped ==
  ASSUME TypeOK, NEW c \in Call, NEW id \in Id, StartWrite(c, id)
  PROVE  TypeOK'
  <1> DEFINE blob == NewV4({id}, Blob)[id]
             a == [NoArg EXCEPT !.op = "Write", !.id = id, !.blob = blob]
  <1>1. blob \in Blob
    BY DrawOne DEF StartWrite
  <1>2. Upload(c, a) /\ used' = used \cup {blob} /\ UNCHANGED <<store, file, orphan>>
    BY DEF StartWrite
  <1> HIDE DEF blob
  <1>3. a \in Arg /\ a.op = "Write" /\ a.id = id /\ a.blob = blob
    BY <1>1 DEF Arg, OpName, NoArg
  <1>4. CallsTyped'
    BY <1>1, <1>2, <1>3, Groups, UploadTyped
  <1> QED
    BY <1>1, <1>2, <1>4, Groups, Regroup, OrphansKept, StoreKept, StreamsKept

LEMMA WriteChunkTyped ==
  ASSUME TypeOK, NEW c \in Call, WriteChunk(c)
  PROVE  TypeOK'
  <1>1. arg[c].blob \in Blob
    BY DEF WriteChunk, TypeOK, CallOK
  <1>2. chunk' \in [Blob -> [Seqno -> Blob \cup {NoUuid}]]
    BY <1>1 DEF WriteChunk, TypeOK, NextChunk
  <1>3. CallsTyped'
    BY Groups, CallsKept DEF WriteChunk
  <1> QED
    BY <1>2, <1>3, Groups, Regroup, OrphansKept, StreamsKept DEF WriteChunk, StoreTyped

LEMMA UploadFailsTyped ==
  ASSUME TypeOK, NEW c \in Call, UploadFails(c)
  PROVE  TypeOK'
  <1>1. CallsTyped'
    BY Groups, FailTyped DEF UploadFails
  <1> QED
    BY <1>1, Groups, Regroup, OrphansKept, StoreKept, StreamsKept DEF UploadFails

LEMMA BeginCreateTyped ==
  ASSUME TypeOK, NEW c \in Call, BeginCreate(c)
  PROVE  TypeOK'
  <1> DEFINE k == arg[c].key
             item == [id |-> arg[c].id, blob |-> arg[c].blob, size |-> arg[c].blob]
  <1>1. /\ k \in Key /\ ~k.dir /\ arg[c].id \in Id /\ arg[c].blob \in Blob
        /\ arg[c] \in Arg /\ arg[c].op = "Create"
    BY DEF BeginCreate, TypeOK, CallOK
  <1>2. item \in ItemAt(k) /\ item.id \in Id
    BY <1>1 DEF ItemAt
  <1>3. CASE CreateOK(k)
    <2>1. Begin(c, arg[c], CreateTxn(k, item))
      BY <1>3 DEF BeginCreate
    <2>2. TxnOK(CreateTxn(k, item))
      BY <1>1, <1>2, <1>3, CreateTxnTyped
    <2>3. CallsTyped'
      BY <1>1, <2>1, <2>2, Groups, BeginTyped
    <2> QED
      BY <1>1, <2>1, <2>2, <2>3, Groups, Regroup, OrphansKept, StoreKept, StreamsKept DEF BeginCreate
  <1>4. CASE ~CreateOK(k)
    <2>1. CallsTyped'
      BY <1>4, Groups, FailTyped DEF BeginCreate
    <2> QED
      BY <2>1, Groups, Regroup, OrphansKept, StoreKept, StreamsKept DEF BeginCreate
  <1> QED
    BY <1>3, <1>4

LEMMA BeginWriteTyped ==
  ASSUME TypeOK, NEW c \in Call, BeginWrite(c)
  PROVE  TypeOK'
  <1> DEFINE id == arg[c].id
             k == FindMetaItemByID(id)
             blob == arg[c].blob
  <1>1. id \in Id /\ blob \in Blob /\ arg[c] \in Arg /\ arg[c].op = "Write"
    BY DEF BeginWrite, TypeOK, CallOK
  <1>2. CASE WriteOK(id)
    <2>1. Begin(c, arg[c], UpdateTxn(id, blob, blob))
      BY <1>2 DEF BeginWrite
    <2>2. k \in Key /\ Exists(k) /\ ~k.dir
      BY <1>1, <1>2, FoundKey DEF WriteOK
    <2>3. meta[k] \in [id: Id, blob: Blob, size: Blob]
      BY <2>2, StoredItem
    <2> HIDE DEF k, blob
    <2>4. [meta[k] EXCEPT !.blob = blob, !.size = blob] \in ItemAt(k)
      BY <1>1, <2>2, <2>3 DEF ItemAt
    <2>5. TxnOK(UpdateTxn(id, blob, blob))
      BY <1>1, <2>2, <2>4, UpdateTxnTyped DEF k, WriteOK, Exists
    <2>6. \A j \in DOMAIN UpdateTxn(id, blob, blob).rm : UpdateTxn(id, blob, blob).rm[j].blob \in Blob
      <3>1. UpdateTxn(id, blob, blob).rm = Restrict(meta, {k})
        BY DEF UpdateTxn, NoTxn, k
      <3> QED
        BY <2>3, <3>1 DEF Restrict
    <2>7. CallsTyped'
      BY <1>1, <2>1, <2>5, <2>6, Groups, BeginTyped DEF blob
    <2> QED
      BY <2>7, Groups, Regroup, OrphansKept, StoreKept, StreamsKept DEF BeginWrite
  <1>3. CASE ~WriteOK(id)
    <2>1. CallsTyped'
      BY <1>3, Groups, FailTyped DEF BeginWrite
    <2> QED
      BY <2>1, Groups, Regroup, OrphansKept, StoreKept, StreamsKept DEF BeginWrite
  <1> QED
    BY <1>2, <1>3

LEMMA MkdirTyped ==
  ASSUME TypeOK, NEW c \in Call, NEW p \in Path, Mkdir(c, DirKey(p))
  PROVE  TypeOK'
  <1> DEFINE k == DirKey(p)
             id == NewV4({k}, Id)[k]
             item == [NoItem EXCEPT !.id = id]
             a == [NoArg EXCEPT !.op = "Mkdir"]
  <1>1. id \in Id
    BY DrawOne DEF Mkdir
  <1>2. k \in Key /\ k.dir
    BY DEF DirKey, Key
  <1>3. /\ Begin(c, a, CreateTxn(k, item)) /\ CreateOK(k)
        /\ used' = used \cup {id} /\ UNCHANGED <<store, file, orphan>>
    BY DEF Mkdir
  <1> HIDE DEF id, k
  <1>4. item \in ItemAt(k) /\ item.id = id
    BY <1>1, <1>2 DEF ItemAt, NoItem
  <1>5. a \in Arg /\ a.op = "Mkdir"
    BY DEF Arg, OpName, NoArg
  <1> HIDE DEF item, a
  <1>6. TxnOK(CreateTxn(k, item))
    BY <1>1, <1>2, <1>3, <1>4, CreateTxnTyped
  <1>7. CallsTyped'
    BY <1>3, <1>5, <1>6, Groups, BeginTyped
  <1> QED
    BY <1>1, <1>3, <1>7, Groups, Regroup, OrphansKept, StoreKept, StreamsKept

LEMMA WriteCommentsTyped ==
  ASSUME TypeOK, NEW c \in Call, NEW id \in Id, WriteComments(c, id)
  PROVE  TypeOK'
  <1> DEFINE k == FindMetaItemByID(id)
             t == UpdateTxn(id, meta[k].blob, meta[k].size)
             a == [NoArg EXCEPT !.op = "WriteComments"]
  <1>1. k \in Key /\ Exists(k)
    BY FoundKey DEF WriteComments
  <1>2. Begin(c, a, t) /\ UNCHANGED <<store, used, file, orphan>>
    BY DEF WriteComments
  <1>3. [meta[k] EXCEPT !.blob = meta[k].blob, !.size = meta[k].size] = meta[k]
    BY <1>1, StoredItem
  <1>4. meta[k] \in ItemAt(k)
    BY <1>1 DEF TypeOK
  <1>5. TxnOK(t)
    BY <1>1, <1>3, <1>4, UpdateTxnTyped DEF Exists
  <1>6. a \in Arg /\ a.op = "WriteComments"
    BY DEF Arg, OpName, NoArg
  <1> HIDE DEF t, a
  <1>7. CallsTyped'
    BY <1>2, <1>5, <1>6, Groups, BeginTyped
  <1> QED
    BY <1>2, <1>7, Groups, Regroup, OrphansKept, StoreKept, StreamsKept

LEMMA DeleteTyped ==
  ASSUME TypeOK, NEW c \in Call, NEW id \in Id, Delete(c, id)
  PROVE  TypeOK'
  <1> DEFINE a == [NoArg EXCEPT !.op = "Delete"]
  <1>1. a \in Arg /\ a.op = "Delete"
    BY DEF Arg, OpName, NoArg
  <1>2. TxnOK(DeleteTxn(id))
    BY DeleteTxnTyped DEF Delete
  <1>3. CallsTyped'
    BY <1>1, <1>2, Groups, BeginTyped DEF Delete
  <1> QED
    BY <1>3, Groups, Regroup, OrphansKept, StoreKept, StreamsKept DEF Delete

LEMMA MoveTyped ==
  ASSUME TypeOK, NEW c \in Call, NEW id \in Id, NEW dst \in Path,
         NEW rep \in Id \cup {NoUuid, AnyTarget}, Move(c, id, dst, rep)
  PROVE  TypeOK'
  <1> DEFINE a == [NoArg EXCEPT !.op = "Move", !.key = FileKey(dst), !.rep = rep]
  <1>1. a \in Arg /\ a.op = "Move"
    BY DEF Arg, OpName, NoArg, FileKey, Key
  <1>2. TxnOK(MoveTxn(id, dst))
    BY MoveTxnTyped DEF Move
  <1>3. CallsTyped'
    BY <1>1, <1>2, Groups, BeginTyped DEF Move
  <1> QED
    BY <1>3, Groups, Regroup, OrphansKept, StoreKept, StreamsKept DEF Move

LEMMA CopyTyped ==
  ASSUME TypeOK, NEW c \in Call, NEW id \in Id, NEW dst \in Path,
         NEW rep \in Id \cup {NoUuid, AnyTarget}, Copy(c, id, dst, rep)
  PROVE  TypeOK'
  <1> DEFINE a == [NoArg EXCEPT !.op = "Copy", !.key = FileKey(dst), !.rep = rep]
             items == TransferItems(FindMetaItemByID(id))
             newId == NewV4(items, Id)
             newBlob == NewV4(Files(items), Blob)
  <1>1. a \in Arg /\ a.op = "Copy"
    BY DEF Arg, OpName, NoArg, FileKey, Key
  <1>2. /\ TransferOK(id, dst, rep)
        /\ CanDraw(items, Id) /\ CanDraw(Files(items), Blob)
        /\ Begin(c, a, CopyTxn(id, dst, newId, newBlob))
        /\ used' = used \cup Range(newId) \cup Range(newBlob)
        /\ UNCHANGED <<store, file, orphan>>
    BY DEF Copy
  <1>3. newId \in [items -> Id] /\ newBlob \in [Files(items) -> Blob]
    BY <1>2, Draws
  <1> HIDE DEF newId, newBlob, a
  <1>4. TxnOK(CopyTxn(id, dst, newId, newBlob))
    BY <1>2, <1>3, CopyTxnTyped
  <1>5. CallsTyped'
    BY <1>1, <1>2, <1>4, Groups, BeginTyped
  <1>6. Range(newId) \subseteq Id /\ Range(newBlob) \subseteq Blob
    BY <1>3 DEF Range
  <1> QED
    BY <1>2, <1>5, <1>6, Groups, Regroup, OrphansKept, StoreKept, StreamsKept

LEMMA CopyChunkTyped ==
  ASSUME TypeOK, NEW c \in Call, CopyChunk(c)
  PROVE  TypeOK'
  <1>1. PICK p \in txn[c].copies : \E n \in NextChunk(p[2]) :
          IF chunk[p[1]][n] # NoUuid
            THEN /\ chunk' = [chunk EXCEPT ![p[2]][n] = chunk[p[1]][n]]
                 /\ UNCHANGED calls
            ELSE Fail(c) /\ UNCHANGED chunk
    BY DEF CopyChunk
  <1>2. PICK n \in NextChunk(p[2]) :
          IF chunk[p[1]][n] # NoUuid
            THEN /\ chunk' = [chunk EXCEPT ![p[2]][n] = chunk[p[1]][n]]
                 /\ UNCHANGED calls
            ELSE Fail(c) /\ UNCHANGED chunk
    BY <1>1
  <1>3. p[1] \in Blob /\ p[2] \in Blob /\ n \in Seqno
    BY DEF TypeOK, CallOK, TxnOK, NextChunk
  <1>4. chunk' \in [Blob -> [Seqno -> Blob \cup {NoUuid}]]
    <2>1. chunk[p[1]][n] \in Blob \cup {NoUuid}
      BY <1>3 DEF TypeOK
    <2>2. CASE chunk[p[1]][n] = NoUuid
      BY <1>2, <2>2 DEF TypeOK
    <2>3. CASE chunk[p[1]][n] # NoUuid
      <3> DEFINE b == p[2]
                 v == chunk[p[1]][n]
      <3>1. chunk' = [chunk EXCEPT ![b][n] = v]
        BY <1>2, <2>3
      <3>2. b \in Blob /\ v \in Blob \cup {NoUuid}
        BY <1>3, <2>1
      <3> HIDE DEF b, v
      <3> QED
        BY <1>3, <3>1, <3>2 DEF TypeOK
    <2> QED
      BY <2>2, <2>3
  <1>5. CallsTyped'
    BY <1>2, Groups, CallsKept, FailTyped
  <1>6. UNCHANGED <<meta, index, used, file, orphan>>
    BY DEF CopyChunk
  <1> QED
    BY <1>4, <1>5, <1>6, Groups, Regroup, OrphansKept, StreamsKept DEF StoreTyped

LEMMA CopyDoneTyped ==
  ASSUME TypeOK, NEW c \in Call, CopyDone(c)
  PROVE  TypeOK'
  <1>1. ASSUME NEW d \in Call PROVE CallOK(d)'
    BY DEF CopyDone, TypeOK, CallOK, TxnOK, InTxn
  <1>2. CallsTyped'
    BY <1>1 DEF CopyDone, TypeOK, CallsTyped
  <1> QED
    BY <1>2, Groups, Regroup, OrphansKept, StoreKept, StreamsKept DEF CopyDone

LEMMA ConflictTyped ==
  ASSUME TypeOK, NEW c \in Call, Conflict(c)
  PROVE  TypeOK'
  <1>1. CallsTyped'
    BY Groups, FailTyped DEF Conflict
  <1> QED
    BY <1>1, Groups, Regroup, OrphansKept, StoreKept, StreamsKept DEF Conflict

LEMMA CommitTyped ==
  ASSUME TypeOK, NEW c \in Call, Commit(c)
  PROVE  TypeOK'
  <1> DEFINE t == txn[c]
  <1>1. TxnOK(t) /\ pc[c] = "commit"
    BY DEF Commit, TypeOK, CallOK
  <1>2. StoreTyped'
    <2>1. DOMAIN meta' = Key /\ \A k \in Key : meta'[k] \in ItemAt(k)
      BY <1>1 DEF Commit, TypeOK, TxnOK
    <2>2. index' \in [Id -> Key \cup {NoKey}]
      BY <1>1 DEF Commit, TypeOK, TxnOK
    <2>3. chunk' \in [Blob -> [Seqno -> Blob \cup {NoUuid}]]
      BY DEF Commit, TypeOK, NoChunks
    <2> QED
      BY <2>1, <2>2, <2>3 DEF StoreTyped
  <1>3. Superseded(c) \subseteq Blob
    BY <1>1 DEF Superseded, TypeOK, CallOK, InTxn
  <1>4. stale' \in [Call -> BOOLEAN]
    BY DEF Commit, TypeOK, Overlaps, InTxn
  <1>5. CASE Superseded(c) = {}
    <2>1. /\ pc' = [pc EXCEPT ![c] = "idle"] /\ arg' = [arg EXCEPT ![c] = NoArg]
          /\ txn' = [txn EXCEPT ![c] = NoTxn] /\ UNCHANGED trash
      BY <1>5 DEF Commit
    <2>2. ASSUME NEW d \in Call PROVE CallOK(d)'
      <3>1. CASE d = c
        <4>1. pc'[d] = "idle" /\ arg'[d] = NoArg /\ txn'[d] = NoTxn
          BY <2>1, <3>1 DEF TypeOK
        <4> QED
          BY <4>1, NoTxnTyped DEF CallOK, TxnOK, NoArg, InTxn
      <3>2. CASE d # c
        <4>1. pc'[d] = pc[d] /\ arg'[d] = arg[d] /\ txn'[d] = txn[d]
          BY <2>1, <3>2 DEF TypeOK
        <4> QED
          BY <4>1 DEF TypeOK, CallOK, TxnOK, InTxn
      <3> QED
        BY <3>1, <3>2
    <2>3. CallsTyped'
      BY <1>4, <2>1, <2>2, NoTxnTyped DEF CallsTyped, TypeOK
    <2> QED
      BY <1>2, <2>3, Groups, Regroup, OrphansKept, StreamsKept DEF Commit
  <1>6. CASE Superseded(c) # {}
    <2>1. /\ pc' = [pc EXCEPT ![c] = "cleanup"]
          /\ trash' = [trash EXCEPT ![c] = Superseded(c)]
          /\ UNCHANGED <<arg, txn>>
      BY <1>6 DEF Commit
    <2>2. ASSUME NEW d \in Call PROVE CallOK(d)'
      BY <2>1 DEF TypeOK, CallOK, TxnOK, InTxn
    <2>3. CallsTyped'
      BY <1>3, <1>4, <2>1, <2>2 DEF CallsTyped, TypeOK
    <2> QED
      BY <1>2, <2>3, Groups, Regroup, OrphansKept, StreamsKept DEF Commit
  <1> QED
    BY <1>5, <1>6

LEMMA DeleteChunksTyped ==
  ASSUME TypeOK, NEW c \in Call, DeleteChunks(c)
  PROVE  TypeOK'
  <1>1. PICK b \in trash[c] :
          /\ \/ chunk' = [chunk EXCEPT ![b] = NoChunks] /\ UNCHANGED orphan
             \/ orphan' = orphan \cup {b} /\ UNCHANGED chunk
          /\ IF trash[c] = {b}
               THEN Finish(c)
               ELSE trash' = [trash EXCEPT ![c] = @ \ {b}] /\ UNCHANGED <<pc, arg, txn, stale>>
    BY DEF DeleteChunks
  <1>2. b \in Blob
    BY DEF TypeOK
  <1>3. chunk' \in [Blob -> [Seqno -> Blob \cup {NoUuid}]] /\ OrphansTyped'
    BY <1>1, <1>2 DEF TypeOK, NoChunks, OrphansTyped
  <1>4. CASE trash[c] = {b}
    <2>1. CallsTyped'
      BY <1>1, <1>4, Groups, FinishTyped
    <2> QED
      BY <1>3, <2>1, Groups, Regroup, StreamsKept DEF DeleteChunks, StoreTyped
  <1>5. CASE trash[c] # {b}
    <2>1. ASSUME NEW d \in Call PROVE CallOK(d)'
      BY <1>1, <1>5 DEF TypeOK, CallOK, TxnOK, InTxn
    <2>2. CallsTyped'
      BY <1>1, <1>5, <2>1 DEF TypeOK, CallsTyped
    <2> QED
      BY <1>3, <2>2, Groups, Regroup, StreamsKept DEF DeleteChunks, StoreTyped
  <1> QED
    BY <1>4, <1>5

(* A stream with another position, chunk and delivered bytes, or with the  *)
(* content and size of an open, is a stream.                                *)
Moved(f, p, w, c, g) == [f EXCEPT !.pos = p, !.want = w, !.cached = c, !.got = g]
Sought(f, p, g) == [f EXCEPT !.pos = p, !.got = g]
Opened(b, v) == [NoFile EXCEPT !.open = TRUE, !.blob = b, !.size = v]

LEMMA StreamMoved ==
  ASSUME NEW f \in Stream, NEW p \in Nat, NEW w \in Nat, NEW c \in Piece, NEW g \in Piece
  PROVE  /\ Moved(f, p, w, c, g) \in Stream
         /\ Moved(f, p, w, c, g).pos = p /\ Moved(f, p, w, c, g).want = w
         /\ Moved(f, p, w, c, g).open = f.open
         /\ Moved(f, p, w, c, g).blob = f.blob /\ Moved(f, p, w, c, g).size = f.size
  BY DEF Stream, Moved

LEMMA StreamSought ==
  ASSUME NEW f \in Stream, NEW p \in Nat, NEW g \in Piece
  PROVE  /\ Sought(f, p, g) \in Stream
         /\ Sought(f, p, g).pos = p /\ Sought(f, p, g).want = f.want
         /\ Sought(f, p, g).open = f.open
         /\ Sought(f, p, g).blob = f.blob /\ Sought(f, p, g).size = f.size
  BY DEF Stream, Sought

LEMMA StreamOpened ==
  ASSUME NEW b \in Blob, NEW v \in Blob
  PROVE  /\ Opened(b, v) \in Stream
         /\ Opened(b, v).pos = 0 /\ Opened(b, v).want = 0
         /\ Opened(b, v).blob = b /\ Opened(b, v).size = v
  <1>1. NoFile \in Stream /\ NoFile.pos = 0 /\ NoFile.want = 0
    BY DEF NoFile, Nothing, Stream, Piece
  <1> QED
    BY <1>1 DEF Stream, Opened

(* Only Open, on an item that is a file, gives a stream its content; the    *)
(* other steps move a position that never passes the end of the content.    *)
LEMMA ReaderStepTyped ==
  ASSUME TypeOK, NEW r \in Reader, ReaderStep(r)
  PROVE  TypeOK'
  <1> DEFINE s == file[r]
  <1>1. UNCHANGED <<store, used, calls, orphan>>
    BY DEF ReaderStep, Open, Read, ReadChunk, Seek, CloseFile
  <1>2. DOMAIN file = Reader /\ StreamOK(s)
    BY DEF TypeOK
  <1>0. Length \in Nat /\ ChunkSize \in Nat \ {0}
    BY BadgerAssumption
  <1>3. ASSUME NEW id \in Id, Open(r, id) PROVE StreamOK(file'[r])
    <2>1. file'[r] = Opened(meta[FindMetaItemByID(id)].blob, meta[FindMetaItemByID(id)].size)
      BY <1>2, <1>3 DEF Open, Opened
    <2>2. meta[FindMetaItemByID(id)] \in [id: Id, blob: Blob, size: Blob]
      BY <1>3, FoundKey, StoredItem DEF Open, WriteOK
    <2> QED
      BY <1>0, <2>1, <2>2, StreamOpened DEF StreamOK
  <1>4. ASSUME NEW n \in 1..Length, Read(r, n) PROVE StreamOK(file'[r])
    <2>1. file'[r] = [s EXCEPT !.want = n]
      BY <1>2, <1>4 DEF Read
    <2>2. s.pos + n <= Length
      BY <1>4 DEF Read
    <2> QED
      BY <1>2, <2>1, <2>2, BadgerAssumption DEF StreamOK, Stream
  <1>5. ASSUME NEW p \in 0..Length, Seek(r, p) PROVE StreamOK(file'[r])
    <2>1. file'[r] = Sought(s, p, Nothing)
      BY <1>2, <1>5 DEF Seek, Sought
    <2>2. s.want = 0
      BY <1>5 DEF Seek
    <2>3. Nothing \in Piece
      BY DEF Piece, Nothing
    <2> HIDE DEF s
    <2> QED
      BY <1>0, <1>2, <2>1, <2>2, <2>3, StreamSought DEF StreamOK
  <1>6. ASSUME ReadChunk(r) PROVE StreamOK(file'[r])
    <2>1. PICK n \in Seqno :
            LET off == s.pos - (n - 1) * ChunkSize
                k == IF s.want <= ChunkEnd(n) - s.pos THEN s.want ELSE ChunkEnd(n) - s.pos IN
              /\ 0 <= off /\ off < ChunkSize
              /\ file' = [file EXCEPT ![r] = IF Loaded(s, n).version = NoUuid
                                               THEN [s EXCEPT !.want = 0]
                                               ELSE Deliver(s, Loaded(s, n), off, k)]
      BY <1>6 DEF ReadChunk
    <2> DEFINE off == s.pos - (n - 1) * ChunkSize
               end == ChunkEnd(n)
               k == IF s.want <= end - s.pos THEN s.want ELSE end - s.pos
               loaded == Loaded(s, n)
    <2>2. s.open /\ s \in Stream /\ s.blob \in Blob /\ s.pos + s.want <= Length
      BY <1>2, <1>6 DEF ReadChunk, StreamOK
    <2>3. off \in Int /\ off < ChunkSize /\ n \in Nat
      BY <2>1, <2>2, BadgerAssumption DEF Stream, Seqno
    <2>4. end \in Int /\ s.pos < end
      <3>1. CASE n = NChunk
        BY <1>6, <2>2, <3>1, BadgerAssumption DEF ReadChunk, ChunkEnd, Stream
      <3>2. CASE n # NChunk
        <4> DEFINE before == (n - 1) * ChunkSize
        <4>1. n * ChunkSize \in Int /\ before \in Int /\ n * ChunkSize = before + ChunkSize
          BY <2>3, BadgerAssumption
        <4>2. s.pos - before < ChunkSize
          BY <2>1
        <4> HIDE DEF before
        <4>3. s.pos < n * ChunkSize
          BY <2>2, <4>1, <4>2, BadgerAssumption DEF Stream
        <4> QED
          BY <3>2, <4>1, <4>3 DEF ChunkEnd
      <3> QED
        BY <3>1, <3>2
    <2>5. loaded \in Piece
      <3>1. chunk[s.blob][n] \in Blob \cup {NoUuid}
        BY <2>2 DEF TypeOK
      <3> QED
        BY <2>2, <2>3, <3>1 DEF Loaded, Piece, Stream
    <2>6. file'[r] = IF loaded.version = NoUuid THEN [s EXCEPT !.want = 0]
                                                ELSE Deliver(s, loaded, off, k)
      BY <1>2, <2>1
    <2>7. (loaded.at - 1) * ChunkSize + off \in Int
      <3>1. loaded.at \in Int
        BY <2>5 DEF Piece
      <3> HIDE DEF loaded, off
      <3> QED
        BY <2>3, <3>1, BadgerAssumption
    <2> HIDE DEF loaded, off, end
    <2>8. k \in Nat /\ k <= s.want
      BY <2>2, <2>4 DEF Stream
    <2>9. CASE loaded.version = NoUuid
      BY <1>2, <2>2, <2>6, <2>9, BadgerAssumption DEF StreamOK, Stream
    <2>10. CASE loaded.version # NoUuid
      <3> DEFINE p == s.pos + k
                 w == s.want - k
                 g == [version |-> loaded.version, at |-> (loaded.at - 1) * ChunkSize + off + k]
      <3>1. g \in Piece
        BY <2>5, <2>7, <2>8 DEF Piece
      <3>2. file'[r] = Moved(s, p, w, loaded, g)
        BY <2>6, <2>10 DEF Deliver, Moved
      <3>3. p \in Nat /\ w \in Nat /\ p + w = s.pos + s.want
        BY <2>2, <2>8 DEF Stream
      <3>4. s \in Stream /\ loaded \in Piece
        BY <2>2, <2>5
      <3> HIDE DEF k, s, p, w, g
      <3>5. /\ file'[r] \in Stream /\ file'[r].pos = p /\ file'[r].want = w
            /\ file'[r].open = s.open /\ file'[r].blob = s.blob /\ file'[r].size = s.size
        BY <3>1, <3>2, <3>3, <3>4, StreamMoved
      <3> QED
        BY <1>2, <2>2, <3>3, <3>5 DEF StreamOK
    <2> QED
      BY <2>9, <2>10
  <1>7. ASSUME CloseFile(r) PROVE StreamOK(file'[r])
    BY <1>7, NoFileTyped DEF CloseFile, TypeOK
  <1>8. StreamOK(file'[r])
    BY <1>3, <1>4, <1>5, <1>6, <1>7 DEF ReaderStep
  <1>9. DOMAIN file' = Reader /\ \A q \in Reader \ {r} : file'[q] = file[q]
    BY <1>2 DEF ReaderStep, Open, Read, ReadChunk, Seek, CloseFile
  <1>10. StreamsTyped'
    BY <1>8, <1>9 DEF StreamsTyped, StreamOK, TypeOK
  <1> QED
    BY <1>1, <1>10, Groups, Regroup, OrphansKept, StoreKept, CallsKept

LEMMA CrashTyped ==
  ASSUME TypeOK, Crash
  PROVE  TypeOK'
  <1>1. ASSUME NEW d \in Call PROVE CallOK(d)'
    <2>1. pc'[d] = "idle" /\ arg'[d] = NoArg /\ txn'[d] = NoTxn
      BY DEF Crash
    <2> QED
      BY <2>1, NoTxnTyped DEF CallOK, TxnOK, NoArg, InTxn
  <1>2. CallsTyped'
    BY <1>1, NoTxnTyped DEF Crash, CallsTyped
  <1>3. StreamsTyped'
    BY NoFileTyped DEF Crash, StreamsTyped, StreamOK
  <1> QED
    BY <1>2, <1>3, Groups, Regroup, OrphansKept, StoreKept DEF Crash

LEMMA InitTyped == Init => TypeOK
  <1> SUFFICES ASSUME Init PROVE TypeOK
    OBVIOUS
  <1>1. StoreTyped
    BY DEF Init, StoreTyped, ItemAt, NoChunks
  <1>2. ASSUME NEW c \in Call PROVE CallOK(c)
    <2>1. pc[c] = "idle" /\ arg[c] = NoArg /\ txn[c] = NoTxn
      BY DEF Init
    <2> QED
      BY <2>1, NoTxnTyped DEF CallOK, NoArg, InTxn
  <1>3. CallsTyped
    BY <1>2, NoTxnTyped DEF Init, CallsTyped
  <1>4. StreamsTyped
    BY NoFileTyped DEF Init, StreamsTyped
  <1> QED
    BY <1>1, <1>3, <1>4, Groups DEF Init, OrphansTyped

LEMMA NextTyped == TypeOK /\ [Next]_vars => TypeOK'
  <1> SUFFICES ASSUME TypeOK, [Next]_vars PROVE TypeOK'
    OBVIOUS
  <1>1. ASSUME NEW c \in Call, CallStep(c) PROVE TypeOK'
    BY <1>1, StartCreateTyped, StartWriteTyped, WriteChunkTyped, UploadFailsTyped,
       BeginCreateTyped, BeginWriteTyped, MkdirTyped, WriteCommentsTyped, DeleteTyped,
       MoveTyped, CopyTyped, CopyChunkTyped, CopyDoneTyped, ConflictTyped, CommitTyped,
       DeleteChunksTyped DEF CallStep
  <1>2. ASSUME NEW r \in Reader, ReaderStep(r) PROVE TypeOK'
    BY <1>2, ReaderStepTyped
  <1>3. CASE Crash
    BY <1>3, CrashTyped
  <1>4. CASE UNCHANGED vars
    BY <1>4, Groups, Regroup, OrphansKept, StoreKept, CallsKept, StreamsKept DEF vars, store, calls
  <1> QED
    BY <1>1, <1>2, <1>3, <1>4 DEF Next

(* Every reachable state is well typed: an item under a file's key always  *)
(* has a content and one under a directory's key none, in the store and in *)
(* everything an open transaction is about to write.                       *)
THEOREM TypeCorrect == Spec => []TypeOK
  BY InitTyped, NextTyped, PTL DEF Spec
-----------------------------------------------------------------------------
(***************************************************************************)
(* The identifier index of the Badger driver stays consistent with the     *)
(* metadata for any number of overlapping calls: Spec => []MetaIndexed.    *)
(*                                                                         *)
(* MetaIndexed speaks of committed data only; what it takes for a commit   *)
(* to preserve it is a fact about every open transaction: each item it     *)
(* plans to store has its index entry planned with it or kept from the     *)
(* snapshot, each index entry it plans to change belongs to an item it     *)
(* read and also rewrites or to an identifier it drew, and, while no key   *)
(* it read was written, the store still is what it read.                   *)
(***************************************************************************)

(* The identifiers in the index writes of t that are new: no item t read has them. *)
NewIds(t) == {i \in DOMAIN t.wi : \A o \in DOMAIN t.rm : t.rm[o].id # i}

(* The identifiers call c has drawn and not yet stored. *)
Drawn(c) ==
  IF InTxn(c) THEN NewIds(txn[c])
  ELSE IF pc[c] = "upload" /\ arg[c].op = "Create" THEN {arg[c].id} ELSE {}

(* An identifier belongs to at most one item or call, and was drawn. *)
StoredIdsUsed == \A k \in Key : Exists(k) => meta[k].id \in used
DrawnIdsFresh ==
  \A c \in Call : /\ Drawn(c) \subseteq used
                  /\ \A k \in Key : meta[k].id \notin Drawn(c)
                  /\ \A d \in Call \ {c} : Drawn(c) \cap Drawn(d) = {}

(* What t plans keeps the index consistent with the metadata. *)
PlannedEntry(t, k) ==
  \/ t.wm[k].id \in DOMAIN t.wi /\ t.wi[t.wm[k].id] = k
  \/ t.wm[k].id \notin DOMAIN t.wi /\ k \in DOMAIN t.rm /\ t.rm[k].id = t.wm[k].id
PlannedOwner(t, i) == \E o \in DOMAIN t.rm \cap DOMAIN t.wm : t.rm[o].id = i
PlanOK(t) ==
  /\ \A k \in DOMAIN t.wm : t.wm[k] # NoItem => PlannedEntry(t, k)
  /\ \A i \in DOMAIN t.wi : PlannedOwner(t, i) \/ i \in NewIds(t)
PlansOK == \A c \in Call : InTxn(c) => PlanOK(txn[c])

(* The identifiers t stores were drawn. *)
PlannedIdsUsed ==
  \A c \in Call : InTxn(c) =>
    \A k \in DOMAIN txn[c].wm : txn[c].wm[k] # NoItem => txn[c].wm[k].id \in used

(* A transaction that would commit still sees the store it read. *)
SnapshotsCurrent ==
  \A c \in Call : InTxn(c) /\ ~stale[c] => \A k \in DOMAIN txn[c].rm : meta[k] = txn[c].rm[k]

IndexInv ==
  /\ TypeOK /\ MetaIndexed
  /\ StoredIdsUsed /\ DrawnIdsFresh /\ PlansOK /\ PlannedIdsUsed /\ SnapshotsCurrent
-----------------------------------------------------------------------------
(***************************************************************************)
(* The transactions: each plan is sound when the transaction begins.       *)
(***************************************************************************)

(* Distinct items have distinct identifiers. *)
LEMMA OneItemPerId ==
  ASSUME MetaIndexed, NEW k \in Key, NEW j \in Key, Exists(k), Exists(j), meta[k].id = meta[j].id
  PROVE  k = j
  BY DEF MetaIndexed

(* No absent item has an identifier. *)
LEMMA AbsentId ==
  ASSUME TypeOK, NEW k \in Key, meta[k].id \in Id
  PROVE  Exists(k)
  <1>1. k # NoKey
    BY PathAssumption DEF Key, NoKey
  <1>2. meta[k] # NoItem
    BY PathAssumption DEF NoItem
  <1> QED
    BY <1>1, <1>2 DEF Exists

(* Facts a transaction has when it begins in the current state. *)
Sound(t) ==
  /\ PlanOK(t)
  /\ \A k \in DOMAIN t.rm : meta[k] = t.rm[k]
  /\ DOMAIN t.rm \subseteq Key

LEMMA CreateTxnSound ==
  ASSUME TypeOK, NEW k \in Key, NEW item \in ItemAt(k), item.id \in Id, CreateOK(k),
         \A j \in Key : meta[j].id # item.id
  PROVE  /\ Sound(CreateTxn(k, item))
         /\ NewIds(CreateTxn(k, item)) \subseteq {item.id}
         /\ \A j \in DOMAIN CreateTxn(k, item).wm : CreateTxn(k, item).wm[j].id = item.id
  <1> DEFINE t == CreateTxn(k, item)
  <1>1. /\ t.rm = Restrict(meta, ParentReads(k) \cup {k})
        /\ t.wm = Only(k, item) /\ t.wi = Only(item.id, k)
    BY DEF CreateTxn, NoTxn
  <1>2. DOMAIN t.rm \subseteq Key
    BY CreateTxnTyped DEF TxnOK
  <1> HIDE DEF t
  <1>3. \A j \in DOMAIN t.rm : meta[j] = t.rm[j]
    BY <1>1 DEF Restrict
  <1>4. DOMAIN t.wm = {k} /\ t.wm[k] = item /\ DOMAIN t.wi = {item.id} /\ t.wi[item.id] = k
    BY <1>1 DEF Only
  <1>5. NewIds(t) = {item.id}
    BY <1>2, <1>3, <1>4 DEF NewIds
  <1>6. PlanOK(t)
    BY <1>4, <1>5 DEF PlanOK, PlannedEntry
  <1> QED
    BY <1>2, <1>3, <1>4, <1>5, <1>6 DEF Sound, t

LEMMA UpdateTxnSound ==
  ASSUME TypeOK, NEW id \in Id, NEW blob, NEW size, FindMetaItemByID(id) # NoKey
  PROVE  /\ Sound(UpdateTxn(id, blob, size))
         /\ NewIds(UpdateTxn(id, blob, size)) = {}
         /\ \A j \in DOMAIN UpdateTxn(id, blob, size).wm :
              j \in Key /\ Exists(j) /\ UpdateTxn(id, blob, size).wm[j].id = meta[j].id
  <1> DEFINE t == UpdateTxn(id, blob, size)
             k == FindMetaItemByID(id)
             item == [meta[k] EXCEPT !.blob = blob, !.size = size]
  <1>1. k \in Key /\ Exists(k)
    BY FoundKey
  <1>2. meta[k] \in [id: Id, blob: Blob, size: Blob] \cup [id: Id, blob: {NoUuid}, size: {NoUuid}]
    BY <1>1, StoredItem
  <1>3. t.rm = Restrict(meta, {k}) /\ t.wm = Only(k, item) /\ t.wi = Empty
    BY DEF UpdateTxn, NoTxn
  <1> HIDE DEF t, k
  <1>4. item.id = meta[k].id
    BY <1>2
  <1> HIDE DEF item
  <1>5. DOMAIN t.rm = {k} /\ t.rm[k] = meta[k] /\ DOMAIN t.wm = {k} /\ t.wm[k] = item /\ DOMAIN t.wi = {}
    BY <1>3 DEF Restrict, Only, Empty
  <1>6. PlanOK(t)
    BY <1>4, <1>5 DEF PlanOK, PlannedEntry
  <1> QED
    BY <1>1, <1>4, <1>5, <1>6 DEF Sound, NewIds, t

LEMMA DeleteTxnSound ==
  ASSUME TypeOK, NEW id \in Id, FindMetaItemByID(id) # NoKey
  PROVE  /\ Sound(DeleteTxn(id))
         /\ NewIds(DeleteTxn(id)) = {}
         /\ \A j \in DOMAIN DeleteTxn(id).wm : DeleteTxn(id).wm[j] = NoItem
  <1> DEFINE t == DeleteTxn(id)
             S == TransferItems(FindMetaItemByID(id))
  <1>1. S \subseteq Key
    BY FoundKey, CollectedItems
  <1>2. t.rm = Restrict(meta, S) /\ t.wm = ErasedMeta(S) /\ t.wi = ErasedIndex(S)
    BY DEF DeleteTxn, NoTxn
  <1> HIDE DEF t, S
  <1>3. /\ DOMAIN t.rm = S /\ DOMAIN t.wm = S /\ DOMAIN t.wi = IdsOf(S)
        /\ \A j \in S : t.rm[j] = meta[j] /\ t.wm[j] = NoItem
    BY <1>2 DEF Restrict, ErasedMeta, ErasedIndex
  <1>4. \A i \in DOMAIN t.wi : PlannedOwner(t, i)
    BY <1>3 DEF PlannedOwner, IdsOf
  <1>5. NewIds(t) = {}
    BY <1>4 DEF NewIds, PlannedOwner
  <1> QED
    BY <1>1, <1>3, <1>4, <1>5 DEF Sound, PlanOK, t

(* A moved item takes its index entry along: the entry written for its     *)
(* identifier is the key the item is written under.                        *)
LEMMA MoveTxnSound ==
  ASSUME TypeOK, MetaIndexed,
         NEW id \in Id, NEW dst \in Path, NEW rep, TransferOK(id, dst, rep)
  PROVE  /\ Sound(MoveTxn(id, dst))
         /\ NewIds(MoveTxn(id, dst)) = {}
         /\ \A k \in DOMAIN MoveTxn(id, dst).wm :
              MoveTxn(id, dst).wm[k] # NoItem =>
                \E o \in Key : Exists(o) /\ MoveTxn(id, dst).wm[k].id = meta[o].id
  <1> DEFINE t == MoveTxn(id, dst)
             src == FindMetaItemByID(id)
             items == TransferItems(src)
             KeyOf(i) == CHOOSE k \in items : meta[k].id = i
  <1>1. /\ t.rm = Restrict(meta, TransferReads(src, dst))
        /\ t.wm = Before([k \in DestKeys(src, dst) |-> meta[Origin(k, src, dst)]],
                         ErasedMeta(items \cup Replaced(dst)))
        /\ t.wi = Before([i \in IdsOf(items) |-> DestKey(KeyOf(i), src, dst)],
                         ErasedIndex(Replaced(dst)))
    BY DEF MoveTxn, NoTxn
  <1> HIDE DEF t, src, KeyOf
  <1>2. /\ items \subseteq Key /\ \A j \in items : Exists(j)
        /\ \A k \in DestKeys(src, dst) : /\ Origin(k, src, dst) \in items
                                         /\ DestKey(Origin(k, src, dst), src, dst) = k
        /\ TransferReads(src, dst) \subseteq Key
        /\ items \cup Replaced(dst) \subseteq TransferReads(src, dst)
    BY TransferFacts DEF src
  <1> HIDE DEF items
  <1>3. DOMAIN t.rm = TransferReads(src, dst) /\ \A j \in DOMAIN t.rm : t.rm[j] = meta[j]
    BY <1>1 DEF Restrict
  <1>4. /\ items \cup Replaced(dst) \subseteq DOMAIN t.wm
        /\ \A k \in DestKeys(src, dst) : t.wm[k] = meta[Origin(k, src, dst)]
        /\ \A k \in DOMAIN t.wm \ DestKeys(src, dst) : t.wm[k] = NoItem
    BY <1>1 DEF Before, ErasedMeta
  <1>5. /\ DOMAIN t.wi = IdsOf(items) \cup IdsOf(Replaced(dst))
        /\ \A i \in IdsOf(items) : t.wi[i] = DestKey(KeyOf(i), src, dst)
    BY <1>1 DEF Before, ErasedIndex
  <1>6. ASSUME NEW o \in items PROVE KeyOf(meta[o].id) = o
    <2>1. KeyOf(meta[o].id) \in items /\ meta[KeyOf(meta[o].id)].id = meta[o].id
      BY DEF KeyOf
    <2> QED
      BY <1>2, <2>1, OneItemPerId
  <1>7. ASSUME NEW k \in DOMAIN t.wm, t.wm[k] # NoItem
        PROVE  /\ k \in DestKeys(src, dst)
               /\ PlannedEntry(t, k)
    <2> DEFINE o == Origin(k, src, dst)
    <2>1. k \in DestKeys(src, dst)
      BY <1>4, <1>7
    <2>2. o \in items /\ DestKey(o, src, dst) = k /\ t.wm[k] = meta[o]
      BY <1>2, <1>4, <2>1
    <2>3. meta[o].id \in IdsOf(items)
      BY <2>2 DEF IdsOf
    <2>4. t.wi[meta[o].id] = k
      BY <1>5, <1>6, <2>2, <2>3
    <2> QED
      BY <1>5, <2>1, <2>2, <2>3, <2>4 DEF PlannedEntry
  <1>8. \A i \in DOMAIN t.wi : PlannedOwner(t, i)
    <2>1. ASSUME NEW S, S \subseteq items \cup Replaced(dst), NEW i \in IdsOf(S)
          PROVE  PlannedOwner(t, i)
      <3>1. PICK o \in S : meta[o].id = i
        BY DEF IdsOf
      <3>2. o \in DOMAIN t.rm /\ o \in DOMAIN t.wm
        BY <1>2, <1>3, <1>4, <2>1, <3>1
      <3> QED
        BY <1>3, <3>1, <3>2 DEF PlannedOwner
    <2> QED
      BY <1>5, <2>1
  <1>9. NewIds(t) = {}
    BY <1>8 DEF NewIds, PlannedOwner
  <1>10. Sound(t)
    BY <1>2, <1>3, <1>7, <1>8 DEF Sound, PlanOK
  <1>11. \A k \in DOMAIN t.wm : t.wm[k] # NoItem => \E o \in Key : Exists(o) /\ t.wm[k].id = meta[o].id
    BY <1>2, <1>4, <1>7
  <1> QED
    BY <1>9, <1>10, <1>11 DEF t

(* A copied item gets a drawn identifier, indexed under its new key. *)
LEMMA CopyTxnSound ==
  ASSUME TypeOK, NEW id \in Id, NEW dst \in Path, NEW rep, TransferOK(id, dst, rep),
         NEW items, items = TransferItems(FindMetaItemByID(id)),
         NEW newId \in [items -> Id], NEW newBlob \in [Files(items) -> Blob],
         \A x, y \in items : newId[x] = newId[y] => x = y,
         \A j \in Key : meta[j].id \notin Range(newId)
  PROVE  /\ Sound(CopyTxn(id, dst, newId, newBlob))
         /\ NewIds(CopyTxn(id, dst, newId, newBlob)) \subseteq Range(newId)
         /\ \A k \in DOMAIN CopyTxn(id, dst, newId, newBlob).wm :
              CopyTxn(id, dst, newId, newBlob).wm[k] # NoItem =>
                CopyTxn(id, dst, newId, newBlob).wm[k].id \in Range(newId)
  <1> DEFINE t == CopyTxn(id, dst, newId, newBlob)
             src == FindMetaItemByID(id)
             Copied(o) == [meta[o] EXCEPT !.id = newId[o],
                                          !.blob = IF o.dir THEN NoUuid ELSE newBlob[o]]
             ItemOf(i) == CHOOSE o \in items : newId[o] = i
  <1>1. /\ t.rm = Restrict(meta, TransferReads(src, dst))
        /\ t.wm = Before([k \in DestKeys(src, dst) |-> Copied(Origin(k, src, dst))],
                         ErasedMeta(Replaced(dst)))
        /\ t.wi = Before([i \in Range(newId) |-> DestKey(ItemOf(i), src, dst)],
                         ErasedIndex(Replaced(dst)))
    BY DEF CopyTxn, NoTxn
  <1> HIDE DEF t, src, Copied, ItemOf
  <1>2. /\ items \subseteq Key /\ \A j \in items : Exists(j)
        /\ \A k \in DestKeys(src, dst) : /\ Origin(k, src, dst) \in items
                                         /\ DestKey(Origin(k, src, dst), src, dst) = k
        /\ TransferReads(src, dst) \subseteq Key
        /\ Replaced(dst) \subseteq TransferReads(src, dst)
    BY TransferFacts DEF src
  <1>3. DOMAIN t.rm = TransferReads(src, dst) /\ \A j \in DOMAIN t.rm : t.rm[j] = meta[j]
    BY <1>1 DEF Restrict
  <1>4. /\ Replaced(dst) \subseteq DOMAIN t.wm
        /\ \A k \in DestKeys(src, dst) : t.wm[k] = Copied(Origin(k, src, dst))
        /\ \A k \in DOMAIN t.wm \ DestKeys(src, dst) : t.wm[k] = NoItem
    BY <1>1 DEF Before, ErasedMeta
  <1>5. /\ DOMAIN t.wi = Range(newId) \cup IdsOf(Replaced(dst))
        /\ \A i \in Range(newId) : t.wi[i] = DestKey(ItemOf(i), src, dst)
    BY <1>1 DEF Before, ErasedIndex
  <1>6. ASSUME NEW o \in items PROVE ItemOf(newId[o]) = o /\ newId[o] \in Range(newId)
    <2>1. ItemOf(newId[o]) \in items /\ newId[ItemOf(newId[o])] = newId[o]
      BY DEF ItemOf
    <2> QED
      BY <2>1 DEF Range
  <1>7. ASSUME NEW o \in items PROVE Copied(o).id = newId[o]
    <2>1. meta[o] \in [id: Id, blob: Blob, size: Blob] \cup [id: Id, blob: {NoUuid}, size: {NoUuid}]
      BY <1>2, StoredItem
    <2> QED
      BY <2>1 DEF Copied
  <1>8. ASSUME NEW k \in DOMAIN t.wm, t.wm[k] # NoItem
        PROVE  t.wm[k].id \in Range(newId) /\ PlannedEntry(t, k)
    <2> DEFINE o == Origin(k, src, dst)
    <2>1. k \in DestKeys(src, dst)
      BY <1>4, <1>8
    <2>2. o \in items /\ DestKey(o, src, dst) = k /\ t.wm[k] = Copied(o)
      BY <1>2, <1>4, <2>1
    <2>3. t.wm[k].id = newId[o] /\ newId[o] \in Range(newId)
      BY <1>6, <1>7, <2>2
    <2>4. t.wi[newId[o]] = k
      BY <1>5, <1>6, <2>2, <2>3
    <2> QED
      BY <1>5, <2>3, <2>4 DEF PlannedEntry
  <1>9. \A i \in Range(newId) : i \in NewIds(t)
    BY <1>2, <1>3, <1>5 DEF NewIds
  <1>10. \A i \in IdsOf(Replaced(dst)) : PlannedOwner(t, i)
    BY <1>2, <1>3, <1>4 DEF PlannedOwner, IdsOf
  <1>11. NewIds(t) \subseteq Range(newId)
    BY <1>5, <1>10 DEF NewIds, PlannedOwner
  <1>12. Sound(t)
    BY <1>2, <1>3, <1>5, <1>8, <1>9, <1>10 DEF Sound, PlanOK
  <1> QED
    BY <1>8, <1>11, <1>12 DEF t
-----------------------------------------------------------------------------
(***************************************************************************)
(* Steps of a call that leave metadata and index alone.                    *)
(***************************************************************************)

(* What a call may have become for the invariant to hold on. *)
CallSound(c) ==
  /\ Drawn(c) \subseteq used
  /\ InTxn(c) => /\ PlanOK(txn[c])
                 /\ \A k \in DOMAIN txn[c].wm : txn[c].wm[k] # NoItem => txn[c].wm[k].id \in used
                 /\ ~stale[c] => \A k \in DOMAIN txn[c].rm : meta[k] = txn[c].rm[k]

LEMMA CallChange ==
  ASSUME IndexInv, TypeOK', NEW c \in Call, UNCHANGED <<meta, index>>, used \subseteq used',
         \A d \in Call \ {c} : /\ pc'[d] = pc[d] /\ arg'[d] = arg[d]
                               /\ txn'[d] = txn[d] /\ stale'[d] = stale[d],
         CallSound(c)',
         \A k \in Key : meta[k].id \notin Drawn(c)',
         \A d \in Call \ {c} : Drawn(c)' \cap Drawn(d) = {}
  PROVE  IndexInv'
  <1>1. ASSUME NEW d \in Call \ {c} PROVE Drawn(d)' = Drawn(d) /\ (InTxn(d)' <=> InTxn(d))
    <2>1. pc'[d] = pc[d] /\ arg'[d] = arg[d] /\ txn'[d] = txn[d]
      OBVIOUS
    <2>2. InTxn(d)' <=> InTxn(d)
      BY <2>1 DEF InTxn
    <2>3. NewIds(txn[d])' = NewIds(txn[d])
      BY <2>1 DEF NewIds
    <2> QED
      BY <2>1, <2>2, <2>3 DEF Drawn
  <1>2. MetaIndexed' /\ StoredIdsUsed'
    BY DEF IndexInv, MetaIndexed, StoredIdsUsed, Exists
  <1>3. DrawnIdsFresh'
    <2>1. ASSUME NEW d \in Call
          PROVE  Drawn(d)' \subseteq used' /\ \A k \in Key : meta'[k].id \notin Drawn(d)'
      BY <1>1 DEF IndexInv, DrawnIdsFresh, CallSound
    <2>2. ASSUME NEW d \in Call, NEW e \in Call \ {d}
          PROVE  Drawn(d)' \cap Drawn(e)' = {}
      BY <1>1 DEF IndexInv, DrawnIdsFresh
    <2> QED
      BY <2>1, <2>2 DEF DrawnIdsFresh
  <1>4. PlansOK'
    <2>1. ASSUME NEW d \in Call, InTxn(d)' PROVE PlanOK(txn'[d])
      BY <1>1, <2>1 DEF IndexInv, PlansOK, CallSound
    <2> QED
      BY <2>1 DEF PlansOK
  <1>5. PlannedIdsUsed'
    <2>1. ASSUME NEW d \in Call, InTxn(d)', NEW k \in DOMAIN txn'[d].wm, txn'[d].wm[k] # NoItem
          PROVE  txn'[d].wm[k].id \in used'
      BY <1>1, <2>1 DEF IndexInv, PlannedIdsUsed, CallSound
    <2> QED
      BY <2>1 DEF PlannedIdsUsed
  <1>6. SnapshotsCurrent'
    <2>1. ASSUME NEW d \in Call, InTxn(d)', ~stale'[d], NEW k \in DOMAIN txn'[d].rm
          PROVE  meta'[k] = txn'[d].rm[k]
      BY <1>1, <2>1 DEF IndexInv, SnapshotsCurrent, CallSound
    <2> QED
      BY <2>1 DEF SnapshotsCurrent
  <1> QED
    BY <1>2, <1>3, <1>4, <1>5, <1>6 DEF IndexInv

(* A call that returns, fails or goes on to clean up holds no identifier. *)
LEMMA CallOut ==
  ASSUME IndexInv, TypeOK', NEW c \in Call, UNCHANGED <<meta, index>>, used' = used,
         \/ Finish(c)
         \/ \E B : CleanUp(c, B)
  PROVE  IndexInv'
  <1>1. pc'[c] \in {"idle", "cleanup"}
    BY DEF Finish, CleanUp, IndexInv, TypeOK
  <1>2. ~InTxn(c)' /\ Drawn(c)' = {}
    BY <1>1 DEF InTxn, Drawn
  <1>3. \A d \in Call \ {c} : /\ pc'[d] = pc[d] /\ arg'[d] = arg[d]
                              /\ txn'[d] = txn[d] /\ stale'[d] = stale[d]
    BY DEF Finish, CleanUp, IndexInv, TypeOK
  <1> QED
    BY <1>2, <1>3, CallChange DEF CallSound

LEMMA FailIndexed ==
  ASSUME IndexInv, TypeOK', NEW c \in Call, UNCHANGED <<meta, index>>, used' = used, Fail(c)
  PROVE  IndexInv'
  BY CallOut DEF Fail

(* Nothing the invariant speaks of changes. *)
LEMMA CallsAsBefore ==
  ASSUME IndexInv, TypeOK', UNCHANGED <<meta, index, used, pc, arg, txn, stale>>
  PROVE  IndexInv'
  <1>1. \A d \in Call : Drawn(d)' = Drawn(d) /\ InTxn(d)' = InTxn(d)
    BY DEF Drawn, InTxn, NewIds
  <1>2. MetaIndexed' /\ StoredIdsUsed'
    BY DEF IndexInv, MetaIndexed, StoredIdsUsed, Exists
  <1>3. DrawnIdsFresh'
    BY <1>1 DEF IndexInv, DrawnIdsFresh
  <1>4. PlansOK' /\ PlannedIdsUsed' /\ SnapshotsCurrent'
    BY <1>1 DEF IndexInv, PlansOK, PlannedIdsUsed, SnapshotsCurrent
  <1> QED
    BY <1>2, <1>3, <1>4 DEF IndexInv

(* A transaction begins with a sound plan. *)
LEMMA BeginIndexed ==
  ASSUME IndexInv, TypeOK', NEW c \in Call, NEW a, NEW t, Begin(c, a, t),
         UNCHANGED <<meta, index>>, used \subseteq used',
         Sound(t), NewIds(t) \subseteq used',
         \A k \in DOMAIN t.wm : t.wm[k] # NoItem => t.wm[k].id \in used',
         \A k \in Key : meta[k].id \notin NewIds(t),
         \A d \in Call \ {c} : NewIds(t) \cap Drawn(d) = {}
  PROVE  IndexInv'
  <1>1. /\ pc'[c] \in {"copy", "commit"} /\ txn'[c] = t /\ ~stale'[c]
        /\ \A d \in Call \ {c} : /\ pc'[d] = pc[d] /\ arg'[d] = arg[d]
                                 /\ txn'[d] = txn[d] /\ stale'[d] = stale[d]
    BY DEF Begin, IndexInv, TypeOK
  <1>2. InTxn(c)' /\ Drawn(c)' = NewIds(t)
    BY <1>1 DEF InTxn, Drawn, NewIds
  <1>3. CallSound(c)'
    <2>1. PlanOK(txn'[c]) /\ \A k \in DOMAIN txn'[c].rm : meta'[k] = txn'[c].rm[k]
      BY <1>1 DEF Sound
    <2> QED
      BY <1>1, <1>2, <2>1 DEF CallSound
  <1> QED
    BY <1>1, <1>2, <1>3, CallChange

(* An identifier no call has drawn and no item has. *)
LEMMA UnusedId ==
  ASSUME IndexInv, NEW i \in Id \ used
  PROVE  /\ \A k \in Key : meta[k].id # i
         /\ \A d \in Call : i \notin Drawn(d)
  BY AbsentId DEF IndexInv, StoredIdsUsed, DrawnIdsFresh

LEMMA StartCreateIndexed ==
  ASSUME IndexInv, TypeOK', NEW c \in Call, NEW k, StartCreate(c, k)
  PROVE  IndexInv'
  <1> DEFINE id == NewV4({k}, Id)[k]
             blob == NewV4({k}, Blob)[k]
             a == [op |-> "Create", id |-> id, blob |-> blob, key |-> k, rep |-> NoUuid]
  <1>1. id \in Id \ used
    BY DrawOne DEF StartCreate
  <1>2. Upload(c, a) /\ used' = used \cup {id, blob} /\ UNCHANGED <<meta, index>>
    BY DEF StartCreate, store
  <1> HIDE DEF id, blob
  <1>3. pc'[c] = "upload" /\ arg'[c] = a
    BY <1>2 DEF Upload, IndexInv, TypeOK
  <1>4. ~InTxn(c)' /\ Drawn(c)' = {id}
    BY <1>3 DEF InTxn, Drawn
  <1>5. \A d \in Call \ {c} : /\ pc'[d] = pc[d] /\ arg'[d] = arg[d]
                              /\ txn'[d] = txn[d] /\ stale'[d] = stale[d]
    BY <1>2 DEF Upload, IndexInv, TypeOK
  <1>6. CallSound(c)'
    BY <1>2, <1>4 DEF CallSound
  <1> QED
    BY <1>1, <1>2, <1>4, <1>5, <1>6, UnusedId, CallChange

LEMMA StartWriteIndexed ==
  ASSUME IndexInv, TypeOK', NEW c \in Call, NEW id, StartWrite(c, id)
  PROVE  IndexInv'
  <1> DEFINE blob == NewV4({id}, Blob)[id]
             a == [NoArg EXCEPT !.op = "Write", !.id = id, !.blob = blob]
  <1>1. Upload(c, a) /\ used \subseteq used' /\ UNCHANGED <<meta, index>>
    BY DEF StartWrite, store
  <1>2. a.op = "Write"
    BY DEF NoArg
  <1> HIDE DEF a
  <1>3. pc'[c] = "upload" /\ arg'[c] = a
    BY <1>1 DEF Upload, IndexInv, TypeOK
  <1>4. ~InTxn(c)' /\ Drawn(c)' = {}
    BY <1>2, <1>3 DEF InTxn, Drawn
  <1>5. \A d \in Call \ {c} : /\ pc'[d] = pc[d] /\ arg'[d] = arg[d]
                              /\ txn'[d] = txn[d] /\ stale'[d] = stale[d]
    BY <1>1 DEF Upload, IndexInv, TypeOK
  <1>6. CallSound(c)'
    BY <1>4 DEF CallSound
  <1> QED
    BY <1>1, <1>4, <1>5, <1>6, CallChange

LEMMA BeginCreateIndexed ==
  ASSUME IndexInv, TypeOK', NEW c \in Call, BeginCreate(c)
  PROVE  IndexInv'
  <1> DEFINE k == arg[c].key
             item == [id |-> arg[c].id, blob |-> arg[c].blob, size |-> arg[c].blob]
             t == CreateTxn(k, item)
  <1>1. /\ k \in Key /\ ~k.dir /\ arg[c].id \in Id /\ arg[c].blob \in Blob
        /\ UNCHANGED <<meta, index>> /\ used' = used
    BY DEF BeginCreate, IndexInv, TypeOK, CallOK, store
  <1>2. item \in ItemAt(k) /\ item.id = arg[c].id
    BY <1>1 DEF ItemAt
  <1>3. Drawn(c) = {item.id}
    BY <1>2 DEF BeginCreate, Drawn, InTxn
  <1>4. CASE CreateOK(k)
    <2>1. Begin(c, arg[c], t)
      BY <1>4 DEF BeginCreate
    <2>2. /\ \A j \in Key : meta[j].id # item.id
          /\ item.id \in used
          /\ \A d \in Call \ {c} : item.id \notin Drawn(d)
      BY <1>3 DEF IndexInv, DrawnIdsFresh
    <2> HIDE DEF item, k
    <2>3. /\ Sound(t) /\ NewIds(t) \subseteq {item.id}
          /\ \A j \in DOMAIN t.wm : t.wm[j].id = item.id
      BY <1>1, <1>2, <1>4, <2>2, CreateTxnSound DEF IndexInv
    <2> HIDE DEF t
    <2> QED
      BY <1>1, <2>1, <2>2, <2>3, BeginIndexed
  <1>5. CASE ~CreateOK(k)
    BY <1>1, <1>5, FailIndexed DEF BeginCreate
  <1> QED
    BY <1>4, <1>5

LEMMA BeginWriteIndexed ==
  ASSUME IndexInv, TypeOK', NEW c \in Call, BeginWrite(c)
  PROVE  IndexInv'
  <1> DEFINE id == arg[c].id
             t == UpdateTxn(id, arg[c].blob, arg[c].blob)
  <1>1. id \in Id /\ UNCHANGED <<meta, index>> /\ used' = used
    BY DEF BeginWrite, IndexInv, TypeOK, CallOK, store
  <1>2. CASE WriteOK(id)
    <2>1. Begin(c, arg[c], t)
      BY <1>2 DEF BeginWrite
    <2>2. /\ Sound(t) /\ NewIds(t) = {}
          /\ \A j \in DOMAIN t.wm : j \in Key /\ Exists(j) /\ t.wm[j].id = meta[j].id
      BY <1>1, <1>2, UpdateTxnSound DEF WriteOK, IndexInv
    <2> HIDE DEF t
    <2>3. \A j \in DOMAIN t.wm : t.wm[j].id \in used
      BY <2>2 DEF IndexInv, StoredIdsUsed
    <2> QED
      BY <1>1, <2>1, <2>2, <2>3, BeginIndexed
  <1>3. CASE ~WriteOK(id)
    BY <1>1, <1>3, FailIndexed DEF BeginWrite
  <1> QED
    BY <1>2, <1>3

LEMMA MkdirIndexed ==
  ASSUME IndexInv, TypeOK', NEW c \in Call, NEW p \in Path, Mkdir(c, DirKey(p))
  PROVE  IndexInv'
  <1> DEFINE k == DirKey(p)
             id == NewV4({k}, Id)[k]
             item == [NoItem EXCEPT !.id = id]
             t == CreateTxn(k, item)
             a == [NoArg EXCEPT !.op = "Mkdir"]
  <1>1. id \in Id \ used
    BY DrawOne DEF Mkdir
  <1>2. k \in Key /\ k.dir
    BY DEF DirKey, Key
  <1>3. Begin(c, a, t) /\ CreateOK(k) /\ used' = used \cup {id} /\ UNCHANGED <<meta, index>>
    BY DEF Mkdir, store
  <1> HIDE DEF id, k, a
  <1>4. item \in ItemAt(k) /\ item.id = id
    BY <1>1, <1>2 DEF ItemAt, NoItem
  <1> HIDE DEF item
  <1>5. \A j \in Key : meta[j].id # id
    BY <1>1, UnusedId
  <1>6. /\ Sound(t) /\ NewIds(t) \subseteq {id}
        /\ \A j \in DOMAIN t.wm : t.wm[j].id = id
    BY <1>1, <1>2, <1>3, <1>4, <1>5, CreateTxnSound DEF IndexInv
  <1> HIDE DEF t
  <1> QED
    BY <1>1, <1>3, <1>5, <1>6, UnusedId, BeginIndexed

LEMMA WriteCommentsIndexed ==
  ASSUME IndexInv, TypeOK', NEW c \in Call, NEW id \in Id, WriteComments(c, id)
  PROVE  IndexInv'
  <1> DEFINE m == meta[FindMetaItemByID(id)]
             t == UpdateTxn(id, m.blob, m.size)
             a == [NoArg EXCEPT !.op = "WriteComments"]
  <1>1. Begin(c, a, t) /\ used' = used /\ UNCHANGED <<meta, index>>
    BY DEF WriteComments, store
  <1>2. /\ Sound(t) /\ NewIds(t) = {}
        /\ \A j \in DOMAIN t.wm : j \in Key /\ Exists(j) /\ t.wm[j].id = meta[j].id
    BY UpdateTxnSound DEF WriteComments, IndexInv
  <1> HIDE DEF t, a
  <1>3. \A j \in DOMAIN t.wm : t.wm[j].id \in used
    BY <1>2 DEF IndexInv, StoredIdsUsed
  <1> QED
    BY <1>1, <1>2, <1>3, BeginIndexed

LEMMA DeleteIndexed ==
  ASSUME IndexInv, TypeOK', NEW c \in Call, NEW id \in Id, Delete(c, id)
  PROVE  IndexInv'
  <1> DEFINE t == DeleteTxn(id)
             a == [NoArg EXCEPT !.op = "Delete"]
  <1>1. Begin(c, a, t) /\ used' = used /\ UNCHANGED <<meta, index>>
    BY DEF Delete, store
  <1>2. Sound(t) /\ NewIds(t) = {} /\ \A j \in DOMAIN t.wm : t.wm[j] = NoItem
    BY DeleteTxnSound DEF Delete, IndexInv
  <1> HIDE DEF t, a
  <1> QED
    BY <1>1, <1>2, BeginIndexed

LEMMA MoveIndexed ==
  ASSUME IndexInv, TypeOK', NEW c \in Call, NEW id \in Id, NEW dst \in Path, NEW rep,
         Move(c, id, dst, rep)
  PROVE  IndexInv'
  <1> DEFINE t == MoveTxn(id, dst)
             a == [NoArg EXCEPT !.op = "Move", !.key = FileKey(dst), !.rep = rep]
  <1>1. Begin(c, a, t) /\ TransferOK(id, dst, rep) /\ used' = used /\ UNCHANGED <<meta, index>>
    BY DEF Move, store
  <1>2. /\ Sound(t) /\ NewIds(t) = {}
        /\ \A k \in DOMAIN t.wm :
             t.wm[k] # NoItem => \E o \in Key : Exists(o) /\ t.wm[k].id = meta[o].id
    BY <1>1, MoveTxnSound DEF IndexInv
  <1> HIDE DEF t, a
  <1>3. \A k \in DOMAIN t.wm : t.wm[k] # NoItem => t.wm[k].id \in used
    BY <1>2 DEF IndexInv, StoredIdsUsed
  <1> QED
    BY <1>1, <1>2, <1>3, BeginIndexed

LEMMA CopyIndexed ==
  ASSUME IndexInv, TypeOK', NEW c \in Call, NEW id \in Id, NEW dst \in Path, NEW rep,
         Copy(c, id, dst, rep)
  PROVE  IndexInv'
  <1> DEFINE items == TransferItems(FindMetaItemByID(id))
             newId == NewV4(items, Id)
             newBlob == NewV4(Files(items), Blob)
             t == CopyTxn(id, dst, newId, newBlob)
             a == [NoArg EXCEPT !.op = "Copy", !.key = FileKey(dst), !.rep = rep]
  <1>1. /\ Begin(c, a, t) /\ TransferOK(id, dst, rep)
        /\ CanDraw(items, Id) /\ CanDraw(Files(items), Blob)
        /\ used' = used \cup Range(newId) \cup Range(newBlob)
        /\ UNCHANGED <<meta, index>>
    BY DEF Copy, store
  <1>2. /\ newId \in [items -> Id \ used] /\ newBlob \in [Files(items) -> Blob \ used]
        /\ \A x, y \in items : newId[x] = newId[y] => x = y
    BY <1>1, Draws
  <1> HIDE DEF newId, newBlob, a
  <1>3. \A i \in Range(newId) : i \in Id \ used
    BY <1>2 DEF Range
  <1>4. /\ \A j \in Key : meta[j].id \notin Range(newId)
        /\ \A d \in Call : Range(newId) \cap Drawn(d) = {}
    BY <1>3, UnusedId
  <1>5. newId \in [items -> Id] /\ newBlob \in [Files(items) -> Blob]
    BY <1>2
  <1>6. /\ Sound(t) /\ NewIds(t) \subseteq Range(newId)
        /\ \A k \in DOMAIN t.wm : t.wm[k] # NoItem => t.wm[k].id \in Range(newId)
    BY <1>1, <1>2, <1>4, <1>5, CopyTxnSound DEF IndexInv
  <1> HIDE DEF t
  <1> QED
    BY <1>1, <1>4, <1>6, BeginIndexed

LEMMA CopyChunkIndexed ==
  ASSUME IndexInv, TypeOK', NEW c \in Call, CopyChunk(c)
  PROVE  IndexInv'
  <1>1. UNCHANGED <<meta, index, used>> /\ (UNCHANGED calls \/ Fail(c))
    BY DEF CopyChunk
  <1>2. CASE Fail(c)
    BY <1>1, <1>2, FailIndexed
  <1>3. CASE UNCHANGED calls
    BY <1>1, <1>3, CallsAsBefore DEF calls
  <1> QED
    BY <1>1, <1>2, <1>3

LEMMA CopyDoneIndexed ==
  ASSUME IndexInv, TypeOK', NEW c \in Call, CopyDone(c)
  PROVE  IndexInv'
  <1>1. /\ InTxn(c) /\ InTxn(c)' /\ UNCHANGED <<meta, index, used, txn, stale, arg>>
        /\ \A d \in Call \ {c} : pc'[d] = pc[d]
    BY DEF CopyDone, InTxn, store, IndexInv, TypeOK
  <1>2. NewIds(txn[c])' = NewIds(txn[c])
    BY <1>1 DEF NewIds
  <1>3. Drawn(c)' = Drawn(c)
    BY <1>1, <1>2 DEF Drawn
  <1>4. CallSound(c)'
    BY <1>1, <1>3 DEF CallSound, IndexInv, DrawnIdsFresh, PlansOK, PlannedIdsUsed, SnapshotsCurrent
  <1> QED
    BY <1>1, <1>3, <1>4, CallChange DEF IndexInv, DrawnIdsFresh

LEMMA ConflictIndexed ==
  ASSUME IndexInv, TypeOK', NEW c \in Call, Conflict(c)
  PROVE  IndexInv'
  BY FailIndexed DEF Conflict, store

LEMMA DeleteChunksIndexed ==
  ASSUME IndexInv, TypeOK', NEW c \in Call, DeleteChunks(c)
  PROVE  IndexInv'
  <1>1. UNCHANGED <<meta, index, used>> /\ (Finish(c) \/ UNCHANGED <<pc, arg, txn, stale>>)
    BY DEF DeleteChunks
  <1> QED
    BY <1>1, CallOut, CallsAsBefore

(***************************************************************************)
(* The commit: the plan of one transaction reaches the store, and the      *)
(* other transactions that read a key it writes become stale.              *)
(***************************************************************************)
LEMMA CommitIndexed ==
  ASSUME IndexInv, TypeOK', NEW c \in Call, Commit(c)
  PROVE  IndexInv'
  <1> DEFINE t == txn[c]
  <1>1. /\ meta' = [k \in Key |-> IF k \in DOMAIN t.wm THEN t.wm[k] ELSE meta[k]]
        /\ index' = [i \in Id |-> IF i \in DOMAIN t.wi THEN t.wi[i] ELSE index[i]]
        /\ InTxn(c) /\ ~stale[c] /\ used' = used
    BY DEF Commit, InTxn
  <1>2. TxnOK(t) /\ PlanOK(t) /\ \A k \in DOMAIN t.rm : k \in Key /\ meta[k] = t.rm[k]
    BY <1>1 DEF IndexInv, TypeOK, CallOK, TxnOK, PlansOK, SnapshotsCurrent
  <1>3. Drawn(c) = NewIds(t)
    BY <1>1 DEF Drawn
  <1>4. ~InTxn(c)' /\ Drawn(c)' = {}
    BY DEF Commit, InTxn, Drawn, IndexInv, TypeOK
  <1>5. ASSUME NEW d \in Call \ {c}
        PROVE  /\ pc'[d] = pc[d] /\ arg'[d] = arg[d] /\ txn'[d] = txn[d]
               /\ stale'[d] = (stale[d] \/ (InTxn(d) /\ Overlaps(t, txn[d])))
    BY DEF Commit, IndexInv, TypeOK
  <1>6. ASSUME NEW d \in Call \ {c}
        PROVE  Drawn(d)' = Drawn(d) /\ (InTxn(d)' <=> InTxn(d))
    <2>1. pc'[d] = pc[d] /\ arg'[d] = arg[d] /\ txn'[d] = txn[d]
      BY <1>5
    <2>2. InTxn(d)' <=> InTxn(d)
      BY <2>1 DEF InTxn
    <2>3. NewIds(txn[d])' = NewIds(txn[d])
      BY <2>1 DEF NewIds
    <2> QED
      BY <2>1, <2>2, <2>3 DEF Drawn
  <1> HIDE DEF t
  (* An identifier t stores is one it drew or one it found stored. *)
  <1>7. ASSUME NEW k \in DOMAIN t.wm, t.wm[k] # NoItem
        PROVE  t.wm[k].id \in Drawn(c) \/ \E o \in Key : Exists(o) /\ meta[o].id = t.wm[k].id
    <2>1. t.wm[k].id \in Id
      BY <1>2, <1>7 DEF TxnOK, ItemAt
    <2>2. \/ t.wm[k].id \in NewIds(t)
          \/ \E o \in DOMAIN t.rm : t.rm[o].id = t.wm[k].id
      BY <1>2, <1>7 DEF PlanOK, PlannedEntry, PlannedOwner
    <2>3. ASSUME NEW o \in DOMAIN t.rm, t.rm[o].id = t.wm[k].id
          PROVE  o \in Key /\ Exists(o) /\ meta[o].id = t.wm[k].id
      BY <1>2, <2>1, <2>3, AbsentId DEF IndexInv
    <2> QED
      BY <1>3, <2>2, <2>3
  <1>8. MetaIndexed'
    <2> SUFFICES ASSUME NEW k \in Key, Exists(k)' PROVE index'[meta'[k].id] = k
      BY DEF MetaIndexed
    <2>1. k # NoKey /\ meta'[k] # NoItem
      BY DEF Exists
    <2>2. CASE k \in DOMAIN t.wm
      <3>1. meta'[k] = t.wm[k] /\ t.wm[k] # NoItem
        BY <1>1, <2>1, <2>2
      <3>2. t.wm[k].id \in Id
        BY <1>2, <2>2, <3>1 DEF TxnOK, ItemAt
      <3>3. CASE t.wm[k].id \in DOMAIN t.wi /\ t.wi[t.wm[k].id] = k
        BY <1>1, <3>1, <3>2, <3>3
      <3>4. CASE t.wm[k].id \notin DOMAIN t.wi /\ k \in DOMAIN t.rm /\ t.rm[k].id = t.wm[k].id
        <4>1. Exists(k) /\ meta[k].id = t.wm[k].id
          BY <1>2, <3>2, <3>4, AbsentId DEF IndexInv
        <4> QED
          BY <1>1, <3>1, <3>2, <3>4, <4>1 DEF IndexInv, MetaIndexed
      <3> QED
        BY <1>2, <2>2, <3>1, <3>3, <3>4 DEF PlanOK, PlannedEntry
    <2>3. CASE k \notin DOMAIN t.wm
      <3> DEFINE i == meta[k].id
      <3>1. meta'[k] = meta[k] /\ Exists(k) /\ i \in Id /\ index[i] = k
        BY <1>1, <2>1, <2>3, StoredItem DEF Exists, IndexInv, MetaIndexed
      <3>2. i \notin DOMAIN t.wi
        <4>1. i \notin NewIds(t)
          BY <1>3 DEF IndexInv, DrawnIdsFresh
        <4>2. ~PlannedOwner(t, i)
          <5> SUFFICES ASSUME NEW o \in DOMAIN t.rm \cap DOMAIN t.wm, t.rm[o].id = i PROVE FALSE
            BY DEF PlannedOwner
          <5>1. o \in Key /\ meta[o].id = i /\ Exists(o)
            BY <1>2, <3>1, AbsentId DEF IndexInv
          <5> QED
            BY <2>3, <3>1, <5>1, OneItemPerId DEF IndexInv
        <4> QED
          BY <1>2, <4>1, <4>2 DEF PlanOK
      <3> QED
        BY <1>1, <3>1, <3>2
    <2> QED
      BY <2>2, <2>3
  <1>9. StoredIdsUsed'
    <2> SUFFICES ASSUME NEW k \in Key, Exists(k)' PROVE meta'[k].id \in used
      BY <1>1 DEF StoredIdsUsed
    <2>1. k # NoKey /\ meta'[k] # NoItem
      BY DEF Exists
    <2>2. CASE k \in DOMAIN t.wm
      BY <1>1, <2>1, <2>2 DEF IndexInv, PlannedIdsUsed, t
    <2>3. CASE k \notin DOMAIN t.wm
      BY <1>1, <2>1, <2>3 DEF IndexInv, StoredIdsUsed, Exists
    <2> QED
      BY <2>2, <2>3
  <1>10. DrawnIdsFresh'
    <2>1. ASSUME NEW d \in Call
          PROVE  Drawn(d)' \subseteq used'
      BY <1>1, <1>4, <1>6 DEF IndexInv, DrawnIdsFresh
    <2>2. ASSUME NEW d \in Call \ {c}, NEW k \in Key
          PROVE  meta'[k].id \notin Drawn(d)
      <3>1. CASE k \in DOMAIN t.wm /\ t.wm[k] # NoItem
        BY <1>1, <1>7, <3>1 DEF IndexInv, DrawnIdsFresh
      <3>2. CASE k \in DOMAIN t.wm /\ t.wm[k] = NoItem
        <4>1. meta'[k].id = NoUuid
          BY <1>1, <3>2 DEF NoItem
        <4>2. Drawn(d) \subseteq Id
          BY DEF Drawn, NewIds, InTxn, IndexInv, TypeOK, CallOK, TxnOK
        <4> QED
          BY <4>1, <4>2, PathAssumption
      <3>3. CASE k \notin DOMAIN t.wm
        BY <1>1, <3>3 DEF IndexInv, DrawnIdsFresh
      <3> QED
        BY <3>1, <3>2, <3>3
    <2>3. ASSUME NEW d \in Call, NEW e \in Call \ {d}
          PROVE  Drawn(d)' \cap Drawn(e)' = {}
      BY <1>4, <1>6 DEF IndexInv, DrawnIdsFresh
    <2> QED
      BY <1>4, <1>6, <2>1, <2>2, <2>3 DEF DrawnIdsFresh
  <1>11. PlansOK'
    <2>1. ASSUME NEW d \in Call, InTxn(d)' PROVE PlanOK(txn'[d])
      BY <1>4, <1>5, <1>6, <2>1 DEF IndexInv, PlansOK
    <2> QED
      BY <2>1 DEF PlansOK
  <1>12. PlannedIdsUsed'
    <2>1. ASSUME NEW d \in Call, InTxn(d)', NEW k \in DOMAIN txn'[d].wm, txn'[d].wm[k] # NoItem
          PROVE  txn'[d].wm[k].id \in used'
      BY <1>1, <1>4, <1>5, <1>6, <2>1 DEF IndexInv, PlannedIdsUsed
    <2> QED
      BY <2>1 DEF PlannedIdsUsed
  <1>13. SnapshotsCurrent'
    <2>1. ASSUME NEW d \in Call, InTxn(d)', ~stale'[d], NEW k \in DOMAIN txn'[d].rm
          PROVE  meta'[k] = txn'[d].rm[k]
      <3>1. d # c /\ InTxn(d) /\ txn'[d] = txn[d] /\ ~stale[d] /\ ~Overlaps(t, txn[d])
        BY <1>4, <1>5, <1>6, <2>1 DEF t
      <3>2. k \in Key /\ meta[k] = txn[d].rm[k]
        BY <3>1 DEF IndexInv, SnapshotsCurrent, TypeOK, CallOK, TxnOK
      <3>3. k \notin DOMAIN t.wm
        BY <3>1 DEF Overlaps
      <3> QED
        BY <1>1, <3>1, <3>2, <3>3
    <2> QED
      BY <2>1 DEF SnapshotsCurrent
  <1> QED
    BY <1>8, <1>9, <1>10, <1>11, <1>12, <1>13 DEF IndexInv

LEMMA ReaderStepIndexed ==
  ASSUME IndexInv, TypeOK', NEW r \in Reader, ReaderStep(r)
  PROVE  IndexInv'
  <1>1. UNCHANGED <<meta, index, used, pc, arg, txn, stale>>
    BY DEF ReaderStep, Open, Read, ReadChunk, Seek, CloseFile, store, calls
  <1> QED
    BY <1>1, CallsAsBefore

LEMMA CrashIndexed ==
  ASSUME IndexInv, TypeOK', Crash
  PROVE  IndexInv'
  <1>1. UNCHANGED <<meta, index, used>> /\ \A c \in Call : pc'[c] = "idle"
    BY DEF Crash, store
  <1>2. \A c \in Call : ~InTxn(c)' /\ Drawn(c)' = {}
    BY <1>1 DEF InTxn, Drawn
  <1>3. MetaIndexed' /\ StoredIdsUsed'
    BY <1>1 DEF IndexInv, MetaIndexed, StoredIdsUsed, Exists
  <1> QED
    BY <1>2, <1>3 DEF IndexInv, DrawnIdsFresh, PlansOK, PlannedIdsUsed, SnapshotsCurrent

LEMMA InitIndexed == Init => IndexInv
  <1> SUFFICES ASSUME Init PROVE IndexInv
    OBVIOUS
  <1>1. \A k \in Key : ~Exists(k) /\ meta[k].id = NoUuid
    BY DEF Init, Exists, NoItem
  <1>2. \A c \in Call : ~InTxn(c) /\ Drawn(c) = {}
    BY DEF Init, InTxn, Drawn
  <1> QED
    BY <1>1, <1>2, InitTyped
       DEF IndexInv, MetaIndexed, StoredIdsUsed, DrawnIdsFresh, PlansOK, PlannedIdsUsed, SnapshotsCurrent

LEMMA NextIndexed == IndexInv /\ [Next]_vars => IndexInv'
  <1> SUFFICES ASSUME IndexInv, [Next]_vars PROVE IndexInv'
    OBVIOUS
  <1>1. TypeOK'
    BY NextTyped DEF IndexInv
  <1>2. ASSUME NEW c \in Call, CallStep(c) PROVE IndexInv'
    <2>1. CASE WriteChunk(c)
      BY <1>1, <2>1, CallsAsBefore DEF WriteChunk, calls
    <2>2. CASE UploadFails(c)
      BY <1>1, <2>2, FailIndexed DEF UploadFails, store
    <2> QED
      BY <1>1, <1>2, <2>1, <2>2, StartCreateIndexed, StartWriteIndexed, BeginCreateIndexed,
         BeginWriteIndexed, MkdirIndexed, WriteCommentsIndexed, DeleteIndexed, MoveIndexed,
         CopyIndexed, CopyChunkIndexed, CopyDoneIndexed, ConflictIndexed, CommitIndexed,
         DeleteChunksIndexed DEF CallStep
  <1>3. ASSUME NEW r \in Reader, ReaderStep(r) PROVE IndexInv'
    BY <1>1, <1>3, ReaderStepIndexed
  <1>4. CASE Crash
    BY <1>1, <1>4, CrashIndexed
  <1>5. CASE UNCHANGED vars
    BY <1>1, <1>5, CallsAsBefore DEF vars
  <1> QED
    BY <1>2, <1>3, <1>4, <1>5 DEF Next

(* However the calls overlap, fail or are cut short by a crash, an item    *)
(* that List or Tree shows is found by its own identifier, and no two      *)
(* items share one.                                                        *)
THEOREM IndexConsistent == Spec => []MetaIndexed
  <1>1. IndexInv => MetaIndexed
    BY DEF IndexInv
  <1> QED
    BY <1>1, InitIndexed, NextIndexed, PTL DEF Spec
-----------------------------------------------------------------------------
(***************************************************************************)
(* The contents of the Badger driver, for any number of overlapping calls, *)
(* paths, contents, chunks and streams: every file has its content in      *)
(* full, a stream delivers one version, a call that returns leaves nothing *)
(* behind, and a transfer replaces only what its caller named.             *)
(*                                                                         *)
(* Contents are written and deleted outside of the transactions, so the    *)
(* argument is one of ownership.  What a call holds (Held) nobody else     *)
(* holds, no file points to and nobody else writes or deletes.  A commit   *)
(* turns what it holds into contents of files and, for Write, the content  *)
(* it supersedes into what it holds.                                       *)
(***************************************************************************)
Whole(v) == [n \in Seqno |-> v]

(* The content b has the first m chunks of w; all of them when m = NChunk. *)
Part(w, m) == [n \in Seqno |-> IF n <= m THEN w[n] ELSE NoUuid]
Filling(b, w) == \E m \in 0..NChunk : chunk[b] = Part(w, m)

(* A file of the store or of a plan. *)
IsFile(k, item) == ~k.dir /\ item # NoItem

(* What is stored: contents that were drawn, one of each file, all there.  *)
StoredInv ==
  /\ \A k \in Key : meta[k].blob \in used \cup {NoUuid}
  /\ \A k, j \in Key : Exists(k) /\ ~k.dir /\ meta[k].blob = meta[j].blob => k = j
  /\ ContentPresent
  /\ \A b \in Blob \ used : chunk[b] = NoChunks

(* Where a transaction t of a call with arguments a has the content of the *)
(* item it plans: uploaded, kept from an item it moves or rewrites, or     *)
(* copied.                                                                 *)
Uploaded(a, item) == item.blob = a.blob /\ item.size = a.blob
Kept(t, item) ==
  \E o \in DOMAIN t.rm \cap DOMAIN t.wm :
    t.rm[o].blob = item.blob /\ t.rm[o].size = item.size /\ item.blob \notin t.del
CopyOf(t, item) ==
  \E o \in DOMAIN t.rm : <<t.rm[o].blob, item.blob>> \in t.copies /\ t.rm[o].size = item.size

FreshOf(a, t) == ({a.blob} \cup {p[2] : p \in t.copies}) \ {NoUuid}
ReadOf(t) == {t.rm[k].blob : k \in DOMAIN t.rm} \cap Blob

(* A transfer writes at and below its destination, and rewrites items it   *)
(* read which it stores again under another key.                           *)
AtOrBelow(p, k) == k.path = p \/ IsStrictPrefix(p, k.path)
StoredAgain(t, k) == k \in DOMAIN t.rm /\ \E j \in DOMAIN t.wm : t.wm[j].id = t.rm[k].id
TransferPlan(a, t) ==
  a.op \in {"Move", "Copy"} =>
    \A k \in DOMAIN t.wm : AtOrBelow(a.key.path, k) \/ StoredAgain(t, k)

(* What a transaction plans for the contents.  It holds from its beginning *)
(* to its end, whatever other calls do.                                    *)
ContentPlan(a, t) ==
  /\ \A k \in DOMAIN t.wm :
       IsFile(k, t.wm[k]) => Uploaded(a, t.wm[k]) \/ Kept(t, t.wm[k]) \/ CopyOf(t, t.wm[k])
  /\ \A k, j \in DOMAIN t.wm : IsFile(k, t.wm[k]) /\ t.wm[k].blob = t.wm[j].blob => k = j
  /\ \A b \in t.del : \E o \in DOMAIN t.rm \cap DOMAIN t.wm : t.rm[o].blob = b
  /\ \A b \in FreshOf(a, t) : \E k \in DOMAIN t.wm : t.wm[k].blob = b
  /\ \A p \in t.copies : \E o \in DOMAIN t.rm : t.rm[o].blob = p[1]
  /\ \A p, q \in t.copies : p[2] = q[2] => p = q
  /\ t.copies # {} => a.blob = NoUuid
  /\ a.op = "Write" =>
       /\ DOMAIN t.rm \subseteq DOMAIN t.wm
       /\ \A k \in DOMAIN t.wm : t.wm[k].blob = a.blob
  /\ TransferPlan(a, t)

(* The state of a call, its contents and what it plans.                    *)
ShapeInv(c) ==
  /\ pc[c] \in {"idle", "upload"} => txn[c] = NoTxn
  /\ pc[c] = "idle" => arg[c] = NoArg
  /\ pc[c] = "cleanup" <=> trash[c] # {}
  /\ ReadOf(txn[c]) \cap FreshOf(arg[c], txn[c]) = {}
  /\ InTxn(c) => ContentPlan(arg[c], txn[c])

HeldInv(c) ==
  /\ Held(c) \subseteq used /\ trash[c] \subseteq Held(c)
  /\ \A k \in Key : meta[k].blob \notin Held(c)
  /\ pc[c] = "cleanup" => \A b \in Held(c) \ (trash[c] \cup orphan) : chunk[b] = NoChunks

WrittenInv(c) ==
  /\ pc[c] = "upload" => Filling(arg[c].blob, Whole(arg[c].blob))
  /\ InTxn(c) /\ arg[c].blob # NoUuid => chunk[arg[c].blob] = Whole(arg[c].blob)
  /\ InTxn(c) /\ ~stale[c] =>
       \A p \in txn[c].copies : /\ Filling(p[2], chunk[p[1]])
                                /\ pc[c] = "commit" => chunk[p[2]] = chunk[p[1]]

(* A transfer that may commit still knows what is at its destination.      *)
ExpectedInv(c) ==
  InTxn(c) /\ ~stale[c] /\ arg[c].op \in {"Move", "Copy"} =>
    /\ FindReads(arg[c].key.path) \subseteq DOMAIN txn[c].rm
    /\ CheckReplacement(TargetId(arg[c].key.path), arg[c].rep)

CallInv(c) == ShapeInv(c) /\ HeldInv(c) /\ WrittenInv(c) /\ ExpectedInv(c)
Apart == \A c, d \in Call : c # d => Held(c) \cap Held(d) = {}

(* Nobody writes the content of an open stream any more: its chunks are of *)
(* the version it was opened on, or deleted.                               *)
Active(c) == pc[c] \in {"upload", "copy", "commit"}
OfVersion(v) == {NoUuid, v}
StreamInv(r) ==
  LET f == file[r] IN
    \/ f = NoFile
    \/ /\ f.open /\ f.blob \in used
       /\ \A c \in Call : Active(c) => f.blob \notin Held(c)
       /\ \A n \in Seqno : chunk[f.blob][n] \in OfVersion(f.size)
       /\ f.cached.version \in OfVersion(f.size)
       /\ f.got # Nothing => f.got = [version |-> f.size, at |-> f.pos]

ContentInv ==
  /\ IndexInv /\ StoredInv /\ Apart
  /\ \A c \in Call : CallInv(c)
  /\ \A r \in Reader : StreamInv(r)
-----------------------------------------------------------------------------
(***************************************************************************)
(* What a call holds depends on the call alone.                            *)
(***************************************************************************)
HeldOf(a, t, B) == IF B # {} /\ B \subseteq ReadOf(t) THEN ReadOf(t) ELSE FreshOf(a, t)

LEMMA HeldNow ==
  ASSUME NEW c \in Call
  PROVE  /\ Held(c) = HeldOf(arg[c], txn[c], trash[c])
         /\ Held(c)' = HeldOf(arg'[c], txn'[c], trash'[c])
  BY DEF Held, HeldOf, BlobsRead, ReadOf, FreshBlobs, FreshOf

LEMMA HeldTyped ==
  ASSUME TypeOK, NEW c \in Call
  PROVE  Held(c) \subseteq Blob
  BY Groups, FreshBlobsTyped DEF Held, BlobsRead

(* Outside of its clean-up a call holds the contents it has drawn.         *)
LEMMA HeldFresh ==
  ASSUME NEW c \in Call
  PROVE  /\ ShapeInv(c) /\ pc[c] # "cleanup" => Held(c) = FreshOf(arg[c], txn[c])
         /\ ShapeInv(c)' /\ pc'[c] # "cleanup" => Held(c)' = FreshOf(arg'[c], txn'[c])
  BY HeldNow DEF ShapeInv, HeldOf

LEMMA FreshNow ==
  ASSUME NEW c \in Call
  PROVE  FreshBlobs(c) = FreshOf(arg[c], txn[c])
  BY DEF FreshBlobs, FreshOf

(* A call that does not step. *)
SameCall(d) ==
  pc'[d] = pc[d] /\ arg'[d] = arg[d] /\ txn'[d] = txn[d] /\ trash'[d] = trash[d]

LEMMA CallKept ==
  ASSUME NEW d \in Call, SameCall(d)
  PROVE  /\ Held(d)' = Held(d) /\ (InTxn(d)' <=> InTxn(d)) /\ (Active(d)' <=> Active(d))
         /\ ShapeInv(d) => ShapeInv(d)'
  <1>1. pc'[d] = pc[d] /\ arg'[d] = arg[d] /\ txn'[d] = txn[d] /\ trash'[d] = trash[d]
    BY DEF SameCall
  <1>2. Held(d)' = Held(d)
    BY <1>1, HeldNow
  <1>3. (InTxn(d)' <=> InTxn(d)) /\ (Active(d)' <=> Active(d))
    BY <1>1 DEF InTxn, Active
  <1>4. ASSUME ShapeInv(d) PROVE ShapeInv(d)'
    BY <1>1, <1>3, <1>4 DEF ShapeInv
  <1> QED
    BY <1>2, <1>3, <1>4

(* A stored content belongs to a file, and to one only.                    *)
LEMMA StoredFile ==
  ASSUME TypeOK, NEW k \in Key, meta[k].blob \in Blob
  PROVE  Exists(k) /\ ~k.dir /\ meta[k] \in [id: Id, blob: Blob, size: Blob]
  <1>1. k # NoKey
    BY PathAssumption DEF Key, NoKey
  <1>2. meta[k] # NoItem
    BY BadgerAssumption DEF NoItem
  <1>3. Exists(k)
    BY <1>1, <1>2 DEF Exists
  <1> QED
    BY <1>3, StoredItem, BadgerAssumption

LEMMA OneFilePerContent ==
  ASSUME TypeOK, StoredInv, NEW k \in Key, NEW j \in Key,
         meta[k].blob \in Blob, meta[j].blob = meta[k].blob
  PROVE  k = j
  BY StoredFile DEF StoredInv

(* Its content is there in full. *)
LEMMA StoredWhole ==
  ASSUME TypeOK, StoredInv, NEW k \in Key, meta[k].blob \in Blob
  PROVE  chunk[meta[k].blob] = Whole(meta[k].size) /\ meta[k].size \in Blob
  BY StoredFile DEF StoredInv, ContentPresent, Whole

(***************************************************************************)
(* Filling a content, chunk by chunk.                                      *)
(***************************************************************************)
LEMMA NothingYet ==
  ASSUME NEW b, NEW w, chunk[b] = NoChunks
  PROVE  Filling(b, w)
  <1>1. NoChunks = Part(w, 0)
    BY BadgerAssumption DEF NoChunks, Part, Seqno
  <1> QED
    BY <1>1, BadgerAssumption DEF Filling

(* The next chunk is the one after those that are there, and none is next  *)
(* only when all are there.                                                *)
LEMMA NextIs ==
  ASSUME NEW b, NEW w \in [Seqno -> Blob], NEW m \in 0..NChunk, chunk[b] = Part(w, m)
  PROVE  /\ \A n \in NextChunk(b) : n = m + 1
         /\ NextChunk(b) = {} => chunk[b] = w
  <1>1. \A n \in Seqno : chunk[b][n] = NoUuid <=> n > m
    BY BadgerAssumption DEF Part, Seqno
  <1>2. ASSUME NEW n \in NextChunk(b) PROVE n = m + 1
    <2>1. n \in Seqno /\ n > m /\ \A i \in 1..(n - 1) : i \in Seqno => chunk[b][i] # NoUuid
      BY <1>1 DEF NextChunk
    <2>2. CASE n > m + 1
      <3>1. m + 1 \in 1..(n - 1) /\ m + 1 \in Seqno /\ m + 1 > m
        BY <2>1, <2>2, BadgerAssumption DEF Seqno
      <3> QED
        BY <1>1, <2>1, <3>1
    <2> QED
      BY <2>1, <2>2, BadgerAssumption DEF Seqno
  <1>3. ASSUME NextChunk(b) = {} PROVE chunk[b] = w
    <2>1. CASE m = NChunk
      BY <2>1, BadgerAssumption DEF Part, Seqno
    <2>2. CASE m # NChunk
      <3>1. m + 1 \in Seqno /\ \A i \in 1..m : i \in Seqno /\ ~(i > m)
        BY <2>2, BadgerAssumption DEF Seqno
      <3>2. m + 1 \in NextChunk(b)
        BY <1>1, <3>1 DEF NextChunk
      <3> QED
        BY <1>3, <3>2
    <2> QED
      BY <2>1, <2>2
  <1> QED
    BY <1>2, <1>3

LEMMA WholeTyped ==
  ASSUME NEW v \in Blob
  PROVE  Whole(v) \in [Seqno -> Blob]
  BY DEF Whole

(* With the next chunk of w added, b still has a part of w.                 *)
LEMMA FilledOn ==
  ASSUME TypeOK, NEW b \in Blob, NEW w \in [Seqno -> Blob], Filling(b, w), NEW n \in NextChunk(b),
         chunk' = [chunk EXCEPT ![b][n] = w[n]]
  PROVE  Filling(b, w)'
  <1>1. PICK m \in 0..NChunk : chunk[b] = Part(w, m)
    BY DEF Filling
  <1>2. n = m + 1 /\ n \in Seqno
    BY <1>1, NextIs DEF NextChunk
  <1>3. chunk'[b] = [chunk[b] EXCEPT ![n] = w[n]]
    BY DEF TypeOK
  <1>4. chunk'[b] = Part(w, m + 1)
    <2>1. chunk'[b] = [i \in Seqno |-> IF i = n THEN w[n] ELSE Part(w, m)[i]]
      BY <1>1, <1>2, <1>3 DEF Part
    <2>2. ASSUME NEW i \in Seqno
          PROVE  (IF i = n THEN w[n] ELSE Part(w, m)[i]) = IF i <= m + 1 THEN w[i] ELSE NoUuid
      BY <1>2, BadgerAssumption DEF Part, Seqno
    <2> QED
      BY <2>1, <2>2 DEF Part
  <1>5. m + 1 \in 0..NChunk
    BY <1>2, BadgerAssumption DEF Seqno
  <1> QED
    BY <1>4, <1>5 DEF Filling
-----------------------------------------------------------------------------
(***************************************************************************)
(* A transfer never moves or copies what it replaces, and gives every item *)
(* a key of its own.                                                       *)
(***************************************************************************)
LEMMA PathIsSequence ==
  ASSUME NEW p \in Path
  PROVE  Len(p) \in Nat /\ p = [i \in 1..Len(p) |-> p[i]] /\ Len(p) # 0
  <1> DEFINE S == {p[i] : i \in DOMAIN p}
  <1>1. p \in Seq(S) /\ p # << >>
    BY PathAssumption DEF Root
  <1> HIDE DEF S
  <1>2. Len(p) \in Nat /\ p = [i \in 1..Len(p) |-> p[i]]
    BY <1>1, LenProperties
  <1> QED
    BY <1>1, <1>2, EmptySeq

LEMMA PrefixAt ==
  ASSUME NEW p \in Path, NEW q \in Path
  PROVE  IsPrefix(p, q) <=> Len(p) <= Len(q) /\ \A i \in 1..Len(p) : p[i] = q[i]
  <1>1. /\ Len(p) \in Nat /\ Len(q) \in Nat
    BY PathIsSequence
  <1>2. CASE Len(p) <= Len(q)
    <2>1. SubSeq(p, 1, Len(p)) = [i \in 1..Len(p) |-> p[i]]
      BY <1>1
    <2>2. SubSeq(q, 1, Len(p)) = [i \in 1..Len(p) |-> q[i]]
      BY <1>1
    <2> QED
      BY <1>2, <2>1, <2>2 DEF IsPrefix
  <1> QED
    BY <1>1, <1>2 DEF IsPrefix

(* Of two paths above a third one is above the other, or they are equal.    *)
LEMMA PrefixesComparable ==
  ASSUME NEW p \in Path, NEW q \in Path, NEW r \in Path,
         IsStrictPrefix(p, r), IsStrictPrefix(q, r)
  PROVE  p = q \/ IsStrictPrefix(p, q) \/ IsStrictPrefix(q, p)
  <1>1. /\ Len(p) \in Nat /\ Len(q) \in Nat /\ Len(r) \in Nat
        /\ \A i \in 1..Len(p) : p[i] = r[i]
        /\ \A i \in 1..Len(q) : q[i] = r[i]
    BY PathIsSequence, PrefixAt DEF IsStrictPrefix
  <1>2. CASE Len(p) <= Len(q)
    BY <1>1, <1>2, PrefixAt DEF IsStrictPrefix
  <1>3. CASE Len(q) <= Len(p)
    BY <1>1, <1>3, PrefixAt DEF IsStrictPrefix
  <1> QED
    BY <1>1, <1>2, <1>3

LEMMA NotReplaced ==
  ASSUME TypeOK, NEW id \in Id, NEW dst \in Path, NEW rep, TransferOK(id, dst, rep)
  PROVE  TransferItems(FindMetaItemByID(id)) \cap Replaced(dst) = {}
  <1> DEFINE src == FindMetaItemByID(id)
             found == FindByPath(dst)
  <1>1. src \in Key /\ TransferAllowed(src, dst)
    BY FoundKey DEF TransferOK
  <1> HIDE DEF src
  <1> SUFFICES ASSUME NEW x \in TransferItems(src), x \in Replaced(dst) PROVE FALSE
    BY DEF src
  <1>2. found \in Key /\ found.path = dst /\ x \in TransferItems(found)
    BY FoundPath DEF Replaced, FindByPath, FileKey, DirKey
  <1> HIDE DEF found
  <1>3. src.path \in Path
    BY <1>1 DEF Key
  <1>4. x = src \/ (x \in Key /\ src.dir /\ IsStrictPrefix(src.path, x.path))
    BY DEF TransferItems
  <1>5. x = found \/ (x \in Key /\ found.dir /\ IsStrictPrefix(dst, x.path))
    BY <1>2 DEF TransferItems
  <1>6. CASE x = src \/ x = found
    BY <1>1, <1>2, <1>4, <1>5, <1>6 DEF TransferAllowed
  <1>7. CASE x # src /\ x # found
    <2>1. x.path \in Path
      BY <1>4, <1>7 DEF Key
    <2>2. src.path = dst \/ IsStrictPrefix(src.path, dst) \/ IsStrictPrefix(dst, src.path)
      BY <1>3, <1>4, <1>5, <1>7, <2>1, PrefixesComparable
    <2> QED
      BY <1>1, <1>4, <1>7, <2>2 DEF TransferAllowed
  <1> QED
    BY <1>6, <1>7

(* The names of a path below the source stay apart below the destination.  *)
LEMMA RebasedApart ==
  ASSUME NEW s \in Path, NEW d \in Path, NEW p \in Path, NEW q \in Path,
         p = s \/ IsStrictPrefix(s, p), q = s \/ IsStrictPrefix(s, q),
         Rebase(p, s, d) = Rebase(q, s, d)
  PROVE  p = q
  <1> DEFINE S == {p[i] : i \in DOMAIN p} \cup {q[i] : i \in DOMAIN q} \cup {d[i] : i \in DOMAIN d}
             tp == SubSeq(p, Len(s) + 1, Len(p))
             tq == SubSeq(q, Len(s) + 1, Len(q))
  <1>1. /\ Len(s) \in Nat /\ Len(d) \in Nat /\ Len(p) \in Nat /\ Len(q) \in Nat
        /\ d = [i \in 1..Len(d) |-> d[i]]
        /\ p = [i \in 1..Len(p) |-> p[i]]
        /\ q = [i \in 1..Len(q) |-> q[i]]
    BY PathIsSequence
  <1>2. /\ Len(s) <= Len(p) /\ \A i \in 1..Len(s) : s[i] = p[i]
        /\ Len(s) <= Len(q) /\ \A i \in 1..Len(s) : s[i] = q[i]
    BY <1>1, PrefixAt DEF IsStrictPrefix
  <1>3. /\ \A i \in 1..Len(p) : p[i] \in S
        /\ \A i \in 1..Len(q) : q[i] \in S
        /\ d \in Seq(S)
    <2>1. DOMAIN p = 1..Len(p) /\ DOMAIN q = 1..Len(q) /\ DOMAIN d = 1..Len(d)
      BY <1>1
    <2>2. \A i \in 1..Len(d) : d[i] \in S
      BY <2>1
    <2> HIDE DEF S
    <2>3. d \in [1..Len(d) -> S]
      BY <1>1, <2>2
    <2>4. d \in Seq(S)
      BY <1>1, <2>3
    <2> QED
      BY <2>1, <2>4 DEF S
  <1> HIDE DEF S
  <1>4. /\ tp \in Seq(S) /\ Len(tp) = Len(p) - Len(s)
        /\ \A i \in 1..(Len(p) - Len(s)) : tp[i] = p[Len(s) + i]
    <2>1. \A i \in (Len(s) + 1)..Len(p) : p[i] \in S
      BY <1>1, <1>3
    <2>2. /\ SubSeq(p, Len(s) + 1, Len(p)) \in Seq(S)
          /\ Len(SubSeq(p, Len(s) + 1, Len(p))) =
               IF Len(s) + 1 <= Len(p) THEN Len(p) - (Len(s) + 1) + 1 ELSE 0
          /\ \A i \in 1..(Len(p) - (Len(s) + 1) + 1) :
               SubSeq(p, Len(s) + 1, Len(p))[i] = p[Len(s) + 1 + i - 1]
      BY SMTT(40), <1>1, <2>1, SubSeqProperties
    <2> QED
      BY <1>1, <1>2, <2>2
  <1>5. /\ tq \in Seq(S) /\ Len(tq) = Len(q) - Len(s)
        /\ \A i \in 1..(Len(q) - Len(s)) : tq[i] = q[Len(s) + i]
    <2>1. \A i \in (Len(s) + 1)..Len(q) : q[i] \in S
      BY <1>1, <1>3
    <2>2. /\ SubSeq(q, Len(s) + 1, Len(q)) \in Seq(S)
          /\ Len(SubSeq(q, Len(s) + 1, Len(q))) =
               IF Len(s) + 1 <= Len(q) THEN Len(q) - (Len(s) + 1) + 1 ELSE 0
          /\ \A i \in 1..(Len(q) - (Len(s) + 1) + 1) :
               SubSeq(q, Len(s) + 1, Len(q))[i] = q[Len(s) + 1 + i - 1]
      BY <1>1, <2>1, SubSeqProperties
    <2> QED
      BY <1>1, <1>2, <2>2
  <1>6. d \o tp = d \o tq
    BY DEF Rebase
  <1> HIDE DEF tp, tq
  <1>7. tp = tq
    BY <1>3, <1>4, <1>5, <1>6, ConcatSimplifications
  <1>8. Len(p) = Len(q)
    <2>1. Len(p) - Len(s) = Len(q) - Len(s)
      BY <1>4, <1>5, <1>7
    <2>2. \A l, m, n \in Nat : l - n = m - n => l = m
      OBVIOUS
    <2> QED
      BY <1>1, <2>1, <2>2
  <1>9. ASSUME NEW i \in 1..Len(p) PROVE p[i] = q[i]
    <2>1. CASE i <= Len(s)
      BY <1>1, <1>2, <2>1
    <2>2. CASE i > Len(s)
      <3>1. i - Len(s) \in 1..(Len(p) - Len(s)) /\ Len(s) + (i - Len(s)) = i
        BY <1>1, <2>2
      <3> QED
        BY <1>4, <1>5, <1>7, <1>8, <3>1
    <2> QED
      BY <1>1, <2>1, <2>2
  <1> QED
    BY <1>1, <1>8, <1>9

LEMMA OwnDestination ==
  ASSUME NEW src \in Key, NEW dst \in Path,
         NEW o \in TransferItems(src), NEW x \in TransferItems(src),
         DestKey(o, src, dst) = DestKey(x, src, dst)
  PROVE  o = x
  <1>1. /\ o \in Key /\ (o.path = src.path \/ IsStrictPrefix(src.path, o.path))
        /\ x \in Key /\ (x.path = src.path \/ IsStrictPrefix(src.path, x.path))
    BY DEF TransferItems
  <1>2. o.dir = x.dir /\ Rebase(o.path, src.path, dst) = Rebase(x.path, src.path, dst)
    BY DEF DestKey
  <1>3. o.path = x.path
    BY <1>1, <1>2, RebasedApart DEF Key
  <1> QED
    BY <1>1, <1>2, <1>3 DEF Key
-----------------------------------------------------------------------------
(***************************************************************************)
(* What each transaction plans for the contents when it begins.            *)
(***************************************************************************)
LEMMA CreateContents ==
  ASSUME TypeOK, NEW k \in Key, NEW item, NEW a, CreateOK(k),
         item.blob = a.blob, ~k.dir => item.size = a.blob, a.op \in {"Create", "Mkdir"}
  PROVE  ContentPlan(a, CreateTxn(k, item)) /\ FreshOf(a, CreateTxn(k, item)) = {a.blob} \ {NoUuid}
  <1> DEFINE t == CreateTxn(k, item)
  <1>1. t.wm = Only(k, item) /\ t.del = {} /\ t.copies = {}
    BY DEF CreateTxn, NoTxn
  <1> HIDE DEF t
  <1>2. DOMAIN t.wm = {k} /\ t.wm[k] = item
    BY <1>1 DEF Only
  <1>3. FreshOf(a, t) = {a.blob} \ {NoUuid}
    BY <1>1 DEF FreshOf
  <1>4. ContentPlan(a, t)
    BY <1>1, <1>2, <1>3 DEF ContentPlan, TransferPlan, Uploaded, IsFile
  <1> QED
    BY <1>3, <1>4 DEF t

LEMMA UpdateContents ==
  ASSUME TypeOK, NEW id \in Id, NEW blob \in Blob \cup {NoUuid}, NEW size, NEW a,
         FindMetaItemByID(id) # NoKey, a.op \notin {"Move", "Copy"},
         \/ a.blob = blob /\ size = blob
         \/ /\ a.blob = NoUuid /\ a.op # "Write"
            /\ blob = meta[FindMetaItemByID(id)].blob /\ size = meta[FindMetaItemByID(id)].size
  PROVE  /\ ContentPlan(a, UpdateTxn(id, blob, size))
         /\ FreshOf(a, UpdateTxn(id, blob, size)) = {a.blob} \ {NoUuid}
  <1> DEFINE t == UpdateTxn(id, blob, size)
             k == FindMetaItemByID(id)
             item == [meta[k] EXCEPT !.blob = blob, !.size = size]
  <1>1. k \in Key /\ Exists(k)
    BY FoundKey
  <1>2. meta[k] \in [id: Id, blob: Blob, size: Blob] \cup [id: Id, blob: {NoUuid}, size: {NoUuid}]
    BY <1>1, StoredItem
  <1>3. /\ t.rm = Restrict(meta, {k}) /\ t.wm = Only(k, item)
        /\ t.del = {} /\ t.copies = {}
    BY DEF UpdateTxn, NoTxn
  <1> HIDE DEF t
  <1>4. item.blob = blob /\ item.size = size
    BY <1>2
  <1> HIDE DEF item
  <1>5. /\ DOMAIN t.rm = {k} /\ t.rm[k] = meta[k] /\ DOMAIN t.wm = {k} /\ t.wm[k] = item
    BY <1>3 DEF Restrict, Only
  <1> HIDE DEF k
  <1>6. FreshOf(a, t) = {a.blob} \ {NoUuid}
    BY <1>3 DEF FreshOf
  <1>7. ASSUME Uploaded(a, t.wm[k]) \/ Kept(t, t.wm[k]), a.op = "Write" => t.wm[k].blob = a.blob,
               a.blob = NoUuid \/ t.wm[k].blob = a.blob
        PROVE  ContentPlan(a, t)
    <2>1. \A j \in DOMAIN t.wm : j = k
      BY <1>5
    <2>2. \A b \in FreshOf(a, t) : t.wm[k].blob = b
      BY <1>6, <1>7
    <2>3. DOMAIN t.rm \subseteq DOMAIN t.wm
      BY <1>5
    <2> QED
      BY <1>3, <1>5, <1>7, <2>1, <2>2, <2>3 DEF ContentPlan, TransferPlan
  <1>8. CASE a.blob = blob /\ size = blob
    <2>1. t.wm[k].blob = blob /\ t.wm[k].size = blob
      BY <1>4, <1>5, <1>8
    <2>2. Uploaded(a, t.wm[k])
      BY <1>8, <2>1 DEF Uploaded
    <2> QED
      BY <1>6, <1>7, <1>8, <2>1, <2>2 DEF t
  <1>9. CASE a.blob = NoUuid /\ a.op # "Write" /\ blob = meta[k].blob /\ size = meta[k].size
    <2>1. Kept(t, t.wm[k])
      BY <1>3, <1>4, <1>5, <1>9 DEF Kept
    <2> QED
      BY <1>6, <1>7, <1>9, <2>1 DEF t
  <1> QED
    BY <1>8, <1>9 DEF k

LEMMA DeleteContents ==
  ASSUME TypeOK, NEW id \in Id, NEW a, FindMetaItemByID(id) # NoKey,
         a.blob = NoUuid, a.op = "Delete"
  PROVE  ContentPlan(a, DeleteTxn(id)) /\ FreshOf(a, DeleteTxn(id)) = {}
  <1> DEFINE t == DeleteTxn(id)
             S == TransferItems(FindMetaItemByID(id))
  <1>1. /\ t.rm = Restrict(meta, S) /\ t.wm = ErasedMeta(S)
        /\ t.del = BlobsOf(S) /\ t.copies = {}
    BY DEF DeleteTxn, NoTxn
  <1> HIDE DEF t, S
  <1>2. /\ DOMAIN t.rm = S /\ DOMAIN t.wm = S
        /\ \A j \in S : t.rm[j] = meta[j] /\ t.wm[j] = NoItem
    BY <1>1 DEF Restrict, ErasedMeta
  <1>3. \A b \in t.del : \E o \in DOMAIN t.rm \cap DOMAIN t.wm : t.rm[o].blob = b
    BY <1>1, <1>2 DEF BlobsOf, Files
  <1>4. FreshOf(a, t) = {}
    BY <1>1 DEF FreshOf
  <1> QED
    BY <1>1, <1>2, <1>3, <1>4 DEF ContentPlan, TransferPlan, IsFile, t

(* A transfer writes its items at and below the destination, where the     *)
(* items it replaces are.                                                  *)
LEMMA RebaseBelow ==
  ASSUME NEW s \in Path, NEW d \in Path, NEW p \in Path, Rebase(p, s, d) \in Path,
         p = s \/ IsStrictPrefix(s, p)
  PROVE  Rebase(p, s, d) = d \/ IsStrictPrefix(d, Rebase(p, s, d))
  <1> DEFINE q == Rebase(p, s, d)
             t == SubSeq(p, Len(s) + 1, Len(p))
             S == {p[i] : i \in DOMAIN p} \cup {d[i] : i \in DOMAIN d}
  <1>1. /\ Len(s) \in Nat /\ Len(p) \in Nat /\ Len(s) <= Len(p) /\ Len(d) \in Nat
        /\ p = [i \in 1..Len(p) |-> p[i]] /\ d = [i \in 1..Len(d) |-> d[i]]
    BY PathIsSequence, PrefixAt DEF IsStrictPrefix
  <1>2. d \in Seq(S) /\ \A i \in 1..Len(p) : p[i] \in S
    <2>1. DOMAIN p = 1..Len(p) /\ DOMAIN d = 1..Len(d)
      BY <1>1
    <2>2. (\A i \in 1..Len(d) : d[i] \in S) /\ \A i \in 1..Len(p) : p[i] \in S
      BY <2>1
    <2> HIDE DEF S
    <2>3. d \in [1..Len(d) -> S]
      BY <1>1, <2>2
    <2> QED
      BY <1>1, <2>2, <2>3
  <1> HIDE DEF S
  <1>3. t \in Seq(S)
    <2>1. \A i \in (Len(s) + 1)..Len(p) : p[i] \in S
      BY <1>1, <1>2
    <2> QED
      BY <1>1, <2>1, SubSeqProperties
  <1>4. q = d \o t
    BY DEF Rebase
  <1> HIDE DEF t, q
  <1>5. /\ Len(q) = Len(d) + Len(t) /\ Len(t) \in Nat
        /\ \A i \in 1..Len(d) : q[i] = d[i]
    BY <1>2, <1>3, <1>4, ConcatProperties, LenProperties
  <1>6. q \in Path
    BY DEF q
  <1>7. IsPrefix(d, q)
    BY <1>1, <1>5, <1>6, PrefixAt
  <1> QED
    BY <1>7 DEF IsStrictPrefix, q

LEMMA DestBelow ==
  ASSUME TypeOK, NEW id \in Id, NEW dst \in Path, NEW rep, TransferOK(id, dst, rep),
         NEW k \in DestKeys(FindMetaItemByID(id), dst)
  PROVE  AtOrBelow(dst, k)
  <1> DEFINE src == FindMetaItemByID(id)
  <1>1. src \in Key /\ TransferItems(src) \subseteq Key /\ k \in Key
    BY TransferFacts
  <1>2. PICK o \in TransferItems(src) : k = DestKey(o, src, dst)
    BY DEF DestKeys
  <1>3. k.path = Rebase(o.path, src.path, dst) /\ o.path \in Path /\ src.path \in Path /\ k.path \in Path
    BY <1>1, <1>2 DEF DestKey, Key
  <1>4. o.path = src.path \/ IsStrictPrefix(src.path, o.path)
    BY DEF TransferItems
  <1> QED
    BY <1>3, <1>4, RebaseBelow DEF AtOrBelow

LEMMA ReplacedBelow ==
  ASSUME NEW dst, NEW k \in Replaced(dst)
  PROVE  AtOrBelow(dst, k)
  <1>1. FindByPath(dst) # NoKey => FindByPath(dst).path = dst
    BY DEF FindByPath, FileKey, DirKey
  <1> QED
    BY <1>1 DEF Replaced, TransferItems, AtOrBelow

(* A moved file keeps its content, which is not among those of the         *)
(* replaced items.                                                         *)
LEMMA MoveContents ==
  ASSUME TypeOK, StoredInv, NEW id \in Id, NEW dst \in Path, NEW rep,
         TransferOK(id, dst, rep), NEW a, a.blob = NoUuid, a.op = "Move", a.key.path = dst
  PROVE  ContentPlan(a, MoveTxn(id, dst)) /\ FreshOf(a, MoveTxn(id, dst)) = {}
  <1> DEFINE t == MoveTxn(id, dst)
             src == FindMetaItemByID(id)
             items == TransferItems(src)
  <1>1. /\ t.rm = Restrict(meta, TransferReads(src, dst))
        /\ t.wm = Before([k \in DestKeys(src, dst) |-> meta[Origin(k, src, dst)]],
                         ErasedMeta(items \cup Replaced(dst)))
        /\ t.del = BlobsOf(Replaced(dst)) /\ t.copies = {}
    BY DEF MoveTxn, NoTxn
  <1>2. /\ items \subseteq Key /\ \A j \in items : Exists(j)
        /\ \A k \in DestKeys(src, dst) : /\ Origin(k, src, dst) \in items
                                         /\ DestKey(Origin(k, src, dst), src, dst) = k
                                         /\ Origin(k, src, dst).dir = k.dir
        /\ items \cup Replaced(dst) \subseteq TransferReads(src, dst)
    BY TransferFacts
  <1>3. items \cap Replaced(dst) = {} /\ Replaced(dst) \subseteq Key
    BY NotReplaced, ReplacedItems
  <1> HIDE DEF t, src, items
  <1>4. DOMAIN t.rm = TransferReads(src, dst) /\ \A j \in DOMAIN t.rm : t.rm[j] = meta[j]
    BY <1>1 DEF Restrict
  <1>5. /\ items \cup Replaced(dst) \subseteq DOMAIN t.wm
        /\ \A k \in DestKeys(src, dst) : t.wm[k] = meta[Origin(k, src, dst)]
        /\ \A k \in DOMAIN t.wm \ DestKeys(src, dst) : t.wm[k] = NoItem
    BY <1>1 DEF Before, ErasedMeta
  <1>6. ASSUME NEW k \in DOMAIN t.wm, IsFile(k, t.wm[k])
        PROVE  /\ k \in DestKeys(src, dst) /\ Origin(k, src, dst) \in items
               /\ t.wm[k] = meta[Origin(k, src, dst)] /\ t.wm[k].blob \in Blob
    <2>1. k \in DestKeys(src, dst) /\ ~k.dir
      BY <1>5, <1>6 DEF IsFile
    <2>2. Origin(k, src, dst) \in items /\ ~Origin(k, src, dst).dir
      BY <1>2, <2>1
    <2>3. meta[Origin(k, src, dst)].blob \in Blob
      BY <1>2, <2>2, StoredItem
    <2> QED
      BY <1>5, <2>1, <2>2, <2>3
  <1>7. \A b \in t.del : \E o \in Replaced(dst) : meta[o].blob = b
    BY <1>1 DEF BlobsOf, Files
  <1>8. ASSUME NEW k \in DOMAIN t.wm, IsFile(k, t.wm[k]) PROVE Kept(t, t.wm[k])
    <2> DEFINE o == Origin(k, src, dst)
    <2>1. o \in items /\ t.wm[k] = meta[o] /\ t.wm[k].blob \in Blob
      BY <1>6, <1>8
    <2> HIDE DEF o
    <2>2. t.wm[k].blob \notin t.del
      <3> SUFFICES ASSUME NEW x \in Replaced(dst), meta[x].blob = meta[o].blob PROVE FALSE
        BY <1>7, <2>1
      <3>1. x = o
        BY <1>2, <1>3, <2>1, OneFilePerContent
      <3> QED
        BY <1>3, <2>1, <3>1
    <2> QED
      BY <1>2, <1>4, <1>5, <2>1, <2>2 DEF Kept
  <1>9. ASSUME NEW k \in DOMAIN t.wm, NEW j \in DOMAIN t.wm, IsFile(k, t.wm[k]),
               t.wm[k].blob = t.wm[j].blob
        PROVE  k = j
    <2>1. /\ k \in DestKeys(src, dst) /\ Origin(k, src, dst) \in items
          /\ t.wm[k] = meta[Origin(k, src, dst)] /\ t.wm[k].blob \in Blob
      BY <1>6, <1>9
    <2>2. j \in DestKeys(src, dst)
      BY <1>5, <1>9, <2>1, BadgerAssumption DEF NoItem
    <2>3. Origin(j, src, dst) \in items /\ t.wm[j] = meta[Origin(j, src, dst)]
      BY <1>2, <1>5, <2>2
    <2>4. Origin(k, src, dst) = Origin(j, src, dst)
      BY <1>2, <1>9, <2>1, <2>3, OneFilePerContent
    <2> QED
      BY <1>2, <2>1, <2>2, <2>4
  <1>10. \A b \in t.del : \E o \in DOMAIN t.rm \cap DOMAIN t.wm : t.rm[o].blob = b
    BY <1>2, <1>4, <1>5, <1>7
  <1>11. FreshOf(a, t) = {}
    BY <1>1 DEF FreshOf
  <1>13. ASSUME NEW k \in DOMAIN t.wm PROVE AtOrBelow(dst, k) \/ StoredAgain(t, k)
    <2>1. CASE k \in items
      <3>1. DestKey(k, src, dst) \in DestKeys(src, dst) /\ Origin(DestKey(k, src, dst), src, dst) = k
        <4>1. src \in Key /\ DestKey(k, src, dst) \in DestKeys(src, dst)
          BY <2>1, TransferFacts DEF DestKeys, items, src
        <4> QED
          BY <1>2, <2>1, <4>1, OwnDestination DEF items
      <3>2. DestKey(k, src, dst) \in DOMAIN t.wm /\ t.wm[DestKey(k, src, dst)] = meta[k]
        BY <1>1, <1>5, <3>1 DEF Before
      <3> QED
        BY <1>2, <1>4, <2>1, <3>2 DEF StoredAgain
    <2>2. CASE k \notin items
      <3>1. k \in DestKeys(src, dst) \/ k \in Replaced(dst)
        BY <1>1, <2>2 DEF Before, ErasedMeta
      <3> QED
        BY <3>1, DestBelow, ReplacedBelow DEF src
    <2> QED
      BY <2>1, <2>2
  <1>12. ContentPlan(a, t)
    BY <1>1, <1>8, <1>9, <1>10, <1>11, <1>13 DEF ContentPlan, TransferPlan
  <1> QED
    BY <1>11, <1>12 DEF t

(* A copied file gets a new content of its own, to be filled from that of  *)
(* the item it copies.                                                     *)
LEMMA CopyContents ==
  ASSUME TypeOK, StoredInv, NEW id \in Id, NEW dst \in Path, NEW rep,
         TransferOK(id, dst, rep), NEW a, a.blob = NoUuid, a.op = "Copy", a.key.path = dst,
         NEW items, items = TransferItems(FindMetaItemByID(id)),
         NEW newId, NEW newBlob \in [Files(items) -> Blob],
         \A x, y \in Files(items) : newBlob[x] = newBlob[y] => x = y
  PROVE  /\ ContentPlan(a, CopyTxn(id, dst, newId, newBlob))
         /\ FreshOf(a, CopyTxn(id, dst, newId, newBlob)) \subseteq Range(newBlob)
         /\ \A k \in DOMAIN CopyTxn(id, dst, newId, newBlob).rm :
              CopyTxn(id, dst, newId, newBlob).rm[k] = meta[k]
  <1> DEFINE t == CopyTxn(id, dst, newId, newBlob)
             src == FindMetaItemByID(id)
             Copied(o) == [meta[o] EXCEPT !.id = newId[o],
                                          !.blob = IF o.dir THEN NoUuid ELSE newBlob[o]]
  <1>1. /\ t.rm = Restrict(meta, TransferReads(src, dst))
        /\ t.wm = Before([k \in DestKeys(src, dst) |-> Copied(Origin(k, src, dst))],
                         ErasedMeta(Replaced(dst)))
        /\ t.del = BlobsOf(Replaced(dst))
        /\ t.copies = {<<meta[o].blob, newBlob[o]>> : o \in Files(items)}
    BY DEF CopyTxn, NoTxn
  <1> HIDE DEF t
  <1>2. /\ src \in Key /\ items \subseteq Key /\ \A j \in items : Exists(j)
        /\ \A k \in DestKeys(src, dst) : /\ Origin(k, src, dst) \in items
                                         /\ DestKey(Origin(k, src, dst), src, dst) = k
                                         /\ Origin(k, src, dst).dir = k.dir
        /\ items \cup Replaced(dst) \subseteq TransferReads(src, dst)
        /\ Replaced(dst) \subseteq Key
    BY TransferFacts, ReplacedItems
  <1>3. ASSUME NEW o \in items PROVE Origin(DestKey(o, src, dst), src, dst) = o
                                     /\ DestKey(o, src, dst) \in DestKeys(src, dst)
    <2>1. DestKey(o, src, dst) \in DestKeys(src, dst)
      BY DEF DestKeys
    <2> QED
      BY <1>2, <2>1, OwnDestination
  <1> HIDE DEF src
  <1>4. ASSUME NEW o \in Files(items)
        PROVE  /\ o \in items /\ newBlob[o] \in Blob /\ meta[o].blob \in Blob
               /\ Copied(o).blob = newBlob[o] /\ Copied(o).size = meta[o].size
    <2>1. o \in items /\ ~o.dir /\ newBlob[o] \in Blob
      BY DEF Files
    <2>2. meta[o] \in [id: Id, blob: Blob, size: Blob]
      BY <1>2, <2>1, StoredItem
    <2> QED
      BY <2>1, <2>2
  <1>5. DOMAIN t.rm = TransferReads(src, dst) /\ \A j \in DOMAIN t.rm : t.rm[j] = meta[j]
    BY <1>1 DEF Restrict
  <1> HIDE DEF Copied
  <1>6. /\ DestKeys(src, dst) \cup Replaced(dst) \subseteq DOMAIN t.wm
        /\ \A k \in DestKeys(src, dst) : t.wm[k] = Copied(Origin(k, src, dst))
        /\ \A k \in DOMAIN t.wm : k \in DestKeys(src, dst) \/ (k \in Replaced(dst) /\ t.wm[k] = NoItem)
    BY <1>1 DEF Before, ErasedMeta
  <1>7. ASSUME NEW k \in DOMAIN t.wm, IsFile(k, t.wm[k])
        PROVE  /\ k \in DestKeys(src, dst) /\ Origin(k, src, dst) \in Files(items)
               /\ t.wm[k] = Copied(Origin(k, src, dst))
    <2>1. k \in DestKeys(src, dst) /\ ~k.dir
      BY <1>6, <1>7 DEF IsFile
    <2> QED
      BY <1>2, <1>6, <2>1 DEF Files
  <1>8. ASSUME NEW k \in DOMAIN t.wm, IsFile(k, t.wm[k]) PROVE CopyOf(t, t.wm[k])
    <2> DEFINE o == Origin(k, src, dst)
    <2>1. o \in Files(items) /\ t.wm[k] = Copied(o)
      BY <1>7, <1>8
    <2> HIDE DEF o
    <2>2. o \in DOMAIN t.rm /\ t.rm[o] = meta[o]
      BY <1>2, <1>4, <1>5, <2>1
    <2>3. <<meta[o].blob, newBlob[o]>> \in t.copies
      BY <1>1, <2>1
    <2> QED
      BY <1>4, <2>1, <2>2, <2>3 DEF CopyOf
  <1>9. ASSUME NEW k \in DOMAIN t.wm, NEW j \in DOMAIN t.wm, IsFile(k, t.wm[k]),
               t.wm[k].blob = t.wm[j].blob
        PROVE  k = j
    <2>1. k \in DestKeys(src, dst) /\ Origin(k, src, dst) \in Files(items)
          /\ t.wm[k] = Copied(Origin(k, src, dst))
      BY <1>7, <1>9
    <2>2. t.wm[k].blob = newBlob[Origin(k, src, dst)] /\ t.wm[k].blob \in Blob
      BY <1>4, <2>1
    <2>3. j \in DestKeys(src, dst) /\ t.wm[j] = Copied(Origin(j, src, dst))
      <3>1. NoItem.blob \notin Blob
        BY BadgerAssumption DEF NoItem
      <3>2. t.wm[j] # NoItem
        BY <1>9, <2>2, <3>1
      <3> QED
        BY <1>6, <3>2
    <2>4. Origin(j, src, dst) \in Files(items)
      <3>1. CASE Origin(j, src, dst).dir
        <4>1. meta[Origin(j, src, dst)] \in [id: Id, blob: {NoUuid}, size: {NoUuid}]
          BY <1>2, <2>3, <3>1, StoredItem
        <4>2. Copied(Origin(j, src, dst)).blob = NoUuid
          BY <3>1, <4>1 DEF Copied
        <4> QED
          BY <1>9, <2>2, <2>3, <4>2, BadgerAssumption
      <3> QED
        BY <1>2, <2>3, <3>1 DEF Files
    <2>5. Origin(k, src, dst) = Origin(j, src, dst)
      <3> DEFINE x == Origin(k, src, dst)
                 y == Origin(j, src, dst)
      <3>1. x \in Files(items) /\ y \in Files(items) /\ Copied(y).blob = newBlob[x]
        BY <1>9, <2>1, <2>2, <2>3, <2>4
      <3>2. Copied(y).blob = newBlob[y]
        BY <1>4, <2>4
      <3> HIDE DEF x, y
      <3>3. x = y
        BY <3>1, <3>2
      <3> QED
        BY <3>3 DEF x, y
    <2> QED
      BY <1>2, <2>1, <2>3, <2>5
  <1>10. \A b \in t.del : \E o \in DOMAIN t.rm \cap DOMAIN t.wm : t.rm[o].blob = b
    <2>1. \A b \in t.del : \E o \in Replaced(dst) : meta[o].blob = b
      BY <1>1 DEF BlobsOf, Files
    <2> QED
      BY <1>2, <1>5, <1>6, <2>1
  <1>11. FreshOf(a, t) = {p[2] : p \in t.copies} \ {NoUuid}
    BY DEF FreshOf
  <1>12. \A p \in t.copies : \E o \in Files(items) : p[1] = meta[o].blob /\ p[2] = newBlob[o]
    BY <1>1
  <1>13. \A b \in FreshOf(a, t) : \E o \in Files(items) : b = newBlob[o]
    BY <1>11, <1>12
  <1>14. ASSUME NEW b \in FreshOf(a, t) PROVE \E k \in DOMAIN t.wm : t.wm[k].blob = b
    <2>1. PICK o \in Files(items) : b = newBlob[o]
      BY <1>13
    <2>2. DestKey(o, src, dst) \in DOMAIN t.wm /\ t.wm[DestKey(o, src, dst)] = Copied(o)
      BY <1>3, <1>4, <1>6 DEF src
    <2> QED
      BY <1>4, <2>1, <2>2
  <1>15. \A p \in t.copies : \E o \in DOMAIN t.rm : t.rm[o].blob = p[1]
    BY <1>2, <1>4, <1>5, <1>12
  <1>16. ASSUME NEW p \in t.copies, NEW q \in t.copies, p[2] = q[2] PROVE p = q
    <2>1. PICK o \in Files(items) : p = <<meta[o].blob, newBlob[o]>>
      BY <1>1
    <2>2. PICK x \in Files(items) : q = <<meta[x].blob, newBlob[x]>>
      BY <1>1
    <2> QED
      BY <1>16, <2>1, <2>2
  <1>19. \A k \in DOMAIN t.wm : AtOrBelow(dst, k)
    BY <1>6, DestBelow, ReplacedBelow DEF src
  <1>17. ContentPlan(a, t)
    BY <1>8, <1>9, <1>10, <1>14, <1>15, <1>16, <1>19 DEF ContentPlan, TransferPlan
  <1>18. FreshOf(a, t) \subseteq Range(newBlob)
    BY <1>13 DEF Range
  <1> QED
    BY <1>5, <1>17, <1>18 DEF t
-----------------------------------------------------------------------------
(***************************************************************************)
(* A step of another call leaves a call alone: the step writes neither     *)
(* what the call holds nor, while it may still commit, what it has read.   *)
(***************************************************************************)
LEMMA SameTarget ==
  ASSUME NEW p, \A k \in FindReads(p) : meta'[k] = meta[k]
  PROVE  FindReads(p)' = FindReads(p) /\ TargetId(p)' = TargetId(p)
  <1>1. meta'[FileKey(p)] = meta[FileKey(p)]
    BY DEF FindReads
  <1>2. Exists(FileKey(p))' <=> Exists(FileKey(p))
    BY <1>1 DEF Exists
  <1>3. CASE Exists(FileKey(p))
    BY <1>1, <1>2, <1>3 DEF FindReads, TargetId, FindByPath
  <1>4. CASE ~Exists(FileKey(p))
    <2>1. meta'[DirKey(p)] = meta[DirKey(p)]
      BY <1>4 DEF FindReads
    <2>2. Exists(DirKey(p))' <=> Exists(DirKey(p))
      BY <2>1 DEF Exists
    <2> QED
      BY <1>2, <1>4, <2>1, <2>2 DEF FindReads, TargetId, FindByPath
  <1> QED
    BY <1>3, <1>4

(* What call c holds while it works. *)
LEMMA HoldsItsOwn ==
  ASSUME TypeOK, NEW c \in Call, ShapeInv(c), pc[c] # "cleanup"
  PROVE  /\ arg[c].blob # NoUuid => arg[c].blob \in Held(c)
         /\ \A p \in txn[c].copies : p[1] \in Blob /\ p[2] \in Blob /\ p[2] \in Held(c)
  <1>1. txn[c].copies \subseteq Blob \X Blob
    BY DEF TypeOK, CallOK, TxnOK
  <1>2. Held(c) = FreshOf(arg[c], txn[c])
    BY HeldFresh
  <1> QED
    BY <1>1, <1>2, BadgerAssumption DEF FreshOf

(* The sources of a copy are stored, while its transaction may commit.     *)
LEMMA CopiesStored ==
  ASSUME IndexInv, NEW c \in Call, ShapeInv(c), InTxn(c), ~stale[c], NEW p \in txn[c].copies
  PROVE  \E o \in DOMAIN txn[c].rm : o \in Key /\ meta[o].blob = p[1] /\ meta[o] = txn[c].rm[o]
  <1>1. PICK o \in DOMAIN txn[c].rm : txn[c].rm[o].blob = p[1]
    BY DEF ShapeInv, ContentPlan
  <1>2. o \in Key /\ meta[o] = txn[c].rm[o]
    BY DEF IndexInv, SnapshotsCurrent, TypeOK, CallOK, TxnOK
  <1> QED
    BY <1>1, <1>2

(* What a transfer knows of its destination lasts while the metadata does. *)
LEMMA ExpectedKept ==
  ASSUME NEW c \in Call, ExpectedInv(c), meta' = meta, arg'[c] = arg[c], txn'[c] = txn[c],
         InTxn(c)' => InTxn(c), stale'[c] = stale[c]
  PROVE  ExpectedInv(c)'
  <1> SUFFICES ASSUME InTxn(c), ~stale[c], arg[c].op \in {"Move", "Copy"}
               PROVE  /\ FindReads(arg[c].key.path)' \subseteq DOMAIN txn'[c].rm
                      /\ CheckReplacement(TargetId(arg[c].key.path)', arg'[c].rep)
    BY DEF ExpectedInv, CheckReplacement
  <1>1. /\ FindReads(arg[c].key.path) \subseteq DOMAIN txn[c].rm
        /\ CheckReplacement(TargetId(arg[c].key.path), arg[c].rep)
    BY DEF ExpectedInv
  <1>2. ASSUME NEW q, q = arg[c].key.path
        PROVE  FindReads(q)' = FindReads(q) /\ TargetId(q)' = TargetId(q)
    BY SameTarget
  <1> QED
    BY <1>1, <1>2

LEMMA OtherCall ==
  ASSUME IndexInv, NEW d \in Call, CallInv(d), SameCall(d), used \subseteq used',
         orphan \subseteq orphan',
         \A b \in Held(d) : chunk'[b] = chunk[b],
         \A k \in Key : meta'[k].blob \notin Held(d),
         InTxn(d) /\ ~stale'[d] =>
           /\ ~stale[d]
           /\ \A k \in DOMAIN txn[d].rm :
                meta'[k] = meta[k] /\ (meta[k].blob \in Blob => chunk'[meta[k].blob] = chunk[meta[k].blob])
  PROVE  CallInv(d)'
  <1>1. pc'[d] = pc[d] /\ arg'[d] = arg[d] /\ txn'[d] = txn[d] /\ trash'[d] = trash[d]
    BY DEF SameCall
  <1>2. Held(d)' = Held(d) /\ (InTxn(d)' <=> InTxn(d)) /\ ShapeInv(d)'
    BY CallKept DEF CallInv
  <1>3. HeldInv(d)'
    <2>1. Held(d)' \subseteq used' /\ trash'[d] \subseteq Held(d)'
      BY <1>1, <1>2 DEF CallInv, HeldInv
    <2>2. \A k \in Key : meta'[k].blob \notin Held(d)'
      BY <1>2
    <2>3. pc'[d] = "cleanup" => \A b \in Held(d)' \ (trash'[d] \cup orphan') : chunk'[b] = NoChunks
      BY <1>1, <1>2 DEF CallInv, HeldInv
    <2> QED
      BY <2>1, <2>2, <2>3 DEF HeldInv
  <1>4. WrittenInv(d)'
    <2>1. ASSUME pc'[d] = "upload" PROVE Filling(arg[d].blob, Whole(arg[d].blob))'
      <3>1. Filling(arg[d].blob, Whole(arg[d].blob))
        BY <1>1, <2>1 DEF CallInv, WrittenInv
      <3>2. arg[d].blob # NoUuid /\ pc[d] # "cleanup"
        <4>1. pc[d] = "upload" /\ CallOK(d)
          BY <1>1, <2>1 DEF IndexInv, TypeOK
        <4> QED
          BY <4>1, BadgerAssumption DEF CallOK
      <3>3. chunk'[arg[d].blob] = chunk[arg[d].blob]
        BY <3>2, HoldsItsOwn DEF CallInv, IndexInv
      <3> QED
        BY <1>1, <3>1, <3>3 DEF Filling, Part, Whole
    <2>2. ASSUME InTxn(d)', arg'[d].blob # NoUuid PROVE chunk'[arg'[d].blob] = Whole(arg'[d].blob)
      <3>1. InTxn(d) /\ pc[d] # "cleanup" /\ arg[d].blob # NoUuid
        BY <1>1, <1>2, <2>2 DEF InTxn
      <3>2. chunk'[arg[d].blob] = chunk[arg[d].blob]
        BY <3>1, HoldsItsOwn DEF CallInv, IndexInv
      <3> QED
        BY <1>1, <3>1, <3>2 DEF CallInv, WrittenInv
    <2>3. ASSUME InTxn(d)', ~stale'[d], NEW p \in txn'[d].copies
          PROVE  Filling(p[2], chunk[p[1]])' /\ (pc'[d] = "commit" => chunk'[p[2]] = chunk'[p[1]])
      <3>1. InTxn(d) /\ pc[d] # "cleanup" /\ ~stale[d] /\ p \in txn[d].copies
        BY <1>1, <1>2, <2>3 DEF InTxn
      <3>2. chunk'[p[2]] = chunk[p[2]]
        BY <3>1, HoldsItsOwn DEF CallInv, IndexInv
      <3>3. chunk'[p[1]] = chunk[p[1]]
        BY <1>2, <2>3, <3>1, CopiesStored, HoldsItsOwn DEF CallInv, IndexInv
      <3>4. Filling(p[2], chunk[p[1]]) /\ (pc[d] = "commit" => chunk[p[2]] = chunk[p[1]])
        BY <3>1 DEF CallInv, WrittenInv
      <3> QED
        BY <1>1, <3>2, <3>3, <3>4 DEF Filling
    <2> QED
      BY <2>1, <2>2, <2>3 DEF WrittenInv
  <1>5. ExpectedInv(d)'
    <2> SUFFICES ASSUME InTxn(d)', ~stale'[d], arg'[d].op \in {"Move", "Copy"}
                 PROVE  /\ FindReads(arg[d].key.path)' \subseteq DOMAIN txn'[d].rm
                        /\ CheckReplacement(TargetId(arg[d].key.path)', arg'[d].rep)
      BY DEF ExpectedInv, CheckReplacement
    <2>1. InTxn(d) /\ ~stale[d] /\ \A k \in DOMAIN txn[d].rm : meta'[k] = meta[k]
      BY <1>2
    <2>2. /\ FindReads(arg[d].key.path) \subseteq DOMAIN txn[d].rm
          /\ CheckReplacement(TargetId(arg[d].key.path), arg[d].rep)
      BY <1>1, <2>1 DEF CallInv, ExpectedInv
    <2>3. ASSUME NEW q, q = arg[d].key.path
          PROVE  FindReads(q)' = FindReads(q) /\ TargetId(q)' = TargetId(q)
      BY <2>1, <2>2, <2>3, SameTarget
    <2> QED
      BY <1>1, <2>2, <2>3
  <1> QED
    BY <1>2, <1>3, <1>4, <1>5 DEF CallInv
-----------------------------------------------------------------------------
(***************************************************************************)
(* Steps of one call that leave the store alone.                           *)
(***************************************************************************)
LEMMA OneCall ==
  ASSUME ContentInv, IndexInv', NEW c \in Call, UNCHANGED <<meta, chunk, file>>,
         used \subseteq used', orphan \subseteq orphan',
         \A d \in Call \ {c} : SameCall(d) /\ stale'[d] = stale[d],
         CallInv(c)', Held(c)' \subseteq Held(c) \cup (used' \ used),
         Active(c)' => Active(c) \/ Held(c) = {}
  PROVE  ContentInv'
  <1>1. ASSUME NEW d \in Call \ {c} PROVE CallInv(d)' /\ Held(d)' = Held(d) /\ (Active(d)' <=> Active(d))
    <2>1. CallInv(d) /\ SameCall(d) /\ stale'[d] = stale[d] /\ HeldInv(d) /\ IndexInv
      BY DEF ContentInv, CallInv
    <2>2. \A k \in Key : meta'[k].blob \notin Held(d)
      BY <2>1 DEF HeldInv
    <2>3. CallInv(d)'
      BY <2>1, <2>2, OtherCall
    <2> QED
      BY <2>1, <2>3, CallKept
  <1>2. StoredInv'
    BY DEF ContentInv, StoredInv, ContentPresent, Exists
  <1>3. \A d \in Call : Held(d) \subseteq used
    BY DEF ContentInv, CallInv, HeldInv
  <1>4. Apart'
    <2> SUFFICES ASSUME NEW d \in Call, NEW e \in Call, d # e PROVE Held(d)' \cap Held(e)' = {}
      BY DEF Apart
    <2>1. CASE d # c /\ e # c
      BY <1>1, <2>1 DEF ContentInv, Apart
    <2>2. CASE d = c
      BY <1>1, <1>3, <2>2 DEF ContentInv, Apart
    <2>3. CASE e = c
      BY <1>1, <1>3, <2>3 DEF ContentInv, Apart
    <2> QED
      BY <2>1, <2>2, <2>3
  <1>5. \A d \in Call : CallInv(d)'
    BY <1>1
  <1>6. ASSUME NEW r \in Reader PROVE StreamInv(r)'
    <2>1. StreamInv(r)
      BY DEF ContentInv
    <2>2. CASE file[r] = NoFile
      BY <2>2 DEF StreamInv
    <2>3. CASE file[r] # NoFile
      <3>1. file[r].blob \in used /\ \A d \in Call : Active(d) => file[r].blob \notin Held(d)
        BY <2>1, <2>3 DEF StreamInv
      <3>2. ASSUME NEW d \in Call, Active(d)' PROVE file[r].blob \notin Held(d)'
        BY <1>1, <3>1, <3>2
      <3> QED
        BY <2>1, <2>3, <3>1, <3>2 DEF StreamInv
    <2> QED
      BY <2>2, <2>3
  <1> QED
    BY <1>2, <1>4, <1>5, <1>6 DEF ContentInv

(* A call that is idle holds nothing. *)
LEMMA IdleHoldsNothing ==
  ASSUME NEW c \in Call
  PROVE  /\ pc[c] = "idle" /\ ShapeInv(c) => Held(c) = {}
         /\ pc'[c] = "idle" /\ arg'[c] = NoArg /\ txn'[c] = NoTxn /\ trash'[c] = {} =>
              CallInv(c)' /\ Held(c)' = {}
  <1>1. FreshOf(NoArg, NoTxn) = {} /\ ReadOf(NoTxn) = {}
    BY DEF FreshOf, ReadOf, NoArg, NoTxn, Empty
  <1>2. pc[c] = "idle" /\ ShapeInv(c) => Held(c) = {}
    BY <1>1, HeldFresh DEF ShapeInv
  <1>3. ASSUME pc'[c] = "idle", arg'[c] = NoArg, txn'[c] = NoTxn, trash'[c] = {}
        PROVE  CallInv(c)' /\ Held(c)' = {}
    <2>1. Held(c)' = {}
      BY <1>1, <1>3, HeldNow DEF HeldOf
    <2>2. ~InTxn(c)'
      BY <1>3 DEF InTxn
    <2>3. ShapeInv(c)'
      BY <1>1, <1>3, <2>2 DEF ShapeInv
    <2> QED
      BY <1>3, <2>1, <2>2, <2>3 DEF CallInv, HeldInv, WrittenInv, ExpectedInv
  <1> QED
    BY <1>2, <1>3

(* The error path: the call goes on to delete what it holds. *)
LEMMA FailContents ==
  ASSUME ContentInv, IndexInv', NEW c \in Call, Active(c), Fail(c), UNCHANGED <<store, used, file, orphan>>
  PROVE  ContentInv'
  <1>1. ShapeInv(c) /\ HeldInv(c) /\ TypeOK
    BY DEF ContentInv, CallInv, IndexInv
  <1>2. Held(c) = FreshOf(arg[c], txn[c]) /\ FreshBlobs(c) = Held(c)
    BY <1>1, HeldFresh, FreshNow DEF Active
  <1>3. CASE Held(c) = {}
    <2>1. /\ pc'[c] = "idle" /\ arg'[c] = NoArg /\ txn'[c] = NoTxn /\ trash'[c] = {}
          /\ \A d \in Call \ {c} : SameCall(d) /\ stale'[d] = stale[d]
      BY <1>1, <1>2, <1>3 DEF Fail, Finish, TypeOK, SameCall
    <2>2. CallInv(c)' /\ Held(c)' = {}
      BY <2>1, IdleHoldsNothing
    <2> QED
      BY <1>3, <2>1, <2>2, OneCall DEF store
  <1>4. CASE Held(c) # {}
    <2>1. /\ pc'[c] = "cleanup" /\ trash'[c] = Held(c) /\ arg'[c] = arg[c] /\ txn'[c] = txn[c]
          /\ \A d \in Call \ {c} : SameCall(d) /\ stale'[d] = stale[d]
      BY <1>1, <1>2, <1>4 DEF Fail, CleanUp, TypeOK, SameCall
    <2>2. Held(c)' = Held(c)
      BY <1>1, <1>2, <1>4, <2>1, HeldNow DEF HeldOf, ShapeInv
    <2>3. ~InTxn(c)' /\ pc'[c] # "upload"
      BY <2>1 DEF InTxn
    <2>4. ShapeInv(c)'
      BY <1>1, <1>4, <2>1, <2>3 DEF ShapeInv
    <2>5. CallInv(c)'
      BY <1>1, <2>1, <2>2, <2>3, <2>4 DEF CallInv, HeldInv, WrittenInv, ExpectedInv, store
    <2> QED
      BY <2>1, <2>2, <2>5, OneCall DEF store
  <1> QED
    BY <1>3, <1>4

(* A transaction begins: what it plans holds, and the contents it is going *)
(* to store are uploaded, or drawn and still empty.                        *)
LEMMA BeginContents ==
  ASSUME ContentInv, IndexInv', NEW c \in Call, NEW a, NEW t, Begin(c, a, t),
         pc[c] \in {"idle", "upload"}, UNCHANGED <<meta, chunk, file, orphan>>, used \subseteq used',
         ContentPlan(a, t), \A k \in DOMAIN t.rm : t.rm[k] = meta[k],
         FreshOf(a, t) \subseteq Held(c) \cup (used' \ used),
         a.blob # NoUuid => chunk[a.blob] = Whole(a.blob),
         \A p \in t.copies : chunk[p[2]] = NoChunks,
         a.op \in {"Move", "Copy"} => /\ FindReads(a.key.path) \subseteq DOMAIN t.rm
                                      /\ CheckReplacement(TargetId(a.key.path), a.rep)
  PROVE  ContentInv'
  <1>1. ShapeInv(c) /\ HeldInv(c) /\ TypeOK /\ TypeOK' /\ StoredInv
    BY DEF ContentInv, CallInv, IndexInv
  <1>2. /\ pc'[c] = IF t.copies = {} THEN "commit" ELSE "copy"
        /\ arg'[c] = a /\ txn'[c] = t /\ trash'[c] = {} /\ ~stale'[c]
        /\ \A d \in Call \ {c} : SameCall(d) /\ stale'[d] = stale[d]
    <2>1. trash[c] = {}
      BY <1>1 DEF ShapeInv
    <2> QED
      BY <1>1, <2>1 DEF Begin, TypeOK, SameCall
  <1>3. InTxn(c)' /\ pc'[c] \notin {"idle", "upload", "cleanup"}
    BY <1>2 DEF InTxn
  <1>4. Held(c)' = FreshOf(a, t) /\ FreshOf(a, t) \subseteq Blob
    <2>1. Held(c)' = FreshOf(a, t)
      BY <1>2, HeldNow DEF HeldOf
    <2>2. a.blob \in Blob \cup {NoUuid} /\ t.copies \subseteq Blob \X Blob
      BY <1>1, <1>2 DEF TypeOK, Arg, CallOK, TxnOK
    <2> QED
      BY <2>1, <2>2 DEF FreshOf
  <1>5. \A k \in Key : meta[k].blob \notin FreshOf(a, t)
    <2>1. \A k \in Key : meta[k].blob \in Blob => meta[k].blob \in used /\ meta[k].blob \notin Held(c)
      BY <1>1, BadgerAssumption DEF StoredInv, HeldInv
    <2> QED
      BY <1>4, <2>1
  <1>6. ShapeInv(c)'
    <2>1. DOMAIN t.rm \subseteq Key
      BY <1>1, <1>2 DEF TypeOK, CallOK, TxnOK
    <2>2. ReadOf(t) \cap FreshOf(a, t) = {}
      BY <1>5, <2>1 DEF ReadOf
    <2> QED
      BY <1>2, <1>3, <2>2 DEF ShapeInv
  <1>7. HeldInv(c)'
    <2>1. Held(c)' \subseteq used'
      BY <1>1, <1>4 DEF HeldInv
    <2> QED
      BY <1>2, <1>3, <1>4, <1>5, <2>1 DEF HeldInv
  <1>8. WrittenInv(c)'
    <2>1. ASSUME NEW p \in t.copies PROVE Filling(p[2], chunk[p[1]])'
      <3>1. \A w : Filling(p[2], w)
        BY <2>1, NothingYet
      <3>2. Filling(p[2], chunk[p[1]])
        BY <3>1
      <3> QED
        BY <3>2 DEF Filling
    <2> QED
      BY <1>2, <1>3, <2>1 DEF WrittenInv
  <1>9. ExpectedInv(c)'
    <2> SUFFICES ASSUME arg'[c].op \in {"Move", "Copy"}
                 PROVE  /\ FindReads(arg[c].key.path)' \subseteq DOMAIN txn'[c].rm
                        /\ CheckReplacement(TargetId(arg[c].key.path)', arg'[c].rep)
      BY DEF ExpectedInv, CheckReplacement
    <2>1. \A k \in FindReads(a.key.path) : meta'[k] = meta[k]
      OBVIOUS
    <2>2. ASSUME NEW q, q = a.key.path
          PROVE  FindReads(q)' = FindReads(q) /\ TargetId(q)' = TargetId(q)
      BY SameTarget
    <2> QED
      BY <1>2, <2>2
  <1>10. Active(c)' => Active(c) \/ Held(c) = {}
    BY <1>1, IdleHoldsNothing DEF Active
  <1> QED
    BY <1>2, <1>4, <1>6, <1>7, <1>8, <1>9, <1>10, OneCall DEF CallInv
-----------------------------------------------------------------------------
(***************************************************************************)
(* The beginnings of the calls.                                            *)
(***************************************************************************)

(* A new content, none of whose chunks is there yet. *)
LEMMA UploadContents ==
  ASSUME ContentInv, IndexInv', NEW c \in Call, NEW a, pc[c] = "idle", Upload(c, a),
         UNCHANGED <<meta, chunk, file, orphan>>, used \subseteq used',
         a.blob \in Blob \ used, a.blob \in used'
  PROVE  ContentInv'
  <1>1. ShapeInv(c) /\ TypeOK /\ StoredInv
    BY DEF ContentInv, CallInv, IndexInv
  <1>2. /\ pc'[c] = "upload" /\ arg'[c] = a /\ txn'[c] = NoTxn /\ trash'[c] = {}
        /\ \A d \in Call \ {c} : SameCall(d) /\ stale'[d] = stale[d]
    BY <1>1 DEF Upload, TypeOK, SameCall, ShapeInv
  <1>3. FreshOf(a, NoTxn) = {a.blob} /\ ReadOf(NoTxn) = {}
    BY BadgerAssumption DEF FreshOf, ReadOf, NoTxn, Empty
  <1>4. Held(c)' = {a.blob} /\ ~InTxn(c)'
    BY <1>2, <1>3, HeldNow DEF HeldOf, InTxn
  <1>5. ShapeInv(c)'
    BY <1>2, <1>3, <1>4 DEF ShapeInv
  <1>6. HeldInv(c)'
    BY <1>1, <1>2, <1>4, BadgerAssumption DEF HeldInv, StoredInv
  <1>7. WrittenInv(c)'
    <2>1. Filling(a.blob, Whole(a.blob))
      BY <1>1, NothingYet DEF StoredInv
    <2> QED
      BY <1>2, <1>4, <2>1 DEF WrittenInv, Filling, Part, Whole
  <1>8. CallInv(c)'
    BY <1>4, <1>5, <1>6, <1>7 DEF CallInv, ExpectedInv
  <1>9. Held(c) = {}
    BY <1>1, IdleHoldsNothing
  <1> QED
    BY <1>2, <1>4, <1>8, <1>9, OneCall

LEMMA StartCreateContents ==
  ASSUME ContentInv, IndexInv', NEW c \in Call, NEW k, StartCreate(c, k)
  PROVE  ContentInv'
  <1> DEFINE id == NewV4({k}, Id)[k]
             blob == NewV4({k}, Blob)[k]
             a == [op |-> "Create", id |-> id, blob |-> blob, key |-> k, rep |-> NoUuid]
  <1>1. blob \in Blob \ used
    BY DrawOne DEF StartCreate
  <1>2. Upload(c, a) /\ used' = used \cup {id, blob} /\ UNCHANGED <<meta, chunk, file, orphan>> /\ pc[c] = "idle"
    BY DEF StartCreate, store
  <1>3. a.blob = blob
    OBVIOUS
  <1> HIDE DEF id, blob, a
  <1> QED
    BY <1>1, <1>2, <1>3, UploadContents

LEMMA StartWriteContents ==
  ASSUME ContentInv, IndexInv', NEW c \in Call, NEW id, StartWrite(c, id)
  PROVE  ContentInv'
  <1> DEFINE blob == NewV4({id}, Blob)[id]
             a == [NoArg EXCEPT !.op = "Write", !.id = id, !.blob = blob]
  <1>1. blob \in Blob \ used
    BY DrawOne DEF StartWrite
  <1>2. Upload(c, a) /\ used' = used \cup {blob} /\ UNCHANGED <<meta, chunk, file, orphan>> /\ pc[c] = "idle"
    BY DEF StartWrite, store
  <1>3. a.blob = blob
    BY DEF NoArg
  <1> HIDE DEF blob, a
  <1> QED
    BY <1>1, <1>2, <1>3, UploadContents

LEMMA UploadFailsContents ==
  ASSUME ContentInv, IndexInv', NEW c \in Call, UploadFails(c)
  PROVE  ContentInv'
  BY FailContents DEF UploadFails, Active

LEMMA ConflictContents ==
  ASSUME ContentInv, IndexInv', NEW c \in Call, Conflict(c)
  PROVE  ContentInv'
  BY FailContents DEF Conflict, Active

(* A content without a next chunk is all there, and held by its call. *)
LEMMA UploadDone ==
  ASSUME ContentInv, NEW c \in Call, pc[c] = "upload", NextChunk(arg[c].blob) = {}
  PROVE  /\ arg[c].blob \in Blob /\ arg[c].blob # NoUuid
         /\ chunk[arg[c].blob] = Whole(arg[c].blob) /\ Held(c) = {arg[c].blob}
  <1>1. ShapeInv(c) /\ WrittenInv(c) /\ arg[c].blob \in Blob /\ arg[c].blob # NoUuid
    BY BadgerAssumption DEF ContentInv, CallInv, IndexInv, TypeOK, CallOK
  <1>2. Filling(arg[c].blob, Whole(arg[c].blob))
    BY <1>1 DEF WrittenInv
  <1>3. chunk[arg[c].blob] = Whole(arg[c].blob)
    BY <1>1, <1>2, NextIs, WholeTyped DEF Filling
  <1>4. FreshOf(arg[c], NoTxn) = {arg[c].blob}
    BY <1>1 DEF FreshOf, NoTxn
  <1> QED
    BY <1>1, <1>3, <1>4, HeldFresh DEF ShapeInv

LEMMA BeginCreateContents ==
  ASSUME ContentInv, IndexInv', NEW c \in Call, BeginCreate(c)
  PROVE  ContentInv'
  <1> DEFINE k == arg[c].key
             item == [id |-> arg[c].id, blob |-> arg[c].blob, size |-> arg[c].blob]
             t == CreateTxn(k, item)
             a == arg[c]
  <1>1. /\ k \in Key /\ ~k.dir /\ a.op = "Create" /\ pc[c] = "upload"
        /\ UNCHANGED <<store, used, file, orphan>> /\ UNCHANGED <<meta, chunk, file, orphan>>
    BY DEF BeginCreate, ContentInv, IndexInv, TypeOK, CallOK, store
  <1>2. CASE CreateOK(k)
    <2>1. Begin(c, a, t)
      BY <1>2 DEF BeginCreate
    <2>2. item.blob = a.blob /\ item.size = a.blob
      OBVIOUS
    <2> HIDE DEF item, a, k
    <2>3. ContentPlan(a, t) /\ FreshOf(a, t) = {a.blob} \ {NoUuid}
      BY <1>1, <1>2, <2>2, CreateContents DEF ContentInv, IndexInv
    <2>4. t.copies = {} /\ \A j \in DOMAIN t.rm : t.rm[j] = meta[j]
      BY DEF CreateTxn, NoTxn, Restrict
    <2>5. /\ FreshOf(a, t) \subseteq Held(c)
          /\ a.blob # NoUuid => chunk[a.blob] = Whole(a.blob)
      BY <1>1, <2>3, UploadDone DEF BeginCreate, a
    <2> HIDE DEF t
    <2> QED
      BY <1>1, <2>1, <2>3, <2>4, <2>5, BeginContents
  <1>3. CASE ~CreateOK(k)
    BY <1>1, <1>3, FailContents DEF BeginCreate, Active
  <1> QED
    BY <1>2, <1>3

LEMMA BeginWriteContents ==
  ASSUME ContentInv, IndexInv', NEW c \in Call, BeginWrite(c)
  PROVE  ContentInv'
  <1> DEFINE a == arg[c]
             id == arg[c].id
             t == UpdateTxn(id, a.blob, a.blob)
  <1>1. /\ id \in Id /\ a.op = "Write" /\ pc[c] = "upload" /\ NextChunk(a.blob) = {}
        /\ UNCHANGED <<store, used, file, orphan>> /\ UNCHANGED <<meta, chunk, file, orphan>>
    BY DEF BeginWrite, ContentInv, IndexInv, TypeOK, CallOK, store
  <1>2. a.blob \in Blob /\ a.blob # NoUuid /\ chunk[a.blob] = Whole(a.blob) /\ Held(c) = {a.blob}
    BY <1>1, UploadDone
  <1>3. CASE WriteOK(id)
    <2>1. Begin(c, a, t)
      BY <1>3 DEF BeginWrite
    <2>2. FindMetaItemByID(id) # NoKey
      BY <1>3 DEF WriteOK
    <2> HIDE DEF a, id
    <2>3. ContentPlan(a, t) /\ FreshOf(a, t) = {a.blob} \ {NoUuid}
      BY <1>1, <1>2, <2>2, UpdateContents DEF ContentInv, IndexInv
    <2>4. t.copies = {} /\ \A j \in DOMAIN t.rm : t.rm[j] = meta[j]
      BY DEF UpdateTxn, NoTxn, Restrict
    <2> HIDE DEF t
    <2> QED
      BY <1>1, <1>2, <2>1, <2>3, <2>4, BeginContents
  <1>4. CASE ~WriteOK(id)
    BY <1>1, <1>4, FailContents DEF BeginWrite, Active
  <1> QED
    BY <1>3, <1>4

LEMMA MkdirContents ==
  ASSUME ContentInv, IndexInv', NEW c \in Call, NEW p \in Path, Mkdir(c, DirKey(p))
  PROVE  ContentInv'
  <1> DEFINE k == DirKey(p)
             id == NewV4({k}, Id)[k]
             item == [NoItem EXCEPT !.id = id]
             a == [NoArg EXCEPT !.op = "Mkdir"]
             t == CreateTxn(k, item)
  <1>1. /\ k \in Key /\ k.dir /\ CreateOK(k) /\ Begin(c, a, t) /\ pc[c] = "idle"
        /\ UNCHANGED <<meta, chunk, file, orphan>> /\ used' = used \cup {id}
    BY DEF Mkdir, DirKey, Key, store
  <1>2. a.blob = NoUuid /\ a.op = "Mkdir" /\ item.blob = NoUuid
    BY DEF NoArg, NoItem
  <1> HIDE DEF k, id, item, a
  <1>3. ContentPlan(a, t) /\ FreshOf(a, t) = {}
    BY <1>1, <1>2, CreateContents DEF ContentInv, IndexInv
  <1>4. t.copies = {} /\ \A j \in DOMAIN t.rm : t.rm[j] = meta[j]
    BY DEF CreateTxn, NoTxn, Restrict
  <1> HIDE DEF t
  <1> QED
    BY <1>1, <1>2, <1>3, <1>4, BeginContents

LEMMA WriteCommentsContents ==
  ASSUME ContentInv, IndexInv', NEW c \in Call, NEW id \in Id, WriteComments(c, id)
  PROVE  ContentInv'
  <1> DEFINE m == meta[FindMetaItemByID(id)]
             a == [NoArg EXCEPT !.op = "WriteComments"]
             t == UpdateTxn(id, m.blob, m.size)
  <1>1. /\ FindMetaItemByID(id) # NoKey /\ Begin(c, a, t) /\ pc[c] = "idle"
        /\ UNCHANGED <<meta, chunk, file, used, orphan>>
    BY DEF WriteComments, store
  <1>2. a.blob = NoUuid /\ a.op = "WriteComments"
    BY DEF NoArg
  <1>3. m.blob \in Blob \cup {NoUuid}
    <2>1. FindMetaItemByID(id) \in Key /\ Exists(FindMetaItemByID(id))
      BY <1>1, FoundKey DEF ContentInv, IndexInv
    <2> QED
      BY <2>1, StoredItem DEF ContentInv, IndexInv
  <1> HIDE DEF a
  <1>4. ContentPlan(a, t) /\ FreshOf(a, t) = {}
    BY <1>1, <1>2, <1>3, UpdateContents DEF ContentInv, IndexInv
  <1>5. t.copies = {} /\ \A j \in DOMAIN t.rm : t.rm[j] = meta[j]
    BY DEF UpdateTxn, NoTxn, Restrict
  <1> HIDE DEF t
  <1> QED
    BY <1>1, <1>2, <1>4, <1>5, BeginContents

LEMMA DeleteCallContents ==
  ASSUME ContentInv, IndexInv', NEW c \in Call, NEW id \in Id, Delete(c, id)
  PROVE  ContentInv'
  <1> DEFINE a == [NoArg EXCEPT !.op = "Delete"]
             t == DeleteTxn(id)
  <1>1. /\ FindMetaItemByID(id) # NoKey /\ Begin(c, a, t) /\ pc[c] = "idle"
        /\ UNCHANGED <<meta, chunk, file, used, orphan>>
    BY DEF Delete, store
  <1>2. a.blob = NoUuid /\ a.op = "Delete"
    BY DEF NoArg
  <1> HIDE DEF a
  <1>3. ContentPlan(a, t) /\ FreshOf(a, t) = {}
    BY <1>1, <1>2, DeleteContents DEF ContentInv, IndexInv
  <1>4. t.copies = {} /\ \A j \in DOMAIN t.rm : t.rm[j] = meta[j]
    BY DEF DeleteTxn, NoTxn, Restrict
  <1> HIDE DEF t
  <1> QED
    BY <1>1, <1>2, <1>3, <1>4, BeginContents

LEMMA MoveCallContents ==
  ASSUME ContentInv, IndexInv', NEW c \in Call, NEW id \in Id, NEW dst \in Path, NEW rep,
         Move(c, id, dst, rep)
  PROVE  ContentInv'
  <1> DEFINE a == [NoArg EXCEPT !.op = "Move", !.key = FileKey(dst), !.rep = rep]
             t == MoveTxn(id, dst)
  <1>1. /\ TransferOK(id, dst, rep) /\ Begin(c, a, t) /\ pc[c] = "idle"
        /\ UNCHANGED <<meta, chunk, file, used, orphan>>
    BY DEF Move, store
  <1>2. a.blob = NoUuid /\ a.op = "Move" /\ a.key.path = dst /\ a.rep = rep
    BY DEF NoArg, FileKey
  <1> HIDE DEF a
  <1>3. ContentPlan(a, t) /\ FreshOf(a, t) = {}
    BY <1>1, <1>2, MoveContents DEF ContentInv, IndexInv
  <1>4. t.copies = {} /\ t.rm = Restrict(meta, TransferReads(FindMetaItemByID(id), dst))
    BY DEF MoveTxn, NoTxn
  <1>5. CheckReplacement(TargetId(dst), rep)
    BY <1>1 DEF TransferOK
  <1> HIDE DEF t
  <1>6. FindReads(dst) \subseteq DOMAIN t.rm /\ \A k \in DOMAIN t.rm : t.rm[k] = meta[k]
    BY <1>4 DEF TransferReads, Restrict
  <1> QED
    BY <1>1, <1>2, <1>3, <1>4, <1>5, <1>6, BeginContents

LEMMA CopyCallContents ==
  ASSUME ContentInv, IndexInv', NEW c \in Call, NEW id \in Id, NEW dst \in Path, NEW rep,
         Copy(c, id, dst, rep)
  PROVE  ContentInv'
  <1> DEFINE items == TransferItems(FindMetaItemByID(id))
             newId == NewV4(items, Id)
             newBlob == NewV4(Files(items), Blob)
             a == [NoArg EXCEPT !.op = "Copy", !.key = FileKey(dst), !.rep = rep]
             t == CopyTxn(id, dst, newId, newBlob)
  <1>1. /\ TransferOK(id, dst, rep) /\ Begin(c, a, t) /\ pc[c] = "idle"
        /\ CanDraw(Files(items), Blob)
        /\ used' = used \cup Range(newId) \cup Range(newBlob)
        /\ UNCHANGED <<meta, chunk, file, orphan>>
    BY DEF Copy, store
  <1>2. a.blob = NoUuid /\ a.op = "Copy" /\ a.key.path = dst /\ a.rep = rep
    BY DEF NoArg, FileKey
  <1>3. /\ newBlob \in [Files(items) -> Blob \ used]
        /\ \A x, y \in Files(items) : newBlob[x] = newBlob[y] => x = y
    BY <1>1, Draws
  <1>4. t.rm = Restrict(meta, TransferReads(FindMetaItemByID(id), dst))
        /\ t.copies = {<<meta[o].blob, newBlob[o]>> : o \in Files(items)}
    BY DEF CopyTxn, NoTxn
  <1>5. CheckReplacement(TargetId(dst), rep)
    BY <1>1 DEF TransferOK
  <1>6. ContentPlan(a, t) /\ FreshOf(a, t) \subseteq Range(newBlob)
    <2> DEFINE S == items
               i == newId
               b == newBlob
    <2>1. S = TransferItems(FindMetaItemByID(id)) /\ b \in [Files(S) -> Blob]
      BY <1>3
    <2>2. \A x, y \in Files(S) : b[x] = b[y] => x = y
      BY <1>3
    <2> HIDE DEF S, i, b, a
    <2>3. ContentPlan(a, CopyTxn(id, dst, i, b)) /\ FreshOf(a, CopyTxn(id, dst, i, b)) \subseteq Range(b)
      BY <1>1, <1>2, <2>1, <2>2, CopyContents DEF ContentInv, IndexInv
    <2> QED
      BY <2>3 DEF i, b
  <1> HIDE DEF a, t, newId, newBlob, items
  <1>7. FindReads(dst) \subseteq DOMAIN t.rm /\ \A k \in DOMAIN t.rm : t.rm[k] = meta[k]
    BY <1>4 DEF TransferReads, Restrict
  <1>8. /\ Range(newBlob) \subseteq used' \ used
        /\ \A p \in t.copies : p[2] \in Blob \ used
    <2>1. Range(newBlob) \subseteq Blob \ used
      BY <1>3 DEF Range
    <2> QED
      BY <1>1, <1>3, <1>4, <2>1
  <1>9. \A p \in t.copies : chunk[p[2]] = NoChunks
    BY <1>8 DEF ContentInv, StoredInv
  <1> QED
    BY <1>1, <1>2, <1>5, <1>6, <1>7, <1>8, <1>9, BeginContents

(* Every copy is there: the transaction may commit. *)
LEMMA CopyDoneContents ==
  ASSUME ContentInv, IndexInv', NEW c \in Call, CopyDone(c)
  PROVE  ContentInv'
  <1>1. /\ CallInv(c) /\ ShapeInv(c) /\ TypeOK /\ StoredInv /\ IndexInv
        /\ pc[c] = "copy" /\ UNCHANGED <<meta, chunk, file, orphan>> /\ used' = used
        /\ pc' = [pc EXCEPT ![c] = "commit"] /\ UNCHANGED <<arg, txn, stale, trash>>
    BY DEF CopyDone, ContentInv, CallInv, IndexInv, store
  <1>2. pc'[c] = "commit" /\ \A d \in Call \ {c} : SameCall(d) /\ stale'[d] = stale[d]
    BY <1>1 DEF TypeOK, SameCall
  <1>3. Held(c)' = Held(c)
    BY <1>1, HeldNow
  <1>4. InTxn(c) /\ InTxn(c)'
    BY <1>1, <1>2 DEF InTxn
  <1>5. ShapeInv(c)'
    BY <1>1, <1>2, <1>4 DEF ShapeInv
  <1>6. HeldInv(c)'
    BY <1>1, <1>2, <1>3 DEF CallInv, HeldInv
  <1>7. WrittenInv(c)'
    <2>1. ASSUME ~stale[c], NEW p \in txn[c].copies
          PROVE  Filling(p[2], chunk[p[1]])' /\ chunk[p[2]] = chunk[p[1]]
      <3>1. Filling(p[2], chunk[p[1]]) /\ NextChunk(p[2]) = {}
        BY <1>1, <1>4, <2>1 DEF CallInv, WrittenInv, CopyDone
      <3>2. chunk[p[1]] \in [Seqno -> Blob]
        <4>1. PICK o \in DOMAIN txn[c].rm : o \in Key /\ meta[o].blob = p[1]
          BY <1>1, <1>4, <2>1, CopiesStored
        <4>2. p[1] \in Blob
          BY <1>1, <2>1, HoldsItsOwn
        <4> QED
          BY <1>1, <4>1, <4>2, StoredWhole, WholeTyped
      <3>3. chunk[p[2]] = chunk[p[1]]
        BY <3>1, <3>2, NextIs DEF Filling
      <3> QED
        BY <1>1, <3>1, <3>3 DEF Filling
    <2>2. arg[c].blob # NoUuid => chunk[arg[c].blob] = Whole(arg[c].blob)
      BY <1>1, <1>4 DEF CallInv, WrittenInv
    <2> QED
      BY <1>1, <1>2, <2>1, <2>2 DEF WrittenInv
  <1>8. ExpectedInv(c)'
    BY <1>1, <1>4, ExpectedKept DEF CallInv
  <1> QED
    BY <1>1, <1>2, <1>3, <1>5, <1>6, <1>7, <1>8, OneCall DEF CallInv, Active
-----------------------------------------------------------------------------
(***************************************************************************)
(* Steps of one call on one content that it holds.                         *)
(***************************************************************************)
LEMMA OneContent ==
  ASSUME ContentInv, IndexInv', NEW c \in Call, NEW b \in Held(c), UNCHANGED <<meta, used, file>>,
         orphan \subseteq orphan',
         \A x \in Blob \ {b} : chunk'[x] = chunk[x],
         \A d \in Call \ {c} : SameCall(d) /\ stale'[d] = stale[d],
         CallInv(c)', Held(c)' \subseteq Held(c), Active(c)' => Active(c),
         Active(c) \/ chunk'[b] = NoChunks
  PROVE  ContentInv'
  <1>1. /\ TypeOK /\ IndexInv /\ StoredInv /\ b \in Blob /\ b \in used
        /\ \A k \in Key : meta[k].blob # b
    BY HeldTyped DEF ContentInv, IndexInv, CallInv, HeldInv
  <1>2. ASSUME NEW d \in Call \ {c} PROVE CallInv(d)' /\ Held(d)' = Held(d) /\ (Active(d)' <=> Active(d))
    <2>1. CallInv(d) /\ SameCall(d) /\ stale'[d] = stale[d] /\ HeldInv(d)
      BY DEF ContentInv, CallInv
    <2>2. b \notin Held(d) /\ Held(d) \subseteq Blob
      BY <1>1, HeldTyped DEF ContentInv, Apart
    <2>3. \A x \in Held(d) : chunk'[x] = chunk[x]
      BY <2>2
    <2>4. \A k \in Key : meta'[k].blob \notin Held(d)
      BY <2>1 DEF HeldInv
    <2>5. DOMAIN txn[d].rm \subseteq Key
      BY <1>1 DEF TypeOK, CallOK, TxnOK
    <2>6. CallInv(d)'
      BY <1>1, <2>1, <2>3, <2>4, <2>5, OtherCall
    <2> QED
      BY <2>1, <2>6, CallKept
  <1>3. StoredInv'
    <2>1. ASSUME NEW k \in Key, Exists(k)', ~k.dir PROVE chunk'[meta'[k].blob] = [n \in Seqno |-> meta'[k].size]
      <3>1. Exists(k)
        BY <2>1 DEF Exists
      <3>2. meta[k].blob \in Blob \ {b}
        BY <1>1, <2>1, <3>1, StoredItem
      <3>3. chunk[meta[k].blob] = [n \in Seqno |-> meta[k].size]
        BY <1>1, <2>1, <3>1 DEF StoredInv, ContentPresent
      <3>4. chunk'[meta[k].blob] = chunk[meta[k].blob] /\ meta'[k] = meta[k]
        BY <3>2
      <3> QED
        BY <3>3, <3>4
    <2>2. ContentPresent'
      BY <2>1 DEF ContentPresent
    <2>3. \A x \in Blob \ used' : chunk'[x] = NoChunks
      BY <1>1 DEF StoredInv
    <2> QED
      BY <1>1, <2>2, <2>3 DEF StoredInv, Exists
  <1>4. Apart'
    <2> SUFFICES ASSUME NEW d \in Call, NEW e \in Call, d # e PROVE Held(d)' \cap Held(e)' = {}
      BY DEF Apart
    <2>1. Held(d)' \subseteq Held(d) /\ Held(e)' \subseteq Held(e)
      BY <1>2
    <2> QED
      BY <2>1 DEF ContentInv, Apart
  <1>5. \A d \in Call : CallInv(d)'
    BY <1>2
  <1>6. ASSUME NEW r \in Reader PROVE StreamInv(r)'
    <2>1. StreamInv(r)
      BY DEF ContentInv
    <2>2. CASE file[r] = NoFile
      BY <2>2 DEF StreamInv
    <2>3. CASE file[r] # NoFile
      <3>1. /\ file[r].blob \in used /\ \A d \in Call : Active(d) => file[r].blob \notin Held(d)
            /\ \A n \in Seqno : chunk[file[r].blob][n] \in OfVersion(file[r].size)
        BY <2>1, <2>3 DEF StreamInv
      <3>2. ASSUME NEW d \in Call, Active(d)' PROVE file[r].blob \notin Held(d)'
        BY <1>2, <3>1, <3>2
      <3>3. file[r].blob \in Blob
        BY <1>1, <2>1, <2>3 DEF StreamInv, TypeOK, StreamOK
      <3>4. \A n \in Seqno : chunk'[file[r].blob][n] \in OfVersion(file[r].size)
        <4>1. CASE file[r].blob = b
          BY <3>1, <4>1 DEF NoChunks, OfVersion
        <4>2. CASE file[r].blob # b
          BY <3>1, <3>3, <4>2
        <4> QED
          BY <4>1, <4>2
      <3> QED
        BY <2>1, <2>3, <3>1, <3>2, <3>4 DEF StreamInv
    <2> QED
      BY <2>2, <2>3
  <1> QED
    BY <1>3, <1>4, <1>5, <1>6 DEF ContentInv

LEMMA WriteChunkContents ==
  ASSUME ContentInv, IndexInv', NEW c \in Call, WriteChunk(c)
  PROVE  ContentInv'
  <1> DEFINE b == arg[c].blob
  <1>1. /\ pc[c] = "upload" /\ UNCHANGED <<meta, used, file, orphan>> /\ UNCHANGED <<pc, arg, txn, stale, trash>>
        /\ TypeOK /\ CallInv(c) /\ ShapeInv(c) /\ b \in Blob /\ b # NoUuid
    BY BadgerAssumption DEF WriteChunk, calls, ContentInv, IndexInv, CallInv, TypeOK, CallOK
  <1>2. PICK n \in NextChunk(b) : chunk' = [chunk EXCEPT ![b][n] = b]
    BY DEF WriteChunk
  <1>3. b \in Held(c)
    BY <1>1, HoldsItsOwn
  <1>4. \A d \in Call : SameCall(d)
    BY <1>1 DEF SameCall
  <1>5. Held(c)' = Held(c) /\ (Active(c)' <=> Active(c)) /\ ShapeInv(c)' /\ ~InTxn(c)'
    BY <1>1, <1>4, CallKept DEF InTxn
  <1>6. HeldInv(c)'
    BY <1>1, <1>5 DEF CallInv, HeldInv
  <1>7. WrittenInv(c)'
    <2>1. Filling(b, Whole(b)) /\ Whole(b) \in [Seqno -> Blob] /\ Whole(b)[n] = b
      BY <1>1, WholeTyped DEF CallInv, WrittenInv, Whole, NextChunk
    <2>2. Filling(b, Whole(b))'
      <3> DEFINE w == Whole(b)
      <3>1. chunk' = [chunk EXCEPT ![b][n] = w[n]] /\ w \in [Seqno -> Blob] /\ Filling(b, w)
        BY <1>2, <2>1
      <3> HIDE DEF w
      <3>2. \E m \in 0..NChunk : chunk'[b] = Part(w, m)
        BY <1>1, <3>1, FilledOn DEF Filling
      <3> QED
        BY <1>1, <3>2 DEF Filling, w, Whole, Part
    <2> QED
      BY <1>1, <1>5, <2>2 DEF WrittenInv
  <1>8. CallInv(c)'
    BY <1>5, <1>6, <1>7 DEF CallInv, ExpectedInv
  <1>9. \A x \in Blob \ {b} : chunk'[x] = chunk[x]
    BY <1>1, <1>2 DEF TypeOK
  <1>10. Active(c)
    BY <1>1 DEF Active
  <1> HIDE DEF b
  <1> QED
    BY <1>1, <1>3, <1>4, <1>5, <1>8, <1>9, <1>10, OneContent

LEMMA CopyChunkContents ==
  ASSUME ContentInv, IndexInv', NEW c \in Call, CopyChunk(c)
  PROVE  ContentInv'
  <1>1. /\ pc[c] = "copy" /\ UNCHANGED <<meta, index, used, file, orphan>> /\ InTxn(c) /\ Active(c)
        /\ TypeOK /\ IndexInv /\ StoredInv /\ CallInv(c) /\ ShapeInv(c)
    BY DEF CopyChunk, ContentInv, IndexInv, CallInv, InTxn, Active
  <1>2a. PICK p \in txn[c].copies :
          \E n \in NextChunk(p[2]) :
            IF chunk[p[1]][n] # NoUuid
              THEN /\ chunk' = [chunk EXCEPT ![p[2]][n] = chunk[p[1]][n]]
                   /\ UNCHANGED calls
              ELSE Fail(c) /\ UNCHANGED chunk
    BY DEF CopyChunk
  <1>2. PICK n \in NextChunk(p[2]) :
          IF chunk[p[1]][n] # NoUuid
            THEN /\ chunk' = [chunk EXCEPT ![p[2]][n] = chunk[p[1]][n]]
                 /\ UNCHANGED calls
            ELSE Fail(c) /\ UNCHANGED chunk
    BY <1>2a
  <1>3. CASE chunk[p[1]][n] = NoUuid
    <2>1. Fail(c) /\ UNCHANGED <<store, used, file, orphan>>
      BY <1>1, <1>2, <1>3 DEF store
    <2> QED
      BY <1>1, <2>1, FailContents
  <1>4. CASE chunk[p[1]][n] # NoUuid
    <2> DEFINE b == p[2]
    <2>1. /\ UNCHANGED <<pc, arg, txn, stale, trash>> /\ \A d \in Call : SameCall(d)
          /\ chunk' = [chunk EXCEPT ![b][n] = chunk[p[1]][n]]
      BY <1>2, <1>4 DEF calls, SameCall
    <2>2. b \in Blob /\ p[1] \in Blob /\ b \in Held(c)
      BY <1>1, HoldsItsOwn
    <2>3. Held(c)' = Held(c) /\ (Active(c)' <=> Active(c)) /\ ShapeInv(c)' /\ (InTxn(c)' <=> InTxn(c))
      BY <1>1, <2>1, CallKept
    <2>4. \A x \in Blob \ {b} : chunk'[x] = chunk[x]
      BY <1>1, <2>1, <2>2 DEF TypeOK
    <2> HIDE DEF b
    <2>5. HeldInv(c)'
      BY <1>1, <2>1, <2>3 DEF CallInv, HeldInv
    <2>6. ExpectedInv(c)'
      BY <1>1, <2>1, <2>3, ExpectedKept DEF CallInv
    <2>7. arg[c].blob = NoUuid
      BY <1>1 DEF ShapeInv, ContentPlan
    <2>8. ASSUME ~stale[c], NEW q \in txn[c].copies PROVE Filling(q[2], chunk[q[1]])'
      <3>1. q[1] \in Blob /\ q[1] # b /\ chunk[q[1]] \in [Seqno -> Blob]
        <4>1. PICK o \in DOMAIN txn[c].rm : o \in Key /\ meta[o].blob = q[1]
          BY <1>1, <2>8, CopiesStored
        <4>2. q[1] \in Blob
          BY <1>1, <2>8, HoldsItsOwn
        <4>3. q[1] # b
          BY <1>1, <2>2, <4>1 DEF CallInv, HeldInv
        <4> QED
          BY <1>1, <4>1, <4>2, <4>3, StoredWhole, WholeTyped
      <3> DEFINE w == chunk[q[1]]
      <3>2. chunk'[q[1]] = w
        BY <2>4, <3>1
      <3>3. Filling(q[2], w)
        BY <1>1, <2>8 DEF CallInv, WrittenInv
      <3>4. CASE q[2] = b
        <4>1. q = p
          BY <1>1, <2>8, <3>4 DEF ShapeInv, ContentPlan, b
        <4>2. chunk' = [chunk EXCEPT ![b][n] = w[n]] /\ n \in NextChunk(b) /\ w \in [Seqno -> Blob]
          BY <2>1, <3>1, <4>1 DEF b
        <4> HIDE DEF w
        <4>3. \E m \in 0..NChunk : chunk'[b] = Part(w, m)
          BY <1>1, <2>2, <3>3, <3>4, <4>2, FilledOn DEF Filling
        <4> QED
          BY <3>2, <3>4, <4>3 DEF Filling
      <3>5. CASE q[2] # b
        <4>1. chunk'[q[2]] = chunk[q[2]]
          BY <1>1, <2>4, <2>8, <3>5, HoldsItsOwn
        <4> HIDE DEF w
        <4> QED
          BY <3>2, <3>3, <4>1 DEF Filling
      <3> QED
        BY <3>4, <3>5
    <2>9. WrittenInv(c)'
      <3>1. pc'[c] = "copy" /\ arg'[c].blob = NoUuid /\ stale'[c] = stale[c] /\ txn'[c] = txn[c]
        BY <1>1, <2>1, <2>7
      <3>2. ASSUME ~stale'[c], NEW q \in txn'[c].copies PROVE Filling(q[2], chunk[q[1]])'
        BY <2>8, <3>1, <3>2
      <3> QED
        BY <3>1, <3>2 DEF WrittenInv
    <2>10. CallInv(c)'
      BY <2>3, <2>5, <2>6, <2>9 DEF CallInv
    <2> QED
      BY <1>1, <2>1, <2>2, <2>3, <2>4, <2>10, OneContent
  <1> QED
    BY <1>3, <1>4

(* The clean-up: what is left to delete belongs to what the call holds.    *)
LEMMA DeleteChunksContents ==
  ASSUME ContentInv, IndexInv', NEW c \in Call, DeleteChunks(c)
  PROVE  ContentInv'
  <1>1. /\ pc[c] = "cleanup" /\ UNCHANGED <<meta, used, file>>
        /\ TypeOK /\ CallInv(c) /\ ShapeInv(c) /\ HeldInv(c) /\ Held(c) \subseteq Blob
    BY HeldTyped DEF DeleteChunks, ContentInv, IndexInv, CallInv
  <1>2. PICK b \in trash[c] :
          /\ \/ chunk' = [chunk EXCEPT ![b] = NoChunks] /\ UNCHANGED orphan
             \/ orphan' = orphan \cup {b} /\ UNCHANGED chunk
          /\ IF trash[c] = {b}
               THEN Finish(c)
               ELSE trash' = [trash EXCEPT ![c] = @ \ {b}] /\ UNCHANGED <<pc, arg, txn, stale>>
    BY DEF DeleteChunks
  <1>3. /\ b \in Held(c) /\ b \in Blob /\ orphan \subseteq orphan'
        /\ chunk'[b] = NoChunks \/ (b \in orphan' /\ UNCHANGED chunk)
        /\ \A x \in Blob \ {b} : chunk'[x] = chunk[x]
    BY <1>1, <1>2 DEF HeldInv, TypeOK
  (* It is enough that the call itself is as the invariant says. *)
  <1>4. ASSUME CallInv(c)', Held(c)' \subseteq Held(c), ~Active(c)',
               \A d \in Call \ {c} : SameCall(d) /\ stale'[d] = stale[d]
        PROVE  ContentInv'
    <2>1. CASE UNCHANGED chunk
      BY <1>1, <1>3, <1>4, <2>1, OneCall
    <2>2. CASE chunk'[b] = NoChunks
      BY <1>1, <1>3, <1>4, <2>2, OneContent
    <2> QED
      BY <1>3, <2>1, <2>2
  <1>5. CASE trash[c] = {b}
    <2>1. /\ pc'[c] = "idle" /\ arg'[c] = NoArg /\ txn'[c] = NoTxn /\ trash'[c] = {}
          /\ \A d \in Call \ {c} : SameCall(d) /\ stale'[d] = stale[d]
      BY <1>1, <1>2, <1>5 DEF Finish, TypeOK, SameCall
    <2>2. CallInv(c)' /\ Held(c)' = {}
      BY <2>1, IdleHoldsNothing
    <2>3. ~Active(c)'
      BY <2>1 DEF Active
    <2> QED
      BY <1>4, <2>1, <2>2, <2>3
  <1>6. CASE trash[c] # {b}
    <2>1. /\ UNCHANGED <<pc, arg, txn, stale>> /\ trash'[c] = trash[c] \ {b} /\ trash'[c] # {}
          /\ \A d \in Call \ {c} : SameCall(d) /\ stale'[d] = stale[d]
      BY <1>1, <1>2, <1>6 DEF TypeOK, SameCall
    <2>2. Held(c)' = Held(c)
      <3> DEFINE R == ReadOf(txn[c])
                 F == FreshOf(arg[c], txn[c])
      <3>1. R \cap F = {} /\ trash[c] \subseteq Held(c) /\ trash[c] # {}
        BY <1>1 DEF ShapeInv, HeldInv
      <3>2. /\ Held(c) = IF trash[c] # {} /\ trash[c] \subseteq R THEN R ELSE F
            /\ Held(c)' = IF trash'[c] # {} /\ trash'[c] \subseteq R THEN R ELSE F
        BY <2>1, HeldNow DEF HeldOf
      <3> HIDE DEF R, F
      <3> QED
        BY <2>1, <3>1, <3>2
    <2>3. ~Active(c)' /\ ~InTxn(c) /\ ~InTxn(c)' /\ pc'[c] = "cleanup"
      BY <1>1, <2>1 DEF Active, InTxn
    <2>4. ShapeInv(c)'
      BY <1>1, <2>1, <2>3 DEF ShapeInv
    <2>5. HeldInv(c)'
      <3>1. ASSUME NEW x \in Held(c) \ ((trash[c] \ {b}) \cup orphan') PROVE chunk'[x] = NoChunks
        <4>1. CASE x = b
          BY <1>3, <3>1, <4>1
        <4>2. CASE x # b
          BY <1>1, <1>3, <3>1, <4>2 DEF HeldInv
        <4> QED
          BY <4>1, <4>2
      <3> QED
        BY <1>1, <2>1, <2>2, <3>1 DEF HeldInv
    <2>6. CallInv(c)'
      BY <2>3, <2>4, <2>5 DEF CallInv, WrittenInv, ExpectedInv
    <2> QED
      BY <1>4, <2>1, <2>2, <2>3, <2>6
  <1> QED
    BY <1>5, <1>6
-----------------------------------------------------------------------------
(***************************************************************************)
(* The commit: what the call holds becomes the contents of files, and what *)
(* it supersedes is what the call holds.                                   *)
(***************************************************************************)

(* A call that commits: its plan holds, and what it has read is current.   *)
LEMMA Committing ==
  ASSUME ContentInv, NEW c \in Call, Commit(c)
  PROVE  /\ InTxn(c) /\ pc[c] = "commit" /\ ~stale[c] /\ TypeOK /\ IndexInv /\ StoredInv
         /\ ShapeInv(c) /\ WrittenInv(c) /\ ContentPlan(arg[c], txn[c]) /\ TxnOK(txn[c])
         /\ \A o \in DOMAIN txn[c].rm : o \in Key /\ meta[o] = txn[c].rm[o]
  <1>1. InTxn(c) /\ pc[c] = "commit" /\ ~stale[c]
    BY DEF Commit, InTxn
  <1>2. TypeOK /\ IndexInv /\ StoredInv /\ ShapeInv(c) /\ WrittenInv(c)
    BY DEF ContentInv, IndexInv, CallInv
  <1>3. ContentPlan(arg[c], txn[c])
    BY <1>1, <1>2 DEF ShapeInv
  <1>4. TxnOK(txn[c])
    BY <1>2 DEF TypeOK, CallOK
  <1>5. \A o \in DOMAIN txn[c].rm : o \in Key /\ meta[o] = txn[c].rm[o]
    BY <1>1, <1>2, <1>4 DEF IndexInv, SnapshotsCurrent, TxnOK
  <1> QED
    BY <1>1, <1>2, <1>3, <1>4, <1>5

(* A content the commit deletes is that of a file whose item it rewrites.  *)
LEMMA DroppedContent ==
  ASSUME ContentInv, NEW c \in Call, Commit(c), NEW b \in txn[c].del
  PROVE  /\ b \in Blob /\ \A d \in Call : b \notin Held(d)
         /\ \E o \in Key \cap DOMAIN txn[c].wm : meta[o].blob = b
  <1> DEFINE t == txn[c]
  <1>1. /\ TypeOK /\ ContentPlan(arg[c], t) /\ TxnOK(t)
        /\ \A k \in DOMAIN t.rm : meta[k] = t.rm[k]
    BY Committing
  <1>2. PICK o \in DOMAIN t.rm \cap DOMAIN t.wm : t.rm[o].blob = b
    BY <1>1 DEF ContentPlan
  <1>3. o \in Key /\ meta[o].blob = b /\ b \in Blob
    BY <1>1, <1>2 DEF TxnOK
  <1> QED
    BY <1>2, <1>3 DEF ContentInv, CallInv, HeldInv

(* A content the commit puts in place is one the call holds or one that is *)
(* stored under a key it rewrites; it is all there, and stays.             *)
LEMMA StoredContent ==
  ASSUME ContentInv, NEW c \in Call, Commit(c), NEW k \in DOMAIN txn[c].wm,
         txn[c].wm[k].blob \in Blob
  PROVE  /\ \/ txn[c].wm[k].blob \in Held(c)
            \/ \E o \in Key \cap DOMAIN txn[c].wm : meta[o].blob = txn[c].wm[k].blob
         /\ txn[c].wm[k].blob \notin txn[c].del
         /\ chunk[txn[c].wm[k].blob] = Whole(txn[c].wm[k].size)
  <1> DEFINE t == txn[c]
             a == arg[c]
             b == t.wm[k].blob
  <1>1. /\ InTxn(c) /\ pc[c] = "commit" /\ ~stale[c] /\ TypeOK /\ IndexInv /\ StoredInv
        /\ ShapeInv(c) /\ WrittenInv(c) /\ ContentPlan(a, t) /\ TxnOK(t)
        /\ \A o \in DOMAIN t.rm : o \in Key /\ meta[o] = t.rm[o]
    BY Committing
  <1>2. k \in Key /\ t.wm[k] \in ItemAt(k) /\ b # NoUuid
    BY <1>1, BadgerAssumption DEF TxnOK
  <1>3. IsFile(k, t.wm[k])
    BY <1>2, BadgerAssumption DEF ItemAt, IsFile, NoItem
  <1>4. Uploaded(a, t.wm[k]) \/ Kept(t, t.wm[k]) \/ CopyOf(t, t.wm[k])
    BY <1>1, <1>3 DEF ContentPlan
  <1>5. b \in Held(c) => b \notin t.del
    BY DroppedContent
  <1>6. Held(c) = FreshOf(a, t)
    BY <1>1, HeldFresh
  <1>7. CASE Uploaded(a, t.wm[k])
    <2>1. b = a.blob /\ t.wm[k].size = a.blob
      BY <1>7 DEF Uploaded
    <2>2. b \in Held(c)
      BY <1>2, <1>6, <2>1 DEF FreshOf
    <2> QED
      BY <1>1, <1>2, <1>5, <2>1, <2>2 DEF WrittenInv
  <1>8. CASE Kept(t, t.wm[k])
    <2>1. PICK o \in DOMAIN t.rm \cap DOMAIN t.wm :
            t.rm[o].blob = b /\ t.rm[o].size = t.wm[k].size /\ b \notin t.del
      BY <1>8 DEF Kept
    <2>2. o \in Key /\ meta[o].blob = b /\ meta[o].size = t.wm[k].size
      BY <1>1, <2>1
    <2>3. chunk[b] = Whole(t.wm[k].size)
      BY <1>1, <2>2, StoredWhole
    <2> QED
      BY <2>1, <2>2, <2>3
  <1>9. CASE CopyOf(t, t.wm[k])
    <2>1. PICK o \in DOMAIN t.rm : <<t.rm[o].blob, b>> \in t.copies /\ t.rm[o].size = t.wm[k].size
      BY <1>9 DEF CopyOf
    <2>2. /\ <<meta[o].blob, b>> \in t.copies /\ o \in Key
          /\ meta[o].size = t.wm[k].size /\ meta[o].blob \in Blob
      BY <1>1, <2>1 DEF TxnOK
    <2>3. b \in Held(c)
      BY <1>1, <2>2, HoldsItsOwn
    <2>4. chunk[b] = chunk[meta[o].blob]
      BY <1>1, <2>2 DEF WrittenInv
    <2>5. chunk[meta[o].blob] = Whole(t.wm[k].size)
      BY <1>1, <2>2, StoredWhole
    <2> QED
      BY <1>5, <2>3, <2>4, <2>5
  <1> QED
    BY <1>4, <1>7, <1>8, <1>9

LEMMA CommitContents ==
  ASSUME ContentInv, IndexInv', NEW c \in Call, Commit(c)
  PROVE  ContentInv'
  <1> DEFINE t == txn[c]
             a == arg[c]
  <1>1. /\ InTxn(c) /\ pc[c] = "commit" /\ ~stale[c] /\ TypeOK /\ TypeOK' /\ IndexInv /\ StoredInv
        /\ ShapeInv(c) /\ ContentPlan(a, t) /\ TxnOK(t)
        /\ \A o \in DOMAIN t.rm : o \in Key /\ meta[o] = t.rm[o]
    BY Committing DEF IndexInv
  <1>2. /\ \A k \in Key : meta'[k] = IF k \in DOMAIN t.wm THEN t.wm[k] ELSE meta[k]
        /\ \A b \in Blob : chunk'[b] = IF b \in t.del THEN NoChunks ELSE chunk[b]
        /\ UNCHANGED <<used, file, orphan>>
    BY DEF Commit
  <1>3. ASSUME NEW d \in Call \ {c}
        PROVE  SameCall(d) /\ stale'[d] = (stale[d] \/ (InTxn(d) /\ Overlaps(t, txn[d])))
    BY <1>1 DEF Commit, SameCall, TypeOK
  <1>4. ASSUME NEW d \in Call \ {c} PROVE Held(d)' = Held(d) /\ (Active(d)' <=> Active(d))
    BY <1>3, CallKept
  <1>5. \A d \in Call : Held(d) \subseteq Blob \cap used /\ \A k \in Key : meta[k].blob \notin Held(d)
    BY <1>1, HeldTyped DEF ContentInv, CallInv, HeldInv
  <1>6. ASSUME NEW b \in t.del
        PROVE  /\ \A d \in Call : b \notin Held(d)
               /\ \A k \in Key \ DOMAIN t.wm : meta[k].blob # b
    <2>1. PICK o \in Key \cap DOMAIN t.wm : meta[o].blob = b /\ b \in Blob
      BY DroppedContent
    <2> QED
      BY <1>1, <2>1, DroppedContent, OneFilePerContent
  <1>7. ASSUME NEW k \in Key, meta'[k].blob \in Blob
        PROVE  /\ k \notin DOMAIN t.wm => meta'[k].blob = meta[k].blob
               /\ k \in DOMAIN t.wm =>
                    meta'[k].blob \in Held(c) \/ \E o \in Key \cap DOMAIN t.wm : meta[o].blob = meta'[k].blob
               /\ chunk'[meta'[k].blob] = Whole(meta'[k].size)
    <2>1. CASE k \in DOMAIN t.wm
      <3>1. meta'[k] = t.wm[k] /\ t.wm[k].blob \in Blob
        BY <1>2, <1>7, <2>1
      <3>2. chunk'[t.wm[k].blob] = chunk[t.wm[k].blob]
        BY <1>2, <2>1, <3>1, StoredContent
      <3> QED
        BY <2>1, <3>1, <3>2, StoredContent
    <2>2. CASE k \notin DOMAIN t.wm
      <3>1. meta'[k] = meta[k] /\ meta[k].blob \notin t.del
        BY <1>2, <1>6, <2>2
      <3>2. chunk'[meta[k].blob] = chunk[meta[k].blob]
        BY <1>2, <1>7, <3>1
      <3> QED
        BY <1>1, <1>7, <2>2, <3>1, <3>2, StoredWhole
    <2> QED
      BY <2>1, <2>2
  <1> HIDE DEF t, a
  <1>8. ASSUME NEW k \in Key, NEW j \in Key, meta'[k].blob \in Blob, meta'[j].blob = meta'[k].blob
        PROVE  k = j
    <2>1. CASE k \in DOMAIN t.wm /\ j \in DOMAIN t.wm
      <3>1. t.wm[k].blob = t.wm[j].blob /\ t.wm[k].blob \in Blob /\ t.wm[k] \in ItemAt(k)
        BY <1>1, <1>2, <1>8, <2>1 DEF TxnOK
      <3>2. IsFile(k, t.wm[k])
        BY <3>1, BadgerAssumption DEF ItemAt, IsFile, NoItem
      <3> QED
        BY <1>1, <2>1, <3>1, <3>2 DEF ContentPlan
    <2>2. CASE k \in DOMAIN t.wm /\ j \notin DOMAIN t.wm
      BY <1>1, <1>5, <1>7, <1>8, <2>2, OneFilePerContent
    <2>3. CASE k \notin DOMAIN t.wm /\ j \in DOMAIN t.wm
      BY <1>1, <1>5, <1>7, <1>8, <2>3, OneFilePerContent
    <2>4. CASE k \notin DOMAIN t.wm /\ j \notin DOMAIN t.wm
      BY <1>1, <1>7, <1>8, <2>4, OneFilePerContent
    <2> QED
      BY <2>1, <2>2, <2>3, <2>4
  <1>9. StoredInv'
    <2>1. ASSUME NEW k \in Key PROVE meta'[k].blob \in used' \cup {NoUuid}
      <3>1. meta'[k].blob \in Blob \cup {NoUuid}
        BY <1>1, BadgerAssumption DEF TypeOK, ItemAt, NoItem
      <3>2. \A o \in Key : meta[o].blob \in Blob => meta[o].blob \in used
        BY <1>1, BadgerAssumption DEF StoredInv
      <3> QED
        BY <1>2, <1>5, <1>7, <3>1, <3>2
    <2>2. ASSUME NEW k \in Key, Exists(k)', ~k.dir PROVE meta'[k].blob \in Blob
      BY <1>1, <2>2 DEF TypeOK, ItemAt, Exists
    <2>3. ContentPresent'
      BY <1>7, <2>2 DEF ContentPresent, Whole
    <2>4. \A b \in Blob \ used' : chunk'[b] = NoChunks
      BY <1>1, <1>2 DEF StoredInv
    <2> QED
      BY <1>8, <2>1, <2>2, <2>3, <2>4 DEF StoredInv
  (* The other calls. *)
  <1>10. ASSUME NEW d \in Call \ {c} PROVE CallInv(d)'
    <2>1. CallInv(d) /\ SameCall(d) /\ used \subseteq used'
      BY <1>2, <1>3 DEF ContentInv
    <2>2. \A b \in Held(d) : chunk'[b] = chunk[b]
      BY <1>2, <1>5, <1>6
    <2>3. ASSUME NEW k \in Key PROVE meta'[k].blob \notin Held(d)
      <3>1. CASE meta'[k].blob \in Blob
        <4>1. Held(c) \cap Held(d) = {}
          BY DEF ContentInv, Apart
        <4> QED
          BY <1>5, <1>7, <3>1, <4>1
      <3>2. CASE meta'[k].blob \notin Blob
        BY <1>5, <3>2
      <3> QED
        BY <3>1, <3>2
    <2>4. ASSUME InTxn(d), ~stale'[d], NEW k \in DOMAIN txn[d].rm
          PROVE  /\ ~stale[d] /\ meta'[k] = meta[k]
                 /\ meta[k].blob \in Blob => chunk'[meta[k].blob] = chunk[meta[k].blob]
      <3>1. ~stale[d] /\ ~Overlaps(t, txn[d])
        BY <1>3, <2>4
      <3>2. k \in Key /\ k \notin DOMAIN t.wm
        BY <1>1, <2>4, <3>1 DEF Overlaps, TypeOK, CallOK, TxnOK
      <3> QED
        BY <1>2, <1>6, <3>1, <3>2
    <2>5. InTxn(d) /\ ~stale'[d] => ~stale[d]
      BY <1>3
    <2> QED
      BY <1>1, <1>2, <2>1, <2>2, <2>3, <2>4, <2>5, OtherCall
  (* The call itself. *)
  <1>11. /\ ~Active(c)' /\ CallInv(c)'
         /\ \A b \in Held(c)' : \E o \in Key : meta[o].blob = b
    <2>1. CASE Superseded(c) = {}
      <3>1. pc'[c] = "idle" /\ arg'[c] = NoArg /\ txn'[c] = NoTxn /\ trash'[c] = {}
        <4>1. trash[c] = {}
          BY <1>1 DEF ShapeInv
        <4> QED
          BY <1>1, <2>1, <4>1 DEF Commit, TypeOK
      <3> QED
        BY <3>1, IdleHoldsNothing DEF Active
    <2>2. CASE Superseded(c) # {}
      <3>1. pc'[c] = "cleanup" /\ arg'[c] = a /\ txn'[c] = t /\ trash'[c] = Superseded(c)
        BY <1>1, <2>2 DEF Commit, TypeOK, a, t
      <3>2. /\ a.op = "Write" /\ Superseded(c) = ReadOf(t)
        <4>1. a.op = "Write" /\ Superseded(c) = {t.rm[k].blob : k \in DOMAIN t.rm}
          BY <2>2 DEF Superseded, a, t
        <4>2. \A k \in DOMAIN t.rm : t.rm[k].blob \in Blob
          BY <1>1, <4>1 DEF TypeOK, CallOK, a, t
        <4> QED
          BY <4>1, <4>2 DEF ReadOf
      <3>3. Held(c)' = ReadOf(t)
        BY <2>2, <3>1, <3>2, HeldNow DEF HeldOf
      <3>4. ~Active(c)' /\ ~InTxn(c)'
        BY <3>1 DEF Active, InTxn
      <3>5. ShapeInv(c)'
        BY <1>1, <2>2, <3>1, <3>4 DEF ShapeInv, a, t
      <3>6. \A b \in ReadOf(t) : b \in Blob /\ \E o \in DOMAIN t.rm : o \in Key /\ meta[o].blob = b
        BY <1>1 DEF ReadOf
      <3>7. ReadOf(t) \subseteq used
        BY <1>1, <3>6, BadgerAssumption DEF StoredInv
      <3>8. ASSUME NEW k \in Key, meta'[k].blob \in ReadOf(t) PROVE FALSE
        <4>1. PICK o \in DOMAIN t.rm : o \in Key /\ meta[o].blob = meta'[k].blob /\ meta'[k].blob \in Blob
          BY <3>6, <3>8
        <4>2. CASE k \in DOMAIN t.wm
          <5>1. meta'[k].blob = a.blob /\ a.blob # NoUuid
            BY <1>1, <1>2, <3>2, <4>1, <4>2, BadgerAssumption DEF ContentPlan
          <5>2. a.blob \in FreshOf(a, t)
            BY <5>1 DEF FreshOf
          <5> QED
            BY <1>1, <3>8, <5>1, <5>2 DEF ShapeInv, a, t
        <4>3. CASE k \notin DOMAIN t.wm
          <5>1. k = o
            BY <1>1, <1>2, <4>1, <4>3, OneFilePerContent
          <5> QED
            BY <1>1, <3>2, <4>1, <4>3, <5>1 DEF ContentPlan
        <4> QED
          BY <4>2, <4>3
      <3>9. HeldInv(c)'
        BY <1>2, <3>1, <3>2, <3>3, <3>7, <3>8 DEF HeldInv
      <3>10. CallInv(c)'
        BY <3>1, <3>4, <3>5, <3>9 DEF CallInv, WrittenInv, ExpectedInv
      <3> QED
        BY <3>3, <3>4, <3>6, <3>10
    <2> QED
      BY <2>1, <2>2
  <1>12. Apart'
    <2> SUFFICES ASSUME NEW d \in Call, NEW e \in Call, d # e PROVE Held(d)' \cap Held(e)' = {}
      BY DEF Apart
    <2>1. CASE d # c /\ e # c
      BY <1>4, <2>1 DEF ContentInv, Apart
    <2>2. CASE d = c
      BY <1>4, <1>5, <1>11, <2>2
    <2>3. CASE e = c
      BY <1>4, <1>5, <1>11, <2>3
    <2> QED
      BY <2>1, <2>2, <2>3
  <1>13. ASSUME NEW r \in Reader PROVE StreamInv(r)'
    <2>1. StreamInv(r) /\ file'[r] = file[r]
      BY <1>2 DEF ContentInv
    <2>2. CASE file[r] = NoFile
      BY <2>1, <2>2 DEF StreamInv
    <2>3. CASE file[r] # NoFile
      <3>1. /\ file[r].blob \in used /\ \A d \in Call : Active(d) => file[r].blob \notin Held(d)
            /\ \A n \in Seqno : chunk[file[r].blob][n] \in OfVersion(file[r].size)
        BY <2>1, <2>3 DEF StreamInv
      <3>2. ASSUME NEW d \in Call, Active(d)' PROVE file[r].blob \notin Held(d)'
        BY <1>4, <1>11, <3>1, <3>2
      <3>3. file[r].blob \in Blob
        BY <1>1, <2>1, <2>3 DEF StreamInv, TypeOK, StreamOK
      <3>4. chunk'[file[r].blob] \in {NoChunks, chunk[file[r].blob]}
        BY <1>2, <3>3
      <3>5. \A n \in Seqno : chunk'[file[r].blob][n] \in OfVersion(file[r].size)
        BY <3>1, <3>4 DEF NoChunks, OfVersion
      <3> QED
        BY <1>2, <2>1, <2>3, <3>1, <3>2, <3>5 DEF StreamInv
    <2> QED
      BY <2>2, <2>3
  <1> QED
    BY <1>9, <1>10, <1>11, <1>12, <1>13 DEF ContentInv
-----------------------------------------------------------------------------
(***************************************************************************)
(* The streams.                                                            *)
(***************************************************************************)
LEMMA CallsApart ==
  ASSUME ContentInv, UNCHANGED <<store, used, calls, orphan>>
  PROVE  /\ StoredInv' /\ Apart' /\ \A c \in Call : CallInv(c)'
         /\ \A c \in Call : Held(c)' = Held(c) /\ (Active(c)' <=> Active(c))
  <1>1. /\ UNCHANGED <<meta, index, chunk, used>> /\ UNCHANGED <<pc, arg, txn, stale, trash>>
        /\ \A c \in Call : SameCall(c)
    BY DEF store, calls, SameCall
  <1>2. \A c \in Call : Held(c)' = Held(c) /\ (Active(c)' <=> Active(c))
    BY <1>1, CallKept
  <1>3. StoredInv'
    BY <1>1 DEF ContentInv, StoredInv, ContentPresent, Exists
  <1>4. Apart'
    BY <1>2 DEF ContentInv, Apart
  <1>5. ASSUME NEW c \in Call PROVE CallInv(c)'
    <2>1. CallInv(c) /\ IndexInv /\ \A k \in Key : meta'[k].blob \notin Held(c)
      BY <1>1 DEF ContentInv, CallInv, HeldInv
    <2> QED
      BY <1>1, <2>1, OtherCall
  <1> QED
    BY <1>2, <1>3, <1>4, <1>5

LEMMA StreamStep ==
  ASSUME ContentInv, IndexInv', NEW r \in Reader, UNCHANGED <<store, used, calls, orphan>>,
         NEW g, file' = [file EXCEPT ![r] = g],
         \/ g = NoFile
         \/ /\ g.open /\ g.blob \in used
            /\ \A c \in Call : Active(c) => g.blob \notin Held(c)
            /\ \A n \in Seqno : chunk[g.blob][n] \in OfVersion(g.size)
            /\ g.cached.version \in OfVersion(g.size)
            /\ g.got # Nothing => g.got = [version |-> g.size, at |-> g.pos]
  PROVE  ContentInv'
  <1>1. /\ StoredInv' /\ Apart' /\ \A c \in Call : CallInv(c)'
        /\ \A c \in Call : Held(c)' = Held(c) /\ (Active(c)' <=> Active(c))
        /\ UNCHANGED <<chunk, used>>
    BY CallsApart DEF store
  <1>2. file'[r] = g /\ \A q \in Reader \ {r} : file'[q] = file[q]
    BY DEF ContentInv, IndexInv, TypeOK
  <1>3. StreamInv(r)'
    <2>1. CASE g = NoFile
      BY <1>2, <2>1 DEF StreamInv
    <2>2. CASE g # NoFile
      <3>1. \A c \in Call : Active(c)' => g.blob \notin Held(c)'
        BY <1>1, <2>2
      <3> QED
        BY <1>1, <1>2, <2>2, <3>1 DEF StreamInv
    <2> QED
      BY <2>1, <2>2
  <1>4. ASSUME NEW q \in Reader \ {r} PROVE StreamInv(q)'
    <2>1. StreamInv(q)
      BY DEF ContentInv
    <2>2. CASE file[q] = NoFile
      BY <1>2, <2>2 DEF StreamInv
    <2>3. CASE file[q] # NoFile
      <3>1. \A c \in Call : Active(c)' => file[q].blob \notin Held(c)'
        BY <1>1, <2>1, <2>3 DEF StreamInv
      <3> QED
        BY <1>1, <1>2, <2>1, <2>3, <3>1 DEF StreamInv
    <2> QED
      BY <2>2, <2>3
  <1>5. \A q \in Reader : StreamInv(q)'
    BY <1>3, <1>4
  <1> QED
    BY <1>1, <1>5 DEF ContentInv

LEMMA MovedFields ==
  ASSUME NEW f \in Stream, NEW p, NEW w, NEW c, NEW g
  PROVE  /\ Moved(f, p, w, c, g).open = f.open /\ Moved(f, p, w, c, g).blob = f.blob
         /\ Moved(f, p, w, c, g).size = f.size /\ Moved(f, p, w, c, g).pos = p
         /\ Moved(f, p, w, c, g).cached = c /\ Moved(f, p, w, c, g).got = g
  BY DEF Stream, Moved

LEMMA OpenContents ==
  ASSUME ContentInv, IndexInv', NEW r \in Reader, NEW id \in Id, Open(r, id)
  PROVE  ContentInv'
  <1> DEFINE k == FindMetaItemByID(id)
             g == [NoFile EXCEPT !.open = TRUE, !.blob = meta[k].blob, !.size = meta[k].size]
  <1>1. /\ file' = [file EXCEPT ![r] = g] /\ UNCHANGED <<store, used, calls, orphan>>
        /\ k # NoKey /\ ~k.dir /\ TypeOK /\ StoredInv
    BY DEF Open, WriteOK, ContentInv, IndexInv
  <1>2. k \in Key /\ Exists(k)
    BY <1>1, FoundKey
  <1>3. meta[k].blob \in Blob
    BY <1>1, <1>2, StoredItem
  <1>4. /\ g.open /\ g.blob = meta[k].blob /\ g.size = meta[k].size
        /\ g.cached = Nothing /\ g.got = Nothing
    BY DEF NoFile
  <1>5. meta[k].blob \in used /\ \A c \in Call : meta[k].blob \notin Held(c)
    BY <1>1, <1>2, <1>3, BadgerAssumption DEF StoredInv, ContentInv, CallInv, HeldInv
  <1>6. \A n \in Seqno : chunk[meta[k].blob][n] = meta[k].size
    BY <1>1, <1>2, <1>3, StoredWhole DEF Whole
  <1>7. g.cached.version \in OfVersion(g.size)
    BY <1>4 DEF Nothing, OfVersion
  <1>8. \A n \in Seqno : chunk[g.blob][n] \in OfVersion(g.size)
    BY <1>4, <1>6 DEF OfVersion
  <1> HIDE DEF g, k
  <1> QED
    BY <1>1, <1>4, <1>5, <1>7, <1>8, StreamStep

(* The facts about an open stream that its own steps preserve. *)
LEMMA OpenStream ==
  ASSUME ContentInv, NEW r \in Reader, file[r].open
  PROVE  /\ file[r] \in Stream /\ file[r].blob \in used
         /\ \A c \in Call : Active(c) => file[r].blob \notin Held(c)
         /\ \A n \in Seqno : chunk[file[r].blob][n] \in OfVersion(file[r].size)
         /\ file[r].cached.version \in OfVersion(file[r].size)
         /\ file[r].got # Nothing => file[r].got = [version |-> file[r].size, at |-> file[r].pos]
  <1>1. file[r] # NoFile
    BY DEF NoFile
  <1> QED
    BY <1>1 DEF ContentInv, StreamInv, IndexInv, TypeOK, StreamOK

LEMMA ReadChunkContents ==
  ASSUME ContentInv, IndexInv', NEW r \in Reader, ReadChunk(r)
  PROVE  ContentInv'
  <1> DEFINE f == file[r]
  <1>1. f.open /\ UNCHANGED <<store, used, calls, orphan>>
    BY DEF ReadChunk
  <1>2. PICK n \in Seqno :
          file' = [file EXCEPT ![r] =
            IF Loaded(f, n).version = NoUuid
              THEN [f EXCEPT !.want = 0]
              ELSE Deliver(f, Loaded(f, n), f.pos - (n - 1) * ChunkSize,
                           IF f.want <= ChunkEnd(n) - f.pos THEN f.want ELSE ChunkEnd(n) - f.pos)]
    BY DEF ReadChunk
  <1>3. /\ f \in Stream /\ f.blob \in used
        /\ \A c \in Call : Active(c) => f.blob \notin Held(c)
        /\ \A i \in Seqno : chunk[f.blob][i] \in OfVersion(f.size)
        /\ f.cached.version \in OfVersion(f.size)
        /\ f.got # Nothing => f.got = [version |-> f.size, at |-> f.pos]
    BY <1>1, OpenStream
  <1> HIDE DEF f
  <1>4. CASE Loaded(f, n).version = NoUuid
    <2> DEFINE g == [f EXCEPT !.want = 0]
    <2>1. file' = [file EXCEPT ![r] = g]
      BY <1>2, <1>4
    <2>2. /\ g.open = f.open /\ g.blob = f.blob /\ g.size = f.size /\ g.pos = f.pos
          /\ g.cached = f.cached /\ g.got = f.got
      BY <1>3 DEF Stream
    <2> HIDE DEF g
    <2> QED
      BY <1>1, <1>3, <2>1, <2>2, StreamStep
  <1>5. CASE Loaded(f, n).version # NoUuid
    <2> DEFINE k == IF f.want <= ChunkEnd(n) - f.pos THEN f.want ELSE ChunkEnd(n) - f.pos
               off == f.pos - (n - 1) * ChunkSize
               l == Loaded(f, n)
               end == (l.at - 1) * ChunkSize + off + k
               g == Moved(f, f.pos + k, f.want - k, l, [version |-> l.version, at |-> end])
    <2>1. file' = [file EXCEPT ![r] = g]
      BY <1>2, <1>5 DEF Deliver, Moved
    <2>2. l.version = f.size /\ l.at = n
      BY <1>3, <1>5 DEF Loaded, OfVersion
    <2>3. end = f.pos + k
      <3>1. n \in Nat /\ f.pos \in Nat /\ f.want \in Nat /\ ChunkSize \in Nat
        BY <1>3, BadgerAssumption DEF Seqno, Stream
      <3>2. ChunkEnd(n) \in Int
        BY <3>1, BadgerAssumption DEF ChunkEnd
      <3>3. k \in Int
        BY <3>1, <3>2
      <3> HIDE DEF k
      <3>4. (n - 1) * ChunkSize \in Int
        BY <3>1
      <3>5. \A x \in Int, y \in Nat, z \in Int : x + (y - x) + z = y + z
        OBVIOUS
      <3> QED
        BY <2>2, <3>1, <3>3, <3>4, <3>5
    <2> HIDE DEF k, off, l, end
    <2>4. /\ g.open = f.open /\ g.blob = f.blob /\ g.size = f.size /\ g.pos = f.pos + k
          /\ g.cached = l /\ g.got = [version |-> l.version, at |-> end]
      BY <1>3, MovedFields
    <2> HIDE DEF g
    <2>5. /\ g.cached.version \in OfVersion(g.size)
          /\ g.got = [version |-> g.size, at |-> g.pos]
      BY <2>2, <2>3, <2>4 DEF OfVersion
    <2> QED
      BY <1>1, <1>3, <2>1, <2>4, <2>5, StreamStep DEF f
  <1> QED
    BY <1>4, <1>5

LEMMA ReaderStepContents ==
  ASSUME ContentInv, IndexInv', NEW r \in Reader, ReaderStep(r)
  PROVE  ContentInv'
  <1> DEFINE f == file[r]
  <1>1. ASSUME NEW n \in 1..Length, Read(r, n) PROVE ContentInv'
    <2> DEFINE g == [f EXCEPT !.want = n]
    <2>1. /\ f.open /\ UNCHANGED <<store, used, calls, orphan>> /\ file' = [file EXCEPT ![r] = g]
      BY <1>1 DEF Read
    <2>2. /\ g.open = f.open /\ g.blob = f.blob /\ g.size = f.size /\ g.pos = f.pos
          /\ g.cached = f.cached /\ g.got = f.got
      BY <2>1, OpenStream DEF Stream
    <2> HIDE DEF g
    <2> QED
      BY <2>1, <2>2, OpenStream, StreamStep
  <1>2. ASSUME NEW p \in 0..Length, Seek(r, p) PROVE ContentInv'
    <2> DEFINE g == Sought(f, p, Nothing)
    <2>1. /\ f.open /\ UNCHANGED <<store, used, calls, orphan>> /\ file' = [file EXCEPT ![r] = g]
      BY <1>2 DEF Seek, Sought
    <2>2. /\ g.open = f.open /\ g.blob = f.blob /\ g.size = f.size
          /\ g.cached = f.cached /\ g.got = Nothing
      BY <2>1, OpenStream DEF Stream, Sought
    <2> HIDE DEF g
    <2> QED
      BY <2>1, <2>2, OpenStream, StreamStep
  <1>3. ASSUME CloseFile(r) PROVE ContentInv'
    BY <1>3, StreamStep DEF CloseFile
  <1>4. ASSUME NEW id \in Id, Open(r, id) PROVE ContentInv'
    BY <1>4, OpenContents
  <1> QED
    BY <1>1, <1>2, <1>3, <1>4, ReadChunkContents DEF ReaderStep
-----------------------------------------------------------------------------
(***************************************************************************)
(* The invariant.                                                          *)
(***************************************************************************)
LEMMA CrashContents ==
  ASSUME ContentInv, IndexInv', Crash
  PROVE  ContentInv'
  <1>1. UNCHANGED <<meta, chunk, used>> /\ \A r \in Reader : file'[r] = NoFile
    BY DEF Crash, store
  <1>2. ASSUME NEW c \in Call PROVE CallInv(c)' /\ Held(c)' = {}
    <2>1. pc'[c] = "idle" /\ arg'[c] = NoArg /\ txn'[c] = NoTxn /\ trash'[c] = {}
      BY DEF Crash
    <2> QED
      BY <2>1, IdleHoldsNothing
  <1>3. StoredInv'
    BY <1>1 DEF ContentInv, StoredInv, ContentPresent, Exists
  <1>4. Apart'
    BY <1>2 DEF Apart
  <1>5. \A r \in Reader : StreamInv(r)'
    BY <1>1 DEF StreamInv
  <1> QED
    BY <1>2, <1>3, <1>4, <1>5 DEF ContentInv

LEMMA StillContents ==
  ASSUME ContentInv, IndexInv', UNCHANGED vars
  PROVE  ContentInv'
  <1>1. UNCHANGED <<store, used, calls, orphan>> /\ UNCHANGED <<chunk, used, file>>
    BY DEF vars, store, calls
  <1>2. /\ StoredInv' /\ Apart' /\ \A c \in Call : CallInv(c)'
        /\ \A c \in Call : Held(c)' = Held(c) /\ (Active(c)' <=> Active(c))
    BY <1>1, CallsApart
  <1>3. ASSUME NEW r \in Reader PROVE StreamInv(r)'
    <2>1. StreamInv(r)
      BY DEF ContentInv
    <2>2. CASE file[r] = NoFile
      BY <1>1, <2>2 DEF StreamInv
    <2>3. CASE file[r] # NoFile
      <3>1. \A c \in Call : Active(c)' => file[r].blob \notin Held(c)'
        BY <1>2, <2>1, <2>3 DEF StreamInv
      <3> QED
        BY <1>1, <2>1, <2>3, <3>1 DEF StreamInv
    <2> QED
      BY <2>2, <2>3
  <1> QED
    BY <1>2, <1>3 DEF ContentInv

LEMMA InitContents == Init => ContentInv
  <1> SUFFICES ASSUME Init PROVE ContentInv
    OBVIOUS
  <1>1. IndexInv
    BY InitIndexed
  <1>2. /\ \A k \in Key : meta[k] = NoItem
        /\ \A b \in Blob : chunk[b] = NoChunks
        /\ \A r \in Reader : file[r] = NoFile
    BY DEF Init
  <1>3. ASSUME NEW c \in Call
        PROVE  pc[c] = "idle" /\ arg[c] = NoArg /\ txn[c] = NoTxn /\ trash[c] = {}
    BY DEF Init
  <1>4. FreshOf(NoArg, NoTxn) = {} /\ ReadOf(NoTxn) = {}
    BY DEF FreshOf, ReadOf, NoArg, NoTxn, Empty
  <1>5. ASSUME NEW c \in Call PROVE CallInv(c) /\ Held(c) = {}
    <2>1. Held(c) = {}
      BY <1>3, <1>4, HeldNow DEF HeldOf
    <2>2. ~InTxn(c)
      BY <1>3 DEF InTxn
    <2>3. ShapeInv(c)
      BY <1>3, <1>4, <2>2 DEF ShapeInv
    <2> QED
      BY <1>3, <2>1, <2>2, <2>3 DEF CallInv, HeldInv, WrittenInv, ExpectedInv
  <1>6. StoredInv
    BY <1>2 DEF StoredInv, ContentPresent, Exists, NoItem
  <1>7. Apart
    BY <1>5 DEF Apart
  <1>8. \A r \in Reader : StreamInv(r)
    BY <1>2 DEF StreamInv
  <1> QED
    BY <1>1, <1>5, <1>6, <1>7, <1>8 DEF ContentInv

LEMMA NextContents == ContentInv /\ [Next]_vars => ContentInv'
  <1> SUFFICES ASSUME ContentInv, [Next]_vars PROVE ContentInv'
    OBVIOUS
  <1>1. IndexInv'
    BY NextIndexed DEF ContentInv
  <1>2. ASSUME NEW c \in Call, CallStep(c) PROVE ContentInv'
    BY <1>1, <1>2, StartCreateContents, StartWriteContents, WriteChunkContents,
       UploadFailsContents, BeginCreateContents, BeginWriteContents, MkdirContents,
       WriteCommentsContents, DeleteCallContents, MoveCallContents, CopyCallContents,
       CopyChunkContents, CopyDoneContents, ConflictContents, CommitContents,
       DeleteChunksContents DEF CallStep
  <1>3. ASSUME NEW r \in Reader, ReaderStep(r) PROVE ContentInv'
    BY <1>1, <1>3, ReaderStepContents
  <1>4. CASE Crash
    BY <1>1, <1>4, CrashContents
  <1>5. CASE UNCHANGED vars
    BY <1>1, <1>5, StillContents
  <1> QED
    BY <1>2, <1>3, <1>4, <1>5 DEF Next

LEMMA ContentsInvariant == Spec => []ContentInv
  BY InitContents, NextContents, PTL DEF Spec
-----------------------------------------------------------------------------
(***************************************************************************)
(* The end of a call.                                                      *)
(***************************************************************************)
LEMMA PcNext ==
  ASSUME TypeOK, NEW c \in Call
  PROVE  /\ Finish(c) => \A d \in Call \ {c} : pc'[d] = pc[d]
         /\ \A B : CleanUp(c, B) => pc'[c] = "cleanup" /\ \A d \in Call \ {c} : pc'[d] = pc[d]
         /\ \A a, t : Begin(c, a, t) =>
              pc'[c] \in {"copy", "commit"} /\ \A d \in Call \ {c} : pc'[d] = pc[d]
         /\ \A a : Upload(c, a) => pc'[c] = "upload" /\ \A d \in Call \ {c} : pc'[d] = pc[d]
  BY DEF Finish, CleanUp, Begin, Upload, TypeOK

LEMMA FailEnds ==
  ASSUME TypeOK, NEW c \in Call, Fail(c)
  PROVE  /\ \A d \in Call \ {c} : pc'[d] = pc[d]
         /\ pc'[c] = "idle" => FreshBlobs(c) = {}
  <1>1. CASE FreshBlobs(c) = {}
    BY <1>1, PcNext DEF Fail
  <1>2. CASE FreshBlobs(c) # {}
    <2>1. CleanUp(c, FreshBlobs(c))
      BY <1>2 DEF Fail
    <2> QED
      BY <2>1, PcNext
  <1> QED
    BY <1>1, <1>2

(* A call ends by its commit, by its clean-up, or by a failure before it   *)
(* holds any content.                                                      *)
LEMMA CallEnds ==
  ASSUME TypeOK, NEW c \in Call, CallStep(c)
  PROVE  /\ \A d \in Call \ {c} : pc'[d] = pc[d]
         /\ pc[c] # "idle" /\ pc'[c] = "idle" =>
              \/ Commit(c)
              \/ DeleteChunks(c)
              \/ Active(c) /\ FreshBlobs(c) = {} /\ UNCHANGED store
  <1> DEFINE Others == \A d \in Call \ {c} : pc'[d] = pc[d]
             Ended == pc[c] # "idle" /\ pc'[c] = "idle" =>
                        \/ Commit(c)
                        \/ DeleteChunks(c)
                        \/ Active(c) /\ FreshBlobs(c) = {} /\ UNCHANGED store
  <1> SUFFICES Others /\ Ended
    OBVIOUS
  <1>1. ASSUME \/ \E k : StartCreate(c, k) \/ Mkdir(c, k)
               \/ \E id : StartWrite(c, id) \/ WriteComments(c, id) \/ Delete(c, id)
               \/ \E id, dst, rep : Move(c, id, dst, rep) \/ Copy(c, id, dst, rep)
        PROVE  Others /\ Ended
    <2>1. pc[c] = "idle" /\ ((\E a : Upload(c, a)) \/ (\E a, t : Begin(c, a, t)))
      BY <1>1 DEF StartCreate, Mkdir, StartWrite, WriteComments, Delete, Move, Copy
    <2> QED
      BY <2>1, PcNext
  <1>2. ASSUME WriteChunk(c) PROVE Others /\ Ended
    BY <1>2 DEF WriteChunk, calls
  <1>3. ASSUME CopyDone(c) PROVE Others /\ Ended
    BY <1>3 DEF CopyDone, TypeOK
  <1>4. ASSUME UploadFails(c) \/ Conflict(c) \/ BeginCreate(c) \/ BeginWrite(c) PROVE Others /\ Ended
    <2>1. /\ pc[c] \in {"upload", "commit"} /\ UNCHANGED store
          /\ Fail(c) \/ \E a, t : Begin(c, a, t)
      BY <1>4 DEF UploadFails, Conflict, BeginCreate, BeginWrite
    <2>2. CASE Fail(c)
      BY <2>1, <2>2, FailEnds DEF Active
    <2>3. CASE \E a, t : Begin(c, a, t)
      BY <2>3, PcNext
    <2> QED
      BY <2>1, <2>2, <2>3
  <1>5. ASSUME CopyChunk(c) PROVE Others /\ Ended
    <2>1. pc[c] = "copy" /\ (UNCHANGED calls \/ (Fail(c) /\ UNCHANGED store))
      BY <1>5 DEF CopyChunk, store
    <2>2. CASE Fail(c) /\ UNCHANGED store
      BY <2>1, <2>2, FailEnds DEF Active
    <2>3. CASE UNCHANGED calls
      BY <2>3 DEF calls
    <2> QED
      BY <2>1, <2>2, <2>3
  <1>6. ASSUME Commit(c) PROVE Others /\ Ended
    BY <1>6 DEF Commit, TypeOK
  <1>7. ASSUME DeleteChunks(c) PROVE Others /\ Ended
    <2>1. Finish(c) \/ UNCHANGED <<pc, arg, txn, stale>>
      BY <1>7 DEF DeleteChunks
    <2> QED
      BY <1>7, <2>1, PcNext
  <1> HIDE DEF Others, Ended
  <1> QED
    BY <1>1, <1>2, <1>3, <1>4, <1>5, <1>6, <1>7 DEF CallStep

(* A step that ends a call is one of that call, or a crash.                *)
LEMMA EndingStep ==
  ASSUME TypeOK, Next, NEW c \in Call, pc[c] # "idle", pc'[c] = "idle"
  PROVE  CallStep(c) \/ Crash
  <1>1. ASSUME NEW d \in Call, CallStep(d) PROVE d = c
    BY <1>1, CallEnds
  <1>2. ASSUME NEW r \in Reader PROVE ~ReaderStep(r)
    BY DEF ReaderStep, Open, Read, Seek, ReadChunk, CloseFile, calls
  <1> QED
    BY <1>1, <1>2 DEF Next

(* What the call has put in place by its commit is referenced.             *)
LEMMA CommittedReferenced ==
  ASSUME ContentInv, NEW c \in Call, Commit(c), pc'[c] = "idle", NEW b \in Held(c)
  PROVE  Referenced(b)'
  <1>1. /\ pc[c] # "cleanup" /\ ShapeInv(c) /\ ContentPlan(arg[c], txn[c]) /\ TypeOK /\ b \in Blob
    BY HeldTyped DEF Commit, InTxn, ContentInv, CallInv, ShapeInv, IndexInv
  <1>2. PICK k \in DOMAIN txn[c].wm : txn[c].wm[k].blob = b
    BY <1>1, HeldFresh DEF ContentPlan
  <1>3. k \in Key
    BY <1>1 DEF TypeOK, CallOK, TxnOK
  <1>4. meta'[k] = txn[c].wm[k]
    BY <1>2, <1>3 DEF Commit
  <1>5. k # NoKey /\ meta'[k] # NoItem
    BY <1>1, <1>2, <1>3, <1>4, PathAssumption, BadgerAssumption DEF Key, NoKey, NoItem
  <1> QED
    BY <1>2, <1>3, <1>4, <1>5 DEF Referenced, Exists

(***************************************************************************)
(* The theorems.                                                           *)
(***************************************************************************)

(* Create, Write, Copy and their failures: a file never points to a        *)
(* content that is incomplete, deleted or of another version.              *)
THEOREM ContentsComplete == Spec => []ContentPresent
  <1>1. ContentInv => ContentPresent
    BY DEF ContentInv, StoredInv
  <1> QED
    BY <1>1, ContentsInvariant, PTL

(* Open and badgerFile.Read: a stream that goes on while its file is       *)
(* rewritten or deleted delivers the version it was opened on, at its      *)
(* position, or an error.                                                  *)
THEOREM StreamsConsistent == Spec => []ReadConsistent
  <1>1. ContentInv => ReadConsistent
    <2> SUFFICES ASSUME ContentInv, NEW r \in Reader, file[r].got # Nothing
                 PROVE  file[r].got = [version |-> file[r].size, at |-> file[r].pos]
      BY DEF ReadConsistent
    <2>1. file[r] # NoFile
      BY DEF NoFile
    <2> QED
      BY <2>1 DEF ContentInv, StreamInv
  <1> QED
    BY <1>1, ContentsInvariant, PTL

(* Every way a call returns: none of the contents it answers for is left   *)
(* without a file and without a call that still deletes it, unless the     *)
(* store failed when the call tried to delete it.                          *)
THEOREM NothingLeaked == Spec => NoCallLeaks
  <1> DEFINE A == \A c \in Call :
                    pc[c] # "idle" /\ pc'[c] = "idle" /\ ~Crash
                      => \A b \in Held(c) \ orphan' :
                           chunk'[b] # NoChunks => Referenced(b)' \/ \E d \in Call : b \in trash'[d]
  <1>1. ASSUME ContentInv, Next, NEW c \in Call, pc[c] # "idle", pc'[c] = "idle", ~Crash,
               NEW b \in Held(c) \ orphan', chunk'[b] # NoChunks
        PROVE  Referenced(b)'
    <2>1. /\ TypeOK /\ ShapeInv(c) /\ HeldInv(c) /\ Held(c) \subseteq Blob
      BY <1>1, HeldTyped DEF ContentInv, CallInv, IndexInv
    <2>2. CallStep(c)
      BY <1>1, <2>1, EndingStep
    <2>3. CASE Commit(c)
      BY <1>1, <2>3, CommittedReferenced
    <2>4. CASE DeleteChunks(c)
      <3>1. PICK x \in trash[c] :
              /\ \/ chunk' = [chunk EXCEPT ![x] = NoChunks] /\ UNCHANGED orphan
                 \/ orphan' = orphan \cup {x} /\ UNCHANGED chunk
              /\ trash[c] = {x} \/ UNCHANGED pc
        BY <2>4 DEF DeleteChunks
      <3>2. trash[c] = {x} /\ pc[c] = "cleanup" /\ x \in Blob
        BY <1>1, <2>1, <2>4, <3>1 DEF DeleteChunks, HeldInv
      <3>3. b = x \/ chunk[b] = NoChunks
        BY <1>1, <2>1, <3>1, <3>2 DEF HeldInv
      <3>4. chunk'[b] = NoChunks
        BY <1>1, <2>1, <3>1, <3>2, <3>3 DEF TypeOK
      <3> QED
        BY <1>1, <3>4
    <2>5. CASE Active(c) /\ FreshBlobs(c) = {} /\ UNCHANGED store
      <3>1. Held(c) = {}
        BY <2>1, <2>5, HeldFresh, FreshNow DEF Active
      <3> QED
        BY <1>1, <3>1
    <2> QED
      BY <1>1, <2>1, <2>2, <2>3, <2>4, <2>5, CallEnds
  <1>2. ContentInv /\ [Next]_vars => [A]_vars
    <2>1. ContentInv /\ Next => A
      BY <1>1
    <2> HIDE DEF A
    <2> QED
      BY <2>1
  <1>3. NoCallLeaks <=> [][A]_vars
    BY DEF NoCallLeaks
  <1> HIDE DEF A
  <1>4. Spec => [][Next]_vars
    BY DEF Spec
  <1> QED
    BY <1>2, <1>3, <1>4, ContentsInvariant, PTL

(* What the commit of a transfer loses is the item at its destination and  *)
(* what that item contains, where the destination is settled.              *)
LEMMA SettledLoss ==
  ASSUME ContentInv, NEW c \in Call, Commit(c), arg[c].op \in {"Move", "Copy"},
         NEW dst, dst = arg[c].key.path, Settled(dst), NEW k \in Key, Exists(k), Lost(k)
  PROVE  k \in Replaced(dst)
  <1> DEFINE t == txn[c]
  <1>1. /\ ContentPlan(arg[c], t) /\ TxnOK(t)
        /\ \A o \in DOMAIN t.rm : o \in Key /\ meta[o] = t.rm[o]
    BY Committing
  <1>2. meta' = [j \in Key |-> IF j \in DOMAIN t.wm THEN t.wm[j] ELSE meta[j]]
    BY DEF Commit
  <1>3. k \in DOMAIN t.wm
    BY <1>2 DEF Lost
  <1>4. ~StoredAgain(t, k)
    <2> SUFFICES ASSUME StoredAgain(t, k) PROVE FALSE
      OBVIOUS
    <2>1. PICK j \in DOMAIN t.wm : t.wm[j].id = t.rm[k].id
      BY DEF StoredAgain
    <2>2. j \in Key /\ meta[k] = t.rm[k] /\ meta'[j] = t.wm[j]
      BY <1>1, <1>2, <2>1 DEF TxnOK, StoredAgain
    <2> QED
      BY <2>1, <2>2 DEF Lost
  <1>5. AtOrBelow(dst, k)
    BY <1>1, <1>3, <1>4 DEF ContentPlan, TransferPlan
  <1> HIDE DEF t
  <1>6. CASE k.path = dst
    <2>1. k = FileKey(dst) \/ k = DirKey(dst)
      BY <1>6 DEF Key, FileKey, DirKey
    <2>2. FindByPath(dst) = k
      BY <2>1 DEF FindByPath, Settled
    <2> QED
      BY <2>2 DEF Replaced, TransferItems, Exists
  <1>7. CASE IsStrictPrefix(dst, k.path)
    <2>1. Exists(DirKey(dst)) /\ ~Exists(FileKey(dst))
      BY <1>7 DEF Settled
    <2>2. FindByPath(dst) = DirKey(dst) /\ DirKey(dst) # NoKey
      BY <2>1 DEF FindByPath, Exists
    <2> QED
      BY <1>7, <2>2 DEF Replaced, TransferItems, DirKey
  <1> QED
    BY <1>5, <1>6, <1>7 DEF AtOrBelow

(* prepareTransfer and the commit: whatever was created or moved at the    *)
(* destination since the check, a Move or Copy finds there what its caller *)
(* expected, and where the destination is settled it loses nothing else.   *)
THEOREM ReplacesOnlyExpected == Spec => ReplaceOnlyExpected
  <1> DEFINE Answered(c) == LET dst == arg[c].key.path IN
                          /\ CheckReplacement(TargetId(dst), arg[c].rep)
                          /\ Settled(dst) => \A k \in Key : Exists(k) /\ Lost(k) => k \in Replaced(dst)
             A == \A c \in Call :
                    arg[c].op \in {"Move", "Copy"} /\ pc[c] = "commit" /\ pc'[c] = "idle"
                      /\ store' # store
                      => Answered(c)
  <1>1. ASSUME ContentInv, Next, NEW c \in Call, arg[c].op \in {"Move", "Copy"},
               pc[c] = "commit", pc'[c] = "idle", store' # store
        PROVE  Answered(c)
    <2>1. TypeOK /\ ExpectedInv(c)
      BY <1>1 DEF ContentInv, CallInv, IndexInv
    <2>2. CallStep(c)
      BY <1>1, <2>1, EndingStep DEF Crash
    <2>3. Commit(c)
      BY <1>1, <2>1, <2>2, CallEnds DEF DeleteChunks
    <2>4. CheckReplacement(TargetId(arg[c].key.path), arg[c].rep)
      BY <1>1, <2>1, <2>3 DEF Commit, InTxn, ExpectedInv
    <2> QED
      BY <1>1, <2>3, <2>4, SettledLoss
  <1>2. ContentInv /\ [Next]_vars => [A]_vars
    <2>1. ContentInv /\ Next => A
      BY <1>1
    <2> HIDE DEF A
    <2> QED
      BY <2>1
  <1>3. ReplaceOnlyExpected <=> [][A]_vars
    BY DEF ReplaceOnlyExpected
  <1> HIDE DEF A
  <1>4. Spec => [][Next]_vars
    BY DEF Spec
  <1> QED
    BY <1>2, <1>3, <1>4, ContentsInvariant, PTL
=============================================================================
