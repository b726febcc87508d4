# Verification of govfs

TLA+ models of the parts of govfs that keep state or depend on an order: the two
storage drivers, the rotation of encryption keys, the manager of the users'
drives and the locks under it, the user accounts and their audit log, the broker
of server-sent events, the operations of the VFS handlers with the clients that
wait for them, and the updater. Small instances are checked with
TLC. The safety properties of both drivers, the rotation, the drive manager
and its locks, the accounts, the broker and the updater are proved with TLAPS
for all instances, and so is that the LocalStorage driver implements the
abstract drive; those of the clients are model-checked.

`PROJECT.json` is the index of everything below: which definition models which
lines (`map`), the runs and their properties, for each property a deliberate
bug that the run detects (`mutants`), the hazards with the properties that
cover them, the disagreements found (`findings`) and the theorems.

## The system

| Component | State it keeps | Operations | Hard about it |
|---|---|---|---|
| VFS contract (`vfs.go`, `transfer.go`) | none | `TransferPath`, `CheckReplacement` | moving a directory into itself; replacing an item the caller did not see |
| Badger driver (`pkg/drivers/badger/badger.go`, `utils.go`) | `meta:{path}`, `index:{id}`, `blob:{id}{seq}` in one Badger store | Create, Write, WriteComments, Mkdir, Move, Copy, Delete, Open and streams; List, Stat, Tree, Backup, Load, Rotate, Close, value log GC | calls run concurrently in optimistic transactions; contents are written and removed outside them; failures and crashes in between |
| Key rotation (`rotation.go`) | `.secret`, `KEYREGISTRY`, `.key-rotation/` | Rotate, its rollback, recovery in New | two files that only work as a pair; a crash at any step |
| LocalStorage driver (`pkg/drivers/localstorage`) | files, `.vfs_index.json`, `.vfs-transaction/`, two maps in memory | Create, Write, WriteComments, Mkdir, Move, Copy, Delete, Load, New, Close | several renames that must happen together; recovery that is itself interrupted; maps that must follow the disk |
| Drive manager (`services/drives.go`) | table of open drives with users and pending closes, the count of releases to come, the `drained` channel | Acquire, release, Stats, CloseDrive, idle collection, CloseWithContext | a drive in use must not be closed; one drive per directory; a shutdown with a deadline |
| Locks under the drives (`drives.go`, `badger.go`) | `m.mu`, one `RWMutex` per drive, the database handle, the goroutine of runGC | every call of a drive, Backup, Load, Rotate, Close, BadgerResources, the collector | waiting while a lock is held; two goroutines that both close a drive; a rotation between |
| User accounts (`services/users.go`, `handlers/auth.go`, `handlers/admin.go`, `middlewares/auth.go`) | `user:<id>`, `username:<name>`, `event:<time>:<id>`, session versions, issued tokens | Create, Update, Authenticate, login, password change, revocation, RecordEvent, ListEvents, ClearEvents | write skew between administrators; tokens issued while a password changes; pages of a log |
| SSE broker (`services/sse.go`, `handlers/sse.go`) | table of clients, five channels | Subscribe, Unsubscribe, Publish, Clients, heartbeat, Shutdown | channels of a goroutine that may have stopped; bounded buffers; closing once |
| VFS handlers (`handlers/vfs.go`, `services/vfs.go`) | a drive for the time of a request | HTTP operations, detached ones with events | the release handed over to a goroutine; Stat and Delete in two transactions |
| MCP server (`internal/mcp`) | one event stream, a mutex, `completionUncertain` | tools that wait for the event of their change | matching by action; lost and late events |
| Command line and client library (`internal/cli/vfs`, `internal/client`) | local files of a download | mkdir -p, rm, cp, backup: several requests each | other clients between two requests; answers that are lost; streams that break |
| Updater (`internal/updater`) | lock directory, downloads, binaries and hard links | download, replace, restore | overlapping runs; failing or being killed in the middle of a replacement |
| The rest: error handler, configuration, log, migrations, web interface | none of its own | | |

How they interact. A request passes the authentication middleware (accounts),
acquires the drive of its user from the drive manager, and calls the VFS
handler, which calls the driver. Some operations answer at once and go on in a
goroutine: the release function of the drive moves to it, and it reports
through the broker when it is done. A logout or an administrator asks the
manager to close a drive. Each user has a Badger or a LocalStorage drive of
their own; the accounts live in a Badger store of the server's. A shutdown
stops the HTTP server, then the manager, the accounts and the log.

What makes each component correct: the index and the metadata of a drive agree
and no file is left without its data (drivers); an operation happens entirely
or not at all, whatever fails (LocalStorage, rotation); nobody's drive is
closed under them and none leaks (manager); names stay unique, an administrator
stays, a revoked token stays revoked (accounts); no channel is misused, nobody
waits for ever, messages reach their addressee and nobody else (broker); nobody
works with a closed database and everybody who waits for a lock gets it (locks);
what a tool or a command reports is what happened (clients); a program that was
being replaced is still whole (updater).

## The modules

| Module | Models | How state and actions correspond |
|---|---|---|
| `VfsPath` | paths and the rules of a transfer | `Path` is a finite set of sequences of names closed under parents; a `Key` is a path with the flag "directory" (the trailing slash of a stored path) |
| `BadgerVFS` | the Badger driver under concurrent calls | see below |
| `AtomicDrive` | the abstract drive: a set of items, each call one step | the contract `LocalStorage` implements, and the drive `Operations` works on |
| `LocalStorage` | the LocalStorage driver, its journal and recovery | `tree`, `indexFile`, `txnIndex`, `journal` are the disk; `idMap`, `pathMap` the memory; one action per step of `transaction` and `recoverTransaction` |
| `KeyRotation` | `Rotate`, `rotate`, `recoverRotation`, `New` | one control point per system call that changes a file; each may succeed, fail before or fail after its effect |
| `DriveManager` | `DriveManager` and its users | every method is one step, since it holds `m.mu` throughout; `CloseWithContext` has one step for each part between which it releases the lock |
| `DriveLifecycle` | the manager's mutex, the lock and the handle of every drive, runGC | a goroutine has a control point; taking a lock, being granted it, using the handle and giving the lock back are steps |
| `Accounts` | accounts, tokens, the audit log and the requests on them | a request reads its snapshot, computes what it will write and commits if nothing it read was written since |
| `SSEBroker` | the broker | `Listen` is the select of `listen`; each call of `Subscribe`, `Unsubscribe`, `publish` and `Clients` is a process of several steps |
| `Operations` | the VFS handlers, `asyncExecute` and the events | a request is a record with a control point; the change on the drive is one step of `AtomicDrive`, its event another one |
| `Clients` | the MCP tools, the commands and a browser, on top of `Operations` | a tool or a command is a record with a control point; each request it sends may be answered, or not and arrive, or not and be lost |
| `Updater` | `run`, `stage` and `replace` of the updater | one control point per step that changes a file; each may fail, and the run may be killed at each |
| `MC*` | instances for TLC | sets, initial states, symmetry |
| `BadgerVFSProofs`, `LocalStorageProofs`, `KeyRotationProofs`, `DriveManagerProofs`, `DriveLifecycleProofs`, `AccountsProofs`, `SSEBrokerProofs`, `UpdaterProofs` | theorems and their lemmas | see "What is proved" |

**How the modules compose.** `BadgerVFS` and `LocalStorage` are the drivers with
every call between taking and giving back the lock of the driver; `DriveLifecycle`
is that lock, and why a call can be taken for a unit there. `DriveManager` is the
table of drives with every method a unit; `DriveLifecycle` repeats the table with
as much of it as decides when a drive is closed, and lets the methods wait. In
`Clients`, the `Operations` of a server act on the `AtomicDrive` that
`LocalStorage` is shown to implement, and the broker appears as what `SSEBroker`
promises and does not promise: messages in order, possibly lost. The events in
its stream are those of requests; a user may also send one of the same form
through `POST /sse/publish`, which no tool could tell apart, and such events are
not modelled.

**Badger transactions.** The writes of a transaction are computed when it
begins, from the store at that moment, which is its snapshot; at the commit
they are applied together. A commit by another call marks the transaction
`stale` when it writes a key the transaction has read. Badger counts as read
the keys a transaction looked up, whether found or not, and the keys a scan
returned, but not the keys a scan did not find: a new key under a scanned
prefix causes no conflict. `FindReads`, `ParentReads` and `TransferReads` name
the keys each operation reads in the code. Conflicts are not retried by the
driver, so a stale transaction fails. `Accounts` uses the same rule; there the
deletions of `ClearEvents` are part of what a transaction writes.

**Contents** are versions: a chunk holds the number of the content it belongs
to, and an item remembers which version its size describes. That is enough to
tell a whole file from a mixed, truncated or missing one. A stream
(`blobReader`) has a position, the bytes still wanted by the Read under way and
the chunk it keeps from the last one; `ChunkSize` and `Length` say where chunks
begin and end, so that Reads and Seeks fall inside a chunk, on its border and at
the end. `got` is what was delivered last: a version and the position in it that
the byte offsets of the code amount to. A Seek goes to a position in the file or
to its end; one before the start, which the code refuses, and one past the end,
where every Read is at the end of the file, are not modelled.

**Errors of a clean-up.** `deleteChunks` (`utils.go:199`) may fail, and then the
content stays, whole since the chunks go in one transaction. What the callers make of the error differs: Create
(l. 316) and Write (l. 449) ignore it beside the error they return, Create (l. 367)
and Copy (l. 886) join the two, and Write returns it after its commit (l. 457),
where the comment admits orphan chunks. In the model the call ends in any case
and the content it asked to delete is in `orphan`. The removal of a key rotation's
backup (`rotation.go:72`, `:137`) may fail before the first entry or after any;
that of a LocalStorage transaction likewise, see *Interrupted clean-up*.

**Locks.** `sync.RWMutex` is modelled as Go describes it: a writer announces
itself, waits for the readers inside, and readers that come later wait for it.
`Return` and `Unlock` say where a goroutine goes on; a call inside a loop of the
manager (CloseAll, closeIdle, BadgerResources) returns to the loop, with `m.mu`
still held. A backup holds its read lock for as long as its client reads.

**Events.** An event carries an action, an outcome and an identifier, no name of
a request: that is all a tool can compare. It is lost when the buffer is full or
the stream has ended.

**History.** Variables that no guard reads, only properties: `effects`, `seen`
and `disturbed` in `Operations`, `before` in `Updater`, `orphan` in `BadgerVFS` (the
contents whose deletion failed), `over` and `mistaken` in `KeyRotation` (the backup
on disk is of a rotation that has ended; such a backup was restored), `missed` in
`DriveLifecycle` (drives a rotation closed with an error).

**Wrong variants.** Operators that stand before the one they vary, such as
`FailKeepingChunks`, `DestKeyWithoutSlash` or `MkdirReady`, are plausible bugs.
No specification uses them; they exist so that every property can be seen to
fail when the code is wrong.

## The runs

| Run | Question | Bounds |
|---|---|---|
| `badger` | Do all operations, two at a time, with failures and crashes, keep index, metadata and contents together, clean up after themselves where the store lets them, replace the item the caller named and, at a settled destination, nothing else, and let a stream deliver one version? | 4 paths, 3 identifiers, 3 contents of 3 bytes in chunks of 2, 2 calls, 1 stream; four scenes |
| `badger_own_item` (violated) | Does an identifier find the item that has it, if one call follows the other? | the namespace scene, 1 call at a time |
| `local_storage` | Does the driver implement `AtomicDrive`, with an I/O error or a crash at any step, and open again? | 5 paths, one of them trimmed to another, 3 identifiers, 2 contents, one archive each, one foreign file |
| `local_storage_purge` (violated) | Does it open again when the clean-up after a rollback is cut short? | 4 paths, 2 identifiers, no foreign file |
| `key_rotation` | Can the drive be opened, with the committed key, whenever the process ends, until a backup is restored whose rotation was over? | 3 keys, 2 data keys |
| `key_rotation_purge` (violated) | Can it be opened without that reservation? | as above |
| `drive_manager` | Is a drive in use kept, are all closed in the end, does the shutdown end? | 2 users, 2 requests, 4 names of drives, idle time of 1 tick |
| `drive_lifecycle` | Does nobody work with a closed handle, but for one that a rotation could not close properly, is a directory given back, does a closed drive stay closed, and does every wait end? | 1 drive, 2 requests that copy, back up and rotate, 1 keeper, the collector |
| `accounts` | Names, administrators, tokens, with overlapping requests; the pages of the audit log | 3 identifiers, 3 spellings of 2 names, 2 passwords, 2 requests, 1 password change per user, 1 token at a time, 3 events; two scenes |
| `sse_broker` | Channels, deliveries, termination, also when a client does not read | 2 streams of 2 users, 1 other goroutine, buffers of 1 |
| `clients` | Is what a tool or a command reports what happened, does rm without -r spare directories, and does a tool return? | two tools, a tool and a command, two commands, or the browser with a tool or a command; 3 paths, 2 contents, 3 identifiers, a stream of 1 message |
| `updater` | Is the report of an update true, does the original survive, is nothing left behind? | 3 runs, 2 binaries, 1 new release |

*Scenes.* `badger` and `accounts` ask several questions of one module; a
behaviour belongs to one scene, which restricts what its clients do so that the
state space of each question stays small: in `badger` the namespace (Create,
Delete and Move on two directories), all calls on one directory, contents, and
streams beside Write and Delete; in `accounts` changes of accounts, or events
recorded, listed and cleared. Deletions of contents fail in the contents scene.
In `local_storage` the name "a ", which the code trims to "a", takes the place
of b: the two are not in one drive (`TwoNames`). In `clients` a behaviour is of a
pair of clients and a drive that suits them: two tools or a tool and a command on
an empty drive or beside a directory, two commands on an empty one, the browser
with a file and a directory that it may move one onto the other. In `sse_broker`
the two streams differ in what happens to them (`Scene`): one gets the messages
of the publisher, its connection breaks or ends first, the other one sends the
heartbeats. That constraint leaves out steps, so it matters for liveness that
none of them is one that fairness asks for: publishing, disconnecting, the error
of a write and the heartbeat's tick are all choices. The scenes are in the
MC modules and restrict nothing in the specification.

*Why the bounds are enough.* The hazards are races of two calls, or of one call
and a failure: two calls (or requests) and a third identifier for what they
create make each of them happen. Two levels of paths give a directory, its
child and a destination, so that moves, replacements and deletions of trees
occur. The Badger runs start from a drive with a directory and a file in it,
as Mkdir and Create leave it, and spend the remaining identifiers on what comes
next. Two chunks are the fewest that can be mixed, and a last chunk shorter than
the others is the case that arithmetic gets wrong. Buffers of one make every
queue full and empty; larger ones only hide the blocking. Three master keys
allow two rotations after each other, an interrupted one followed by another.
Four names for drives are enough for two open ones and two that requests still
hold (`DriveAssumption`). A deadlock needs a reader, a writer that waits for it
and somebody who waits for the writer: two requests and a keeper, on one drive,
since no call of a drive waits for another one; "load" and "read" take the same
locks as "rotate" and "copy" and do less under them. Two tools are enough for the
event of one to be taken for the other's; the updates are one that holds the
lock, one that is refused and one that comes later.

*Which bounds cut behaviour off.* `Id` and `Blob` bound how many identifiers
are ever drawn in `BadgerVFS` and `Operations`; `MaxVersion` the password
changes of a user, `MaxTokens` the tokens in circulation and `MaxEvents` the
audit log; `MaxRelease` the releases published. A name of `Drive` in
`DriveLifecycle` is opened once. `OnPaths` keeps transfers within the depth of
the instance. In `LocalStorage` identifiers of removed items may be drawn
again, which only adds behaviour.

*Deadlock* is checked except in `badger`, `badger_own_item` and `clients`, where
the identifiers or the requests run out, in `updater`, whose runs end, and in
`sse_broker`, where the broker and all streams end. In all of these the system
really may stop. `drive_lifecycle` checks it: whoever is at rest can start again.

*Interrupted clean-up.* Both journals have a window in which the removal of
their directory, if it stops half way, breaks a later recovery. In `LocalStorage`
`InterruptPurge` says whether that may happen: FALSE in the run that must pass,
TRUE in the one that shows the consequence; everything else may be interrupted in
both, the start of the removals included. In `KeyRotation` every removal may
be interrupted, or fail at any entry, in both runs. There `over` says that the backup on
disk belongs to a rotation that has ended, and `mistaken` that `recoverRotation`
has restored such a backup; `DriveOpens` and `CommittedStays` are promised until
that happens, `RunningPair` always.

### What the violated runs show

1. `badger_own_item`: an index entry that outlived its item leads to whatever
   is later stored at the same path, since `findMetaItemByID` does not compare
   identifiers. In the run no call overlaps another: the file /b is moved to
   /b/x (Move asks for no parent directory), then the directory /a with its child
   /a/x to /b. `moveChildren` writes the key of /b/x unread, the file that was
   there is lost, and its identifier finds the other one. With overlapping calls
   it also takes a Create below a directory that is being transferred or
   deleted: the scan does not see the new file and Badger sees no conflict.
2. `local_storage_purge`: recovery runs twice over a transaction that was
   already rolled back, deletes the restored original, and New refuses the
   drive.
3. `key_rotation_purge` (`Opens`): the saved files go before the `ready` marker, and
   New tries to restore files that are no longer there. When `committed` is the
   entry that goes first, the next New rolls the committed rotation back, and
   what was written since with a new data key cannot be decrypted any more.

The second and the third need an error or a crash in a clean-up, the first one
nothing but ordinary calls. `MetaIndexed`, which holds, is what remains true in its
presence: an item that is stored is found by its identifier.

### What the passing runs reach and except

Five properties hold only with an exception, which is part of their text, and
the behaviour they except is reached in their runs. `findings` lists it, too.

- `CommittedStays`, `DriveOpens` (`mistaken`): the deferred function of `rotate` removes the
  marker `committed` (`rotation.go:84`) before it knows that the backup is its
  own. When the removal after a commit failed (l. 137), the whole backup
  stays and the drive goes on; the next rotation fails at its Mkdir (l. 142), its
  deferred function takes the marker of the earlier one away, and
  `recoverRotation` restores the key and the registry from before it. The
  committed key is taken back.
- `HandleOpenInUse` (`missed`): `rotate` returns when `db.Close()` reports an error
  (`rotation.go:76`), with `failed` still nil, although Badger has marked the
  database closed. The calls that follow pass the check and work on a closed
  handle until a later rotation succeeds or the drive is closed. `close`
  (`badger.go:1149`) sets `failed` whatever `db.Close()` returns.
- `ReopenSucceeds` (a path that is trimmed): `storagePath` trims white space before it
  cleans the path, so `Create("/a /")` stores the path "/a ". `readIndex` applies
  `storagePath` again (`transaction.go:67-71`) and takes the index for invalid: every
  later New refuses the drive. The driver itself wrote that index.
- `ReplaceOnlyExpected` (`Settled`): a transfer writes the keys of the item and its
  children at the destination without a look at them (`moveItem`, `moveChildren`,
  `utils.go:295`), having looked at the destination path only. Where a file and a
  directory of one name coexist there, or items lie below it without their
  directory, items that nobody named are overwritten, as in `badger_own_item`. The
  same happens to a child created in the replaced directory while the transfer
  is under way; it is then a child of what the caller named, but
  lost unseen. Its content stays for ever: `NoCallLeaks` speaks of what a call
  itself wrote or superseded, not of every content.

### Other divergences met while modelling

They are described here and have no run of their own.

- The overlap of `badger_own_item` has a second effect: the new file survives
  without a parent directory (`badger.go:553-554`), although the comment of
  Delete says that descendants are deleted too.
- A signal to stop cancels the context of the server (`cmd/govfs/main.go`), and
  `SetContext` (`config.go:98`) makes it the parent context of every Badger drive:
  the collector of a drive then closes it at once, under detached operations
  that `CloseWithContext` (`drives.go:258`) and the shutdown hook
  (`init.go:149`) mean to wait for. Where `GCInterval` is 0 there is no
  collector and they do wait. `Cancel` in `DriveLifecycle` models it; the
  operations get an error, none works with a closed handle (`HandleOpenInUse`).
- A client that stops reading a backup holds the read lock of its drive. A
  `Close` of that drive waits, with `m.mu` held, and so does everybody who needs
  the manager; the deadline of the shutdown bounds the wait for releases, not
  this one. `CallsEnd` assumes that such a client reads on or goes away.
- The updater asks for the latest release before it takes the lock
  (`update.go:75-95`), so a run that waited may install an older release over a
  newer one. `OutcomeTrue` says what it announces, not that it is the latest.
  The lock is that of the first binary's directory only.
- A recursive download checks the size of each stream against the size just
  asked for, but writes the metadata from the earlier listing.
- An audit event is recorded after the request: a process that ends in between
  leaves a change without its event. Pages are counted from the newest event, so
  one that arrives between two requests shows the last event of a page again;
  `PagesCoverLog` is about one state of the log.
- The path in the event of a deletion or a move is that of an earlier
  transaction.
- Create and Write drop the error of a failed clean-up (`badger.go:316`, `:449`),
  although `docs/maintenance/AUDIT_REMEDIATION.md:163` wants no error hidden where a
  clean-up itself fails. The comment at `badger.go:453-454` admits the orphan
  chunks of a Write; nothing in the driver removes them later.

## Fairness

Most runs check safety only and assume none. `drive_manager` assumes that the
steps of a shutdown and the return of the collecting goroutine happen in the
end (the scheduler and the deadline); it does not assume that a request ever
ends, which is the point of the deadline. `sse_broker` assumes that the select
of `listen` takes a case that stays ready, that a goroutine whose receive or
return is possible takes it, that a goroutine waiting to send to a channel with
room again and again gets a turn (strong fairness; Go's channels queue the
waiting senders; `Unsubscribe` sends once per stream, so there weak fairness is
enough), and that `Shutdown`, having cleared `isRunning`, goes on to
cancel the context. It does not assume that a client leaves, that anybody
publishes, or that the broker is ever shut down. Nor does it assume that a
write to a client ends (`WriteTo` is not fair): the server configures no write
timeout, so a client that stops reading keeps its stream in
`handlers/sse.go:66-73` for as long as its connection lives. `CallsReturn` says
that nobody else waits for it, and `StreamsEnd` that after a shutdown such a
stream is the only one that may be left.

`drive_lifecycle` assumes strong fairness of the steps of each goroutine while
it waits for a lock or works under one: Go's mutexes hand themselves to a waiter
that has waited too long, and a call of the database returns. The collector takes
each case of its select again and again (Go chooses at random). A backup ends
because its client reads on or its connection ends. Nothing says that a request
ends or that a tick comes. `clients` assumes that the mutex of the MCP server is
handed to a call that waits, that the client library gets an answer or an error,
and that the timer of a mutation fires; it assumes nothing of the server, the
network or the events.

## What is proved

All theorems hold for every value of the constants that satisfies the named
assumptions: for any number of calls, users, paths, keys, contents, chunks,
streams, goroutines, runs and binaries. Each theorem follows from an inductive
invariant of its module. It was checked with TLC on the instance of the run
before it was proved, except that of LocalStorage, which speaks of sequences of
trees that TLC cannot enumerate; there TLC checks the properties that follow from
it. The proof that a step preserves an invariant has one lemma or step for each
action.

**The Badger driver.**

- `BadgerVFSProofs!TypeCorrect`: `TypeOK`. Beyond types it says that
  directories have no content and files have one, in the store and in the
  planned writes of every open transaction. It is inductive as it stands; the
  lemmas say what a planned write of each operation looks like.
- `BadgerVFSProofs!IndexConsistent`: `MetaIndexed`, the central invariant of
  the namespace. Whether a commit keeps it depends on what the transaction
  planned, so the strengthening (`IndexInv`) relates each plan to its snapshot:
  a transaction that is not stale still sees the metadata it read; each item it
  plans to store has its index entry planned with it, or keeps the one it had;
  each index entry it plans to change belongs to an item it read and rewrites, or
  to an identifier it drew itself; and identifiers drawn by different calls
  differ from each other and from those in the store. A commit of another call
  either leaves the keys it read alone or makes it stale, and a stale transaction
  cannot commit.
- `BadgerVFSProofs!ContentsComplete`, `StreamsConsistent`, `NothingLeaked`,
  `ReplacesOnlyExpected`: `ContentPresent`, `ReadConsistent`, and the action
  properties `NoCallLeaks` and `ReplaceOnlyExpected`. Contents are written and
  deleted outside of the transactions, so the argument (`ContentInv`) is one of
  ownership. What a call holds (`Held`) nobody else holds, no file points to and
  nobody else writes or deletes (`Apart`, `CallInv`), and what a call failed to delete is
  an `orphan`, which nobody holds any more; a plan says of every file in
  it whether its content is uploaded, kept from an item the transaction rewrites,
  or copied from one it read (`ContentPlan`), and each such content is there in
  full when the commit comes; a commit turns what the call holds into the
  contents of files and, for Write, the content it supersedes into what it
  holds. Nobody writes the content of an open stream any more: its chunks are of
  the version the stream was opened on, or deleted, and then the Read fails
  (`StreamInv`).
- `KeyRotationProofs!DriveAlwaysOpens`, `RunningPairOnDisk`, `CommitIsFinal`:
  the three properties of key rotation, whatever removal fails or is cut short:
  `RunningPair` always, `DriveOpens` and `CommittedStays` until a backup is restored
  whose rotation was over (the step that sets `mistaken`; `key_rotation_purge` shows
  what may follow it). The inductive invariant `Inv` says for every control point what
  the files hold, which backup may be there and whether it is `over`; its core is
  `Recoverable`: a ready backup of a rotation that is not over holds a pair of key and
  registry that decrypts all that is stored, and where there is none, or it is over
  or committed, the files in place do. After a restoration by mistake it says only
  that key and registry are still a pair, which is what `RunningPair` needs.

**The LocalStorage driver.** All five theorems assume that the clean-up of a
transaction is not cut short half way (`~InterruptPurge`);
`local_storage_purge` shows why.

- `LocalStorageProofs!MapsAgree`, `AlwaysReopens`, `RenamesAreFree`,
  `DirectoryIsFree`: `MemoryMatchesDisk`, `ReopenSucceeds` (with its exception for
  files whose path is trimmed), `NothingOverwritten` and `NoLeftovers`. The central notion is a `Walk`: the trees that the renames of
  a journal lead through, in which each rename is possible and replaces nothing,
  and the source of each rename is there until its turn. That last part is what
  recovery relies on: a rename is undone if its source is gone and its
  destination there, and nothing else tells whether it was done. The invariant (`IInv`)
  says that the tree is one of a walk that starts where the files fit the index
  (`Moving` while a transaction renames, `Disk` while one is undone), which of
  journal, new index and transaction directory exist at each control point
  (`Marks`), and what the maps and the planned maps are (`Memory`).
  The greater part of the proof shows for each call that it plans such a walk
  (`NewItemPlanned`, `WritePlanned`, `DeletePlanned`, `TransferPlanned`,
  `LoadPlanned`) and an index with maps that fit the tree at its end. For Load, which
  moves every item out of the way before it moves the archive in, that is
  an induction over the renames of each phase.
- `LocalStorageProofs!Implements`: the refinement, `Contract`, that is
  `Drive!Spec` for the items that the index and the files amount to once recovery
  has run. Whatever step of a walk the disk is at, a rollback leads back to its
  first tree (`Unwound`), so I/O errors, crashes, renames and
  recovery change no item (`OthersSteady`). Only the rename of the new index does, since
  a transaction counts as done from then on; and for each call, the items before
  and after are related as a step of `AtomicDrive` has it (`Promises`).

**The drives of the users.**

- `DriveManagerProofs!NoDriveClosedInUse`, `NoDriveLost`, `CloseRemembered`,
  `QuietBeforeCollected`: the three invariants of the manager, and that the idle
  collection takes quiet drives only. The code counts; the invariant says what the
  numbers are: the users of a drive are the number of requests that have still to
  release it, and the releases to come are the number of all such requests
  (`CounterInv`). `RequestInv` and `TableInv` say which drives they may still
  hold, and that the open drives are those of the table until a shutdown ends.
- `DriveLifecycleProofs!WorksOnOpenHandle`, `DirectoryGivenBack`,
  `StaysClosed`: the invariants `HandleOpenInUse` and `DirectoryReleased` and the
  action property `ClosedForGood`. The strengthening says, for every control
  point, which locks a goroutine is inside (`Locked`) and which drive it is about
  (`Known`), what the handle of a drive can be while somebody is inside its lock
  (`Handles`), where in the manager the holder of its mutex is (`Managing`,
  `Acquired`), and that a drive that left the table and is not yet closed is one
  that somebody in the manager is about to close (`Removed`). A drive in `missed` is
  one whose handle a rotation left closed; the next rotation or close takes it out.

**The server.**

- `AccountsProofs!IndexAgrees`, `AdminLeft`, `TokensCurrent`, `RevokedForGood`,
  `PagesComplete`: `NamesAgree`, `SomeAdminStays`, `TokenOfCurrentPassword`, the
  action property `RevokedStaysRevoked`, and `PagesCoverLog`. As for the namespace of the Badger driver, a transaction
  that is not stale still knows the records and names it decided on (`Current`),
  and its plan is one that keeps the names apart and an administrator if they are
  still so (`Planned`). For the tokens, `Remembered` says that a session version
  a token, a cache or a request carries is not newer than the user's, and that
  with the same version comes the same password. The pages are the longest part:
  the events of the log are distinct and so fit on the pages (`LogInv`); after each event that
  `ListEvents` walks past, its page is what belongs on it of what was seen so far (`PageIs`);
  and so many pages in a row are so many of the newest events (`FirstOf`).
- `SSEBrokerProofs!ClosedOnce`, `UsersApart`, `SubscribersServed`:
  `ChannelsClosedOnce`, `OwnMessagesOnly`, and the action property
  `SubscribersGetMessages`. The invariant follows a registration from the queue
  of `Subscribe` into the table and out of it (`Queued`, `Served`), says at which
  point of which call each process is (`Progress`), and that a message never
  leaves its addressee, wherever it waits (`Messages`).
- `UpdaterProofs!ReportsTruth`, `KilledAnywhere`, `LeavesNothing`: `OutcomeTrue`,
  `OriginalSurvives`, `NothingLeft`. `LockInv` says that at most one run works, and
  `FilesInv` what its files and the installed binaries are at each control point.

**Assumptions.** They are the named `ASSUME`s of the modules, which TLC evaluates
on every instance: names of paths are sequences closed under parents, nothing is
an identifier and "none" at once, contents are not identifiers
(`PathAssumption`, `BadgerAssumption`); the directory mark and the mark of a torn file are not contents, the
entries of an archive have distinct paths and identifiers, the directories
they are in, and no path of a file that is trimmed, as the checks of `Load` see to, and no name at the top level is that of the
transaction directory or "new", which is taken there since the model lets
what `Load` moves aside keep its name where the code numbers it (`StorageAssumption`);
requests and users are finitely many and
there are enough names for the drives that may be open or held
(`DriveAssumption`, without which the counters mean nothing); every name of a
drive has one directory and threads of different kinds are different
(`LifecycleAssumption`); streams and other callers of the broker are different
(`BrokerAssumption`); identifiers of users are finitely many and one is the first
administrator's (`AccountAssumption`). Only the theorems on LocalStorage have a
hypothesis of their own.

**Only model-checked.**

- `ResultIsOwn`, `RemovesNoDirectory` and `ReportsTrue` of the clients. They relate
  the answers of the server to the history of its operations; an invariant would
  have to say so for each control point of every tool and command.
- Liveness, and so everything in `Fairness`: `ENABLED` is out of reach of the
  prover.
- The violated runs, of course.

No module uses RECURSIVE operators.

## What is not modelled, and why

- Badger itself, the file system and the web framework are external: their
  behaviour is what the code relies on (atomic commits with conflict detection,
  atomic renames, `fsync`, one open handle per directory). Losing what was
  written but not synced is not modelled; the code syncs before it relies on a
  file.
- What the Badger driver's Load puts into the store (the format of a backup is
  Badger's; the lock it holds is in `DriveLifecycle`), and the queries List,
  Search, Tree, Stats: each reads one snapshot and changes nothing. For the same
  reason the reading calls of LocalStorage, which hold its lock.
- Names, times, comments, the hashing of passwords, and sizes other than "of
  this version". In the updater, removals of temporary files succeed.
- The order of audit events within the same nanosecond, and the expiry of
  tokens by time (a token may be forgotten at any moment).
- The requests for Restore in the handlers and the command line, the reading
  and the administration tools of the MCP server, logins of the client library:
  one request each, without a state of their own.
- Configuration, logging, error handling, routes, migrations, the web interface
  and the generated documentation: no state of their own, or input and output
  only. The documentation alone is a fifth of the implementation's lines.

## Plan

Done, in this order: `VfsPath` and `BadgerVFS`; the proofs of `TypeOK` and
`MetaIndexed`; `AtomicDrive` and `LocalStorage`; `KeyRotation` and its proofs;
`DriveManager`; `Accounts`; `SSEBroker`; `DriveLifecycle`; the streams of
`BadgerVFS`; `Operations` and `Clients`; `Updater`; the audit log of `Accounts`;
the proofs of the updater, the locks, the manager, the accounts and the broker;
the ownership of contents in the Badger driver; the invariants of the LocalStorage
journal and that the driver implements `AtomicDrive`; the pages of the audit log.

Left to prove: `ResultIsOwn`, `RemovesNoDirectory` and `ReportsTrue` of the clients.
