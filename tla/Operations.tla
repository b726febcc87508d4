----------------------------- MODULE Operations -----------------------------
(***************************************************************************)
(* The handlers of the VFS requests: a mutation runs in a goroutine of its *)
(* own after its request was answered, or within the request when the      *)
(* client waits; its outcome is published on the event stream of the       *)
(* client that asked.  The drive is AtomicDrive.                           *)
(*                                                                         *)
(* An event carries the action and the item, not the request.  It is lost  *)
(* when the buffer of the stream is full or the stream has ended.          *)
(***************************************************************************)
EXTENDS VfsPath, FiniteSets

CONSTANTS
  Content, Dir,   \* contents of files, and what stands for one in a directory
  Subscriber,     \* clients whose requests carry the identifier of the stream
  MaxEvents       \* messages the stream holds (as a bound)

VARIABLES
  items,      \* the items on the drive
  drawn,      \* identifiers drawn so far
  requests,   \* mutations the server works on
  stream,     \* the event stream: open, and the messages not read yet
  effects,    \* mutations that took effect, by request (no part of the code)
  seen,       \* keys the drive ever had an item at (no part of the code)
  disturbed   \* something other than the creation of a directory happened (likewise)

server == <<items, drawn, requests, effects, seen>>
history == <<effects, seen, disturbed>>

Drive == INSTANCE AtomicDrive WITH Archives <- {}

Find(id) == {i \in items : i.id = id}

(* A request: who sent it as which of its requests, what it asks for, where *)
(* the handler is with it and the outcome so far.                           *)
Asks(by, step, op, id, place, wait) ==
  [by |-> by, step |-> step, op |-> op, id |-> id, path |-> place.path,
   content |-> place.content, rep |-> place.rep, wait |-> wait, ok |-> FALSE,
   pc |-> IF op = "delete" \/ (wait /\ op \in {"move", "copy"}) THEN "look" ELSE "run"]

(* The place and the content a request names; a transfer may name the item *)
(* it expects to replace.                                                  *)
Place(path, content) == [path |-> path, content |-> content, rep |-> AnyTarget]
Replacing(path, rep) == [path |-> path, content |-> Dir, rep |-> rep]
Nowhere == Place(Root, Dir)

Arrive(q) == requests' = requests \cup {q}
Continue(q, r) == requests' = (requests \ {q}) \cup {r}

(* A drive as its calls leave it: a tree, with one item at a path. *)
Tree(S) ==
  /\ S \subseteq Drive!Item
  /\ \A i, j \in S : i.id = j.id \/ i.key.path = j.key.path => i = j
  /\ \A i \in S : (i.key.dir <=> i.content = Dir) /\ Drive!HasParent(S, i.key.path)

ServerInit ==
  /\ Tree(items)
  /\ drawn = Drive!Ids(items) /\ requests = {}
  /\ stream = [open |-> TRUE, queue |-> <<>>]
  /\ effects = {} /\ seen = {i.key : i \in items} /\ disturbed = FALSE
-----------------------------------------------------------------------------
(* Where a handler goes on: the answer of a waiting client follows the     *)
(* event and needs no event when the request failed; createResult looks    *)
(* the new item up before both.                                            *)
After(q, ok) ==
  IF ~q.wait THEN "notify"
  ELSE IF ~ok THEN "answer"
  ELSE IF q.op = "create" THEN "stat" ELSE "notify"

(* Delete and a waiting Move read the item first (srv.Stat).                *)
LookFirst(q) ==
  /\ q.pc = "look" /\ Find(q.id) # {}
  /\ Continue(q, [q EXCEPT !.pc = "run"])
  /\ UNCHANGED <<items, drawn, stream, history>>

Outcome(q, ok, id) == Continue(q, [q EXCEPT !.pc = After(q, ok), !.ok = ok, !.id = id])

Effect(q, id, key) ==
  /\ Outcome(q, TRUE, id)
  /\ effects' = effects \cup {[by |-> q.by, step |-> q.step, op |-> q.op, id |-> id, dir |-> key.dir]}
  /\ seen' = seen \cup {i.key : i \in items'}
  /\ disturbed' = (disturbed \/ ~(q.op = "create" /\ key.dir))

(* uuid.NewV4: an identifier never drawn before, which one does not matter. *)
NewV4 == CHOOSE id \in Id \ drawn : TRUE

CreateHandler(q) ==
  /\ q.pc = "run" /\ q.op = "create"
  /\ Id \ drawn # {}
  /\ LET id == NewV4 IN
       /\ Drive!Create(items, items', id, q.path, q.content)
       /\ drawn' = drawn \cup {id}
       /\ Effect(q, id, [path |-> q.path, dir |-> q.content = Dir])
  /\ UNCHANGED stream

DeleteHandler(q) ==
  /\ q.pc = "run" /\ q.op = "delete"
  /\ \E i \in Find(q.id) : Drive!Delete(items, items', i) /\ Effect(q, i.id, i.key)
  /\ UNCHANGED <<drawn, stream>>

(* Comments are abstracted: they leave the item as it is.                  *)
CommentsHandler(q) ==
  /\ q.pc = "run" /\ q.op = "comments"
  /\ \E i \in Find(q.id) : UNCHANGED items /\ Effect(q, i.id, i.key)
  /\ UNCHANGED <<drawn, stream>>

WriteHandler(q) ==
  /\ q.pc = "run" /\ q.op = "write"
  /\ \E i \in Find(q.id) : Drive!Write(items, items', i, q.content) /\ Effect(q, i.id, i.key)
  /\ UNCHANGED <<drawn, stream>>

(* asyncModify: without a condition a Move replaces what it finds, and a   *)
(* Copy asks for an absent destination.  OnPaths bounds the depth of the   *)
(* instance.                                                               *)
OnPaths == items' \subseteq Drive!Item

MoveHandler(q) ==
  /\ q.pc = "run" /\ q.op = "move"
  /\ \E i \in Find(q.id) :
       Drive!Move(items, items', i, q.path, q.rep) /\ OnPaths /\ Effect(q, i.id, i.key)
  /\ UNCHANGED <<drawn, stream>>

CopyHandler(q) ==
  /\ q.pc = "run" /\ q.op = "copy"
  /\ \E i \in Find(q.id) :
       /\ Drive!Copy(items, items', i, q.path, IF q.rep = AnyTarget THEN NoUuid ELSE q.rep)
       /\ OnPaths
       /\ (Drive!Ids(items') \ Drive!Ids(items)) \cap drawn = {}
       /\ drawn' = drawn \cup Drive!Ids(items')
       /\ \E j \in items' \ items : j.key.path = q.path /\ Effect(q, j.id, j.key)
  /\ UNCHANGED stream

(* What the driver refuses: no such item, a place that is taken or without *)
(* a parent.  It may fail without such a reason too.                       *)
Refused(q) ==
  IF q.op = "create" THEN Drive!At(items, q.path) # {} \/ ~Drive!HasParent(items, q.path)
  ELSE Find(q.id) = {}

DriverFails(q) ==
  /\ q.pc = "run" /\ Outcome(q, FALSE, NoUuid)
  /\ disturbed' = (disturbed \/ ~Refused(q))
  /\ UNCHANGED <<items, drawn, stream, effects, seen>>

(* createResult of a waiting client.                                       *)
StatCreated(q) ==
  /\ q.pc = "stat" /\ Find(q.id) # {}
  /\ Continue(q, [q EXCEPT !.pc = "notify"])
  /\ UNCHANGED <<items, drawn, stream, history>>

(* Stat fails when the item is gone, and it may fail without such a reason. *)
StatFails(q) ==
  /\ q.pc \in {"look", "stat"}
  /\ Continue(q, [q EXCEPT !.pc = IF q.pc = "look" THEN After(q, FALSE) ELSE "answer",
                           !.ok = FALSE])
  /\ disturbed' = (disturbed \/ Find(q.id) # {})
  /\ UNCHANGED <<items, drawn, stream, effects, seen>>

Event(action, ok, id) == [action |-> action, ok |-> ok, id |-> id]

(* publish and the broker: the message is appended, or lost.               *)
Deliver(e) ==
  \/ stream.open /\ Len(stream.queue) < MaxEvents
       /\ stream' = [stream EXCEPT !.queue = Append(stream.queue, e)]
  \/ UNCHANGED stream

Notify(q) ==
  /\ q.pc = "notify"
  /\ IF q.by \in Subscriber THEN Deliver(Event(q.op, q.ok, q.id)) ELSE UNCHANGED stream
  /\ requests' = IF q.wait THEN (requests \ {q}) \cup {[q EXCEPT !.pc = "answer"]}
                           ELSE requests \ {q}
  /\ UNCHANGED <<items, drawn, history>>

Heartbeat ==
  /\ stream.open /\ stream.queue = <<>>
  /\ stream' = [stream EXCEPT !.queue = <<Event("heartbeat", TRUE, NoUuid)>>]
  /\ UNCHANGED <<items, drawn, requests, history>>

(* The connection of the stream ends; what was not read may be lost.       *)
StreamEnds ==
  /\ stream.open
  /\ \E queue \in {<<>>, stream.queue} : stream' = [open |-> FALSE, queue |-> queue]
  /\ UNCHANGED <<items, drawn, requests, history>>

Handle(q) ==
  \/ LookFirst(q) \/ CreateHandler(q) \/ DeleteHandler(q) \/ WriteHandler(q)
  \/ CommentsHandler(q) \/ MoveHandler(q) \/ CopyHandler(q)
  \/ DriverFails(q) \/ StatCreated(q) \/ StatFails(q) \/ Notify(q)
=============================================================================
