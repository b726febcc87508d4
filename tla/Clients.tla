------------------------------ MODULE Clients ------------------------------
(***************************************************************************)
(* The clients of Operations: the tools of the MCP server, which send one  *)
(* mutation at a time and wait for its event on their stream; commands of  *)
(* the command line program, each a sequence of requests; and a browser    *)
(* that changes the same drive.                                            *)
(***************************************************************************)
EXTENDS Operations

CONSTANTS
  Tool,       \* calls of MCP tools that change the drive
  Command,    \* invocations of the command line program
  Browser,    \* requests of the web interface
  Size        \* the size of each content

ASSUME ClientsAssumption == Subscriber = Tool /\ Size \in [Content -> Nat]

VARIABLES
  tool,        \* the calls: control point, arguments and result
  mutationMu,  \* the call that holds the mutex, or Nobody
  uncertain,   \* an answer may still come that nobody waits for
  cmd,         \* the commands
  local,       \* what the local files of a download hold
  browsed      \* requests the browser has sent

mcp == <<tool, mutationMu, uncertain>>
cli == <<cmd, local>>
vars == <<items, drawn, requests, stream, history, mcp, cli, browsed>>

Nobody == "nobody"
NoFile == "no file"
Torn == "part of a content"
Archive == "archive of the drive"

Init ==
  /\ ServerInit
  /\ tool = [t \in Tool |-> [pc |-> "idle", op |-> "none", path |-> Root, content |-> Dir,
                             id |-> NoUuid, ok |-> FALSE]]
  /\ mutationMu = Nobody /\ uncertain = FALSE
  /\ cmd = [c \in Command |-> [pc |-> "idle", kind |-> "none", plan |-> <<>>, n |-> 1,
                               recursive |-> FALSE, id |-> NoUuid, todo |-> {}, read |-> NoFile,
                               size |-> 0]]
  /\ local = [c \in Command |-> {}]
  /\ browsed = {}

(* A mutation is sent: it arrives and is answered, or it fails for the     *)
(* client, which does not say whether it arrives.                          *)
Sent(q, answered) ==
  \/ answered /\ Arrive(q) /\ UNCHANGED disturbed
  \/ ~answered /\ disturbed' = TRUE /\ (Arrive(q) \/ UNCHANGED requests)
-----------------------------------------------------------------------------
(* The MCP server.                                                         *)

GotoTool(t, label) == tool' = [tool EXCEPT ![t].pc = label]
Return(t, ok, id) == tool' = [tool EXCEPT ![t].pc = "done", ![t].ok = ok, ![t].id = id]
Unlock == mutationMu' = Nobody

KeepsListening == UNCHANGED <<uncertain, stream>>
InvalidateCompletion == uncertain' = TRUE /\ stream' = [open |-> FALSE, queue |-> <<>>]

CallCreate(t, p, c) ==
  /\ tool[t].pc = "idle"
  /\ tool' = [tool EXCEPT ![t].pc = "lock", ![t].op = "create", ![t].path = p, ![t].content = c]
  /\ UNCHANGED <<items, drawn, requests, stream, history, mutationMu, uncertain, cli, browsed>>

CallDelete(t, id) ==
  /\ tool[t].pc = "idle"
  /\ tool' = [tool EXCEPT ![t].pc = "lock", ![t].op = "delete", ![t].id = id]
  /\ UNCHANGED <<items, drawn, requests, stream, history, mutationMu, uncertain, cli, browsed>>

Lock(t) ==
  /\ tool[t].pc = "lock" /\ mutationMu = Nobody
  /\ IF uncertain THEN Return(t, FALSE, NoUuid) /\ UNCHANGED mutationMu
                  ELSE GotoTool(t, "send") /\ mutationMu' = t
  /\ UNCHANGED <<server, disturbed, stream, uncertain, cli, browsed>>

SendMutation(t) ==
  /\ tool[t].pc = "send"
  /\ \E answered \in BOOLEAN :
       /\ Sent(Asks(t, 1, tool[t].op, tool[t].id, Place(tool[t].path, tool[t].content), FALSE), answered)
       /\ IF answered
            THEN GotoTool(t, "wait") /\ UNCHANGED <<mutationMu, uncertain, stream>>
            ELSE Return(t, FALSE, NoUuid) /\ Unlock /\ InvalidateCompletion
  /\ UNCHANGED <<items, drawn, effects, seen, cli, browsed>>

(* waitForMutation: messages of other kinds are skipped, the first event   *)
(* of the action is the answer.                                            *)
Receive(t) ==
  /\ tool[t].pc = "wait" /\ stream.queue # <<>>
  /\ LET e == Head(stream.queue) IN
       /\ stream' = [stream EXCEPT !.queue = Tail(stream.queue)]
       /\ IF e.action # tool[t].op THEN UNCHANGED <<tool, mutationMu>>
          ELSE IF e.ok /\ e.action = "create"
            THEN tool' = [tool EXCEPT ![t].pc = "stat", ![t].id = e.id] /\ UNCHANGED mutationMu
            ELSE Return(t, e.ok, e.id) /\ Unlock
  /\ UNCHANGED <<server, disturbed, uncertain, cli, browsed>>

(* The timer, or the context of the call.                                  *)
NeverTimesOut(t) == FALSE /\ UNCHANGED vars
TimesOut(t) ==
  /\ tool[t].pc = "wait"
  /\ Return(t, FALSE, NoUuid) /\ Unlock /\ InvalidateCompletion
  /\ UNCHANGED <<server, disturbed, cli, browsed>>

StreamEnded(t) ==
  /\ tool[t].pc = "wait" /\ ~stream.open /\ stream.queue = <<>>
  /\ Return(t, FALSE, NoUuid) /\ Unlock /\ InvalidateCompletion
  /\ UNCHANGED <<server, disturbed, cli, browsed>>

(* The metadata of what was created; it may be gone, or the request fail.  *)
StatTool(t) ==
  /\ tool[t].pc = "stat"
  /\ \/ Find(tool[t].id) # {} /\ Return(t, TRUE, tool[t].id)
     \/ Return(t, FALSE, NoUuid)
  /\ Unlock
  /\ UNCHANGED <<server, disturbed, stream, uncertain, cli, browsed>>

ToolStep(t) ==
  \/ \E p \in Path, c \in Content \cup {Dir} : CallCreate(t, p, c)
  \/ \E id \in drawn : CallDelete(t, id)
  \/ Lock(t) \/ SendMutation(t) \/ Receive(t) \/ TimesOut(t) \/ StreamEnded(t) \/ StatTool(t)
-----------------------------------------------------------------------------
(* The commands.                                                           *)

GotoCmd(c, label) == cmd' = [cmd EXCEPT ![c].pc = label]
(* findMetaByPath: the item the listing of the parent shows at p.          *)
FindMetaByPath(p) == Drive!At(items, p)

StartCommand(c, kind, plan, recursive, label) ==
  /\ cmd[c].pc = "idle"
  /\ cmd' = [cmd EXCEPT ![c].pc = label, ![c].kind = kind, ![c].plan = plan,
                        ![c].recursive = recursive]
  /\ UNCHANGED <<server, disturbed, stream, mcp, local, browsed>>

(* Mkdir with parents: the directories above p and p itself.               *)
Mkdir(c, p) ==
  StartCommand(c, "make", [n \in 1..Len(p) |-> Place(SubSeq(p, 1, n), Dir)], FALSE, "make")

(* handleRecursiveUpload of a directory that holds one file, to p.         *)
UploadTree(c, p, x) ==
  /\ Len(p) = 2
  /\ StartCommand(c, "make", <<Place(ParentPath(p), Dir), Place(p, x)>>, TRUE, "make")

Step(c) == cmd[c].plan[cmd[c].n]

(* CreateDir and CreateFile wait for the creation.                         *)
Make(c) ==
  /\ cmd[c].pc = "make"
  /\ \E answered \in BOOLEAN :
       /\ Sent(Asks(c, cmd[c].n, "create", NoUuid, Step(c), TRUE), answered)
       /\ GotoCmd(c, IF answered THEN "await" ELSE "refused")
  /\ UNCHANGED <<items, drawn, effects, seen, stream, mcp, local, browsed>>

Advance(c) ==
  cmd' = [cmd EXCEPT ![c].pc = IF cmd[c].n = Len(cmd[c].plan) THEN "done" ELSE "make",
                     ![c].n = IF cmd[c].n = Len(cmd[c].plan) THEN @ ELSE @ + 1]

Answered(q) == q.pc = "answer"
Awaits(q) == q.by \in Command /\ cmd[q.by].pc = "await" /\ cmd[q.by].n = q.step

Made(c) ==
  /\ cmd[c].pc = "await"
  /\ \E q \in requests :
       /\ q.by = c /\ Awaits(q) /\ Answered(q)
       /\ requests' = requests \ {q}
       /\ IF q.ok THEN Advance(c) ELSE GotoCmd(c, "refused")
  /\ UNCHANGED <<items, drawn, stream, history, mcp, local, browsed>>

AnswerLost(c) ==
  /\ cmd[c].pc = "await"
  /\ GotoCmd(c, "refused") /\ disturbed' = TRUE
  /\ UNCHANGED <<server, stream, mcp, local, browsed>>

(* A creation that failed is no error when the directory is there.         *)
AcceptsAnything(c) == FindMetaByPath(Step(c).path) # {}
IsThere(c) == Step(c).content = Dir /\ \E i \in FindMetaByPath(Step(c).path) : i.key.dir

LookAgain(c) ==
  /\ cmd[c].pc = "refused"
  /\ \/ /\ IF IsThere(c) THEN Advance(c) ELSE GotoCmd(c, "failed")
        /\ UNCHANGED disturbed
     \/ GotoCmd(c, "failed") /\ disturbed' = TRUE
  /\ UNCHANGED <<server, stream, mcp, local, browsed>>

(* The answer of a request whose client has gone on.                       *)
Discard(q) ==
  /\ Answered(q) /\ ~Awaits(q)
  /\ requests' = requests \ {q}
  /\ UNCHANGED <<items, drawn, stream, history, mcp, cli, browsed>>
-----------------------------------------------------------------------------
(* rm: the item is found by its path and deleted by its identifier.        *)
Rm(c, p, recursive) ==
  StartCommand(c, "remove", <<Place(p, Dir)>>, recursive, "find")

FindToRemove(c) ==
  /\ cmd[c].pc = "find" /\ cmd[c].kind = "remove"
  /\ \/ \E i \in FindMetaByPath(Step(c).path) :
          /\ ~i.key.dir \/ cmd[c].recursive
          /\ cmd' = [cmd EXCEPT ![c].pc = "delete", ![c].id = i.id]
     \/ GotoCmd(c, "failed")
  /\ UNCHANGED <<server, disturbed, stream, mcp, local, browsed>>

(* The identifier the deletion asks for.                                   *)
LooksUpAgain(c) == {i.id : i \in FindMetaByPath(Step(c).path)}
Chosen(c) == {cmd[c].id}

SendDelete(c) ==
  /\ cmd[c].pc = "delete"
  /\ \E answered \in BOOLEAN, id \in Chosen(c) :
       /\ Sent(Asks(c, 1, "delete", id, Nowhere, FALSE), answered)
       /\ GotoCmd(c, IF answered THEN "done" ELSE "failed")
  /\ UNCHANGED <<items, drawn, effects, seen, stream, mcp, local, browsed>>

(* cp of a local file: into the directory that is at the place, if one is. *)
Upload(c, p, x) == StartCommand(c, "upload", <<Place(p, x)>>, FALSE, "find")

FindToUpload(c, name) ==
  /\ cmd[c].pc = "find" /\ cmd[c].kind = "upload"
  /\ LET p == Step(c).path
         into == IF \E i \in FindMetaByPath(p) : i.key.dir THEN Append(p, name) ELSE p IN
       /\ into \in Path
       /\ cmd' = [cmd EXCEPT ![c].pc = "upload", ![c].plan = <<Place(into, Step(c).content)>>]
  /\ UNCHANGED <<server, disturbed, stream, mcp, local, browsed>>

SendUpload(c) ==
  /\ cmd[c].pc = "upload"
  /\ \E answered \in BOOLEAN :
       /\ Sent(Asks(c, 1, "create", NoUuid, Step(c), FALSE), answered)
       /\ GotoCmd(c, IF answered THEN "done" ELSE "failed")
  /\ UNCHANGED <<items, drawn, effects, seen, stream, mcp, local, browsed>>

(* cp on the drive.                                                        *)
CopyOnDrive(c, p, dst) ==
  StartCommand(c, "copy", <<Place(p, Dir), Place(dst, Dir)>>, FALSE, "find")

SendCopy(c) ==
  /\ cmd[c].pc = "find" /\ cmd[c].kind = "copy"
  /\ \E answered \in BOOLEAN, i \in FindMetaByPath(Step(c).path) :
       /\ Sent(Asks(c, 1, "copy", i.id, cmd[c].plan[2], FALSE), answered)
       /\ GotoCmd(c, IF answered THEN "done" ELSE "failed")
  /\ UNCHANGED <<items, drawn, effects, seen, stream, mcp, local, browsed>>

(* cp to local files: the items are found, then for one after the other    *)
(* the size is asked for and the content streamed to a temporary file,     *)
(* which replaces the local one if it is whole.                            *)
Download(c, p, recursive) ==
  StartCommand(c, "download", <<Place(p, Dir)>>, recursive, "find")

FilesOf(i) == {j.id : j \in {j \in Drive!Below(items, {i}) : ~j.key.dir}}

FindToDownload(c) ==
  /\ cmd[c].pc = "find" /\ cmd[c].kind = "download"
  /\ \/ \E i \in FindMetaByPath(Step(c).path) :
          /\ ~i.key.dir \/ cmd[c].recursive
          /\ cmd' = [cmd EXCEPT ![c].pc = "next", ![c].todo = FilesOf(i)]
     \/ GotoCmd(c, "failed")
  /\ UNCHANGED <<server, disturbed, stream, mcp, local, browsed>>

ReadSize(c) ==
  /\ cmd[c].pc = "next" /\ cmd[c].todo # {}
  /\ \/ \E i \in items :
          /\ i.id \in cmd[c].todo
          /\ cmd' = [cmd EXCEPT ![c].pc = "open", ![c].id = i.id, ![c].size = Size[i.content]]
     \/ GotoCmd(c, "failed")
  /\ UNCHANGED <<server, disturbed, stream, mcp, local, browsed>>

OpenStream(c) ==
  /\ cmd[c].pc = "open"
  /\ \/ \E i \in Find(cmd[c].id) :
          cmd' = [cmd EXCEPT ![c].pc = "copy", ![c].read = i.content]
     \/ GotoCmd(c, "failed")
  /\ UNCHANGED <<server, disturbed, stream, mcp, local, browsed>>

(* Backup streams an archive, whose size nobody knows beforehand.          *)
Backup(c) ==
  /\ cmd[c].pc = "idle"
  /\ cmd' = [cmd EXCEPT ![c].pc = "copy", ![c].kind = "backup", ![c].read = Archive]
  /\ UNCHANGED <<server, disturbed, stream, mcp, local, browsed>>

StreamBreaks(c) ==
  /\ cmd[c].pc = "copy" /\ cmd[c].read # Torn
  /\ cmd' = [cmd EXCEPT ![c].read = Torn]
  /\ UNCHANGED <<server, disturbed, stream, mcp, local, browsed>>

(* io.Copy reports a stream that ends early, and the size is compared.     *)
SizeMatches(c) == cmd[c].read \in {Archive, Torn} \/ cmd[c].size = Size[cmd[c].read]
Complete(c) == cmd[c].read # Torn /\ SizeMatches(c)

EndCopy(c) ==
  /\ cmd[c].pc = "copy"
  /\ IF Complete(c)
       THEN /\ local' = [local EXCEPT ![c] = @ \cup {cmd[c].read}]
            /\ cmd' = [cmd EXCEPT ![c].pc = "next", ![c].todo = @ \ {cmd[c].id}]
       ELSE GotoCmd(c, "failed") /\ UNCHANGED local
  /\ UNCHANGED <<server, disturbed, stream, mcp, browsed>>

EndDownload(c) ==
  /\ cmd[c].pc = "next" /\ cmd[c].todo = {}
  /\ GotoCmd(c, "done")
  /\ UNCHANGED <<server, disturbed, stream, mcp, local, browsed>>

CommandStep(c) ==
  \/ \E p \in Path : Mkdir(c, p) \/ \E dst \in Path : CopyOnDrive(c, p, dst)
  \/ \E p \in Path, recursive \in BOOLEAN : Rm(c, p, recursive) \/ Download(c, p, recursive)
  \/ \E p \in Path, x \in Content : UploadTree(c, p, x) \/ Upload(c, p, x)
  \/ Make(c) \/ Made(c) \/ AnswerLost(c) \/ LookAgain(c)
  \/ FindToRemove(c) \/ SendDelete(c)
  \/ (\E p \in Path : FindToUpload(c, p[Len(p)])) \/ SendUpload(c) \/ SendCopy(c)
  \/ FindToDownload(c) \/ ReadSize(c) \/ OpenStream(c) \/ Backup(c) \/ StreamBreaks(c)
  \/ EndCopy(c) \/ EndDownload(c)
-----------------------------------------------------------------------------
(* The web interface: it changes an item, or transfers one, waits for the  *)
(* answer and may name the item it expects to replace.                     *)
Browse(b, op, id, place) ==
  /\ b \notin browsed /\ browsed' = browsed \cup {b}
  /\ Arrive(Asks(b, 1, op, id, place, op \in {"move", "copy"}))
  /\ UNCHANGED <<items, drawn, effects, seen, stream, disturbed, mcp, cli>>

Browses(b, id) ==
  \/ \E x \in Content : Browse(b, "write", id, Place(Root, x))
  \/ Browse(b, "comments", id, Nowhere)
  \/ \E op \in {"move", "copy"}, p \in Path, rep \in drawn \cup {NoUuid, AnyTarget} :
       Browse(b, op, id, Replacing(p, rep))

Next ==
  \/ \E q \in requests : (Handle(q) /\ UNCHANGED <<mcp, cli, browsed>>) \/ Discard(q)
  \/ (Heartbeat \/ StreamEnds) /\ UNCHANGED <<mcp, cli, browsed>>
  \/ \E t \in Tool : ToolStep(t)
  \/ \E c \in Command : CommandStep(c)
  \/ \E b \in Browser, id \in drawn : Browses(b, id)

(* The lock is handed to a call that waits, the client library gets an     *)
(* answer or an error, and the timer of a mutation fires.                  *)
Fairness ==
  \A t \in Tool : /\ WF_vars(Lock(t)) /\ WF_vars(SendMutation(t)) /\ WF_vars(StatTool(t))
                  /\ WF_vars(TimesOut(t))

Spec == Init /\ [][Next]_vars /\ Fairness
-----------------------------------------------------------------------------
(* Properties. *)

TypeOK ==
  /\ \A i \in items : i \in Drive!Item
  /\ Drive!Ids(items) \subseteq drawn /\ drawn \subseteq Id
  /\ \A q \in requests : q.by \in Tool \cup Command \cup Browser
  /\ Len(stream.queue) <= MaxEvents
  /\ mutationMu \in Tool \cup {Nobody} /\ uncertain \in BOOLEAN
  /\ \A t \in Tool : mutationMu = t <=> tool[t].pc \in {"send", "wait", "stat"}

(* A tool that reports success reports the item its own request created or *)
(* deleted, although events name no request, get lost and come late.       *)
ResultIsOwn ==
  TypeOK /\ \A t \in Tool :
    tool[t].pc = "done" /\ tool[t].ok
      => \E e \in effects : e.by = t /\ e.op = tool[t].op /\ e.id = tool[t].id

(* A tool that was called returns, whatever is lost.                       *)
ToolsReturn == \A t \in Tool : tool[t].pc = "lock" ~> tool[t].pc = "done"

(* rm without -r deletes no directory, even when another client replaces   *)
(* the file by a directory after it was looked up.                         *)
RemovesNoDirectory ==
  \A e \in effects :
    e.by \in Command /\ e.op = "delete" /\ ~cmd[e.by].recursive => ~e.dir

(* What a command reports: every place of a plan that succeeded has been   *)
(* as planned; mkdir -p fails for no other reason than a file in its way   *)
(* or something else that happened (another mkdir -p is none); and a local *)
(* file is a whole content or archive.                                     *)
Planned(s) == [path |-> s.path, dir |-> s.content = Dir]
InTheWay(s) == FileKey(s.path) \in seen
ReportsTrue ==
  \A c \in Command :
    /\ cmd[c].kind = "make" /\ cmd[c].pc = "done"
         => \A n \in DOMAIN cmd[c].plan : Planned(cmd[c].plan[n]) \in seen
    /\ cmd[c].kind = "make" /\ ~cmd[c].recursive /\ cmd[c].pc = "failed"
         => disturbed \/ \E n \in DOMAIN cmd[c].plan : InTheWay(cmd[c].plan[n])
    /\ local[c] \subseteq Content \cup {Archive}
=============================================================================
