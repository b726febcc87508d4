----------------------------- MODULE SSEBroker ------------------------------
(***************************************************************************)
(* The broker of server-sent events.  One goroutine, listen, owns the      *)
(* table of clients and serves five channels; Subscribe, Unsubscribe,      *)
(* publish and ClientCount (or Clients) talk to it from other goroutines.  *)
(* A client is one call of Subscribe and the stream that follows it.       *)
(*                                                                         *)
(* A select takes any case that is ready, so listen serves its channels in *)
(* any order.                                                              *)
(***************************************************************************)
EXTENDS Naturals, Sequences, FiniteSets

CONSTANTS
  User,
  Client,            \* streams, each subscribed once
  Caller,            \* other goroutines that publish and count
  Owner,             \* the user of each stream and caller
  MaxClientBuffer,   \* capacity of newClients and closingClients
  MaxMessageBuffer,  \* capacity of message
  BufferSize         \* defaultBufferSize, capacity of a client's channel

ASSUME BrokerAssumption ==
  /\ IsFiniteSet(Client) /\ Client \cap Caller = {}
  /\ Owner \in [Client \cup Caller -> User]
  /\ MaxClientBuffer \in Nat \ {0} /\ MaxMessageBuffer \in Nat \ {0} /\ BufferSize \in Nat \ {0}

VARIABLES
  isRunning,
  done,            \* ctx is cancelled
  listening,       \* the loop of listen runs
  newClients, closingClients, message,   \* the buffered channels
  clients,         \* b.clients
  ready,           \* clients whose ready channel is closed
  ch,              \* messages in each client's channel
  closes,          \* times each client's channel was closed
  leave,           \* how far the Unsubscribe of each client is
  pc,              \* control point of each client and caller
  sending          \* the message it is about to send

flags == <<isRunning, done, listening>>
queues == <<newClients, closingClients, message>>
table == <<clients, ready, ch, closes, leave>>
procs == <<pc, sending>>
vars == <<flags, queues, table, procs>>

Process == Client \cup Caller

(* A message for one client, or for all of the user's (uuid.Nil).  awaited *)
(* are those that had subscribed when it was sent (no part of the code).   *)
(* In a client's channel only the user who sent it matters; the subscribe  *)
(* event is the broker's own.                                              *)
Message == [user : {{u} : u \in User}, to : SUBSET Client, awaited : SUBSET Client]
NoMessage == [user |-> {}, to |-> {}, awaited |-> {}]
Initial == {}

Init ==
  /\ isRunning = TRUE /\ done = FALSE /\ listening = TRUE
  /\ newClients = <<>> /\ closingClients = <<>> /\ message = <<>>
  /\ clients = {} /\ ready = {}
  /\ ch = [c \in Client |-> <<>>] /\ closes = [c \in Client |-> 0]
  /\ leave = [c \in Client |-> "no"]
  /\ pc = [p \in Process |-> "idle"] /\ sending = [p \in Process |-> NoMessage]

Goto(p, label) == pc' = [pc EXCEPT ![p] = label]
-----------------------------------------------------------------------------
(* Subscribe.  (ReturnAtOnce, KeepsClient and other variants that stand    *)
(* before the operator they vary are wrong on purpose: the runs detect     *)
(* them.)                                                                  *)
Subscribe(c) ==
  /\ pc[c] = "idle" /\ isRunning
  /\ Goto(c, "register")
  /\ UNCHANGED <<flags, queues, table, sending>>

Register(c) ==
  /\ pc[c] = "register" /\ Len(newClients) < MaxClientBuffer
  /\ newClients' = Append(newClients, c)
  /\ Goto(c, "wait")
  /\ UNCHANGED <<flags, closingClients, message, table, sending>>

(* Whoever waits for a channel of the broker waits for its end as well.    *)
WaitsForListener == FALSE
GivesUp == done

ReturnAtOnce(c) ==
  /\ pc[c] = "wait"
  /\ Goto(c, "stream")
  /\ UNCHANGED <<flags, queues, table, sending>>
Subscribed(c) ==
  /\ pc[c] = "wait" /\ c \in ready
  /\ Goto(c, "stream")
  /\ UNCHANGED <<flags, queues, table, sending>>

SubscribeFails(c) ==
  /\ pc[c] \in {"register", "wait"} /\ GivesUp
  /\ Goto(c, "ended")
  /\ UNCHANGED <<flags, queues, table, sending>>

(* The stream of the SSE handler: it takes a message, writes and flushes it *)
(* to the connection, and ends when the channel is closed or when that      *)
(* fails.  A client that does not read on keeps it in the write.            *)
Receive(c) ==
  /\ pc[c] = "stream" /\ ch[c] # <<>>
  /\ ch' = [ch EXCEPT ![c] = Tail(@)]
  /\ Goto(c, "write")
  /\ UNCHANGED <<flags, queues, clients, ready, closes, leave, sending>>

WriteTo(c) ==
  /\ pc[c] = "write"
  /\ Goto(c, "stream") \/ Goto(c, "broken")
  /\ UNCHANGED <<flags, queues, table, sending>>

EndOfChannel(c) ==
  /\ pc[c] = "stream" /\ ch[c] = <<>> /\ closes[c] > 0
  /\ Goto(c, "ended")
  /\ UNCHANGED <<flags, queues, table, sending>>

(* External: the request's context ends, and context.AfterFunc calls       *)
(* Unsubscribe in a goroutine of its own, once.  The stream may go on for  *)
(* a while.                                                                *)
Streaming(c) == pc[c] \in {"stream", "beat", "write"}

Unsubscribe(c) ==
  /\ leave[c] = "no" /\ (Streaming(c) \/ pc[c] = "broken")
  /\ leave' = [leave EXCEPT ![c] = IF isRunning THEN "waits" ELSE "over"]
  /\ UNCHANGED <<flags, queues, clients, ready, ch, closes, procs>>

AskToLeave(c) ==
  /\ leave[c] = "waits" /\ Len(closingClients) < MaxClientBuffer
  /\ closingClients' = Append(closingClients, c)
  /\ leave' = [leave EXCEPT ![c] = "over"]
  /\ UNCHANGED <<flags, newClients, message, clients, ready, ch, closes, procs>>

UnsubscribeFails(c) ==
  /\ leave[c] = "waits" /\ GivesUp
  /\ leave' = [leave EXCEPT ![c] = "over"]
  /\ UNCHANGED <<flags, queues, clients, ready, ch, closes, procs>>
-----------------------------------------------------------------------------
(* publish, from another goroutine or for the heartbeat of a stream. *)
Awaited(u, to) ==
  {c \in Client : Owner[c] = u /\ (to = {} \/ c \in to) /\ Streaming(c)}

StartSend(p, to, label) ==
  /\ isRunning
  /\ sending' = [sending EXCEPT ![p] =
       [user |-> {Owner[p]}, to |-> to, awaited |-> Awaited(Owner[p], to)]]
  /\ Goto(p, label)
  /\ UNCHANGED <<flags, queues, table>>

Publish(p, to) == pc[p] = "idle" /\ p \in Caller /\ StartSend(p, to, "send")
Heartbeat(c) == pc[c] = "stream" /\ StartSend(c, {c}, "beat")

After(p) == IF p \in Client THEN "stream" ELSE "idle"

Send(p) ==
  /\ pc[p] \in {"send", "beat"} /\ Len(message) < MaxMessageBuffer
  /\ message' = Append(message, sending[p])
  /\ sending' = [sending EXCEPT ![p] = NoMessage]
  /\ Goto(p, After(p))
  /\ UNCHANGED <<flags, newClients, closingClients, table>>

(* ClientCount and Clients, over a channel without buffer. *)
Count(p) ==
  /\ p \in Caller /\ pc[p] = "idle" /\ isRunning
  /\ Goto(p, "count")
  /\ UNCHANGED <<flags, queues, table, sending>>

CallFails(p) ==
  /\ pc[p] \in {"send", "beat", "count"} /\ GivesUp
  /\ sending' = [sending EXCEPT ![p] = NoMessage]
  /\ Goto(p, After(p))
  /\ UNCHANGED <<flags, queues, table>>
-----------------------------------------------------------------------------
(* listen: one action per case of its select. *)
AddClient ==
  /\ listening /\ newClients # <<>>
  /\ LET c == Head(newClients)
     IN  /\ clients' = clients \cup {c}
         /\ ch' = [ch EXCEPT ![c] = Append(@, Initial)]
         /\ ready' = ready \cup {c}
  /\ newClients' = Tail(newClients)
  /\ UNCHANGED <<flags, closingClients, message, closes, leave, procs>>

KeepsClient ==
  /\ listening /\ closingClients # <<>>
  /\ closes' = [closes EXCEPT ![Head(closingClients)] = @ + 1]
  /\ closingClients' = Tail(closingClients)
  /\ UNCHANGED <<flags, newClients, message, clients, ready, ch, leave, procs>>
RemoveClient ==
  /\ listening /\ closingClients # <<>>
  /\ LET c == Head(closingClients)
     IN  /\ clients' = clients \ {c}
         /\ closes' = IF c \in clients THEN [closes EXCEPT ![c] = @ + 1] ELSE closes
  /\ closingClients' = Tail(closingClients)
  /\ UNCHANGED <<flags, newClients, message, ready, ch, leave, procs>>

AnswerCount(p) ==
  /\ listening /\ pc[p] = "count"
  /\ Goto(p, "idle")
  /\ UNCHANGED <<flags, queues, table, sending>>

AnyOwner(m) == {c \in clients : m.to = {} \/ c \in m.to}
Recipients(m) == {c \in clients : {Owner[c]} = m.user /\ (m.to = {} \/ c \in m.to)}

HasRoom(c) == Len(ch[c]) < BufferSize

(* A message a client has no room for is dropped: listen never blocks.     *)
Dispatch ==
  /\ listening /\ message # <<>>
  /\ LET m == Head(message)
     IN  ch' = [c \in Client |-> IF c \in Recipients(m) /\ HasRoom(c) THEN Append(ch[c], m.user)
                                 ELSE ch[c]]
  /\ message' = Tail(message)
  /\ UNCHANGED <<flags, newClients, closingClients, clients, ready, closes, leave, procs>>

LeavesChannelsOpen ==
  /\ listening /\ done
  /\ listening' = FALSE /\ isRunning' = FALSE
  /\ clients' = {}
  /\ UNCHANGED <<done, queues, ready, ch, closes, leave, procs>>
StopListening ==
  /\ listening /\ done
  /\ listening' = FALSE /\ isRunning' = FALSE
  /\ closes' = [c \in Client |-> IF c \in clients THEN closes[c] + 1 ELSE closes[c]]
  /\ clients' = {}
  /\ UNCHANGED <<done, queues, ready, ch, leave, procs>>

(* Shutdown, and the end of the context the broker was made with. *)
Shutdown ==
  /\ isRunning
  /\ isRunning' = FALSE
  /\ UNCHANGED <<done, listening, queues, table, procs>>
Cancel ==
  /\ ~done
  /\ done' = TRUE
  /\ UNCHANGED <<isRunning, listening, queues, table, procs>>
-----------------------------------------------------------------------------
ClientStep(c) ==
  \/ Subscribe(c) \/ Register(c) \/ Subscribed(c) \/ SubscribeFails(c)
  \/ Receive(c) \/ WriteTo(c) \/ EndOfChannel(c) \/ Heartbeat(c)
  \/ Unsubscribe(c) \/ AskToLeave(c) \/ UnsubscribeFails(c)

Listen == AddClient \/ RemoveClient \/ Dispatch \/ StopListening

Next ==
  \/ \E c \in Client : ClientStep(c)
  \/ \E p \in Caller, to \in {{}} \cup {{c} : c \in Client} : Publish(p, to)
  \/ \E p \in Process : Send(p) \/ CallFails(p)
  \/ \E p \in Caller : Count(p) \/ AnswerCount(p)
  \/ Listen
  \/ Shutdown
  \/ Cancel

(* A select takes a case that stays ready in the end, and a goroutine that *)
(* waits to send gets its turn.  Shutdown cancels the context right after  *)
(* it has cleared isRunning.  A write is not among it: the connection has  *)
(* no write timeout, and its client may stop reading.                      *)
Fairness ==
  /\ WF_vars(AddClient) /\ WF_vars(RemoveClient) /\ WF_vars(Dispatch) /\ WF_vars(StopListening)
  /\ \A p \in Caller : WF_vars(AnswerCount(p))
  /\ \A p \in Process : SF_vars(Send(p)) /\ WF_vars(CallFails(p))
  /\ \A c \in Client : /\ WF_vars(Register(c)) /\ WF_vars(Subscribed(c))
                       /\ WF_vars(SubscribeFails(c))
                       /\ WF_vars(Receive(c)) /\ WF_vars(EndOfChannel(c))
                       /\ WF_vars(AskToLeave(c)) /\ WF_vars(UnsubscribeFails(c))
  /\ WF_vars(~isRunning /\ Cancel)

Spec == Init /\ [][Next]_vars /\ Fairness
-----------------------------------------------------------------------------
(* The queues respect their capacities, the rest has its type. *)
TypeOK ==
  /\ isRunning \in BOOLEAN /\ done \in BOOLEAN /\ listening \in BOOLEAN
  /\ newClients \in Seq(Client) /\ Len(newClients) <= MaxClientBuffer
  /\ closingClients \in Seq(Client) /\ Len(closingClients) <= MaxClientBuffer
  /\ message \in Seq(Message) /\ Len(message) <= MaxMessageBuffer
  /\ clients \subseteq Client /\ ready \subseteq Client
  /\ \A c \in Client : ch[c] \in Seq({Initial} \cup {{u} : u \in User}) /\ Len(ch[c]) <= BufferSize
  /\ closes \in [Client -> Nat] /\ leave \in [Client -> {"no", "waits", "over"}]
  /\ pc \in [Process -> {"idle", "register", "wait", "stream", "beat", "write", "broken",
                         "ended", "send", "count"}]
  /\ sending \in [Process -> Message \cup {NoMessage}]

(* listen never sends on a closed channel and never closes one twice,      *)
(* whatever the order of removals, messages and the shutdown.              *)
ChannelsClosedOnce ==
  TypeOK /\ \A c \in Client : closes[c] <= 1 /\ (c \in clients => closes[c] = 0)

(* A user's streams receive the messages of that user only (Publish,       *)
(* DESIGN.md:134).                                                         *)
OwnMessagesOnly ==
  \A c \in Client : \A i \in DOMAIN ch[c] : ch[c][i] \subseteq {Owner[c]}

(* A client that has got its identifier from Subscribe gets every message  *)
(* sent to it from then on, unless its buffer is full or its channel is    *)
(* closed: listen has registered it by the time Subscribe returns, in      *)
(* whatever order the channels are served.                                 *)
SubscribersGetMessages ==
  [][Dispatch => \A c \in Head(message).awaited :
       closes[c] > 0 \/ ~HasRoom(c) \/ ch'[c] = Append(ch[c], Head(message).user)]_vars

(* Subscribe, Unsubscribe, publish, heartbeats and counts return, also     *)
(* when the broker stops between their check of isRunning and their send,  *)
(* and whatever the clients do with their connections: none waits for ever. *)
CallsReturn ==
  /\ \A p \in Process : []<>(pc[p] \notin {"register", "wait", "send", "beat", "count"})
  /\ \A c \in Client : []<>(leave[c] # "waits")

(* After a shutdown every stream ends, but for one whose write to its own  *)
(* client never returns: neither the broker nor another stream keeps it.   *)
StreamsEnd ==
  <>done => <>[](\A c \in Client : Streaming(c) => pc[c] = "write")
=============================================================================
