-------------------------- MODULE SSEBrokerProofs --------------------------
(***************************************************************************)
(* For any users, streams and capacities: the broker closes every channel  *)
(* at most once and sends on none that is closed, keeps the messages of    *)
(* users apart, and a stream that Subscribe has returned to gets every     *)
(* message sent to it from then on for which it has room.                  *)
(*                                                                         *)
(* A stream passes through the table once: it is queued by its only call   *)
(* of Subscribe, ready as soon as listen has entered it, and leaves the    *)
(* table exactly when its channel is closed (Served).                      *)
(***************************************************************************)
EXTENDS SSEBroker, TLAPS

Content == {Initial} \cup {{u} : u \in User}
Label == {"idle", "register", "wait", "stream", "beat", "write", "broken", "ended", "send",
          "count"}
Typed == TypeOK /\ ch \in [Client -> Seq(Content)]

(* A stream that listen has not seen yet. *)
Fresh(c) == c \notin ready /\ c \notin clients /\ closes[c] = 0 /\ ch[c] = <<>>

Queued ==
  /\ \A i, j \in 1..Len(newClients) : newClients[i] = newClients[j] => i = j
  /\ \A i \in 1..Len(newClients) :
       Fresh(newClients[i]) /\ pc[newClients[i]] \notin {"idle", "register"}

Progress ==
  \A c \in Client :
    /\ pc[c] \notin {"send", "count"}
    /\ pc[c] \in {"idle", "register"} => Fresh(c)
    /\ pc[c] \in {"stream", "beat", "write", "broken"} => c \in ready

Served ==
  \A c \in Client :
    /\ closes[c] \in {0, 1}
    /\ c \in clients => c \in ready /\ closes[c] = 0
    /\ c \in ready => c \in clients \/ closes[c] = 1

(* A message is awaited by streams of its user that are ready. *)
Addressed(m) ==
  \A c \in m.awaited : c \in ready /\ m.user = {Owner[c]} /\ (m.to = {} \/ c \in m.to)
Messages ==
  /\ \A i \in 1..Len(message) : Addressed(message[i])
  /\ \A p \in Process : pc[p] \in {"send", "beat"} => sending[p] \in Message /\ Addressed(sending[p])

IInv == Typed /\ Queued /\ Progress /\ Served /\ Messages /\ OwnMessagesOnly
-----------------------------------------------------------------------------
(* Channels.                                                               *)

LEMMA Appended ==
  ASSUME NEW S, NEW s \in Seq(S), NEW e \in S
  PROVE  /\ Append(s, e) \in Seq(S) /\ Len(Append(s, e)) = Len(s) + 1 /\ Len(s) \in Nat
         /\ DOMAIN s = 1..Len(s) /\ DOMAIN Append(s, e) = 1..(Len(s) + 1)
         /\ \A i \in 1..(Len(s) + 1) : Append(s, e)[i] = IF i = Len(s) + 1 THEN e ELSE s[i]
OBVIOUS

LEMMA Taken ==
  ASSUME NEW S, NEW s \in Seq(S), s # <<>>
  PROVE  /\ Head(s) = s[1] /\ Head(s) \in S /\ Tail(s) \in Seq(S)
         /\ Len(s) \in Nat \ {0} /\ Len(Tail(s)) = Len(s) - 1
         /\ DOMAIN s = 1..Len(s) /\ DOMAIN Tail(s) = 1..(Len(s) - 1)
         /\ \A i \in 1..(Len(s) - 1) : Tail(s)[i] = s[i + 1]
OBVIOUS

LEMMA InitInv == Init => IInv
<1> SUFFICES ASSUME Init PROVE IInv
  OBVIOUS
<1> USE DEF Init
<1>1. /\ newClients = <<>> /\ closingClients = <<>> /\ message = <<>>
      /\ Len(newClients) = 0 /\ Len(closingClients) = 0 /\ Len(message) = 0
  OBVIOUS
<1>2. ch \in [Client -> Seq(Content)] /\ \A c \in Client : ch[c] = <<>> /\ Len(ch[c]) = 0
  OBVIOUS
<1>3. TypeOK
  <2>1. newClients \in Seq(Client) /\ closingClients \in Seq(Client) /\ message \in Seq(Message)
    BY <1>1
  <2>2. \A c \in Client : ch[c] \in Seq(Content) /\ Len(ch[c]) <= BufferSize
    BY <1>2, BrokerAssumption
  <2>3. closes \in [Client -> Nat] /\ leave \in [Client -> {"no", "waits", "over"}]
    OBVIOUS
  <2>4. /\ pc \in [Process -> {"idle", "register", "wait", "stream", "beat", "write", "broken",
                              "ended", "send", "count"}]
        /\ sending \in [Process -> Message \cup {NoMessage}]
    OBVIOUS
  <2>5. /\ Len(newClients) <= MaxClientBuffer /\ Len(closingClients) <= MaxClientBuffer
        /\ Len(message) <= MaxMessageBuffer
    BY <1>1, BrokerAssumption
  <2> QED
    BY <2>1, <2>2, <2>3, <2>4, <2>5 DEF TypeOK, Content
<1>4. Queued
  BY <1>1 DEF Queued
<1>5. Progress
  BY <1>2 DEF Progress, Fresh, Process
<1>6. Served
  BY DEF Served
<1>7. Messages
  BY <1>1 DEF Messages
<1>8. OwnMessagesOnly
  BY <1>2 DEF OwnMessagesOnly
<1> QED
  BY <1>2, <1>3, <1>4, <1>5, <1>6, <1>7, <1>8 DEF IInv, Typed
-----------------------------------------------------------------------------
(* Steps of one goroutine that touch neither the queues nor the table.     *)
LEMMA ProcessStep ==
  ASSUME IInv, NEW p \in Process, NEW label \in Label, NEW m \in Message \cup {NoMessage},
         UNCHANGED <<flags, queues, table>>,
         pc' = [pc EXCEPT ![p] = label], sending' = [sending EXCEPT ![p] = m],
         label \in {"send", "beat"} => m \in Message /\ Addressed(m),
         p \in Client => /\ label \notin {"send", "count"}
                         /\ label \in {"idle", "register"} => pc[p] \in {"idle", "register"}
                         /\ label \in {"stream", "beat", "write", "broken"} => p \in ready
  PROVE  IInv'
<1> USE DEF flags, queues, table
<1>1. \A q \in Process : /\ pc'[q] = IF q = p THEN label ELSE pc[q]
                         /\ sending'[q] = IF q = p THEN m ELSE sending[q]
  BY DEF IInv, Typed, TypeOK
<1>2. Typed'
  BY DEF IInv, Typed, TypeOK, Label
<1>3. \A c \in Client : c \in Process /\ (Fresh(c) => Fresh(c)')
  BY DEF Process, Fresh
<1>4. Progress'
  BY <1>1, <1>3 DEF IInv, Progress
<1>5. Queued'
  <2>1. \A i \in 1..Len(newClients) : newClients[i] \in Client
    BY DEF IInv, Typed, TypeOK
  <2> QED
    BY <1>1, <1>3, <2>1 DEF IInv, Queued
<1>6. Served' /\ OwnMessagesOnly'
  BY DEF IInv, Served, OwnMessagesOnly
<1>7. Messages'
  BY <1>1 DEF IInv, Messages, Addressed
<1> QED
  BY <1>2, <1>4, <1>5, <1>6, <1>7 DEF IInv

LEMMA SameSending ==
  ASSUME IInv, NEW p \in Process
  PROVE  /\ sending[p] \in Message \cup {NoMessage} /\ sending = [sending EXCEPT ![p] = sending[p]]
         /\ p \in Client => p \notin Caller
BY BrokerAssumption DEF IInv, Typed, TypeOK

(* The steps of a stream's goroutine between the channels.                 *)
LEMMA ClientSteps ==
  ASSUME IInv, NEW c \in Client,
         \/ Subscribe(c) \/ Subscribed(c) \/ SubscribeFails(c) \/ EndOfChannel(c) \/ WriteTo(c)
  PROVE  IInv'
<1>1. c \in Process /\ UNCHANGED <<flags, queues, table, sending>>
  BY DEF Process, Subscribe, Subscribed, SubscribeFails, EndOfChannel, WriteTo
<1>2. PICK label \in {"register", "stream", "broken", "ended"} :
        /\ pc' = [pc EXCEPT ![c] = label]
        /\ label = "register" => pc[c] = "idle"
        /\ label \in {"stream", "broken"} => c \in ready
  BY DEF Subscribe, Subscribed, SubscribeFails, EndOfChannel, WriteTo, Goto, IInv, Progress
<1>3. sending' = [sending EXCEPT ![c] = sending[c]] /\ sending[c] \in Message \cup {NoMessage}
  BY <1>1, SameSending
<1> QED
  BY <1>1, <1>2, <1>3, ProcessStep DEF Label

LEMMA CallerSteps ==
  ASSUME IInv, NEW p \in Caller, Count(p) \/ AnswerCount(p)
  PROVE  IInv'
<1>1. p \in Process /\ UNCHANGED <<flags, queues, table, sending>> /\ p \notin Client
  BY BrokerAssumption DEF Process, Count, AnswerCount
<1>2. PICK label \in {"count", "idle"} : pc' = [pc EXCEPT ![p] = label]
  BY DEF Count, AnswerCount, Goto
<1>3. sending' = [sending EXCEPT ![p] = sending[p]] /\ sending[p] \in Message \cup {NoMessage}
  BY <1>1, SameSending
<1> QED
  BY <1>1, <1>2, <1>3, ProcessStep DEF Label

(* What is published awaits streams that Subscribe has returned to.        *)
LEMMA StartSendStep ==
  ASSUME IInv, NEW p \in Process, NEW to \in SUBSET Client, NEW label \in {"send", "beat"},
         StartSend(p, to, label), p \in Client => label = "beat" /\ pc[p] = "stream"
  PROVE  IInv'
<1> DEFINE m == [user |-> {Owner[p]}, to |-> to, awaited |-> Awaited(Owner[p], to)]
<1>1. m \in Message /\ Addressed(m)
  <2>1. Owner[p] \in User /\ Awaited(Owner[p], to) \in SUBSET Client
    BY BrokerAssumption DEF Process, Awaited
  <2>2. m \in Message
    BY <2>1 DEF Message
  <2>3. \A c \in Awaited(Owner[p], to) : c \in ready /\ Owner[c] = Owner[p] /\ (to = {} \/ c \in to)
    BY DEF Awaited, Streaming, IInv, Progress
  <2> QED
    BY <2>2, <2>3 DEF Addressed
<1>2. /\ UNCHANGED <<flags, queues, table>>
      /\ pc' = [pc EXCEPT ![p] = label] /\ sending' = [sending EXCEPT ![p] = m]
  BY DEF StartSend, Goto
<1>3. p \in Client => p \in ready
  BY DEF IInv, Progress
<1> HIDE DEF m
<1> QED
  BY <1>1, <1>2, <1>3, ProcessStep DEF Label

LEMMA PublishStep ==
  ASSUME IInv, NEW p \in Caller, NEW to \in {{}} \cup {{c} : c \in Client}, Publish(p, to)
  PROVE  IInv'
BY StartSendStep, BrokerAssumption DEF Publish, Process

LEMMA HeartbeatStep == ASSUME IInv, NEW c \in Client, Heartbeat(c) PROVE IInv'
BY StartSendStep DEF Heartbeat, Process

LEMMA CallFailsStep == ASSUME IInv, NEW p \in Process, CallFails(p) PROVE IInv'
<1>1. /\ UNCHANGED <<flags, queues, table>>
      /\ pc' = [pc EXCEPT ![p] = After(p)] /\ sending' = [sending EXCEPT ![p] = NoMessage]
      /\ pc[p] \in {"send", "beat", "count"}
  BY DEF CallFails, Goto
<1>2. /\ After(p) \in Label /\ After(p) \notin {"send", "beat", "count", "register", "write", "broken"}
      /\ p \in Client => After(p) = "stream" /\ p \in ready
  BY <1>1 DEF After, Label, IInv, Progress
<1> QED
  BY <1>1, <1>2, ProcessStep
-----------------------------------------------------------------------------
(* The queues.                                                             *)
LEMMA RegisterStep == ASSUME IInv, NEW c \in Client, Register(c) PROVE IInv'
<1> USE DEF flags, table
<1>1. /\ pc[c] = "register" /\ Len(newClients) < MaxClientBuffer
      /\ newClients' = Append(newClients, c) /\ pc' = [pc EXCEPT ![c] = "wait"]
      /\ UNCHANGED <<flags, closingClients, message, table, sending>>
  BY DEF Register, Goto
<1>2. newClients \in Seq(Client) /\ c \in Process
        /\ \A i \in 1..Len(newClients) : newClients[i] \in Client
  BY DEF Process, IInv, Typed, TypeOK
<1>3. /\ newClients' \in Seq(Client) /\ Len(newClients') = Len(newClients) + 1
      /\ Len(newClients) \in Nat
      /\ \A i \in 1..Len(newClients') :
           newClients'[i] = IF i = Len(newClients) + 1 THEN c ELSE newClients[i]
  BY <1>1, <1>2, Appended
<1>4. \A q \in Process : pc'[q] = IF q = c THEN "wait" ELSE pc[q]
  BY <1>1 DEF IInv, Typed, TypeOK
<1>5. Typed'
  <2>1. Len(newClients') <= MaxClientBuffer
    BY <1>1, <1>3, BrokerAssumption
  <2> QED
    BY <1>1, <1>3, <2>1 DEF IInv, Typed, TypeOK
<1>6. \A d \in Client : d \in Process /\ (Fresh(d) => Fresh(d)')
  BY <1>1 DEF Process, Fresh
<1>7. Queued'
  <2>1. \A i \in 1..Len(newClients) : newClients[i] # c
    BY <1>1 DEF IInv, Queued
  <2>2. Fresh(c) /\ c \notin ready
    BY <1>1 DEF IInv, Progress, Fresh
  <2>3. \A i, j \in 1..Len(newClients') : newClients'[i] = newClients'[j] => i = j
    BY <1>3, <2>1 DEF IInv, Queued
  <2>4. \A i \in 1..Len(newClients') :
          Fresh(newClients'[i]) /\ newClients'[i] \in Client
            /\ pc'[newClients'[i]] \notin {"idle", "register"}
    BY <1>2, <1>3, <1>4, <1>6, <2>2 DEF IInv, Queued
  <2> QED
    BY <1>6, <2>3, <2>4 DEF Queued
<1>8. Progress'
  BY <1>4, <1>6, <1>1 DEF IInv, Progress
<1>9. Served' /\ OwnMessagesOnly'
  BY <1>1 DEF IInv, Served, OwnMessagesOnly
<1>10. Messages'
  BY <1>1, <1>4 DEF IInv, Messages, Addressed
<1> QED
  BY <1>5, <1>7, <1>8, <1>9, <1>10 DEF IInv

(* The goroutine that context.AfterFunc starts for a stream.               *)
LEMMA LeaveSteps ==
  ASSUME IInv, NEW c \in Client, Unsubscribe(c) \/ AskToLeave(c) \/ UnsubscribeFails(c)
  PROVE  IInv'
<1> USE DEF flags, procs
<1>1. /\ UNCHANGED <<flags, newClients, message, clients, ready, ch, closes, procs>>
      /\ leave' \in [Client -> {"no", "waits", "over"}]
  BY DEF Unsubscribe, AskToLeave, UnsubscribeFails, queues, IInv, Typed, TypeOK
<1>2. closingClients' \in Seq(Client) /\ Len(closingClients') <= MaxClientBuffer
  <2>1. CASE AskToLeave(c)
    BY <2>1, Appended, BrokerAssumption DEF AskToLeave, IInv, Typed, TypeOK
  <2>2. CASE Unsubscribe(c) \/ UnsubscribeFails(c)
    BY <2>2 DEF Unsubscribe, UnsubscribeFails, queues, IInv, Typed, TypeOK
  <2> QED
    BY <2>1, <2>2
<1>3. Typed'
  BY <1>1, <1>2 DEF IInv, Typed, TypeOK
<1>4. Queued' /\ Progress' /\ Served' /\ OwnMessagesOnly'
  BY <1>1 DEF IInv, Queued, Progress, Fresh, Served, OwnMessagesOnly
<1>5. Messages'
  BY <1>1 DEF IInv, Messages, Addressed
<1> QED
  BY <1>3, <1>4, <1>5 DEF IInv

LEMMA SendStep == ASSUME IInv, NEW p \in Process, Send(p) PROVE IInv'
<1> USE DEF flags, table
<1>1. /\ pc[p] \in {"send", "beat"} /\ Len(message) < MaxMessageBuffer
      /\ message' = Append(message, sending[p])
      /\ sending' = [sending EXCEPT ![p] = NoMessage] /\ pc' = [pc EXCEPT ![p] = After(p)]
      /\ UNCHANGED <<flags, newClients, closingClients, table>>
  BY DEF Send, Goto
<1>2. /\ After(p) \in Label /\ After(p) \notin {"send", "beat", "count", "register", "write", "broken"}
      /\ p \in Client => After(p) = "stream" /\ p \in ready /\ pc[p] = "beat"
  BY <1>1 DEF After, Label, IInv, Progress
<1>3. sending[p] \in Message /\ Addressed(sending[p]) /\ message \in Seq(Message)
  BY <1>1 DEF IInv, Typed, TypeOK, Messages
<1>4. /\ message' \in Seq(Message) /\ Len(message') = Len(message) + 1 /\ Len(message) \in Nat
      /\ \A i \in 1..Len(message') :
           message'[i] = IF i = Len(message) + 1 THEN sending[p] ELSE message[i]
  BY <1>1, <1>3, Appended
<1>5. \A q \in Process : /\ pc'[q] = IF q = p THEN After(p) ELSE pc[q]
                         /\ sending'[q] = IF q = p THEN NoMessage ELSE sending[q]
  BY <1>1 DEF IInv, Typed, TypeOK
<1>6. Typed'
  <2>1. Len(message') <= MaxMessageBuffer
    BY <1>1, <1>4, BrokerAssumption
  <2> QED
    BY <1>1, <1>2, <1>4, <2>1 DEF IInv, Typed, TypeOK, Label
<1>7. \A d \in Client : d \in Process /\ (Fresh(d) => Fresh(d)')
  BY <1>1 DEF Process, Fresh
<1>8. Queued'
  <2>1. \A i \in 1..Len(newClients) : newClients[i] \in Client
    BY DEF IInv, Typed, TypeOK
  <2> QED
    BY <1>1, <1>2, <1>5, <1>7, <2>1 DEF IInv, Queued
<1>9. Progress'
  BY <1>1, <1>2, <1>5, <1>7 DEF IInv, Progress
<1>10. Served' /\ OwnMessagesOnly'
  BY <1>1 DEF IInv, Served, OwnMessagesOnly
<1>11. Messages'
  <2>1. \A m : Addressed(m) => Addressed(m)'
    BY <1>1 DEF Addressed
  <2>2. \A i \in 1..Len(message') : Addressed(message'[i])
    BY <1>3, <1>4 DEF IInv, Messages
  <2>3. \A q \in Process : pc'[q] \in {"send", "beat"} =>
          sending'[q] \in Message /\ Addressed(sending'[q])
    BY <1>2, <1>5 DEF IInv, Messages
  <2> QED
    BY <2>1, <2>2, <2>3 DEF Messages
<1> QED
  BY <1>6, <1>8, <1>9, <1>10, <1>11 DEF IInv

LEMMA ReceiveStep == ASSUME IInv, NEW c \in Client, Receive(c) PROVE IInv'
<1> USE DEF flags, queues
<1>1. /\ pc[c] = "stream" /\ ch[c] # <<>> /\ ch' = [ch EXCEPT ![c] = Tail(@)]
      /\ UNCHANGED <<flags, queues, clients, ready, closes, leave, sending>>
      /\ pc' = [pc EXCEPT ![c] = "write"]
  BY DEF Receive, Goto
<1>2. c \in ready
  BY <1>1 DEF IInv, Progress
<1>3. ch[c] \in Seq(Content) /\ c \in Process
  BY DEF IInv, Typed, Process
<1>4. /\ Tail(ch[c]) \in Seq(Content) /\ Len(ch[c]) \in Nat \ {0}
      /\ Len(Tail(ch[c])) = Len(ch[c]) - 1
      /\ DOMAIN ch[c] = 1..Len(ch[c]) /\ DOMAIN Tail(ch[c]) = 1..(Len(ch[c]) - 1)
      /\ \A i \in 1..(Len(ch[c]) - 1) : Tail(ch[c])[i] = ch[c][i + 1]
  BY <1>1, <1>3, Taken
<1>5. \A d \in Client : ch'[d] = IF d = c THEN Tail(ch[c]) ELSE ch[d]
  BY <1>1 DEF IInv, Typed
<1>6. \A q \in Process : pc'[q] = pc[q] \/ (q = c /\ pc'[q] = "write")
  BY <1>1, <1>3 DEF IInv, Typed, TypeOK
<1>7. Typed'
  <2>1. ch' \in [Client -> Seq(Content)]
    BY <1>1, <1>4 DEF IInv, Typed
  <2>2. \A d \in Client : ch'[d] \in Seq(Content) /\ Len(ch'[d]) <= BufferSize
    <3>1. \A d \in Client : ch[d] \in Seq(Content) /\ Len(ch[d]) \in Nat
      BY DEF IInv, Typed
    <3>2. \A d \in Client : Len(ch[d]) <= BufferSize
      BY DEF IInv, Typed, TypeOK
    <3>3. Len(Tail(ch[c])) <= BufferSize
      BY <1>4, <3>2, BrokerAssumption
    <3> HIDE DEF Content
    <3> QED
      BY <1>4, <1>5, <3>1, <3>2, <3>3
  <2>3. pc' \in [Process -> {"idle", "register", "wait", "stream", "beat", "write", "broken", "ended",
                             "send", "count"}]
    BY <1>1 DEF IInv, Typed, TypeOK
  <2> QED
    BY <1>1, <2>1, <2>2, <2>3 DEF IInv, Typed, TypeOK, Content
<1>8. \A d \in Client : d \in Process /\ (Fresh(d) => d # c /\ Fresh(d)')
  BY <1>1, <1>2, <1>5 DEF Process, Fresh
<1>9. Queued'
  <2>1. \A i \in 1..Len(newClients) : newClients[i] \in Client
    BY DEF IInv, Typed, TypeOK
  <2> QED
    BY <1>1, <1>6, <1>8, <2>1 DEF IInv, Queued
<1>10. Progress'
  BY <1>1, <1>2, <1>6, <1>8 DEF IInv, Progress
<1>11. Served'
  BY <1>1 DEF IInv, Served
<1>12. Messages'
  BY <1>1, <1>6 DEF IInv, Messages, Addressed
<1>13. OwnMessagesOnly'
  <2>1. \A i \in 1..(Len(ch[c]) - 1) : i + 1 \in 1..Len(ch[c])
    BY <1>4
  <2>2. \A i \in 1..Len(ch[c]) : ch[c][i] \subseteq {Owner[c]}
    BY <1>4 DEF IInv, OwnMessagesOnly
  <2>3. \A i \in DOMAIN ch'[c] : ch'[c][i] \subseteq {Owner[c]}
    <3>1. ch'[c] = Tail(ch[c]) /\ DOMAIN ch'[c] = 1..(Len(ch[c]) - 1)
      BY <1>4, <1>5
    <3> QED
      BY <1>4, <2>1, <2>2, <3>1
  <2> QED
    BY <1>5, <2>3 DEF IInv, OwnMessagesOnly
<1> QED
  BY <1>7, <1>9, <1>10, <1>11, <1>12, <1>13 DEF IInv
-----------------------------------------------------------------------------
(* The cases of listen.                                                    *)
LEMMA AddClientStep == ASSUME IInv, AddClient PROVE IInv'
<1> USE DEF flags, procs
<1> DEFINE c == Head(newClients)
<1>1. /\ newClients # <<>> /\ clients' = clients \cup {c} /\ ready' = ready \cup {c}
      /\ ch' = [ch EXCEPT ![c] = Append(@, Initial)] /\ newClients' = Tail(newClients)
      /\ UNCHANGED <<flags, closingClients, message, closes, leave, procs>>
  BY DEF AddClient
<1>2. newClients \in Seq(Client)
  BY DEF IInv, Typed, TypeOK
<1>3. /\ c = newClients[1] /\ c \in Client /\ newClients' \in Seq(Client)
      /\ Len(newClients) \in Nat \ {0} /\ Len(newClients') = Len(newClients) - 1
      /\ \A i \in 1..(Len(newClients) - 1) : newClients'[i] = newClients[i + 1]
  BY <1>1, <1>2, Taken
<1> HIDE DEF c
<1>4. 1 \in 1..Len(newClients) /\ \A i \in 1..Len(newClients') :
        i + 1 \in 1..Len(newClients) /\ i + 1 # 1 /\ newClients'[i] = newClients[i + 1]
  BY <1>3
<1>5. Fresh(c) /\ pc[c] \notin {"idle", "register"}
  BY <1>3, <1>4 DEF IInv, Queued
<1>6. \A d \in Client : ch'[d] = IF d = c THEN <<Initial>> ELSE ch[d]
  BY <1>1, <1>5 DEF IInv, Typed, Fresh
<1>7. \A d \in Client : d # c /\ Fresh(d) => Fresh(d)'
  BY <1>1, <1>6 DEF Fresh
<1>8. Typed'
  <2>1. <<Initial>> \in Seq(Content) /\ Len(<<Initial>>) = 1 /\ 1 <= BufferSize
    BY BrokerAssumption DEF Content
  <2>2. \A d \in Client : ch[d] \in Seq(Content)
    BY DEF IInv, Typed
  <2>3. \A d \in Client : Len(ch[d]) <= BufferSize
    BY DEF IInv, Typed, TypeOK
  <2>4. \A d \in Client : ch'[d] \in Seq(Content) /\ Len(ch'[d]) <= BufferSize
    <3> HIDE DEF Content
    <3> QED
      BY <1>6, <2>1, <2>2, <2>3
  <2>5. ch' \in [Client -> Seq(Content)]
    <3>1. ch' = [d \in Client |-> ch'[d]]
      BY <1>1 DEF IInv, Typed
    <3> HIDE DEF Content
    <3> QED
      BY <2>4, <3>1
  <2>6. Len(newClients') <= MaxClientBuffer
    BY <1>3, BrokerAssumption DEF IInv, Typed, TypeOK
  <2> QED
    BY <1>1, <1>3, <2>4, <2>5, <2>6 DEF IInv, Typed, TypeOK, Content
<1>9. Queued'
  <2>1. \A i, j \in 1..Len(newClients') : newClients'[i] = newClients'[j] => i = j
    BY <1>3, <1>4 DEF IInv, Queued
  <2>2. \A i \in 1..Len(newClients') :
          newClients'[i] # c /\ newClients'[i] \in Client /\ Fresh(newClients'[i])
            /\ pc[newClients'[i]] \notin {"idle", "register"}
    BY <1>2, <1>3, <1>4 DEF IInv, Queued
  <2> QED
    BY <1>1, <1>7, <2>1, <2>2 DEF Queued
<1>10. Progress'
  BY <1>1, <1>5, <1>7 DEF IInv, Progress
<1>11. Served'
  BY <1>1, <1>5 DEF IInv, Served, Fresh
<1>12. Messages'
  BY <1>1 DEF IInv, Messages, Addressed
<1>13. OwnMessagesOnly'
  <2>1. \A i \in DOMAIN <<Initial>> : <<Initial>>[i] \subseteq {Owner[c]}
    BY DEF Initial
  <2> QED
    BY <1>6, <2>1 DEF IInv, OwnMessagesOnly
<1> QED
  BY <1>8, <1>9, <1>10, <1>11, <1>12, <1>13 DEF IInv

LEMMA RemoveClientStep == ASSUME IInv, RemoveClient PROVE IInv'
<1> USE DEF flags, procs
<1> DEFINE c == Head(closingClients)
<1>1. /\ closingClients # <<>> /\ clients' = clients \ {c}
      /\ closes' = IF c \in clients THEN [closes EXCEPT ![c] = @ + 1] ELSE closes
      /\ closingClients' = Tail(closingClients)
      /\ UNCHANGED <<flags, newClients, message, ready, ch, leave, procs>>
  BY DEF RemoveClient
<1>2. /\ c \in Client /\ closingClients' \in Seq(Client)
      /\ Len(closingClients) \in Nat \ {0} /\ Len(closingClients') = Len(closingClients) - 1
  BY <1>1, Taken DEF IInv, Typed, TypeOK
<1> HIDE DEF c
<1>3. /\ closes' \in [Client -> Nat]
      /\ \A d \in Client : closes'[d] = IF d = c /\ c \in clients THEN 1 ELSE closes[d]
  BY <1>1, <1>2 DEF IInv, Typed, TypeOK, Served
<1>4. \A d \in Client : Fresh(d) => Fresh(d)'
  BY <1>1, <1>3 DEF Fresh
<1>5. Typed'
  <2>1. Len(closingClients') <= MaxClientBuffer
    BY <1>2, BrokerAssumption DEF IInv, Typed, TypeOK
  <2> QED
    BY <1>1, <1>2, <1>3, <2>1 DEF IInv, Typed, TypeOK
<1>6. Queued'
  <2>1. \A i \in 1..Len(newClients) : newClients[i] \in Client
    BY DEF IInv, Typed, TypeOK
  <2> QED
    BY <1>1, <1>4, <2>1 DEF IInv, Queued
<1>7. Progress'
  BY <1>1, <1>4 DEF IInv, Progress
<1>8. Served'
  BY <1>1, <1>3 DEF IInv, Served
<1>9. Messages' /\ OwnMessagesOnly'
  BY <1>1 DEF IInv, Messages, Addressed, OwnMessagesOnly
<1> QED
  BY <1>5, <1>6, <1>7, <1>8, <1>9 DEF IInv

(* The first message in the queue, and what its dispatch does.             *)
LEMMA Dispatched ==
  ASSUME IInv, Dispatch
  PROVE  LET m == Head(message)
         IN  /\ m \in Message /\ Addressed(m)
             /\ \A c \in Recipients(m) : c \in clients /\ m.user = {Owner[c]}
             /\ \A c \in Client : ch'[c] = IF c \in Recipients(m) /\ HasRoom(c)
                                           THEN Append(ch[c], m.user) ELSE ch[c]
             /\ message' = Tail(message) /\ message' \in Seq(Message)
             /\ Len(message') <= MaxMessageBuffer
             /\ \A i \in 1..Len(message') : Addressed(message'[i])
             /\ UNCHANGED <<flags, newClients, closingClients, clients, ready, closes, leave, procs>>
<1> DEFINE m == Head(message)
<1>1. /\ message # <<>> /\ message \in Seq(Message) /\ message' = Tail(message)
      /\ UNCHANGED <<flags, newClients, closingClients, clients, ready, closes, leave, procs>>
  BY DEF Dispatch, IInv, Typed, TypeOK
<1>2. /\ m = message[1] /\ m \in Message /\ message' \in Seq(Message)
      /\ Len(message) \in Nat \ {0} /\ Len(message') = Len(message) - 1
      /\ \A i \in 1..(Len(message) - 1) : message'[i] = message[i + 1]
  BY <1>1, Taken
<1>3. 1 \in 1..Len(message) /\ \A i \in 1..Len(message') :
        i + 1 \in 1..Len(message) /\ message'[i] = message[i + 1]
  BY <1>2
<1>4. Addressed(m) /\ \A i \in 1..Len(message') : Addressed(message'[i])
  BY <1>2, <1>3 DEF IInv, Messages
<1>5. Len(message') <= MaxMessageBuffer
  BY <1>2, BrokerAssumption DEF IInv, Typed, TypeOK
<1>6. \A c \in Client : ch'[c] = IF c \in Recipients(m) /\ HasRoom(c)
                                 THEN Append(ch[c], m.user) ELSE ch[c]
  BY DEF Dispatch
<1>7. \A c \in Recipients(m) : c \in clients /\ m.user = {Owner[c]}
  BY DEF Recipients
<1> QED
  BY <1>1, <1>2, <1>4, <1>5, <1>6, <1>7

LEMMA DispatchStep == ASSUME IInv, Dispatch PROVE IInv'
<1> USE DEF flags, procs
<1> DEFINE m == Head(message)
           Served1(c) == c \in Recipients(m) /\ HasRoom(c)
<1>1. /\ \A c \in Recipients(m) : c \in clients /\ m.user = {Owner[c]}
      /\ \A c \in Client : ch'[c] = IF Served1(c) THEN Append(ch[c], m.user) ELSE ch[c]
      /\ message' \in Seq(Message) /\ Len(message') <= MaxMessageBuffer
      /\ \A i \in 1..Len(message') : Addressed(message'[i])
      /\ UNCHANGED <<flags, newClients, closingClients, clients, ready, closes, leave, procs>>
  BY Dispatched
<1>2. ch' = [c \in Client |-> ch'[c]]
  BY DEF Dispatch
<1> HIDE DEF m
<1>3. \A c \in Client : ch[c] \in Seq(Content)
  BY DEF IInv, Typed
<1>4. \A c \in Client : Len(ch[c]) <= BufferSize
  BY DEF IInv, Typed, TypeOK
<1>5. \A c \in Client : Served1(c) => m.user \in Content /\ m.user = {Owner[c]} /\ c \in clients
  BY <1>1, BrokerAssumption DEF Content
<1>6. \A c \in Client : Served1(c) => Len(ch[c]) < BufferSize
  BY DEF HasRoom
<1> HIDE DEF Served1, Content
<1>7. ASSUME NEW c \in Client, Served1(c)
      PROVE  /\ ch'[c] \in Seq(Content) /\ Len(ch'[c]) <= BufferSize
             /\ \A i \in DOMAIN ch'[c] : ch'[c][i] \subseteq {Owner[c]}
  <2>0. ch'[c] = Append(ch[c], m.user) /\ m.user \in Content /\ ch[c] \in Seq(Content)
    BY <1>1, <1>3, <1>5, <1>7
  <2>1. /\ ch'[c] \in Seq(Content) /\ Len(ch'[c]) = Len(ch[c]) + 1 /\ Len(ch[c]) \in Nat
        /\ DOMAIN ch[c] = 1..Len(ch[c]) /\ DOMAIN ch'[c] = 1..(Len(ch[c]) + 1)
        /\ \A i \in 1..(Len(ch[c]) + 1) :
             ch'[c][i] = IF i = Len(ch[c]) + 1 THEN m.user ELSE ch[c][i]
    BY <2>0, Appended
  <2>2. \A i \in 1..Len(ch[c]) : ch[c][i] \subseteq {Owner[c]}
    BY <2>1 DEF IInv, OwnMessagesOnly
  <2>3. m.user \subseteq {Owner[c]} /\ Len(ch[c]) < BufferSize
    BY <1>5, <1>6, <1>7
  <2>4. Len(ch'[c]) <= BufferSize
    BY <2>1, <2>3, BrokerAssumption
  <2>5. ASSUME NEW i \in 1..(Len(ch[c]) + 1) PROVE ch'[c][i] \subseteq {Owner[c]}
    <3>1. CASE i = Len(ch[c]) + 1
      BY <2>1, <2>3, <3>1
    <3>2. CASE i # Len(ch[c]) + 1
      <4>1. i \in 1..Len(ch[c]) /\ ch'[c][i] = ch[c][i]
        BY <2>1, <3>2
      <4> QED
        BY <2>2, <4>1
    <3> QED
      BY <3>1, <3>2
  <2> QED
    BY <2>1, <2>4, <2>5
<1>8. Typed'
  <2>1. \A c \in Client : ch'[c] \in Seq(Content) /\ Len(ch'[c]) <= BufferSize
    BY <1>1, <1>3, <1>4, <1>7
  <2>2. ch' \in [Client -> Seq(Content)]
    BY <1>2, <2>1
  <2> QED
    BY <1>1, <2>1, <2>2 DEF IInv, Typed, TypeOK, Content
<1>9. \A c \in Client : Fresh(c) => Fresh(c)'
  BY <1>1, <1>5 DEF Fresh
<1>10. Queued'
  <2>1. \A i \in 1..Len(newClients) : newClients[i] \in Client
    BY DEF IInv, Typed, TypeOK
  <2> QED
    BY <1>1, <1>9, <2>1 DEF IInv, Queued
<1>11. Progress'
  BY <1>1, <1>9 DEF IInv, Progress
<1>12. Served'
  BY <1>1 DEF IInv, Served
<1>13. Messages'
  BY <1>1 DEF IInv, Messages, Addressed
<1>14. OwnMessagesOnly'
  <2>1. \A c \in Client : ~Served1(c) => ch'[c] = ch[c]
    BY <1>1
  <2> QED
    BY <1>7, <2>1 DEF IInv, OwnMessagesOnly
<1> QED
  BY <1>8, <1>10, <1>11, <1>12, <1>13, <1>14 DEF IInv

LEMMA StopListeningStep == ASSUME IInv, StopListening PROVE IInv'
<1> USE DEF queues, procs
<1>1. /\ listening' = FALSE /\ isRunning' = FALSE /\ clients' = {}
      /\ closes' = [c \in Client |-> IF c \in clients THEN closes[c] + 1 ELSE closes[c]]
      /\ UNCHANGED <<done, queues, ready, ch, leave, procs>>
  BY DEF StopListening
<1>2. /\ closes' \in [Client -> Nat]
      /\ \A c \in Client : closes'[c] = IF c \in clients THEN 1 ELSE closes[c]
  BY <1>1 DEF IInv, Typed, TypeOK, Served
<1>3. \A c \in Client : Fresh(c) => Fresh(c)'
  BY <1>1, <1>2 DEF Fresh
<1>4. Typed'
  BY <1>1, <1>2 DEF IInv, Typed, TypeOK
<1>5. Queued'
  <2>1. \A i \in 1..Len(newClients) : newClients[i] \in Client
    BY DEF IInv, Typed, TypeOK
  <2> QED
    BY <1>1, <1>3, <2>1 DEF IInv, Queued
<1>6. Progress'
  BY <1>1, <1>3 DEF IInv, Progress
<1>7. Served'
  BY <1>1, <1>2 DEF IInv, Served
<1>8. Messages' /\ OwnMessagesOnly'
  BY <1>1 DEF IInv, Messages, Addressed, OwnMessagesOnly
<1> QED
  BY <1>4, <1>5, <1>6, <1>7, <1>8 DEF IInv

(* Flags, and nothing at all.                                              *)
LEMMA FlagStep ==
  ASSUME IInv, isRunning' \in BOOLEAN, done' \in BOOLEAN, listening' \in BOOLEAN,
         UNCHANGED <<queues, table, procs>>
  PROVE  IInv'
<1> USE DEF queues, table, procs
<1>1. Typed'
  BY DEF IInv, Typed, TypeOK
<1>2. Queued' /\ Progress' /\ Served' /\ OwnMessagesOnly'
  BY DEF IInv, Queued, Progress, Fresh, Served, OwnMessagesOnly
<1>3. Messages'
  BY DEF IInv, Messages, Addressed
<1> QED
  BY <1>1, <1>2, <1>3 DEF IInv
-----------------------------------------------------------------------------
LEMMA NextInv == IInv /\ [Next]_vars => IInv'
<1> SUFFICES ASSUME IInv, [Next]_vars PROVE IInv'
  OBVIOUS
<1>1. ASSUME NEW c \in Client, ClientStep(c) PROVE IInv'
  <2>1. CASE \/ Subscribe(c) \/ Subscribed(c) \/ SubscribeFails(c) \/ EndOfChannel(c)
              \/ WriteTo(c)
    BY <2>1, ClientSteps
  <2>2. CASE Register(c)
    BY <2>2, RegisterStep
  <2>3. CASE Receive(c)
    BY <2>3, ReceiveStep
  <2>4. CASE Unsubscribe(c) \/ AskToLeave(c) \/ UnsubscribeFails(c)
    BY <2>4, LeaveSteps
  <2>5. CASE Heartbeat(c)
    BY <2>5, HeartbeatStep
  <2> QED
    BY <1>1, <2>1, <2>2, <2>3, <2>4, <2>5 DEF ClientStep
<1>2. ASSUME NEW p \in Caller, NEW to \in {{}} \cup {{c} : c \in Client}, Publish(p, to)
      PROVE  IInv'
  BY <1>2, PublishStep
<1>3. ASSUME NEW p \in Process, Send(p) \/ CallFails(p) PROVE IInv'
  BY <1>3, SendStep, CallFailsStep
<1>4. ASSUME NEW p \in Caller, Count(p) \/ AnswerCount(p) PROVE IInv'
  BY <1>4, CallerSteps
<1>5. CASE Listen
  BY <1>5, AddClientStep, RemoveClientStep, DispatchStep, StopListeningStep DEF Listen
<1>6. CASE Shutdown \/ Cancel \/ UNCHANGED vars
  <2>1. /\ isRunning' \in BOOLEAN /\ done' \in BOOLEAN /\ listening' \in BOOLEAN
        /\ UNCHANGED <<queues, table, procs>>
    BY <1>6 DEF Shutdown, Cancel, vars, flags, IInv, Typed, TypeOK
  <2> QED
    BY <2>1, FlagStep
<1> QED
  BY <1>1, <1>2, <1>3, <1>4, <1>5, <1>6 DEF Next

LEMMA Invariant == Spec => []IInv
BY InitInv, NextInv, PTL DEF Spec

(* listen and the shutdown between them close a channel once, and nothing  *)
(* is sent on a closed one: what is in the table has its channel open.     *)
THEOREM ClosedOnce == Spec => []ChannelsClosedOnce
<1>1. IInv => ChannelsClosedOnce
  BY DEF IInv, Typed, Served, ChannelsClosedOnce
<1> QED
  BY <1>1, Invariant, PTL

(* The streams of a user carry that user's messages only, whatever is      *)
(* published, by whom and to which stream.                                 *)
THEOREM UsersApart == Spec => []OwnMessagesOnly
<1>1. IInv => OwnMessagesOnly
  BY DEF IInv
<1> QED
  BY <1>1, Invariant, PTL

(* A message that finds its addressee in the table is put in its channel,  *)
(* and an addressee that Subscribe has returned to is in the table until   *)
(* its channel is closed.                                                  *)
LEMMA DispatchReaches ==
  ASSUME IInv, Dispatch, NEW c \in Head(message).awaited
  PROVE  closes[c] > 0 \/ ~HasRoom(c) \/ ch'[c] = Append(ch[c], Head(message).user)
<1> DEFINE m == Head(message)
<1>1. m \in Message /\ Addressed(m)
  BY Dispatched
<1>2. c \in Client /\ c \in ready /\ m.user = {Owner[c]} /\ (m.to = {} \/ c \in m.to)
  BY <1>1 DEF Addressed, Message
<1>3. c \in clients \/ closes[c] = 1
  BY <1>2 DEF IInv, Served
<1>4. CASE closes[c] = 1
  BY <1>4
<1>5. CASE c \in clients
  <2>1. c \in Recipients(m)
    BY <1>2, <1>5 DEF Recipients
  <2> QED
    BY <1>2, <2>1, Dispatched
<1> QED
  BY <1>3, <1>4, <1>5

THEOREM SubscribersServed == Spec => SubscribersGetMessages
<1>1. IInv => (Dispatch => \A c \in Head(message).awaited :
                 closes[c] > 0 \/ ~HasRoom(c) \/ ch'[c] = Append(ch[c], Head(message).user))
  BY DispatchReaches
<1> QED
  BY <1>1, Invariant, PTL DEF SubscribersGetMessages
=============================================================================
