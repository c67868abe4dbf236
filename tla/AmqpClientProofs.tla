--------------------------- MODULE AmqpClientProofs ---------------------------
(***************************************************************************)
(* Theorems about AmqpClient, for any calls and events, every kind of      *)
(* reply queue and any number of connections and of clients.               *)
(***************************************************************************)
EXTENDS AmqpClient, FiniteSetTheorems, TLAPS

-----------------------------------------------------------------------------
(* Types. *)

LEMMA TypeInit == Init => TypeOK
<1> SUFFICES ASSUME Init PROVE TypeOK
  OBVIOUS
<1>1. 0 \in 0..MaxClients /\ 0 \in 0..MaxConnects
  BY ClientAssumption
<1>2. buffer \in [Wrappers -> Seq(Replies)]
  BY DEF Init
<1>3. sentOn \in [Calls -> [wrapper : Wrappers \cup {"none"}, connection : Nat]]
  BY DEF Init, Unsent
<1>4. got \in [Calls -> Nat] /\ served \in [Calls -> SUBSET Kinds] /\ unacked \in [Wrappers -> SUBSET Replies]
  BY DEF Init
<1>5. /\ call \in [Calls -> {"idle", "connecting", "stranded", "waiting"} \cup Settled]
      /\ setup \in [Wrappers -> {"none", "down", "asserting", "consuming", "ready", "failed"}]
  BY DEF Init
<1>6. client \in BOOLEAN /\ seen \in BOOLEAN /\ isInitialConnect \in BOOLEAN
  BY DEF Init
<1> QED
  BY <1>1, <1>2, <1>3, <1>4, <1>5, <1>6 DEF Init, TypeOK, Wrappers

\* handleMessage ignores the reply, passes a value on or ends the call.
LEMMA Handled ==
  ASSUME NEW reply \in handling, HandleMessage(reply)
  PROVE  \/ Deaf(reply.call) /\ UNCHANGED <<call, listeners, got>>
         \/ /\ ~Deaf(reply.call) /\ reply.kind = "value" /\ UNCHANGED <<call, listeners>>
            /\ got' = [got EXCEPT ![reply.call] = got[reply.call] + 1]
         \/ \E outcome \in {"completed", "failed"} :
              /\ ~Deaf(reply.call) /\ reply.kind # "value" /\ UNCHANGED got
              /\ outcome = IF reply.kind = "end" THEN "completed" ELSE "failed"
              /\ call' = [call EXCEPT ![reply.call] = outcome]
              /\ listeners' = listeners \ {reply.call}
<1>1. CASE Deaf(reply.call)
  BY <1>1 DEF HandleMessage
<1>2. CASE ~Deaf(reply.call) /\ reply.kind = "value"
  BY <1>2 DEF HandleMessage, PassOn
<1>3. CASE ~Deaf(reply.call) /\ reply.kind # "value"
<2>1. /\ call' = [call EXCEPT ![reply.call] = IF reply.kind = "end" THEN "completed" ELSE "failed"]
      /\ listeners' = listeners \ {reply.call} /\ UNCHANGED got
  BY <1>3 DEF HandleMessage
<2> QED
  BY <1>3, <2>1
<1> QED
  BY <1>1, <1>2, <1>3

LEMMA TypeNext == TypeOK /\ [Next]_vars => TypeOK'
<1> SUFFICES ASSUME TypeOK, [Next]_vars PROVE TypeOK'
  OBVIOUS
<1> USE ClientAssumption DEF TypeOK, connecting, channels, calling, replying, Wrappers, Settled, Kinds
<1>1. ASSUME NEW c \in Calls, Send(c) PROVE TypeOK'
<2>1. call' \in [Calls -> {"idle", "connecting", "stranded", "waiting"} \cup Settled]
  BY <1>1 DEF Send
<2>2. CASE client
  BY <1>1, <2>1, <2>2 DEF Send
<2>3. CASE ~client
<3>1. clients' \in 0..MaxClients
  BY <1>1, <2>3 DEF Send, NewClient
<3>2. client' \in BOOLEAN /\ seen' \in BOOLEAN
  BY <1>1, <2>3 DEF Send, NewClient
<3> QED
  BY <1>1, <2>1, <2>3, <3>1, <3>2 DEF Send, NewClient
<2> QED
  BY <2>2, <2>3
<1>2. CASE Connect
<2>1. setup' \in [Wrappers -> {"none", "down", "asserting", "consuming", "ready", "failed"}]
  BY <1>2 DEF Connect
<2>2. connects' \in 0..MaxConnects
  BY <1>2 DEF Connect
<2>3. channel' \in Wrappers \cup {"none"}
  BY <1>2 DEF Connect
<2>4. first' \in {"waiting", "creating", "done", "error"} /\ stream' \in {"empty", "value", "error"}
  BY <1>2 DEF Connect
<2>5. seen' \in BOOLEAN /\ isInitialConnect' \in BOOLEAN
  BY <1>2 DEF Connect
<2> QED
  BY <1>2, <2>1, <2>2, <2>3, <2>4, <2>5 DEF Connect
<1>3. CASE FirstConnectionFails
  BY <1>3 DEF FirstConnectionFails
<1>4. CASE Disconnect
  BY <1>4 DEF Disconnect, LoseReplies
<1>5. CASE Close
<2>1. call' \in [Calls -> {"idle", "connecting", "stranded", "waiting"} \cup Settled]
  BY <1>5 DEF Close
<2>2. inbox' \subseteq Replies /\ unacked' \in [Wrappers -> SUBSET Replies] /\ buffer' \in [Wrappers -> Seq(Replies)]
  BY <1>5 DEF Close, LoseReplies
<2>3. client' \in BOOLEAN /\ setup' \in [Wrappers -> {"none", "down", "asserting", "consuming", "ready", "failed"}]
  BY <1>5 DEF Close, ClientAfterClose
<2> QED
  BY <1>5, <2>1, <2>2, <2>3 DEF Close, LoseReplies
<1>6. ASSUME NEW w \in Wrappers, SetupAsserted(w) PROVE TypeOK'
  BY <1>6 DEF SetupAsserted
<1>7. ASSUME NEW w \in Wrappers, SetupConsumes(w) PROVE TypeOK'
  BY <1>7 DEF SetupConsumes, Consuming
<1>8. ASSUME NEW w \in Wrappers, SetupFails(w) PROVE TypeOK'
  BY <1>8 DEF SetupFails
<1>9. ASSUME NEW c \in Calls, ConnectionRejects(c) PROVE TypeOK'
  BY <1>9 DEF ConnectionRejects
<1>10. ASSUME NEW c \in Calls, Publish(c) PROVE TypeOK'
  BY <1>10 DEF Publish, Listener
<1>11. ASSUME NEW c \in Calls, PublishFails(c) PROVE TypeOK'
  BY <1>11 DEF PublishFails, Listener
<1>12. ASSUME NEW c \in Calls, Flush(c) PROVE TypeOK'
<2>1. connects \in Nat
  OBVIOUS
<2>2. sentOn' \in [Calls -> [wrapper : Wrappers \cup {"none"}, connection : Nat]]
  BY <1>12, <2>1 DEF Flush
<2> QED
  BY <1>12, <2>2 DEF Flush
<1>13. ASSUME NEW c \in Calls, Cancel(c) PROVE TypeOK'
  BY <1>13 DEF Cancel
<1>14. ASSUME NEW c \in Calls, NEW kind \in Kinds, Reply(c, kind) PROVE TypeOK'
<2>1. [call |-> c, kind |-> kind] \in Replies
  BY DEF Replies
<2>2. inbox' \subseteq Replies
  BY <1>14, <2>1 DEF Reply
<2>3. buffer' \in [Wrappers -> Seq(Replies)]
<3>1. CASE UNCHANGED buffer
  BY <3>1
<3>2. ASSUME NEW w \in Wrappers,
             buffer' = [buffer EXCEPT ![w] = Append(@, [call |-> c, kind |-> kind])]
      PROVE  buffer' \in [Wrappers -> Seq(Replies)]
  BY <2>1, <3>2
<3>3. sentOn[c].wrapper \in consumers => sentOn[c].wrapper \in Wrappers
  OBVIOUS
<3> QED
  BY <1>14, <3>1, <3>2, <3>3 DEF Reply
<2>4. served' \in [Calls -> SUBSET Kinds]
  BY <1>14 DEF Reply
<2> QED
  BY <1>14, <2>2, <2>3, <2>4 DEF Reply
<1>15. ASSUME NEW reply \in inbox, NEW w \in Wrappers, Deliver(w, reply) PROVE TypeOK'
<2>1. buffer' \in [Wrappers -> Seq(Replies)] /\ unacked' \in [Wrappers -> SUBSET Replies]
  BY <1>15 DEF Deliver
<2> QED
  BY <1>15, <2>1 DEF Deliver
<1>16. ASSUME NEW reply \in inbox, Stolen(reply) PROVE TypeOK'
  BY <1>16 DEF Stolen
<1>17. ASSUME NEW w \in Wrappers, Receive(w) PROVE TypeOK'
<2>1. buffer[w] \in Seq(Replies) /\ buffer[w] # <<>>
  BY <1>17 DEF Receive
<2>2. Head(buffer[w]) \in Replies /\ Tail(buffer[w]) \in Seq(Replies)
  BY <2>1
<2> QED
  BY <1>17, <2>2 DEF Receive
<1>18. ASSUME NEW reply \in handling, HandleMessage(reply) PROVE TypeOK'
<2>1. reply.call \in Calls
  BY DEF Replies
<2>2. /\ call' \in [Calls -> {"idle", "connecting", "stranded", "waiting"} \cup Settled]
      /\ listeners' \subseteq Calls \ Events /\ got' \in [Calls -> Nat]
<3>1. CASE Deaf(reply.call) /\ UNCHANGED <<call, listeners, got>>
  BY <3>1
<3>2. CASE /\ ~Deaf(reply.call) /\ reply.kind = "value" /\ UNCHANGED <<call, listeners>>
           /\ got' = [got EXCEPT ![reply.call] = got[reply.call] + 1]
  BY <2>1, <3>2
<3>3. ASSUME NEW outcome \in {"completed", "failed"},
             /\ ~Deaf(reply.call) /\ reply.kind # "value" /\ UNCHANGED got
             /\ outcome = IF reply.kind = "end" THEN "completed" ELSE "failed"
             /\ call' = [call EXCEPT ![reply.call] = outcome]
             /\ listeners' = listeners \ {reply.call}
      PROVE  /\ call' \in [Calls -> {"idle", "connecting", "stranded", "waiting"} \cup Settled]
             /\ listeners' \subseteq Calls \ Events /\ got' \in [Calls -> Nat]
  BY <2>1, <3>3
<3> QED
  BY <1>18, <3>1, <3>2, <3>3, Handled
<2> QED
  BY <1>18, <2>2 DEF HandleMessage
<1>19. CASE UNCHANGED vars
  BY <1>19 DEF vars
<1> QED
  BY <1>1, <1>2, <1>3, <1>4, <1>5, <1>6, <1>7, <1>8, <1>9, <1>10, <1>11, <1>12, <1>13, <1>14,
     <1>15, <1>16, <1>17, <1>18, <1>19 DEF Next, Microtask, IOEvent, SetUpStep

\* Every reachable state is well typed.
THEOREM TypeCorrect == Spec => []TypeOK
  BY TypeInit, TypeNext, PTL DEF Spec

-----------------------------------------------------------------------------
(* The inductive invariant. *)

\* The manager, its wrappers and connection$: a value of connection$ means a channel
\* wrapper, a channel that is set up or being set up means a connection, and a reply
\* consumer lives as long as the channel it was registered on.
Connected ==
  /\ ~client => link = "down" /\ queued = {}
  /\ client /\ first \in {"creating", "done"} => seen /\ channel = "stream"
  /\ stream = "value" => first \in {"creating", "done"}
  /\ seen => first # "waiting"
  /\ link = "up" => connects > 0
  /\ queued # {} => channel # "none"
  /\ consumers # {} => link = "up"
  /\ \A w \in Wrappers :
       /\ setup[w] \in {"asserting", "consuming", "ready"} => link = "up"
       /\ setup[w] = "ready" => w \in consumers

\* The request of a call was sent on the current connection, which is still up.
Live(c) == link = "up" /\ sentOn[c].connection = connects

\* Where the message of a call is.
Sent(c) ==
  /\ call[c] = "connecting" => client
  /\ call[c] \in {"idle", "connecting"} => c \notin queued /\ sentOn[c] = Unsent
  /\ c \in queued => sentOn[c] = Unsent
  /\ sentOn[c].connection <= connects
  /\ served[c] # {} => c \notin Events /\ sentOn[c] # Unsent
  /\ call[c] = "waiting" /\ c \notin Events /\ (c \in queued \/ Live(c)) => c \in listeners

AllSent == \A c \in Calls : Sent(c)

\* Every reply under way is one the server gave.
Given(reply) == reply.kind \in served[reply.call]
RepliesGiven ==
  /\ \A reply \in inbox \cup handling : Given(reply)
  /\ \A w \in Wrappers : \A reply \in unacked[w] : Given(reply)
  /\ \A w \in Wrappers : \A i \in DOMAIN buffer[w] : Given(buffer[w][i])

Synchronous == Direct /\ ~options.asyncDeserializer

\* Direct replies travel on the channel of their request, a value before the end.
InOrder ==
  /\ inbox = {} /\ \A w \in Wrappers : unacked[w] = {}
  /\ \A w \in Wrappers : \A i \in DOMAIN buffer[w] :
       Live(buffer[w][i].call) /\ sentOn[buffer[w][i].call].wrapper = w
  /\ \A w \in Wrappers : \A i, j \in DOMAIN buffer[w] :
       i < j /\ buffer[w][i].call = buffer[w][j].call =>
         buffer[w][i].kind = "value" /\ buffer[w][j].kind # "value"

\* They are handled one at a time, ahead of those still on their way.
OneAtATime ==
  \A reply \in handling :
    /\ handling = {reply} /\ Live(reply.call)
    /\ \A w \in Wrappers : \A i \in DOMAIN buffer[w] :
         buffer[w][i].call = reply.call =>
           reply.kind = "value" /\ buffer[w][i].kind # "value"

UnderWay(reply) ==
  reply \in handling \/ \E w \in Wrappers : \E i \in DOMAIN buffer[w] : buffer[w][i] = reply

ValueOf(c) == [call |-> c, kind |-> "value"]

\* A value reaches its caller once, and before the call completes.
Counted(c) ==
  /\ got[c] \in {0, 1}
  /\ "value" \notin served[c] \/ UnderWay(ValueOf(c)) => got[c] = 0
  /\ call[c] = "waiting" /\ Live(c) /\ "value" \in served[c] =>
       got[c] = 1 \/ UnderWay(ValueOf(c))
  /\ call[c] = "completed" =>
       /\ c \in Events \/ "end" \in served[c]
       /\ "value" \in served[c] => got[c] = 1

Orderly == InOrder /\ OneAtATime /\ \A c \in Calls : Counted(c)

InSequence == Synchronous => Orderly

IInv ==
  /\ TypeOK /\ Connected /\ AllSent
  /\ WaitingCallsAreOnTheirWay /\ ReplyConsumerIsThere /\ NoListenerLeak
  /\ RepliesGiven /\ InSequence

-----------------------------------------------------------------------------
(* The connection. *)

LEMMA ConnectedNext == IInv /\ TypeOK' /\ [Next]_vars => Connected'
<1> SUFFICES ASSUME IInv, TypeOK', [Next]_vars PROVE Connected'
  OBVIOUS
<1> USE DEF IInv, Connected, connecting, channels, calling
<1>1. ASSUME NEW c \in Calls, Send(c) PROVE Connected'
<2>1. CASE client
  BY <1>1, <2>1 DEF Send
<2>2. CASE ~client
  BY <1>1, <2>2 DEF Send, NewClient
<2> QED
  BY <2>1, <2>2
<1>2. CASE Connect
<2>1. client' /\ link' = "up" /\ connects' > 0 /\ seen' /\ first' # "waiting"
  BY <1>2 DEF Connect, TypeOK
<2>2. first' \in {"creating", "done"} => channel' = "stream"
  BY <1>2 DEF Connect, TypeOK
<2>3. stream' = "value" => first' \in {"creating", "done"}
  BY <1>2 DEF Connect, TypeOK
<2>4. channel' = "none" => channel = "none"
  BY <1>2 DEF Connect, TypeOK
<2>5. \A w \in Wrappers : setup'[w] # "ready"
  BY <1>2 DEF Connect
<2> QED
  BY <1>2, <2>1, <2>2, <2>3, <2>4, <2>5 DEF Connect
<1>3. CASE FirstConnectionFails
  BY <1>3 DEF FirstConnectionFails
<1>4. CASE Disconnect
  BY <1>4 DEF Disconnect, LoseReplies
<1>5. CASE Close
  BY <1>5 DEF Close, LoseReplies, ClientAfterClose
<1>6. ASSUME NEW w \in Wrappers, SetupAsserted(w) PROVE Connected'
  BY <1>6 DEF SetupAsserted, TypeOK
<1>7. ASSUME NEW w \in Wrappers, SetupConsumes(w) PROVE Connected'
  BY <1>7 DEF SetupConsumes, Consuming, TypeOK
<1>8. ASSUME NEW w \in Wrappers, SetupFails(w) PROVE Connected'
  BY <1>8 DEF SetupFails, TypeOK
<1>9. ASSUME NEW c \in Calls, Publish(c) PROVE Connected'
  BY <1>9 DEF Publish, AllSent, Sent
<1>10. ASSUME NEW c \in Calls, Flush(c) PROVE Connected'
  BY <1>10 DEF Flush
<1>11. ASSUME NEW c \in Calls, ConnectionRejects(c) \/ PublishFails(c) \/ Cancel(c) PROVE Connected'
  BY <1>11 DEF ConnectionRejects, PublishFails, Cancel
<1>12. ASSUME NEW c \in Calls, NEW kind \in Kinds, Reply(c, kind) PROVE Connected'
  BY <1>12 DEF Reply
<1>13. ASSUME NEW reply \in inbox, NEW w \in Wrappers, Deliver(w, reply) \/ Stolen(reply) PROVE Connected'
  BY <1>13 DEF Deliver, Stolen
<1>14. ASSUME NEW w \in Wrappers, Receive(w) PROVE Connected'
  BY <1>14 DEF Receive
<1>15. ASSUME NEW reply \in handling, HandleMessage(reply) PROVE Connected'
  BY <1>15 DEF HandleMessage
<1>16. CASE UNCHANGED vars
  BY <1>16 DEF vars
<1> QED
  BY <1>1, <1>2, <1>3, <1>4, <1>5, <1>6, <1>7, <1>8, <1>9, <1>10, <1>11, <1>12, <1>13, <1>14,
     <1>15, <1>16 DEF Next, Microtask, IOEvent, SetUpStep, Wrappers

-----------------------------------------------------------------------------
(* Calls. *)

LEMMA AllSentNext == IInv /\ TypeOK' /\ [Next]_vars => AllSent'
<1> SUFFICES ASSUME IInv, TypeOK', [Next]_vars, NEW c \in Calls PROVE Sent(c)'
  BY DEF AllSent
<1> USE DEF IInv, AllSent, Sent, Live, connecting, channels, calling, replying
<1>1. ASSUME NEW d \in Calls, Send(d) PROVE Sent(c)'
<2>1. CASE client
  BY <1>1, <2>1 DEF Send, TypeOK
<2>2. CASE ~client
  BY <1>1, <2>2 DEF Send, NewClient, TypeOK, Connected
<2> QED
  BY <2>1, <2>2
<1>2. CASE Connect
  BY <1>2 DEF Connect, TypeOK
<1>3. CASE FirstConnectionFails
  BY <1>3 DEF FirstConnectionFails
<1>4. CASE Disconnect
  BY <1>4 DEF Disconnect
<1>5. CASE Close
<2>1. call'[c] = "waiting" => call[c] = "waiting" /\ c \notin queued
  BY <1>5 DEF Close, TypeOK
<2>2. call'[c] # "connecting" /\ (call'[c] = "idle" => call[c] = "idle")
  BY <1>5 DEF Close, TypeOK
<2> QED
  BY <1>5, <2>1, <2>2 DEF Close
<1>6. ASSUME NEW w \in Wrappers, SetupAsserted(w) \/ SetupFails(w) PROVE Sent(c)'
  BY <1>6 DEF SetupAsserted, SetupFails
<1>7. ASSUME NEW w \in Wrappers, SetupConsumes(w) PROVE Sent(c)'
  BY <1>7 DEF SetupConsumes
<1>8. ASSUME NEW d \in Calls, ConnectionRejects(d) PROVE Sent(c)'
  BY <1>8 DEF ConnectionRejects, TypeOK
<1>9. ASSUME NEW d \in Calls, Publish(d) PROVE Sent(c)'
  BY <1>9 DEF Publish, Listener, TypeOK
<1>10. ASSUME NEW d \in Calls, PublishFails(d) PROVE Sent(c)'
  BY <1>10 DEF PublishFails, Listener, TypeOK
<1>11. ASSUME NEW d \in Calls, Flush(d) PROVE Sent(c)'
  BY <1>11 DEF Flush, TypeOK
<1>12. ASSUME NEW d \in Calls, Cancel(d) PROVE Sent(c)'
  BY <1>12 DEF Cancel, TypeOK
<1>13. ASSUME NEW d \in Calls, NEW kind \in Kinds, Reply(d, kind) PROVE Sent(c)'
  BY <1>13 DEF Reply, TypeOK
<1>14. ASSUME NEW reply \in inbox, NEW w \in Wrappers, Deliver(w, reply) \/ Stolen(reply) PROVE Sent(c)'
  BY <1>14 DEF Deliver, Stolen
<1>15. ASSUME NEW w \in Wrappers, Receive(w) PROVE Sent(c)'
  BY <1>15 DEF Receive
<1>16. ASSUME NEW reply \in handling, HandleMessage(reply) PROVE Sent(c)'
<2>1. UNCHANGED <<client, link, connects, queued, sentOn, served>>
  BY <1>16 DEF HandleMessage
<2>2. reply.call \in Calls
  BY DEF TypeOK, Replies
<2>3. call'[c] # call[c] => call'[c] \in {"completed", "failed"}
  BY <1>16, <2>2, Handled DEF TypeOK
<2>4. call'[c] = call[c] /\ c \in listeners => c \in listeners' \/ call[c] # "waiting"
<3>1. CASE UNCHANGED listeners
  BY <3>1
<3>2. CASE reply.call # c /\ listeners' = listeners \ {reply.call}
  BY <3>2
<3>3. ASSUME reply.call = c, NEW outcome \in {"completed", "failed"},
             ~Deaf(c), call' = [call EXCEPT ![c] = outcome]
      PROVE  call'[c] # call[c]
  BY <3>3 DEF Deaf, TypeOK
<3> QED
  BY <1>16, <2>2, <3>1, <3>2, <3>3, Handled
<2> QED
  BY <2>1, <2>3, <2>4
<1>17. CASE UNCHANGED vars
  BY <1>17 DEF vars
<1> QED
  BY <1>1, <1>2, <1>3, <1>4, <1>5, <1>6, <1>7, <1>8, <1>9, <1>10, <1>11, <1>12, <1>13, <1>14,
     <1>15, <1>16, <1>17 DEF Next, Microtask, IOEvent, SetUpStep, Wrappers

LEMMA WaitingNext == IInv /\ TypeOK' /\ [Next]_vars => WaitingCallsAreOnTheirWay'
<1> SUFFICES ASSUME IInv, TypeOK', [Next]_vars, NEW c \in Calls, call'[c] = "waiting"
             PROVE  c \in queued' \/ sentOn'[c] # Unsent
  BY DEF WaitingCallsAreOnTheirWay
<1> USE DEF IInv, TypeOK, WaitingCallsAreOnTheirWay, connecting, channels, calling, replying
<1> DEFINE OnItsWay == c \in queued' \/ sentOn'[c] # Unsent
<1>1. ASSUME NEW d \in Calls, Send(d) PROVE OnItsWay
  BY <1>1 DEF Send
<1>2. CASE Connect
  BY <1>2 DEF Connect
<1>3. CASE FirstConnectionFails
  BY <1>3 DEF FirstConnectionFails
<1>4. CASE Disconnect
  BY <1>4 DEF Disconnect
<1>5. CASE Close
<2>1. call[c] = "waiting" /\ c \notin queued
  BY <1>5 DEF Close
<2> QED
  BY <1>5, <2>1 DEF Close
<1>6. ASSUME NEW w \in Wrappers, SetupAsserted(w) \/ SetupFails(w) PROVE OnItsWay
  BY <1>6 DEF SetupAsserted, SetupFails
<1>7. ASSUME NEW w \in Wrappers, SetupConsumes(w) PROVE OnItsWay
  BY <1>7 DEF SetupConsumes
<1>8. ASSUME NEW d \in Calls, ConnectionRejects(d) PROVE OnItsWay
  BY <1>8 DEF ConnectionRejects
<1>9. ASSUME NEW d \in Calls, Publish(d) PROVE OnItsWay
<2>1. channel # "none"
  BY <1>9 DEF Publish, Connected, AllSent, Sent
<2> QED
  BY <1>9, <2>1 DEF Publish
<1>10. ASSUME NEW d \in Calls, PublishFails(d) PROVE OnItsWay
  BY <1>10 DEF PublishFails
<1>11. ASSUME NEW d \in Calls, Flush(d) PROVE OnItsWay
<2>1. channel # "none"
  BY <1>11 DEF Flush, Connected
<2>2. [wrapper |-> channel, connection |-> connects] # Unsent
  BY <2>1 DEF Unsent
<2>3. call[c] = "waiting"
  BY <1>11 DEF Flush
<2> QED
  BY <1>11, <2>2, <2>3 DEF Flush
<1>12. ASSUME NEW d \in Calls, Cancel(d) PROVE OnItsWay
  BY <1>12 DEF Cancel
<1>13. ASSUME NEW d \in Calls, NEW kind \in Kinds, Reply(d, kind) PROVE OnItsWay
  BY <1>13 DEF Reply
<1>14. ASSUME NEW reply \in inbox, NEW w \in Wrappers, Deliver(w, reply) \/ Stolen(reply) PROVE OnItsWay
  BY <1>14 DEF Deliver, Stolen
<1>15. ASSUME NEW w \in Wrappers, Receive(w) PROVE OnItsWay
  BY <1>15 DEF Receive
<1>16. ASSUME NEW reply \in handling, HandleMessage(reply) PROVE OnItsWay
<2>1. UNCHANGED <<queued, sentOn>> /\ reply.call \in Calls
  BY <1>16 DEF HandleMessage, Replies
<2>2. call[c] = "waiting"
  BY <1>16, <2>1, Handled
<2> QED
  BY <2>1, <2>2
<1>17. CASE UNCHANGED vars
  BY <1>17 DEF vars
<1> QED
  BY <1>1, <1>2, <1>3, <1>4, <1>5, <1>6, <1>7, <1>8, <1>9, <1>10, <1>11, <1>12, <1>13, <1>14,
     <1>15, <1>16, <1>17 DEF Next, Microtask, IOEvent, SetUpStep, Wrappers

LEMMA ReplyConsumerNext == IInv /\ TypeOK' /\ [Next]_vars => ReplyConsumerIsThere'
<1> SUFFICES ASSUME IInv, TypeOK', [Next]_vars, NEW c \in Calls \ Events,
                    link' = "up", sentOn'[c].connection = connects'
             PROVE  IF Direct' THEN sentOn'[c].wrapper \in consumers' ELSE consumers' # {}
  BY DEF ReplyConsumerIsThere
<1> USE DEF IInv, ReplyConsumerIsThere, Direct, connecting, channels, calling, replying
<1> DEFINE There == IF Direct' THEN sentOn'[c].wrapper \in consumers' ELSE consumers' # {}
<1>1. ASSUME NEW d \in Calls, Send(d) PROVE There
  BY <1>1 DEF Send, NewClient
<1>2. CASE Connect
<2>1. sentOn[c].connection <= connects /\ connects \in Nat
  BY DEF AllSent, Sent, TypeOK
<2>2. connects' = connects + 1 /\ UNCHANGED sentOn
  BY <1>2 DEF Connect
<2>3. sentOn[c].connection \in Nat
  BY DEF TypeOK
<2> QED
  BY <2>1, <2>2, <2>3
<1>3. CASE FirstConnectionFails
  BY <1>3 DEF FirstConnectionFails
<1>4. CASE Disconnect
  BY <1>4 DEF Disconnect
<1>5. CASE Close
  BY <1>5 DEF Close
<1>6. ASSUME NEW w \in Wrappers, SetupAsserted(w) \/ SetupFails(w) PROVE There
  BY <1>6 DEF SetupAsserted, SetupFails
<1>7. ASSUME NEW w \in Wrappers, SetupConsumes(w) PROVE There
  BY <1>7 DEF SetupConsumes
<1>8. ASSUME NEW d \in Calls, ConnectionRejects(d) \/ Publish(d) \/ PublishFails(d) \/ Cancel(d) PROVE There
  BY <1>8 DEF ConnectionRejects, Publish, PublishFails, Cancel
<1>9. ASSUME NEW d \in Calls, Flush(d) PROVE There
<2>1. channel \in consumers
  BY <1>9 DEF Flush, Connected, TypeOK
<2>2. sentOn'[c] = [wrapper |-> channel, connection |-> connects] \/ sentOn'[c] = sentOn[c]
  BY <1>9 DEF Flush, TypeOK
<2> QED
  BY <1>9, <2>1, <2>2 DEF Flush
<1>10. ASSUME NEW d \in Calls, NEW kind \in Kinds, Reply(d, kind) PROVE There
  BY <1>10 DEF Reply
<1>11. ASSUME NEW reply \in inbox, NEW w \in Wrappers, Deliver(w, reply) \/ Stolen(reply) PROVE There
  BY <1>11 DEF Deliver, Stolen
<1>12. ASSUME NEW w \in Wrappers, Receive(w) PROVE There
  BY <1>12 DEF Receive
<1>13. ASSUME NEW reply \in handling, HandleMessage(reply) PROVE There
  BY <1>13 DEF HandleMessage
<1>14. CASE UNCHANGED vars
  BY <1>14 DEF vars
<1> QED
  BY <1>1, <1>2, <1>3, <1>4, <1>5, <1>6, <1>7, <1>8, <1>9, <1>10, <1>11, <1>12, <1>13, <1>14
     DEF Next, Microtask, IOEvent, SetUpStep, Wrappers

LEMMA ListenersNext == IInv /\ TypeOK' /\ [Next]_vars => NoListenerLeak'
<1> SUFFICES ASSUME IInv, TypeOK', [Next]_vars, NEW c \in listeners' \ leaked'
             PROVE  call'[c] = "waiting"
  BY DEF NoListenerLeak
<1> USE DEF IInv, TypeOK, NoListenerLeak, connecting, channels, calling, replying
<1>1. ASSUME NEW d \in Calls, Send(d) PROVE call'[c] = "waiting"
  BY <1>1 DEF Send, NewClient
<1>2. CASE Connect
  BY <1>2 DEF Connect
<1>3. CASE FirstConnectionFails
  BY <1>3 DEF FirstConnectionFails
<1>4. CASE Disconnect
  BY <1>4 DEF Disconnect
<1>5. CASE Close
<2>1. c \in listeners \ leaked /\ c \notin queued /\ c \in Calls
  BY <1>5 DEF Close
<2> QED
  BY <1>5, <2>1 DEF Close
<1>6. ASSUME NEW w \in Wrappers, SetupAsserted(w) \/ SetupFails(w) PROVE call'[c] = "waiting"
  BY <1>6 DEF SetupAsserted, SetupFails
<1>7. ASSUME NEW w \in Wrappers, SetupConsumes(w) PROVE call'[c] = "waiting"
  BY <1>7 DEF SetupConsumes
<1>8. ASSUME NEW d \in Calls, ConnectionRejects(d) PROVE call'[c] = "waiting"
  BY <1>8 DEF ConnectionRejects
<1>9. ASSUME NEW d \in Calls, Publish(d) PROVE call'[c] = "waiting"
  BY <1>9 DEF Publish, Listener
<1>10. ASSUME NEW d \in Calls, PublishFails(d) PROVE call'[c] = "waiting"
  BY <1>10 DEF PublishFails, Listener
<1>11. ASSUME NEW d \in Calls, Flush(d) PROVE call'[c] = "waiting"
  BY <1>11 DEF Flush
<1>12. ASSUME NEW d \in Calls, Cancel(d) PROVE call'[c] = "waiting"
  BY <1>12 DEF Cancel
<1>13. ASSUME NEW d \in Calls, NEW kind \in Kinds, Reply(d, kind) PROVE call'[c] = "waiting"
  BY <1>13 DEF Reply
<1>14. ASSUME NEW reply \in inbox, NEW w \in Wrappers, Deliver(w, reply) \/ Stolen(reply)
       PROVE  call'[c] = "waiting"
  BY <1>14 DEF Deliver, Stolen
<1>15. ASSUME NEW w \in Wrappers, Receive(w) PROVE call'[c] = "waiting"
  BY <1>15 DEF Receive
<1>16. ASSUME NEW reply \in handling, HandleMessage(reply) PROVE call'[c] = "waiting"
<2>1. UNCHANGED leaked /\ reply.call \in Calls
  BY <1>16 DEF HandleMessage, Replies
<2> QED
  BY <1>16, <2>1, Handled
<1>17. CASE UNCHANGED vars
  BY <1>17 DEF vars
<1> QED
  BY <1>1, <1>2, <1>3, <1>4, <1>5, <1>6, <1>7, <1>8, <1>9, <1>10, <1>11, <1>12, <1>13, <1>14,
     <1>15, <1>16, <1>17 DEF Next, Microtask, IOEvent, SetUpStep, Wrappers

-----------------------------------------------------------------------------
(* Replies. *)

LEMMA Appended ==
  ASSUME NEW s \in Seq(Replies), NEW r \in Replies
  PROVE  /\ DOMAIN Append(s, r) = DOMAIN s \cup {Len(s) + 1}
         /\ \A i \in DOMAIN s : i < Len(s) + 1 /\ Append(s, r)[i] = s[i]
         /\ Append(s, r)[Len(s) + 1] = r
  OBVIOUS

LEMMA Removed ==
  ASSUME NEW s \in Seq(Replies), s # <<>>
  PROVE  /\ Head(s) = s[1] /\ Head(s) \in Replies /\ 1 \in DOMAIN s
         /\ \A i \in DOMAIN Tail(s) : i \in Nat \ {0} /\ i + 1 \in DOMAIN s /\ Tail(s)[i] = s[i + 1]
         /\ \A i \in DOMAIN s : i # 1 => \E j \in DOMAIN Tail(s) : i = j + 1
<1>1. Len(s) \in Nat /\ Len(s) >= 1 /\ DOMAIN s = 1..Len(s)
  OBVIOUS
<1>2. Tail(s) \in Seq(Replies) /\ Len(Tail(s)) = Len(s) - 1 /\ DOMAIN Tail(s) = 1..Len(s) - 1
  OBVIOUS
<1>3. Head(s) = s[1] /\ Head(s) \in Replies
  OBVIOUS
<1>4. \A i \in 1..Len(s) - 1 : Tail(s)[i] = s[i + 1]
  OBVIOUS
<1>5. ASSUME NEW i \in DOMAIN s, i # 1 PROVE \E j \in DOMAIN Tail(s) : i = j + 1
<2>1. i - 1 \in DOMAIN Tail(s) /\ i = (i - 1) + 1
  BY <1>1, <1>2, <1>5
<2> QED
  BY <2>1
<1> QED
  BY <1>1, <1>2, <1>3, <1>4, <1>5

LEMMA GivenNext == IInv /\ TypeOK' /\ [Next]_vars => RepliesGiven'
<1> SUFFICES ASSUME IInv, TypeOK', [Next]_vars PROVE RepliesGiven'
  OBVIOUS
<1> USE DEF IInv, RepliesGiven, Given, connecting, channels, calling, replying
<1>1. ASSUME NEW c \in Calls, Send(c) PROVE RepliesGiven'
  BY <1>1 DEF Send
<1>2. CASE Connect
  BY <1>2 DEF Connect
<1>3. CASE FirstConnectionFails
  BY <1>3 DEF FirstConnectionFails
<1>4. ASSUME LoseReplies, UNCHANGED <<served, handling>> PROVE RepliesGiven'
<2>1. \A reply \in inbox' : Given(reply)
  BY <1>4 DEF LoseReplies
<2>2. \A w \in Wrappers : unacked'[w] = {} /\ buffer'[w] = <<>>
  BY <1>4 DEF LoseReplies
<2> QED
  BY <1>4, <2>1, <2>2
<1>5. CASE Disconnect \/ Close
  BY <1>4, <1>5 DEF Disconnect, Close
<1>6. ASSUME NEW w \in Wrappers, SetupAsserted(w) \/ SetupFails(w) PROVE RepliesGiven'
  BY <1>6 DEF SetupAsserted, SetupFails
<1>7. ASSUME NEW w \in Wrappers, SetupConsumes(w) PROVE RepliesGiven'
  BY <1>7 DEF SetupConsumes
<1>8. ASSUME NEW c \in Calls, ConnectionRejects(c) \/ Publish(c) \/ PublishFails(c) PROVE RepliesGiven'
  BY <1>8 DEF ConnectionRejects, Publish, PublishFails
<1>9. ASSUME NEW c \in Calls, Flush(c) \/ Cancel(c) PROVE RepliesGiven'
  BY <1>9 DEF Flush, Cancel
<1>10. ASSUME NEW c \in Calls, NEW kind \in Kinds, Reply(c, kind) PROVE RepliesGiven'
<2> DEFINE reply == [call |-> c, kind |-> kind]
<2>1. \A r : Given(r) /\ r.call \in Calls => Given(r)'
  BY <1>10 DEF Reply, TypeOK
<2>2. Given(reply)'
  BY <1>10 DEF Reply, TypeOK
<2>3. \A r \in inbox' \cup handling' : Given(r)'
  BY <1>10, <2>1, <2>2 DEF Reply, TypeOK, Replies
<2>4. \A w \in Wrappers : \A r \in unacked'[w] : Given(r)'
  BY <1>10, <2>1 DEF Reply, TypeOK, Replies
<2>5. ASSUME NEW w \in Wrappers, NEW i \in DOMAIN buffer'[w] PROVE Given(buffer[w][i])'
<3>1. buffer[w] \in Seq(Replies) /\ reply \in Replies
  BY DEF TypeOK, Replies
<3>2. buffer'[w] = buffer[w] \/ buffer'[w] = Append(buffer[w], reply)
  BY <1>10 DEF Reply, TypeOK
<3>3. buffer'[w][i] = reply \/ (i \in DOMAIN buffer[w] /\ buffer'[w][i] = buffer[w][i])
  BY <3>1, <3>2, Appended
<3>4. ASSUME i \in DOMAIN buffer[w], buffer'[w][i] = buffer[w][i] PROVE Given(buffer[w][i])'
<4>1. Given(buffer[w][i]) /\ buffer[w][i] \in Replies
  BY <3>1, <3>4
<4>2. buffer[w][i].call \in Calls
  BY <4>1 DEF Replies
<4>3. buffer[w][i].kind \in served'[buffer[w][i].call]
  BY <2>1, <4>1, <4>2
<4> QED
  BY <3>4, <4>3
<3> QED
  BY <2>2, <3>3, <3>4
<2> QED
  BY <2>3, <2>4, <2>5
<1>11. ASSUME NEW reply \in inbox, NEW w \in Wrappers, Deliver(w, reply) PROVE RepliesGiven'
<2>1. Given(reply) /\ UNCHANGED <<served, handling>> /\ inbox' \subseteq inbox
  BY <1>11 DEF Deliver
<2>2. ASSUME NEW v \in Wrappers PROVE \A r \in unacked'[v] : Given(r)
<3>1. unacked'[v] \subseteq unacked[v] \cup {reply}
  BY <1>11 DEF Deliver, TypeOK
<3> QED
  BY <2>1, <3>1
<2>3. ASSUME NEW v \in Wrappers, NEW i \in DOMAIN buffer'[v] PROVE Given(buffer[v][i])'
<3>1. buffer[v] \in Seq(Replies) /\ reply \in Replies
  BY DEF TypeOK
<3>2. buffer'[v] = buffer[v] \/ buffer'[v] = Append(buffer[v], reply)
  BY <1>11 DEF Deliver, TypeOK
<3>3. buffer'[v][i] = reply \/ (i \in DOMAIN buffer[v] /\ buffer'[v][i] = buffer[v][i])
  BY <3>1, <3>2, Appended
<3>4. \A j \in DOMAIN buffer[v] : Given(buffer[v][j])
  OBVIOUS
<3> QED
  BY <2>1, <3>3, <3>4
<2> QED
  BY <2>1, <2>2, <2>3
<1>12. ASSUME NEW reply \in inbox, Stolen(reply) PROVE RepliesGiven'
  BY <1>12 DEF Stolen
<1>13. ASSUME NEW w \in Wrappers, Receive(w) PROVE RepliesGiven'
<2>1. buffer[w] \in Seq(Replies) /\ buffer[w] # <<>>
  BY <1>13 DEF Receive, TypeOK
<2>2. Given(Head(buffer[w]))
  BY <2>1, Removed
<2>3. UNCHANGED <<served, inbox, unacked>> /\ handling' \subseteq handling \cup {Head(buffer[w])}
  BY <1>13 DEF Receive
<2>4. ASSUME NEW v \in Wrappers, NEW i \in DOMAIN buffer'[v] PROVE Given(buffer[v][i])'
<3>1. buffer'[v] = buffer[v] \/ (v = w /\ buffer'[v] = Tail(buffer[v]))
  BY <1>13 DEF Receive, TypeOK
<3>2. \E j \in DOMAIN buffer[v] : buffer'[v][i] = buffer[v][j]
<4>1. CASE buffer'[v] = buffer[v]
  BY <4>1
<4>2. CASE v = w /\ buffer'[v] = Tail(buffer[v])
<5>1. i \in DOMAIN Tail(buffer[w])
  BY <4>2
<5>2. i + 1 \in DOMAIN buffer[w] /\ Tail(buffer[w])[i] = buffer[w][i + 1]
  BY <2>1, <5>1, Removed
<5> QED
  BY <4>2, <5>2
<4> QED
  BY <3>1, <4>1, <4>2
<3> QED
  BY <2>3, <3>2
<2> QED
  BY <2>2, <2>3, <2>4
<1>14. ASSUME NEW reply \in handling, HandleMessage(reply) PROVE RepliesGiven'
  BY <1>14 DEF HandleMessage
<1>15. CASE UNCHANGED vars
  BY <1>15 DEF vars
<1> QED
  BY <1>1, <1>2, <1>3, <1>5, <1>6, <1>7, <1>8, <1>9, <1>10, <1>11, <1>12, <1>13, <1>14, <1>15
     DEF Next, Microtask, IOEvent, SetUpStep, Wrappers

-----------------------------------------------------------------------------
(* The order of direct replies. *)

LEMMA Buffers ==
  ASSUME TypeOK, NEW w \in Wrappers
  PROVE  /\ buffer[w] \in Seq(Replies) /\ DOMAIN buffer[w] \subseteq Nat
         /\ \A i \in DOMAIN buffer[w] : buffer[w][i] \in Replies /\ buffer[w][i].call \in Calls
<1>1. buffer[w] \in Seq(Replies)
  BY DEF TypeOK
<1>2. \A r \in Replies : r.call \in Calls
  BY DEF Replies
<1> QED
  BY <1>1, <1>2

LEMMA ServedCalls ==
  ASSUME IInv, NEW c \in Calls, served[c] # {}
  PROVE  c \notin Events /\ sentOn[c] # Unsent /\ c \notin queued /\ call[c] \notin {"idle", "connecting"}
  BY DEF IInv, AllSent, Sent

\* A step that moves no reply keeps the order, if it only disturbs calls the server
\* has not answered, or whose connection was lost.
LEMMA Quiet ==
  ASSUME IInv, Orderly, UNCHANGED <<inbox, unacked, buffer, handling, served, got>>,
         \A c \in Calls : served[c] # {} =>
           /\ Live(c) => Live(c)' /\ sentOn'[c] = sentOn[c]
           /\ call'[c] = "waiting" /\ Live(c)' => call[c] = "waiting" /\ Live(c)
           /\ call'[c] = "completed" => call[c] = "completed",
         \A c \in Calls : served[c] = {} /\ call'[c] = "completed" =>
           call[c] = "completed" \/ c \in Events
  PROVE  Orderly'
<1> USE DEF Orderly
<1>1. ASSUME NEW w \in Wrappers, NEW i \in DOMAIN buffer[w]
      PROVE  served[buffer[w][i].call] # {} /\ buffer[w][i].call \in Calls
  BY Buffers DEF IInv, RepliesGiven, Given
<1>2. ASSUME NEW reply \in handling PROVE served[reply.call] # {} /\ reply.call \in Calls
  BY DEF IInv, RepliesGiven, Given, TypeOK, Replies
<1>3. InOrder'
<2>1. ASSUME NEW w \in Wrappers, NEW i \in DOMAIN buffer[w]
      PROVE  Live(buffer[w][i].call)' /\ sentOn'[buffer[w][i].call].wrapper = w
  BY <1>1 DEF InOrder
<2> QED
  BY <2>1 DEF InOrder
<1>4. OneAtATime'
<2>1. ASSUME NEW reply \in handling PROVE Live(reply.call)'
  BY <1>2 DEF OneAtATime
<2> QED
  BY <2>1 DEF OneAtATime
<1>5. ASSUME NEW c \in Calls PROVE Counted(c)'
<2>1. UnderWay(ValueOf(c))' <=> UnderWay(ValueOf(c))
  BY DEF UnderWay, ValueOf
<2>2. Counted(c)
  OBVIOUS
<2>3. CASE served[c] = {}
  BY <2>1, <2>2, <2>3 DEF Counted
<2>4. CASE served[c] # {}
  BY <2>1, <2>2, <2>4 DEF Counted
<2> QED
  BY <2>3, <2>4
<1> QED
  BY <1>3, <1>4, <1>5

LEMMA ReplyOrder ==
  ASSUME IInv, Orderly, TypeOK', handling = {}, Direct,
         NEW c \in Calls, NEW kind \in Kinds, Reply(c, kind)
  PROVE  Orderly'
<1> DEFINE reply == [call |-> c, kind |-> kind]
           w == sentOn[c].wrapper
<1>1. /\ UNCHANGED <<link, connects, sentOn, call, got, inbox, unacked, handling>>
      /\ served' = [served EXCEPT ![c] = @ \cup {kind}]
      /\ kind \notin served[c] /\ served[c] \cap {"end", "error"} = {} /\ c \notin Events
      /\ reply \in Replies
  BY DEF Reply, connecting, channels, calling, Direct, Replies
<1>2. \A d \in Calls : served'[d] = IF d = c THEN served[c] \cup {kind} ELSE served[d]
  BY <1>1 DEF IInv, TypeOK
<1>3. \A d \in Calls : Counted(d)
  BY DEF Orderly
<1>4. call[c] # "completed"
  BY <1>1, <1>3 DEF Counted
<1>5. \A d \in Calls : Live(d)' <=> Live(d)
  BY <1>1 DEF Live
<1>6. OneAtATime'
  BY <1>1 DEF OneAtATime
<1>7. CASE buffer' = buffer
<2>1. ~Live(c)
<3> SUFFICES ASSUME Live(c) PROVE FALSE
  OBVIOUS
<3>1. w \in consumers /\ sentOn[c].connection = connects
  BY <1>1 DEF IInv, ReplyConsumerIsThere, Live
<3>2. w \in Wrappers
  BY <3>1 DEF IInv, TypeOK
<3>3. buffer' = [buffer EXCEPT ![w] = Append(buffer[w], reply)]
  BY <3>1 DEF Reply, Direct
<3>4. buffer'[w] = Append(buffer[w], reply) /\ buffer[w] \in Seq(Replies)
  BY <3>2, <3>3 DEF IInv, TypeOK
<3>5. Len(buffer[w]) + 1 \in DOMAIN buffer'[w] /\ Len(buffer[w]) + 1 \notin DOMAIN buffer[w]
  BY <1>1, <3>4, Appended
<3> QED
  BY <1>7, <3>5
<2>2. InOrder'
  BY <1>1, <1>5, <1>7, Buffers DEF Orderly, InOrder, IInv
<2>3. ASSUME NEW d \in Calls PROVE Counted(d)'
<3>1. UnderWay(ValueOf(d))' <=> UnderWay(ValueOf(d))
  BY <1>1, <1>7 DEF UnderWay, ValueOf
<3>2. CASE d # c
  BY <1>1, <1>2, <1>3, <1>5, <3>1, <3>2 DEF Counted
<3>3. CASE d = c
  BY <1>1, <1>2, <1>3, <1>4, <1>5, <2>1, <3>1, <3>3 DEF Counted
<3> QED
  BY <3>2, <3>3
<2> QED
  BY <1>6, <2>2, <2>3 DEF Orderly
<1>8. CASE buffer' # buffer
<2>1. /\ w \in consumers /\ sentOn[c].connection = connects
      /\ buffer' = [buffer EXCEPT ![w] = Append(buffer[w], reply)]
  BY <1>8 DEF Reply, Direct
<2>2. w \in Wrappers /\ Live(c)
  BY <2>1 DEF IInv, Connected, TypeOK, Live
<2> DEFINE b == buffer[w]
           last == Len(b) + 1
<2>3. b \in Seq(Replies) /\ buffer'[w] = Append(b, reply)
  BY <2>1, <2>2 DEF IInv, TypeOK
<2>4. \A v \in Wrappers : v # w => buffer'[v] = buffer[v]
  BY <2>1, <2>2 DEF IInv, TypeOK
<2>5. /\ DOMAIN buffer'[w] = DOMAIN b \cup {last} /\ buffer'[w][last] = reply
      /\ \A i \in DOMAIN b : i < last /\ buffer'[w][i] = b[i]
      /\ DOMAIN b \subseteq Nat /\ last \in Nat
  BY <1>1, <2>3, Appended, Buffers
<2>6. ASSUME NEW i \in DOMAIN b, b[i].call = c PROVE b[i].kind = "value" /\ kind # "value"
<3>1. b[i].kind \in served[c] /\ b[i].kind \in Kinds
  BY <2>2, <2>3, <2>6, Buffers DEF IInv, RepliesGiven, Given, Replies
<3> QED
  BY <1>1, <3>1 DEF Kinds
<2>7. InOrder'
<3>1. ASSUME NEW v \in Wrappers, NEW i \in DOMAIN buffer'[v]
      PROVE  Live(buffer[v][i].call)' /\ sentOn'[buffer'[v][i].call].wrapper = v
<4>1. CASE v = w /\ i = last
  BY <1>1, <1>5, <2>2, <2>5, <4>1
<4>2. CASE i \in DOMAIN buffer[v] /\ buffer'[v][i] = buffer[v][i]
<5>1. Live(buffer[v][i].call) /\ sentOn[buffer[v][i].call].wrapper = v
  BY <4>2 DEF Orderly, InOrder
<5> QED
  BY <1>1, <4>2, <5>1 DEF Live
<4> QED
  BY <2>4, <2>5, <4>1, <4>2
<3>2. ASSUME NEW v \in Wrappers, NEW i \in DOMAIN buffer'[v], NEW j \in DOMAIN buffer'[v],
             i < j, buffer'[v][i].call = buffer'[v][j].call
      PROVE  buffer'[v][i].kind = "value" /\ buffer'[v][j].kind # "value"
<4>1. CASE v # w
  BY <2>4, <3>2, <4>1 DEF Orderly, InOrder
<4>2. CASE v = w /\ j = last
<5>1. i \in DOMAIN b /\ buffer'[w][i] = b[i]
  BY <2>5, <3>2, <4>2
<5> QED
  BY <2>5, <2>6, <3>2, <4>2, <5>1
<4>3. CASE v = w /\ j # last
<5>1. j \in DOMAIN b /\ buffer'[w][j] = b[j]
  BY <2>5, <4>3
<5>2. i \in DOMAIN b /\ buffer'[w][i] = b[i]
  BY <2>5, <3>2, <4>3, <5>1
<5> QED
  BY <2>2, <3>2, <4>3, <5>1, <5>2 DEF Orderly, InOrder
<4> QED
  BY <4>1, <4>2, <4>3
<3>3. inbox' = {} /\ \A v \in Wrappers : unacked'[v] = {}
  BY <1>1 DEF Orderly, InOrder
<3> QED
  BY <3>1, <3>2, <3>3 DEF InOrder
<2>8. ASSUME NEW r PROVE UnderWay(r)' <=> UnderWay(r) \/ r = reply
<3>1. ASSUME NEW v \in Wrappers, NEW i \in DOMAIN buffer'[v], buffer'[v][i] = r
      PROVE  UnderWay(r) \/ r = reply
  BY <2>4, <2>5, <3>1 DEF UnderWay
<3>2. UnderWay(r) => UnderWay(r)'
  BY <1>1, <2>4, <2>5 DEF UnderWay
<3>3. UnderWay(reply)'
  BY <2>2, <2>5 DEF UnderWay
<3> QED
  BY <1>1, <3>1, <3>2, <3>3 DEF UnderWay
<2>9. ASSUME NEW d \in Calls PROVE Counted(d)'
<3>1. UnderWay(ValueOf(d))' <=> UnderWay(ValueOf(d)) \/ (d = c /\ kind = "value")
  BY <2>8 DEF ValueOf
<3>2. CASE d # c
  BY <1>1, <1>2, <1>3, <1>5, <3>1, <3>2 DEF Counted
<3>3. CASE d = c
  BY <1>1, <1>2, <1>3, <1>4, <1>5, <3>1, <3>3 DEF Counted
<3> QED
  BY <3>2, <3>3
<2> QED
  BY <1>6, <2>7, <2>9 DEF Orderly
<1> QED
  BY <1>7, <1>8

LEMMA ReceiveOrder ==
  ASSUME IInv, Orderly, TypeOK', handling = {}, NEW w \in Wrappers, Receive(w)
  PROVE  Orderly'
<1> DEFINE b == buffer[w]
           reply == b[1]
<1>1. /\ UNCHANGED <<link, connects, sentOn, call, got, served, listeners, inbox, unacked>>
      /\ b # <<>> /\ buffer' = [buffer EXCEPT ![w] = Tail(b)]
      /\ handling' = IF Head(b).call \in listeners THEN {Head(b)} ELSE {}
  BY DEF Receive, connecting, channels, calling
<1>2. b \in Seq(Replies) /\ TypeOK
  BY DEF IInv, TypeOK
<1>3. /\ Head(b) = reply /\ reply \in Replies /\ 1 \in DOMAIN b
      /\ \A i \in DOMAIN Tail(b) : i \in Nat \ {0} /\ i + 1 \in DOMAIN b /\ Tail(b)[i] = b[i + 1]
      /\ \A i \in DOMAIN b : i # 1 => \E j \in DOMAIN Tail(b) : i = j + 1
  BY <1>1, <1>2, Removed
<1>4. buffer'[w] = Tail(b) /\ \A v \in Wrappers : v # w => buffer'[v] = buffer[v]
  BY <1>1, <1>2 DEF TypeOK
<1>5. ASSUME NEW v \in Wrappers, NEW i \in DOMAIN buffer'[v]
      PROVE  \E j \in DOMAIN buffer[v] : buffer'[v][i] = buffer[v][j] /\ (v = w => j = i + 1)
<2>1. CASE v = w
  BY <1>3, <1>4, <2>1
<2>2. CASE v # w
  BY <1>4, <2>2
<2> QED
  BY <2>1, <2>2
<1>6. \A c \in Calls : Live(c)' <=> Live(c)
  BY <1>1 DEF Live
<1>7. InOrder
  BY DEF Orderly
<1>8. InOrder'
<2>1. ASSUME NEW v \in Wrappers, NEW i \in DOMAIN buffer'[v]
      PROVE  Live(buffer[v][i].call)' /\ sentOn'[buffer'[v][i].call].wrapper = v
<3>1. PICK j \in DOMAIN buffer[v] : buffer'[v][i] = buffer[v][j]
  BY <1>5
<3>2. Live(buffer[v][j].call) /\ sentOn[buffer[v][j].call].wrapper = v
  BY <1>7 DEF InOrder
<3> QED
  BY <1>1, <3>1, <3>2 DEF Live
<2>2. ASSUME NEW v \in Wrappers, NEW i \in DOMAIN buffer'[v], NEW j \in DOMAIN buffer'[v],
             i < j, buffer'[v][i].call = buffer'[v][j].call
      PROVE  buffer'[v][i].kind = "value" /\ buffer'[v][j].kind # "value"
<3>1. CASE v = w
<4>1. i + 1 \in DOMAIN b /\ j + 1 \in DOMAIN b /\ i + 1 < j + 1
<5>1. i \in DOMAIN Tail(b) /\ j \in DOMAIN Tail(b)
  BY <1>4, <3>1
<5>2. i \in Nat /\ j \in Nat
  BY <1>3, <5>1
<5> QED
  BY <1>3, <2>2, <5>1, <5>2
<4>2. buffer'[w][i] = b[i + 1] /\ buffer'[w][j] = b[j + 1]
  BY <1>3, <1>4, <3>1
<4> QED
  BY <1>7, <2>2, <3>1, <4>1, <4>2 DEF InOrder
<3>2. CASE v # w
  BY <1>4, <1>7, <2>2, <3>2 DEF InOrder
<3> QED
  BY <3>1, <3>2
<2>3. inbox' = {} /\ \A v \in Wrappers : unacked'[v] = {}
  BY <1>1, <1>7 DEF InOrder
<2> QED
  BY <2>1, <2>2, <2>3 DEF InOrder
<1>9. OneAtATime'
<2> SUFFICES ASSUME handling' = {reply}
             PROVE  /\ Live(reply.call)
                    /\ \A v \in Wrappers : \A i \in DOMAIN buffer'[v] :
                         buffer'[v][i].call = reply.call =>
                           reply.kind = "value" /\ buffer'[v][i].kind # "value"
<3>1. handling' = {reply} \/ handling' = {}
  BY <1>1, <1>3
<3>2. ASSUME NEW r \in handling' PROVE r = reply /\ handling' = {reply}
  BY <3>1
<3> QED
  BY <1>1, <3>2 DEF OneAtATime, Live
<2>1. Live(reply.call) /\ sentOn[reply.call].wrapper = w
  BY <1>3, <1>7 DEF InOrder
<2>2. ASSUME NEW v \in Wrappers, NEW i \in DOMAIN buffer'[v], buffer'[v][i].call = reply.call
      PROVE  reply.kind = "value" /\ buffer'[v][i].kind # "value"
<3>1. PICK j \in DOMAIN buffer[v] : buffer'[v][i] = buffer[v][j] /\ (v = w => j = i + 1)
  BY <1>5
<3>2. sentOn[buffer[v][j].call].wrapper = v
  BY <1>7 DEF InOrder
<3>3. v = w
  BY <2>1, <2>2, <3>1, <3>2
<3>4. 1 < j
<4>1. i \in Nat \ {0}
  BY <1>3, <1>4, <3>3
<4> QED
  BY <3>1, <3>3, <4>1
<3> QED
  BY <1>3, <1>7, <2>2, <3>1, <3>3, <3>4 DEF InOrder
<2> QED
  BY <2>1, <2>2
<1>10. ASSUME NEW c \in Calls PROVE Counted(c)'
<2>1. Counted(c)
  BY DEF Orderly
<2>2. UnderWay(ValueOf(c))' => UnderWay(ValueOf(c))
<3>1. ASSUME ValueOf(c) \in handling' PROVE UnderWay(ValueOf(c))
  BY <1>1, <1>3, <3>1 DEF UnderWay
<3>2. ASSUME NEW v \in Wrappers, NEW i \in DOMAIN buffer'[v], buffer'[v][i] = ValueOf(c)
      PROVE  UnderWay(ValueOf(c))
  BY <1>5, <3>2 DEF UnderWay
<3> QED
  BY <3>1, <3>2 DEF UnderWay, ValueOf
<2>3. ASSUME call[c] = "waiting", Live(c), "value" \in served[c], UnderWay(ValueOf(c))
      PROVE  UnderWay(ValueOf(c))'
<3>1. PICK v \in Wrappers : \E i \in DOMAIN buffer[v] : buffer[v][i] = ValueOf(c)
  BY <2>3 DEF UnderWay
<3>2. PICK i \in DOMAIN buffer[v] : buffer[v][i] = ValueOf(c)
  BY <3>1
<3>3. CASE v # w
  BY <1>4, <3>2, <3>3 DEF UnderWay, ValueOf
<3>4. CASE v = w /\ i # 1
<4>1. PICK j \in DOMAIN Tail(b) : i = j + 1
  BY <1>3, <3>4
<4>2. buffer'[w][j] = ValueOf(c) /\ j \in DOMAIN buffer'[w]
  BY <1>3, <1>4, <3>2, <3>4, <4>1
<4> QED
  BY <4>2 DEF UnderWay, ValueOf
<3>5. CASE v = w /\ i = 1
<4>1. reply = ValueOf(c) /\ reply.call = c
  BY <3>2, <3>5 DEF ValueOf
<4>2. c \in listeners
  BY <2>3 DEF IInv, AllSent, Sent
<4> QED
  BY <1>1, <1>3, <4>1, <4>2 DEF UnderWay, ValueOf
<3> QED
  BY <3>3, <3>4, <3>5
<2> QED
  BY <1>1, <1>6, <2>1, <2>2, <2>3 DEF Counted
<1> QED
  BY <1>8, <1>9, <1>10 DEF Orderly

LEMMA HandleOrder ==
  ASSUME IInv, Orderly, TypeOK', NEW reply \in handling, HandleMessage(reply)
  PROVE  Orderly'
<1> DEFINE c == reply.call
<1>1. UNCHANGED <<link, connects, sentOn, served, inbox, unacked, buffer>>
  BY DEF HandleMessage, connecting, channels
<1>2. /\ handling = {reply} /\ handling' = {} /\ Live(c)
      /\ \A w \in Wrappers : \A i \in DOMAIN buffer[w] :
           buffer[w][i].call = c => reply.kind = "value" /\ buffer[w][i].kind # "value"
  BY DEF HandleMessage, Orderly, OneAtATime
<1>3. c \in Calls /\ reply \in Replies /\ reply.kind \in served[c] /\ TypeOK
  BY DEF IInv, TypeOK, Replies, RepliesGiven, Given
<1>4. InOrder'
  BY <1>1 DEF Orderly, InOrder, Live
<1>5. OneAtATime'
  BY <1>2 DEF OneAtATime
<1>6. \A d \in Calls : Counted(d) /\ (Live(d)' <=> Live(d))
  BY <1>1 DEF Orderly, Live
<1>7. ASSUME NEW d \in Calls PROVE UnderWay(ValueOf(d)) <=> UnderWay(ValueOf(d))' \/ reply = ValueOf(d)
  BY <1>1, <1>2 DEF UnderWay, ValueOf
<1>8. reply = ValueOf(c) <=> reply.kind = "value"
  BY <1>3 DEF Replies, ValueOf
<1>9. \A d \in Calls : d # c => reply # ValueOf(d)
  BY DEF ValueOf
<1>10. ~ UnderWay(ValueOf(c))'
  BY <1>1, <1>2 DEF UnderWay, ValueOf
<1>11. CASE Deaf(c) /\ UNCHANGED <<call, listeners, got>>
<2> SUFFICES ASSUME NEW d \in Calls PROVE Counted(d)'
  BY <1>4, <1>5 DEF Orderly
<2>1. CASE d # c
  BY <1>1, <1>6, <1>7, <1>9, <1>11, <2>1 DEF Counted
<2>2. CASE d = c
  BY <1>1, <1>6, <1>10, <1>7, <1>11, <2>2 DEF Counted, Deaf
<2> QED
  BY <2>1, <2>2
<1>12. CASE /\ ~Deaf(c) /\ reply.kind = "value" /\ UNCHANGED <<call, listeners>>
            /\ got' = [got EXCEPT ![c] = got[c] + 1]
<2> SUFFICES ASSUME NEW d \in Calls PROVE Counted(d)'
  BY <1>4, <1>5 DEF Orderly
<2>1. CASE d # c
<3>1. got'[d] = got[d]
  BY <1>3, <1>12, <2>1 DEF TypeOK
<3> QED
  BY <1>1, <1>6, <1>7, <1>9, <1>12, <2>1, <3>1 DEF Counted
<2>2. CASE d = c
<3>1. UnderWay(ValueOf(c))
  BY <1>3, <1>7, <1>8, <1>12
<3>2. got[c] = 0
  BY <1>3, <1>6, <3>1 DEF Counted
<3>3. got'[c] = 1
  BY <1>3, <1>12, <3>2 DEF TypeOK
<3> QED
  BY <1>1, <1>3, <1>10, <1>12, <2>2, <3>3 DEF Counted, Deaf
<2> QED
  BY <2>1, <2>2
<1>13. ASSUME NEW outcome \in {"completed", "failed"},
              ~Deaf(c), reply.kind # "value", UNCHANGED got,
              outcome = IF reply.kind = "end" THEN "completed" ELSE "failed",
              call' = [call EXCEPT ![c] = outcome]
       PROVE  Orderly'
<2> SUFFICES ASSUME NEW d \in Calls PROVE Counted(d)'
  BY <1>4, <1>5 DEF Orderly
<2>1. CASE d # c
<3>1. call'[d] = call[d]
  BY <1>3, <1>13, <2>1 DEF TypeOK
<3> QED
  BY <1>1, <1>6, <1>7, <1>9, <1>13, <2>1, <3>1 DEF Counted
<2>2. CASE d = c
<3>1. call'[c] = outcome /\ call[c] = "waiting"
  BY <1>3, <1>13 DEF TypeOK, Deaf
<3>2. ~ UnderWay(ValueOf(c))
  BY <1>3, <1>7, <1>8, <1>10, <1>13
<3>3. "value" \in served[c] => got[c] = 1
  BY <1>2, <1>3, <1>6, <3>1, <3>2 DEF Counted
<3>4. outcome = "completed" => "end" \in served[c]
  BY <1>3, <1>13
<3>5. got[c] \in {0, 1} /\ ("value" \notin served[c] => got[c] = 0)
  BY <1>3, <1>6 DEF Counted
<3> QED
  BY <1>1, <1>10, <1>13, <2>2, <3>1, <3>3, <3>4, <3>5 DEF Counted
<2> QED
  BY <2>1, <2>2
<1> QED
  BY <1>11, <1>12, <1>13, Handled

LEMMA OptionsFixed == [Next]_vars => UNCHANGED options
<1> USE DEF Send, Connect, FirstConnectionFails, Disconnect, Close, SetupAsserted, SetupConsumes,
            SetupFails, ConnectionRejects, Publish, PublishFails, Flush, Cancel
<1>1. IOEvent => UNCHANGED options
  BY DEF IOEvent, Reply, Deliver, Stolen, Receive, SetUpStep
<1>2. Microtask => UNCHANGED options
  BY DEF Microtask, HandleMessage
<1> QED
  BY <1>1, <1>2 DEF Next, vars

\* Calls that neither get a connection, nor complete, by a step.
Undisturbed(c) ==
  /\ Live(c) => Live(c)' /\ sentOn'[c] = sentOn[c]
  /\ call'[c] = "waiting" /\ Live(c)' => call[c] = "waiting" /\ Live(c)
  /\ call'[c] = "completed" => call[c] = "completed"

LEMMA QuietSteps ==
  ASSUME IInv, TypeOK', Orderly, UNCHANGED <<inbox, unacked, buffer, handling, served, got>>,
         \A c \in Calls : IF served[c] # {} THEN Undisturbed(c)
                          ELSE call'[c] = "completed" => call[c] = "completed" \/ c \in Events
  PROVE  Orderly'
  BY Quiet DEF Undisturbed

LEMMA LossOrder ==
  ASSUME IInv, Orderly, TypeOK', LoseReplies, handling = {}, UNCHANGED <<handling, served, got>>,
         link' = "down", \A c \in Calls : call'[c] = "completed" => call[c] = "completed"
  PROVE  Orderly'
<1>1. inbox' = {} /\ \A w \in Wrappers : unacked'[w] = {} /\ buffer'[w] = <<>>
  BY DEF LoseReplies, Orderly, InOrder
<1>2. InOrder' /\ OneAtATime'
  BY <1>1 DEF InOrder, OneAtATime
<1>3. ASSUME NEW c \in Calls PROVE Counted(c)'
<2>1. Counted(c) /\ ~Live(c)' /\ ~UnderWay(ValueOf(c))'
  BY <1>1 DEF Orderly, Live, UnderWay, ValueOf
<2> QED
  BY <2>1 DEF Counted
<1> QED
  BY <1>2, <1>3 DEF Orderly

LEMMA InSequenceNext == IInv /\ TypeOK' /\ [Next]_vars => InSequence'
<1> SUFFICES ASSUME IInv, TypeOK', [Next]_vars, Synchronous' PROVE Orderly'
  BY DEF InSequence
<1>1. Direct /\ ~options.asyncDeserializer
  BY OptionsFixed DEF Synchronous, Direct
<1>2. Orderly /\ TypeOK
  BY <1>1 DEF IInv, InSequence, Synchronous
<1> USE <1>1, <1>2
<1> DEFINE Quietly == UNCHANGED <<inbox, unacked, buffer, handling, served, got>>
           Safe(c) == IF served[c] # {} THEN Undisturbed(c)
                      ELSE call'[c] = "completed" => call[c] = "completed" \/ c \in Events
<1>3. ASSUME NEW reply \in handling, HandleMessage(reply) PROVE Orderly'
  BY <1>3, HandleOrder
<1>4. ASSUME NEW d \in Calls, ConnectionRejects(d) \/ PublishFails(d) PROVE Orderly'
<2>1. Quietly /\ UNCHANGED <<link, connects, sentOn>>
  BY <1>4 DEF ConnectionRejects, PublishFails, connecting, replying
<2>2. call' = [call EXCEPT ![d] = "failed"]
  BY <1>4 DEF ConnectionRejects, PublishFails
<2>3. ASSUME NEW c \in Calls PROVE Safe(c)
  BY <2>1, <2>2 DEF Undisturbed, Live, TypeOK
<2> QED
  BY <2>1, <2>3, QuietSteps
<1>5. ASSUME NEW d \in Calls, Publish(d) PROVE Orderly'
<2>1. Quietly /\ UNCHANGED <<link, connects, sentOn>>
  BY <1>5 DEF Publish, connecting, replying
<2>2. call' = [call EXCEPT ![d] = "waiting"] /\ served[d] = {}
  BY <1>5, ServedCalls DEF Publish
<2>3. ASSUME NEW c \in Calls PROVE Safe(c)
  BY <2>1, <2>2 DEF Undisturbed, Live, TypeOK
<2> QED
  BY <2>1, <2>3, QuietSteps
<1>6. ASSUME handling = {}, NEW d \in Calls, Send(d) PROVE Orderly'
<2>1. Quietly /\ UNCHANGED <<link, connects, sentOn>>
  BY <1>6 DEF Send, replying
<2>2. call' = [call EXCEPT ![d] = "connecting"]
  BY <1>6 DEF Send
<2>3. ASSUME NEW c \in Calls PROVE Safe(c)
  BY <2>1, <2>2 DEF Undisturbed, Live, TypeOK
<2> QED
  BY <2>1, <2>3, QuietSteps
<1>7. ASSUME handling = {}, NEW d \in Calls, Flush(d) PROVE Orderly'
<2>1. Quietly /\ UNCHANGED <<link, connects>> /\ served[d] = {}
  BY <1>7, ServedCalls DEF Flush, connecting, replying
<2>2. \A c \in Calls \ {d} : sentOn'[c] = sentOn[c] /\ call'[c] = call[c]
  BY <1>7 DEF Flush, TypeOK
<2>3. call'[d] = "completed" => call[d] = "completed" \/ d \in Events
  BY <1>7 DEF Flush
<2>4. ASSUME NEW c \in Calls PROVE Safe(c)
  BY <2>1, <2>2, <2>3 DEF Undisturbed, Live
<2> QED
  BY <2>1, <2>4, QuietSteps
<1>8. ASSUME handling = {}, NEW d \in Calls, Cancel(d) PROVE Orderly'
<2>1. Quietly /\ UNCHANGED <<link, connects, sentOn>>
  BY <1>8 DEF Cancel, connecting, replying
<2>2. call' = [call EXCEPT ![d] = "cancelled"]
  BY <1>8 DEF Cancel
<2>3. ASSUME NEW c \in Calls PROVE Safe(c)
  BY <2>1, <2>2 DEF Undisturbed, Live, TypeOK
<2> QED
  BY <2>1, <2>3, QuietSteps
<1>9. ASSUME handling = {}, Connect PROVE Orderly'
<2>1. Quietly /\ UNCHANGED <<sentOn, call>> /\ link = "down" /\ connects' = connects + 1
  BY <1>9 DEF Connect, calling, replying
<2>2. ASSUME NEW c \in Calls PROVE ~Live(c) /\ ~Live(c)'
<3>1. sentOn[c].connection <= connects
  BY DEF IInv, AllSent, Sent
<3>2. sentOn[c].connection \in Nat /\ connects \in Nat
  BY DEF TypeOK
<3>3. sentOn'[c].connection # connects'
  BY <2>1, <3>1, <3>2
<3> QED
  BY <2>1, <3>3 DEF Live
<2>3. ASSUME NEW c \in Calls PROVE Safe(c)
  BY <2>1, <2>2 DEF Undisturbed
<2> QED
  BY <2>1, <2>3, QuietSteps
<1>10. ASSUME handling = {},
              FirstConnectionFails \/ \E w \in Wrappers : SetUpStep(w) \/ SetupFails(w)
       PROVE  Orderly'
<2>1. Quietly /\ UNCHANGED <<link, connects, sentOn, call>>
  BY <1>10 DEF FirstConnectionFails, SetUpStep, SetupAsserted, SetupConsumes, SetupFails,
               connecting, calling, replying
<2>2. ASSUME NEW c \in Calls PROVE Safe(c)
  BY <2>1 DEF Undisturbed, Live
<2> QED
  BY <2>1, <2>2, QuietSteps
<1>11. ASSUME handling = {}, Disconnect PROVE Orderly'
<2>1. LoseReplies /\ link' = "down" /\ UNCHANGED <<handling, served, got, call>>
  BY <1>11 DEF Disconnect, calling
<2> QED
  BY <1>11, <2>1, LossOrder
<1>12. ASSUME handling = {}, Close PROVE Orderly'
<2>1. LoseReplies /\ link' = "down" /\ UNCHANGED <<handling, served, got>>
  BY <1>12 DEF Close
<2>2. \A c \in Calls : call'[c] = "completed" => call[c] = "completed"
  BY <1>12 DEF Close
<2> QED
  BY <1>12, <2>1, <2>2, LossOrder
<1>13. ASSUME handling = {}, NEW c \in Calls, NEW kind \in Kinds, Reply(c, kind) PROVE Orderly'
  BY <1>13, ReplyOrder
<1>14. ASSUME handling = {}, NEW w \in Wrappers, Receive(w) PROVE Orderly'
  BY <1>14, ReceiveOrder
<1>15. inbox = {}
  BY DEF Orderly, InOrder
<1>16. CASE UNCHANGED vars
<2>1. Quietly /\ UNCHANGED <<link, connects, sentOn, call>>
  BY <1>16 DEF vars, connecting, calling, replying
<2>2. ASSUME NEW c \in Calls PROVE Safe(c)
  BY <2>1 DEF Undisturbed, Live
<2> QED
  BY <2>1, <2>2, QuietSteps
<1>17. CASE Microtask
  BY <1>3, <1>4, <1>5, <1>17 DEF Microtask
<1>18. CASE RunToCompletion /\ IOEvent
<2>1. handling = {}
  BY <1>18 DEF RunToCompletion
<2> QED
  BY <1>6, <1>7, <1>8, <1>9, <1>10, <1>11, <1>12, <1>13, <1>14, <1>15, <1>18, <2>1 DEF IOEvent
<1> QED
  BY <1>16, <1>17, <1>18 DEF Next

-----------------------------------------------------------------------------
(* The invariant and its consequences. *)

LEMMA IInvInit == Init => IInv
<1> SUFFICES ASSUME Init PROVE IInv
  OBVIOUS
<1>1. TypeOK
  BY TypeInit
<1>2. Connected
  BY DEF Init, Connected
<1>3. AllSent
  BY DEF Init, AllSent, Sent, Unsent, Live
<1>4. WaitingCallsAreOnTheirWay /\ ReplyConsumerIsThere /\ NoListenerLeak
  BY DEF Init, WaitingCallsAreOnTheirWay, ReplyConsumerIsThere, NoListenerLeak
<1>5. RepliesGiven
  BY DEF Init, RepliesGiven
<1>6. Orderly
  BY DEF Init, Orderly, InOrder, OneAtATime, Counted, UnderWay, ValueOf
<1> QED
  BY <1>1, <1>2, <1>3, <1>4, <1>5, <1>6 DEF IInv, InSequence

LEMMA IInvNext == IInv /\ [Next]_vars => IInv'
<1>1. IInv /\ [Next]_vars => TypeOK'
  BY TypeNext DEF IInv
<1> QED
  BY <1>1, ConnectedNext, AllSentNext, WaitingNext, ReplyConsumerNext, ListenersNext, GivenNext,
     InSequenceNext DEF IInv

LEMMA Invariance == Spec => []IInv
  BY IInvInit, IInvNext, PTL DEF Spec

\* publish() never meets a null channel: a waiting call is queued or on the wire.
THEOREM WaitingCorrect == Spec => []WaitingCallsAreOnTheirWay
<1>1. IInv => WaitingCallsAreOnTheirWay
  BY DEF IInv
<1> QED
  BY <1>1, Invariance, PTL

\* A request on the wire has its reply consumer, whichever of the two wrappers sent it.
THEOREM ReplyConsumerCorrect == Spec => []ReplyConsumerIsThere
<1>1. IInv => ReplyConsumerIsThere
  BY DEF IInv
<1> QED
  BY <1>1, Invariance, PTL

\* The response emitter keeps listeners of waiting calls only, but for those a failed
\* serialization leaves behind.
THEOREM ListenersCorrect == Spec => []NoListenerLeak
<1>1. IInv => NoListenerLeak
  BY DEF IInv
<1> QED
  BY <1>1, Invariance, PTL

\* With direct replies and a synchronous deserializer, a completed call has got the
\* value the server sent it, once.
THEOREM NoGapCorrect == Spec => []NoGapWithDirectReplies
<1>1. IInv => NoGapWithDirectReplies
<2> SUFFICES ASSUME IInv, Synchronous, NEW c \in Calls, call[c] = "completed"
             PROVE  got[c] = Cardinality(served[c] \cap {"value"})
  BY DEF NoGapWithDirectReplies, Synchronous
<2>1. Counted(c)
  BY DEF IInv, InSequence, Orderly
<2>2. CASE "value" \in served[c]
<3>1. served[c] \cap {"value"} = {"value"} /\ got[c] = 1
  BY <2>1, <2>2 DEF Counted
<3>2. Cardinality({"value"}) = 1
  BY FS_Singleton
<3> QED
  BY <3>1, <3>2
<2>3. CASE "value" \notin served[c]
<3>1. served[c] \cap {"value"} = {} /\ got[c] = 0
  BY <2>1, <2>3 DEF Counted
<3> QED
  BY <3>1, FS_EmptySet
<2> QED
  BY <2>2, <2>3
<1> QED
  BY <1>1, Invariance, PTL

-----------------------------------------------------------------------------
(* AmqpClient implements RpcContract. *)

\* Where the contract sees a call.
PhaseOf(c) == IF call[c] \in {"connecting", "stranded", "waiting"} THEN "pending" ELSE call[c]

Phases == [c \in Calls |-> PhaseOf(c)]

\* The contract's actions as the client sees them.
LEMMA StartIs == ASSUME NEW c \in Calls PROVE Contract!Start(c) <=>
  /\ Phases[c] = "idle"
  /\ Phases' = [Phases EXCEPT ![c] = "pending"]
  /\ UNCHANGED <<got, served>>
  BY DEF Contract!Start, Phases, PhaseOf

LEMMA SettleIs == ASSUME NEW c \in Calls, NEW outcome PROVE Contract!Settle(c, outcome) <=>
  /\ Phases[c] = "pending"
  /\ Phases' = [Phases EXCEPT ![c] = outcome]
  /\ UNCHANGED <<got, served>>
  BY DEF Contract!Settle, Phases, PhaseOf

LEMMA ServeIs == ASSUME NEW c \in Calls, NEW kind \in Kinds PROVE Contract!Serve(c, kind) <=>
  /\ Phases[c] # "idle" /\ c \notin Events
  /\ kind \notin served[c] /\ served[c] \cap {"end", "error"} = {}
  /\ served' = [served EXCEPT ![c] = @ \cup {kind}]
  /\ UNCHANGED <<Phases, got>>
  BY DEF Contract!Serve, Phases, PhaseOf

LEMMA ValueIs == ASSUME NEW c \in Calls PROVE Contract!Value(c) <=>
  /\ Phases[c] = "pending" /\ "value" \in served[c]
  /\ got' = [got EXCEPT ![c] = @ + 1]
  /\ UNCHANGED <<Phases, served>>
  BY DEF Contract!Value, Phases, PhaseOf

LEMMA FailIs == Contract!Fail <=>
  /\ \E failing \in SUBSET {c \in Calls : Phases[c] = "pending"} :
       Phases' = [c \in Calls |-> IF c \in failing THEN "failed" ELSE Phases[c]]
  /\ UNCHANGED <<got, served>>
  BY DEF Contract!Fail, Phases, PhaseOf

LEMMA StutterIs == UNCHANGED Contract!vars <=> UNCHANGED <<Phases, got, served>>
  BY DEF Contract!vars, Phases, PhaseOf

LEMMA PhasesStay ==
  ASSUME \A c \in Calls : PhaseOf(c)' = PhaseOf(c), UNCHANGED <<got, served>>
  PROVE  UNCHANGED Contract!vars
<1>1. Phases' = Phases
  BY DEF Phases
<1> QED
  BY <1>1, StutterIs

\* A step that settles the pending calls of a set, and nothing else.
LEMMA Settles ==
  ASSUME TypeOK, NEW c \in Calls, NEW outcome \in Settled, Phases[c] = "pending",
         call' = [call EXCEPT ![c] = outcome], UNCHANGED <<got, served>>
  PROVE  Contract!Settle(c, outcome)
<1>1. \A d \in Calls : PhaseOf(d)' = IF d = c THEN outcome ELSE PhaseOf(d)
  BY DEF PhaseOf, TypeOK, Settled
<1>2. Phases' = [Phases EXCEPT ![c] = outcome]
  BY <1>1 DEF Phases
<1> QED
  BY <1>2, SettleIs

LEMMA Fails ==
  ASSUME TypeOK, UNCHANGED <<got, served>>, NEW failing \in SUBSET Calls,
         \A c \in failing : Phases[c] = "pending" /\ call'[c] = "failed",
         \A c \in Calls \ failing : PhaseOf(c)' = PhaseOf(c)
  PROVE  Contract!Fail
<1>1. \A c \in Calls : PhaseOf(c)' = IF c \in failing THEN "failed" ELSE PhaseOf(c)
  BY DEF PhaseOf
<1>2. Phases' = [c \in Calls |-> IF c \in failing THEN "failed" ELSE Phases[c]]
  BY <1>1 DEF Phases
<1> QED
  BY <1>2, FailIs

LEMMA FailsAlone ==
  ASSUME TypeOK, UNCHANGED <<got, served>>, NEW c \in Calls, Phases[c] = "pending",
         call' = [call EXCEPT ![c] = "failed"]
  PROVE  Contract!Fail
<1> DEFINE failing == {c}
<1>1. \A d \in failing : Phases[d] = "pending" /\ call'[d] = "failed"
  BY DEF TypeOK
<1>2. \A d \in Calls \ failing : PhaseOf(d)' = PhaseOf(d)
  BY DEF PhaseOf, TypeOK
<1>3. failing \in SUBSET Calls
  OBVIOUS
<1> HIDE DEF failing
<1> QED
  BY <1>1, <1>2, <1>3, Fails

LEMMA Simulation == IInv /\ [Next]_vars => [Contract!Next]_(Contract!vars)
<1> SUFFICES ASSUME IInv, [Next]_vars PROVE Contract!Next \/ UNCHANGED Contract!vars
  OBVIOUS
<1> DEFINE Simulated == Contract!Next \/ UNCHANGED Contract!vars
<1>a. TypeOK
  BY DEF IInv
<1>b. \A c \in Calls : Phases[c] = PhaseOf(c)
  BY DEF Phases
<1>c. UNCHANGED <<call, got, served>> => UNCHANGED Contract!vars
  BY PhasesStay DEF PhaseOf
<1>1. ASSUME NEW c \in Calls, Send(c) PROVE Simulated
<2>1. call[c] = "idle" /\ call' = [call EXCEPT ![c] = "connecting"] /\ UNCHANGED <<got, served>>
  BY <1>1 DEF Send, replying
<2>2. Phases[c] = "idle"
  BY <1>b, <2>1 DEF PhaseOf
<2>3. \A d \in Calls : PhaseOf(d)' = IF d = c THEN "pending" ELSE PhaseOf(d)
  BY <1>a, <2>1 DEF PhaseOf, TypeOK
<2>4. Phases' = [Phases EXCEPT ![c] = "pending"]
  BY <2>3 DEF Phases
<2> QED
  BY <2>1, <2>2, <2>4, StartIs DEF Contract!Next
<1>2. CASE Connect
  BY <1>2, <1>c DEF Connect, calling, replying
<1>3. CASE FirstConnectionFails
  BY <1>3, <1>c DEF FirstConnectionFails, calling, replying
<1>4. CASE Disconnect
  BY <1>4, <1>c DEF Disconnect, calling
<1>5. CASE Close
<2> DEFINE failing == {c \in Calls : call[c] = "waiting" /\ c \in queued}
<2>1. \A c \in failing : Phases[c] = "pending" /\ call'[c] = "failed"
  BY <1>5, <1>b DEF Close, PhaseOf
<2>2. ASSUME NEW c \in Calls \ failing PROVE PhaseOf(c)' = PhaseOf(c)
  BY <1>5, <1>a DEF Close, PhaseOf, TypeOK
<2>3. UNCHANGED <<got, served>>
  BY <1>5 DEF Close
<2>4. Contract!Fail
  BY <1>a, <2>1, <2>2, <2>3, Fails
<2> QED
  BY <2>4 DEF Contract!Next
<1>6. ASSUME NEW w \in Wrappers, SetupAsserted(w) \/ SetupConsumes(w) \/ SetupFails(w) PROVE Simulated
  BY <1>6, <1>c DEF SetupAsserted, SetupConsumes, SetupFails, calling, replying
<1>7. ASSUME NEW c \in Calls, ConnectionRejects(c) \/ PublishFails(c) PROVE Simulated
<2>1. call[c] = "connecting" /\ call' = [call EXCEPT ![c] = "failed"] /\ UNCHANGED <<got, served>>
  BY <1>7 DEF ConnectionRejects, PublishFails, replying
<2>2. Phases[c] = "pending"
  BY <1>b, <2>1 DEF PhaseOf
<2>3. Contract!Fail
  BY <1>a, <2>1, <2>2, FailsAlone
<2> QED
  BY <2>3 DEF Contract!Next
<1>8. ASSUME NEW c \in Calls, Publish(c) PROVE Simulated
<2>1. call[c] = "connecting" /\ call' = [call EXCEPT ![c] = "waiting"] /\ UNCHANGED <<got, served>>
  BY <1>8 DEF Publish, replying
<2>2. \A d \in Calls : PhaseOf(d)' = PhaseOf(d)
  BY <1>a, <2>1 DEF PhaseOf, TypeOK
<2> QED
  BY <2>1, <2>2, PhasesStay
<1>9. ASSUME NEW c \in Calls, Flush(c) PROVE Simulated
<2>1. UNCHANGED <<got, served>>
  BY <1>9 DEF Flush, replying
<2>2. CASE c \in Events /\ call[c] = "waiting"
<3>1. call' = [call EXCEPT ![c] = "completed"] /\ Phases[c] = "pending"
  BY <1>9, <1>b, <2>2 DEF Flush, PhaseOf
<3>2. Contract!Settle(c, "completed")
  BY <1>a, <2>1, <3>1, Settles DEF Settled
<3> QED
  BY <2>2, <3>2 DEF Contract!Next, Contract!Complete
<2>3. CASE ~(c \in Events /\ call[c] = "waiting")
  BY <1>9, <1>c, <2>1, <2>3 DEF Flush
<2> QED
  BY <2>2, <2>3
<1>10. ASSUME NEW c \in Calls, Cancel(c) PROVE Simulated
<2>1. call' = [call EXCEPT ![c] = "cancelled"] /\ UNCHANGED <<got, served>> /\ Phases[c] = "pending"
  BY <1>10, <1>b DEF Cancel, PhaseOf, replying
<2>2. Contract!Settle(c, "cancelled")
  BY <1>a, <2>1, Settles DEF Settled
<2> QED
  BY <2>2 DEF Contract!Next
<1>11. ASSUME NEW c \in Calls, NEW kind \in Kinds, Reply(c, kind) PROVE Simulated
<2>1. /\ c \notin Events /\ kind \notin served[c] /\ served[c] \cap {"end", "error"} = {}
      /\ served' = [served EXCEPT ![c] = @ \cup {kind}] /\ UNCHANGED <<call, got>>
  BY <1>11 DEF Reply, calling
<2>2. Phases[c] # "idle"
<3>1. call[c] # "idle"
  BY <1>11 DEF Reply, IInv, AllSent, Sent
<3> QED
  BY <1>b, <3>1 DEF PhaseOf
<2>3. Phases' = Phases
  BY <2>1 DEF Phases, PhaseOf
<2>4. Contract!Serve(c, kind)
  BY <2>1, <2>2, <2>3, ServeIs
<2> QED
  BY <2>4 DEF Contract!Next, Contract!Kinds, Kinds
<1>12. ASSUME NEW reply \in inbox, NEW w \in Wrappers, Deliver(w, reply) PROVE Simulated
  BY <1>12, <1>c DEF Deliver, calling
<1>13. ASSUME NEW reply \in inbox, Stolen(reply) PROVE Simulated
  BY <1>13, <1>c DEF Stolen, calling
<1>14. ASSUME NEW w \in Wrappers, Receive(w) PROVE Simulated
  BY <1>14, <1>c DEF Receive, calling
<1>15. ASSUME NEW reply \in handling, HandleMessage(reply) PROVE Simulated
<2> DEFINE c == reply.call
<2>1. c \in Calls /\ reply.kind \in Kinds /\ reply.kind \in served[c]
  BY <1>a DEF IInv, RepliesGiven, Given, TypeOK, Replies
<2>2. UNCHANGED served
  BY <1>15 DEF HandleMessage
<2>3. ~Deaf(c) => Phases[c] = "pending"
  BY <1>b, <2>1 DEF Deaf, PhaseOf
<2>4. CASE Deaf(c) /\ UNCHANGED <<call, listeners, got>>
  BY <1>c, <2>2, <2>4
<2>5. CASE /\ ~Deaf(c) /\ reply.kind = "value" /\ UNCHANGED <<call, listeners>>
           /\ got' = [got EXCEPT ![c] = got[c] + 1]
<3>1. Phases' = Phases
  BY <2>5 DEF Phases, PhaseOf
<3>2. Contract!Value(c)
  BY <2>1, <2>2, <2>3, <2>5, <3>1, ValueIs
<3> QED
  BY <2>1, <3>2 DEF Contract!Next
<2>6. ASSUME NEW outcome \in {"completed", "failed"},
             ~Deaf(c), reply.kind # "value", UNCHANGED got,
             outcome = IF reply.kind = "end" THEN "completed" ELSE "failed",
             call' = [call EXCEPT ![c] = outcome]
      PROVE  Simulated
<3>1. CASE outcome = "completed"
<4>1. Contract!Settle(c, "completed")
  BY <1>a, <2>1, <2>2, <2>3, <2>6, <3>1, Settles DEF Settled
<4>2. "end" \in served[c]
  BY <2>1, <2>6, <3>1
<4> QED
  BY <2>1, <4>1, <4>2 DEF Contract!Next, Contract!Complete
<3>2. CASE outcome = "failed"
<4>1. Contract!Fail
  BY <1>a, <2>1, <2>2, <2>3, <2>6, <3>2, FailsAlone
<4> QED
  BY <4>1 DEF Contract!Next
<3> QED
  BY <3>1, <3>2
<2> QED
  BY <1>15, <2>4, <2>5, <2>6, Handled
<1>16. CASE UNCHANGED vars
  BY <1>16, <1>c DEF vars, calling, replying
<1> QED
  BY <1>1, <1>2, <1>3, <1>4, <1>5, <1>6, <1>7, <1>8, <1>9, <1>10, <1>11, <1>12, <1>13, <1>14,
     <1>15, <1>16 DEF Next, Microtask, IOEvent, SetUpStep

LEMMA ContractInit == Init => Contract!Init
<1> SUFFICES ASSUME Init PROVE Contract!Init
  OBVIOUS
<1>1. Phases = [c \in Calls |-> "idle"]
  BY DEF Init, Phases, PhaseOf
<1> QED
  BY <1>1 DEF Init, Contract!Init, Phases, PhaseOf

\* However connections, queues and the server behave, every caller is told what the
\* contract of ClientProxy says: nothing before the server answered that very call, its
\* end once, and nothing after it has settled.
THEOREM ImplementsRpcCorrect == Spec => ImplementsRpc
  BY ContractInit, Simulation, Invariance, PTL DEF Spec, ImplementsRpc, Contract!Spec
=============================================================================
