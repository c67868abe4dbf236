------------------------------ MODULE AmqpClient ------------------------------
(***************************************************************************)
(* The producer side of the AMQP transport (amqp-client.ts).  Calls        *)
(* (ClientProxy.send and .emit) first wait on connection$, then publish    *)
(* through the channel wrapper and, for requests, wait for replies that a  *)
(* consumer of the reply queue routes by correlation id.                   *)
(*                                                                         *)
(* Two things create a channel on the first 'connect': the connect         *)
(* listener and the stream behind connection$.  Both wrappers set up a     *)
(* channel and consume replies; this.channel keeps the second.             *)
(*                                                                         *)
(* External, modelled from their use: the connection manager and its       *)
(* wrappers, the broker's reply queue, the server that answers, and the    *)
(* RxJS observer that ignores everything after its end.                    *)
(***************************************************************************)
EXTENDS Naturals, Sequences, FiniteSets

CONSTANTS
  Calls,         \* calls the application makes, each at most once
  Events,        \* those made with emit(): no reply is expected
  Options,       \* configurations: a set of option records
  MaxConnects,   \* bound: connections made before the link stays up
  MaxClients     \* bound: times connect() creates a connection manager

Wrappers == {"listener", "stream"}

OptionRecords ==
  [queue : {"direct", "durable", "exclusive", "shared"}, \* kind of reply queue
   noAck : BOOLEAN, prefetch : Nat, asyncDeserializer : BOOLEAN]

ASSUME ClientAssumption ==
  /\ IsFiniteSet(Calls) /\ Events \subseteq Calls
  /\ Options \subseteq OptionRecords
  /\ MaxConnects \in Nat \ {0} /\ MaxClients \in Nat \ {0}

VARIABLES
  options,
  client,           \* whether this.client holds a connection manager
  clients,          \* managers created so far
  link,             \* the manager's connection: "down" or "up"
  connects,         \* connections made so far
  seen,             \* whether this manager has emitted 'connect'
  isInitialConnect,
  channel,          \* this.channel: "none" or the name of a wrapper
  setup,            \* per wrapper, where its channel's setupChannel is
  consumers,        \* wrappers with a registered reply consumer
  first,            \* the part of connection$ that runs up to the first channel
  stream,           \* connection$: nothing yet, a value, or an error
  call,             \* state of each call
  queued,           \* calls whose message waits in the channel wrapper
  listeners,        \* correlation ids the responseEmitter has a listener for
  leaked,           \* history: listeners left behind by a failed serialization
  sentOn,           \* [wrapper, connection] that published a call
  got,              \* replies with a value passed to each caller
  served,           \* server: the kinds of reply it has given to each call
  inbox,            \* broker: the named reply queue
  unacked,          \* broker: replies delivered on a channel and never acknowledged
  buffer,           \* replies on their way to each wrapper's consumer
  handling          \* replies in handleMessage, before deserialize returns

connecting == <<client, clients, link, connects, seen, isInitialConnect, first, stream>>
channels   == <<channel, setup, consumers>>
calling    == <<call, queued, listeners, leaked, sentOn, got>>
replying   == <<served, inbox, unacked, buffer, handling>>
vars       == <<options, connecting, channels, calling, replying>>

Settled == {"completed", "failed", "cancelled"}
Kinds   == {"value", "end", "error"}
Replies == [call : Calls, kind : Kinds]
Unsent  == [wrapper |-> "none", connection |-> 0]
Direct  == options.queue = "direct"

TypeOK ==
  /\ options \in Options
  /\ client \in BOOLEAN /\ clients \in 0..MaxClients
  /\ link \in {"down", "up"} /\ connects \in 0..MaxConnects
  /\ seen \in BOOLEAN /\ isInitialConnect \in BOOLEAN
  /\ channel \in Wrappers \cup {"none"}
  /\ setup \in [Wrappers -> {"none", "down", "asserting", "consuming", "ready", "failed"}]
  /\ consumers \subseteq Wrappers
  /\ first \in {"waiting", "creating", "done", "error"}
  /\ stream \in {"empty", "value", "error"}
  /\ call \in [Calls -> {"idle", "connecting", "stranded", "waiting"} \cup Settled]
  /\ queued \subseteq Calls /\ listeners \subseteq Calls \ Events /\ leaked \subseteq Calls \ Events
  /\ sentOn \in [Calls -> [wrapper : Wrappers \cup {"none"}, connection : Nat]]
  /\ got \in [Calls -> Nat]
  /\ served \in [Calls -> SUBSET Kinds]
  /\ inbox \subseteq Replies
  /\ unacked \in [Wrappers -> SUBSET Replies]
  /\ buffer \in [Wrappers -> Seq(Replies)]
  /\ handling \subseteq Replies

Init ==
  /\ options \in Options
  /\ client = FALSE /\ clients = 0 /\ link = "down" /\ connects = 0
  /\ seen = FALSE /\ isInitialConnect = TRUE
  /\ channel = "none" /\ setup = [w \in Wrappers |-> "none"] /\ consumers = {}
  /\ first = "waiting" /\ stream = "empty"
  /\ call = [c \in Calls |-> "idle"] /\ queued = {} /\ listeners = {} /\ leaked = {}
  /\ sentOn = [c \in Calls |-> Unsent] /\ got = [c \in Calls |-> 0]
  /\ served = [c \in Calls |-> {}] /\ inbox = {} /\ unacked = [w \in Wrappers |-> {}]
  /\ buffer = [w \in Wrappers |-> <<>>] /\ handling = {}

-----------------------------------------------------------------------------
(* Helpers. *)

\* What runs in microtasks after connection$ settles, or after a reply reached a
\* synchronous deserializer, is over before the next I/O event.
RunToCompletion ==
  /\ ~ \E c \in Calls : call[c] = "connecting" /\ stream # "empty"
  /\ options.asyncDeserializer \/ handling = {}

\* Replies on their way over a lost connection: gone if the broker considers them
\* acknowledged, otherwise in the queue again, unless the queue is gone as well.
LoseReplies ==
  /\ inbox' = IF options.queue = "exclusive" THEN {}
              ELSE inbox \cup UNION {unacked[w] : w \in Wrappers}
  /\ unacked' = [w \in Wrappers |-> {}]
  /\ buffer' = [w \in Wrappers |-> <<>>]
  /\ consumers' = {}

-----------------------------------------------------------------------------
(* connect(), close() and the manager's events. *)

\* connect() without a client: a new manager, response emitter and connection$.
\* isInitialConnect keeps its value from an earlier client.
NewClient ==
  /\ client' = TRUE /\ clients' = clients + 1
  /\ seen' = FALSE /\ first' = "waiting" /\ stream' = "empty"
  /\ listeners' = {}

\* ClientProxy.send and .emit call connect() and wait on connection$.
Send(c) ==
  /\ call[c] = "idle"
  /\ call' = [call EXCEPT ![c] = "connecting"]
  /\ IF client THEN UNCHANGED <<client, clients, seen, first, stream, listeners>>
     ELSE clients < MaxClients /\ NewClient
  /\ UNCHANGED <<options, link, connects, isInitialConnect, channels, queued, leaked, sentOn, got, replying>>

\* The manager connects.  Existing wrappers set up a new channel.  On a manager's
\* first 'connect' the listener creates a wrapper if none was ever needed, and the
\* stream another; later ones make connection$ emit before the set-up is done.
Connect ==
  /\ client /\ link = "down" /\ connects < MaxConnects
  /\ link' = "up" /\ connects' = connects + 1 /\ seen' = TRUE
  /\ LET byListener == ~seen /\ isInitialConnect /\ channel = "none"
         byStream   == ~seen /\ first = "waiting"
     IN  /\ isInitialConnect' = FALSE
         /\ channel' = IF byStream THEN "stream" ELSE IF byListener THEN "listener" ELSE channel
         /\ setup' = [w \in Wrappers |->
                       IF \/ setup[w] # "none"
                          \/ w = "listener" /\ byListener
                          \/ w = "stream" /\ byStream
                         THEN "asserting" ELSE "none"]
         /\ first' = IF byStream THEN "creating" ELSE first
         /\ stream' = IF seen /\ first # "error" THEN "value" ELSE stream
  /\ UNCHANGED <<options, client, clients, consumers, calling, replying>>

\* 'disconnect', 'error' or 'connectFailed' on the last url before the first
\* 'connect': the merged stream fails, and connection$ with it, for good.
FirstConnectionFails ==
  /\ client /\ first = "waiting"
  /\ first' = "error" /\ stream' = "error"
  /\ UNCHANGED <<options, client, clients, link, connects, seen, isInitialConnect, channels, calling, replying>>

Disconnect ==
  /\ client /\ link = "up" /\ connects < MaxConnects
  /\ link' = "down"
  /\ setup' = [w \in Wrappers |-> IF setup[w] = "none" THEN "none" ELSE "down"]
  /\ LoseReplies
  /\ UNCHANGED <<options, client, clients, connects, seen, isInitialConnect, first, stream,
                 channel, calling, served, handling>>

\* Faulty variant: this.client survives, so the next connect() reuses connection$.
ClientSurvives == client

ClientAfterClose == FALSE

\* close(): the wrapper rejects the messages it still queues; calls that wait for
\* the connection, or for a reply, hear nothing.
Close ==
  /\ client
  /\ client' = ClientAfterClose /\ link' = "down" /\ channel' = "none"
  /\ setup' = [w \in Wrappers |-> "none"]
  /\ LoseReplies
  /\ call' = [c \in Calls |-> CASE call[c] = "connecting" -> "stranded"
                               [] call[c] = "waiting" /\ c \in queued -> "failed"
                               [] OTHER -> call[c]]
  /\ listeners' = listeners \ queued
  /\ queued' = {}
  /\ UNCHANGED <<options, clients, connects, seen, isInitialConnect, first, stream,
                 leaked, sentOn, got, served, handling>>

-----------------------------------------------------------------------------
(* setupChannel: assertions and prefetch, then consumeChannel, then resolve(). *)

SetupAsserted(w) ==
  /\ setup[w] = "asserting"
  /\ setup' = [setup EXCEPT ![w] = "consuming"]
  /\ UNCHANGED <<options, connecting, channel, consumers, calling, replying>>

\* Faulty variant: no reply consumer is registered.
NotConsuming(w) == {}

\* consumeChannel registers the consumer of the reply queue.
Consuming(w) == {w}

\* Faulty variant: the set-up never calls resolve().
SetupNeverResolves(w) ==
  /\ setup[w] = "consuming"
  /\ setup' = [setup EXCEPT ![w] = "ready"]
  /\ consumers' = consumers \cup Consuming(w)
  /\ UNCHANGED <<options, connecting, channel, calling, replying>>

\* The promise createChannel() returned resolves at the first complete set-up.
SetupConsumes(w) ==
  /\ setup[w] = "consuming"
  /\ setup' = [setup EXCEPT ![w] = "ready"]
  /\ consumers' = consumers \cup Consuming(w)
  /\ IF w = "stream" /\ first = "creating"
       THEN first' = "done" /\ stream' = "value"
       ELSE UNCHANGED <<first, stream>>
  /\ UNCHANGED <<options, client, clients, link, connects, seen, isInitialConnect, channel, calling, replying>>

\* The broker refuses a call of the set-up and closes the channel: nothing rejects
\* the promise of createChannel(), and the wrapper waits for the next connection.
SetupFails(w) ==
  /\ setup[w] \in {"asserting", "consuming"} /\ connects < MaxConnects
  /\ setup' = [setup EXCEPT ![w] = "failed"]
  /\ UNCHANGED <<options, connecting, channel, consumers, calling, replying>>

-----------------------------------------------------------------------------
(* Calls: publish, dispatchEvent and their end. *)

\* connection$ has failed: so does every call that waits on it.
ConnectionRejects(c) ==
  /\ call[c] = "connecting" /\ stream = "error"
  /\ call' = [call EXCEPT ![c] = "failed"]
  /\ UNCHANGED <<options, connecting, channels, queued, listeners, leaked, sentOn, got, replying>>

\* Faulty variant: dispatchEvent() registers a listener too.
ListenerForAll(c) == {c}

\* Only publish() registers a listener under the correlation id.
Listener(c) == {c} \ Events

\* publish() and dispatchEvent(): a request gets its listener, then the message
\* goes to the wrapper's queue; without a channel it would go nowhere.
Publish(c) ==
  /\ call[c] = "connecting" /\ stream = "value"
  /\ call' = [call EXCEPT ![c] = "waiting"]
  /\ listeners' = listeners \cup Listener(c)
  /\ queued' = IF channel = "none" THEN queued ELSE queued \cup {c}
  /\ UNCHANGED <<options, connecting, channels, leaked, sentOn, got, replying>>

\* The packet cannot be serialized: the catch block fails the call and returns a
\* teardown that does not remove the listener registered before.
PublishFails(c) ==
  /\ call[c] = "connecting" /\ stream = "value"
  /\ call' = [call EXCEPT ![c] = "failed"]
  /\ listeners' = listeners \cup Listener(c)
  /\ leaked' = leaked \cup ({c} \ Events)
  /\ UNCHANGED <<options, connecting, channels, queued, sentOn, got, replying>>

\* External: the wrapper sends a message once its channel is set up, also for a
\* call cancelled meanwhile.  The broker's confirm ends an event.
Flush(c) ==
  /\ c \in queued /\ setup[channel] = "ready"
  /\ queued' = queued \ {c}
  /\ sentOn' = [sentOn EXCEPT ![c] = [wrapper |-> channel, connection |-> connects]]
  /\ call' = IF c \in Events /\ call[c] = "waiting" THEN [call EXCEPT ![c] = "completed"] ELSE call
  /\ UNCHANGED <<options, connecting, channels, listeners, leaked, got, replying>>

\* Faulty variant: publish() returns no teardown.
CancelWithoutTeardown(c) ==
  /\ call[c] \in {"connecting", "stranded", "waiting"}
  /\ call' = [call EXCEPT ![c] = "cancelled"]
  /\ UNCHANGED <<options, connecting, channels, queued, listeners, leaked, sentOn, got, replying>>

\* The caller unsubscribes, as RxJS timeout() does: the teardown removes the listener.
Cancel(c) ==
  /\ call[c] \in {"connecting", "stranded", "waiting"}
  /\ call' = [call EXCEPT ![c] = "cancelled"]
  /\ listeners' = listeners \ {c}
  /\ UNCHANGED <<options, connecting, channels, queued, leaked, sentOn, got, replying>>

-----------------------------------------------------------------------------
(* Replies. *)

\* External: the server answers a request it got, with a value or with its end.
\* Direct replies go to the channel that published the request, if it still lives;
\* others to the reply queue, if it exists.
Reply(c, kind) ==
  /\ c \notin Events /\ sentOn[c] # Unsent
  /\ kind \notin served[c] /\ served[c] \cap {"end", "error"} = {}
  /\ served' = [served EXCEPT ![c] = @ \cup {kind}]
  /\ LET reply == [call |-> c, kind |-> kind]
         w == sentOn[c].wrapper
     IN  IF Direct
           THEN /\ buffer' = IF sentOn[c].connection = connects /\ w \in consumers
                               THEN [buffer EXCEPT ![w] = Append(@, reply)] ELSE buffer
                /\ UNCHANGED inbox
           ELSE /\ inbox' = IF options.queue = "exclusive" /\ link = "down"
                              THEN inbox ELSE inbox \cup {reply}
                /\ UNCHANGED buffer
  /\ UNCHANGED <<options, connecting, channels, calling, unacked, handling>>

\* External: the broker delivers from the reply queue.  The client never acks a
\* reply, so without noAck deliveries only fill the prefetch window.
Deliver(w, reply) ==
  /\ reply \in inbox /\ w \in consumers
  /\ inbox' = inbox \ {reply}
  /\ buffer' = [buffer EXCEPT ![w] = Append(@, reply)]
  /\ IF options.noAck THEN UNCHANGED unacked
     ELSE /\ options.prefetch = 0 \/ Cardinality(unacked[w]) < options.prefetch
          /\ unacked' = [unacked EXCEPT ![w] = @ \cup {reply}]
  /\ UNCHANGED <<options, connecting, channels, calling, served, handling>>

\* External: another client that consumes the same reply queue takes the reply,
\* has no listener for it and drops it.
Stolen(reply) ==
  /\ options.queue = "shared" /\ reply \in inbox
  /\ inbox' = inbox \ {reply}
  /\ UNCHANGED <<options, connecting, channels, calling, served, unacked, buffer, handling>>

\* The consumer emits the reply under its correlation id: without a listener it is
\* dropped, otherwise handleMessage starts.
Receive(w) ==
  /\ buffer[w] # <<>>
  /\ buffer' = [buffer EXCEPT ![w] = Tail(@)]
  /\ handling' = IF Head(buffer[w]).call \in listeners
                   THEN handling \cup {Head(buffer[w])} ELSE handling
  /\ UNCHANGED <<options, connecting, channels, calling, served, inbox, unacked>>

\* Faulty variants: a value that does not end the call is not passed on; a late
\* reply still reaches a caller that has settled.
PassOnNothing(c) == UNCHANGED got
SettledHears(c) == FALSE

PassOn(c) == got' = [got EXCEPT ![c] = @ + 1]

\* The observer is closed: it ignores what it is told.
Deaf(c) == call[c] # "waiting"

\* handleMessage after deserialize(): the callback passes a value on, or ends the
\* call; on an ended observer, as on the second callback of a final reply, it does
\* nothing.
HandleMessage(reply) ==
  /\ reply \in handling
  /\ handling' = handling \ {reply}
  /\ LET c == reply.call IN
     CASE Deaf(c) -> UNCHANGED <<call, listeners, got>>
       [] ~Deaf(c) /\ reply.kind = "value" -> PassOn(c) /\ UNCHANGED <<call, listeners>>
       [] OTHER ->
            /\ call' = [call EXCEPT ![c] = IF reply.kind = "end" THEN "completed" ELSE "failed"]
            /\ listeners' = listeners \ {c}
            /\ UNCHANGED got
  /\ UNCHANGED <<options, connecting, channels, queued, leaked, sentOn, served, inbox, unacked, buffer>>

-----------------------------------------------------------------------------
SetUpStep(w) == SetupAsserted(w) \/ SetupConsumes(w)

\* What follows connection$ or a reply before any other event.
Microtask ==
  \/ \E c \in Calls : ConnectionRejects(c) \/ Publish(c) \/ PublishFails(c)
  \/ \E reply \in handling : HandleMessage(reply)

IOEvent ==
  \/ Connect \/ FirstConnectionFails \/ Disconnect \/ Close
  \/ \E c \in Calls : Send(c) \/ Flush(c) \/ Cancel(c)
  \/ \E c \in Calls, kind \in Kinds : Reply(c, kind)
  \/ \E w \in Wrappers : SetUpStep(w) \/ SetupFails(w) \/ Receive(w)
  \/ \E reply \in inbox : Stolen(reply) \/ \E w \in Wrappers : Deliver(w, reply)

Next ==
  \/ Microtask
  \/ RunToCompletion /\ IOEvent

\* The manager keeps connecting, the set-up's calls return, the wrapper sends, the
\* broker delivers, and the event loop runs what is due.
Fairness ==
  /\ WF_vars(Connect) /\ WF_vars(Microtask)
  /\ WF_vars(\E c \in Calls : Flush(c))
  /\ WF_vars(\E w \in Wrappers : SetUpStep(w))
  /\ WF_vars(\E w \in Wrappers : Receive(w))
  /\ WF_vars(\E reply \in inbox, w \in Wrappers : Deliver(w, reply))

Spec == Init /\ [][Next]_vars /\ Fairness

-----------------------------------------------------------------------------
(* Properties. *)

\* The client keeps the contract of ClientProxy for every call.
Contract == INSTANCE RpcContract WITH
  phase <- [c \in Calls |-> IF call[c] \in {"connecting", "stranded", "waiting"}
                              THEN "pending" ELSE call[c]]
ImplementsRpc == Contract!Spec

\* A call that waits for its reply has its message in the wrapper's queue or on the
\* wire: publish() never met a null channel, although this.channel and connection$
\* are set by two independent subscribers of 'connect'.
WaitingCallsAreOnTheirWay ==
  \A c \in Calls : call[c] = "waiting" => c \in queued \/ sentOn[c] # Unsent

\* A request on the wire has its reply consumer: on the channel that published it
\* for direct replies, on some channel of the connection for a reply queue.
ReplyConsumerIsThere ==
  \A c \in Calls \ Events :
    link = "up" /\ sentOn[c].connection = connects =>
      IF Direct THEN sentOn[c].wrapper \in consumers ELSE consumers # {}

\* Listeners do not pile up in the response emitter: apart from those a failed
\* serialization leaves behind, each belongs to a call that still waits.
NoListenerLeak ==
  \A c \in listeners \ leaked : call[c] = "waiting"

\* With direct replies and a synchronous deserializer a completed call has got the
\* value the server sent before the end, once: replies of a channel keep their order
\* and none survives a reconnection.
NoGapWithDirectReplies ==
  Direct /\ ~options.asyncDeserializer =>
    \A c \in Calls : call[c] = "completed" => got[c] = Cardinality(served[c] \cap {"value"})

\* The client is connected, and no set-up has failed on the current connection.
Steady == client /\ link = "up" /\ \A w \in Wrappers : setup[w] # "failed"

\* If the connection ends up steady, no call waits on connection$ for ever.
ConnectionSettles ==
  <>[]Steady => \A c \in Calls : call[c] = "connecting" ~> call[c] # "connecting"

\* With a durable reply queue consumed with acknowledgements and no prefetch limit,
\* the end of a call that reached the queue reaches its caller, over reconnections,
\* unless the application closes the client.
DurableRepliesArrive ==
  (<>[]Steady /\ options.queue = "durable" /\ ~options.noAck /\ options.prefetch = 0) =>
    \A c \in Calls :
      ([call |-> c, kind |-> "end"] \in inbox /\ c \in listeners) ~>
        (call[c] \in Settled \/ ~client)
=============================================================================
