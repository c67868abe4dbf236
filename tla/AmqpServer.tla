------------------------------ MODULE AmqpServer ------------------------------
(***************************************************************************)
(* The consumer side of the AMQP transport (amqp-server.ts): an AmqpServer *)
(* connects through amqp-connection-manager, sets up a channel at every    *)
(* (re)connection, consumes one queue, routes each message to a handler or *)
(* negatively acknowledges it, and answers requests through the channel    *)
(* wrapper.  The broker and the wrapper are external: they are modelled    *)
(* from how amqp-server.ts uses them.                                      *)
(*                                                                         *)
(* A delivery is named by the underlying channel that carried it and its   *)
(* delivery tag; tags restart at 1 on every underlying channel.  A handler *)
(* acknowledges through the channel of its context, the server through     *)
(* the wrapper, that is through whatever channel is current.               *)
(***************************************************************************)
EXTENDS Integers, FiniteSets

CONSTANTS
  Messages,      \* the messages clients publish to the consumed queue
  Requests,      \* those with an "id": they expect a reply
  Handled,       \* those whose pattern some handler matches
  Options,       \* the configurations checked, a set of option records
  MaxConnects    \* bound: connections made before the link stays up

NoChannel == 0
Infinite  == -1  \* INFINITE_CONNECTION_ATTEMPTS

OptionRecords ==
  [noAck : BOOLEAN, exchange : BOOLEAN, skipAssert : BOOLEAN,
   deleteOnFailure : BOOLEAN, asyncDeserializer : BOOLEAN,
   prefetch : Nat, maxAttempts : {Infinite} \cup (Nat \ {0})]

ASSUME ServerAssumption ==
  /\ IsFiniteSet(Messages)
  /\ Requests \subseteq Messages
  /\ Handled \subseteq Messages
  /\ Options \subseteq OptionRecords
  /\ MaxConnects \in Nat \ {0}

VARIABLES
  options,       \* the AmqpOptions, fixed at construction
  server,        \* "idle" before listen(), then "open", "closed" after close()
  connection,    \* the manager's connection: "down" or "up"
  connects,      \* connections made so far; numbers the underlying channels
  attempts,      \* connectionAttempts
  channel,       \* whether this.channel holds a channel wrapper
  amqpChannel,   \* the wrapper's underlying channel, or NoChannel
  setup,         \* where setupChannel is for the current underlying channel
  retried,       \* its third parameter
  listenResult,  \* what the callback of listen() was first called with
  declared,      \* broker: the queue exists
  message,       \* broker: where each message is
  delivery,      \* broker: last delivery of each message, [ch, tag]
  nextTag,       \* broker: next delivery tag of the current channel
  inFlight,      \* acks and nacks written but not yet seen by the broker
  tasks,         \* deliveries the program is working on
  dispatched,    \* history: how often each message was given to its handler
  warned,        \* history: messages reported as negatively acknowledged
  outbox,        \* replies queued in the channel wrapper
  replies        \* replies that reached the broker

manager == <<server, connection, connects, attempts, listenResult>>
setting == <<channel, amqpChannel, setup, retried>>
broker  == <<declared, message, delivery, nextTag, inFlight>>
work    == <<tasks, dispatched, warned, outbox>>
vars    == <<options, manager, setting, broker, work, replies>>

Places     == {"unsent", "unroutable", "ready", "unacked", "consumed", "discarded", "purged"}
SetupSteps == {"idle", "asserting", "prefetching", "deleting", "consuming", "failed"}
Channels   == 1..MaxConnects
Deliveries == [ch : Nat, tag : Nat]
Tasks      == [msg : Messages, ch : Nat, tag : Nat, pc : {"deserializing", "handling", "acked"}]
Frames     == [ch : Nat, tag : Nat, kind : {"ack", "nack"}]

TypeOK ==
  /\ options \in Options
  /\ server \in {"idle", "open", "closed"}
  /\ connection \in {"down", "up"}
  /\ connects \in 0..MaxConnects
  /\ attempts \in Nat
  /\ channel \in BOOLEAN
  /\ amqpChannel \in 0..MaxConnects
  /\ setup \in SetupSteps
  /\ retried \in BOOLEAN
  /\ listenResult \in {"pending", "ok", "error"}
  /\ declared \in BOOLEAN
  /\ message \in [Messages -> Places]
  /\ delivery \in [Messages -> Deliveries]
  /\ nextTag \in Nat \ {0}
  /\ inFlight \subseteq Frames
  /\ tasks \subseteq Tasks
  /\ dispatched \in [Messages -> Nat]
  /\ warned \subseteq Messages
  /\ outbox \subseteq Requests
  /\ replies \subseteq Requests

Init ==
  /\ options \in Options
  /\ server = "idle" /\ connection = "down" /\ connects = 0 /\ attempts = 0
  /\ channel = FALSE /\ amqpChannel = NoChannel /\ setup = "idle" /\ retried = FALSE
  /\ listenResult = "pending"
  /\ declared \in BOOLEAN
  /\ message = [m \in Messages |-> "unsent"]
  /\ delivery = [m \in Messages |-> [ch |-> 0, tag |-> 0]]
  /\ nextTag = 1 /\ inFlight = {}
  /\ tasks = {} /\ dispatched = [m \in Messages |-> 0] /\ warned = {}
  /\ outbox = {} /\ replies = {}

-----------------------------------------------------------------------------
(* Helpers. *)

\* Nest waits on the first call of the listen callback; later calls are no-ops.
Settle(result) ==
  listenResult' = IF listenResult = "pending" THEN result ELSE listenResult

InSetup == setup \in {"asserting", "prefetching", "deleting"}

\* The broker gives back every unacknowledged message of a closed channel.
Requeued == [m \in Messages |-> IF message[m] = "unacked" THEN "ready" ELSE message[m]]

\* Faulty variant: other events slip between a delivery and its handler lookup.
RunToCompletionInterleaved == TRUE

\* Tasks run to completion between I/O events unless a custom deserializer
\* makes the await of handleMessage last.
RunToCompletion ==
  options.asyncDeserializer \/ ~ \E t \in tasks : t.pc = "deserializing"

\* The wrapper sends what it queues once the set-up function has returned.
Publishing == amqpChannel # NoChannel /\ setup \in {"consuming", "failed"}

\* The channel goes away under the wrapper: pending calls on it reject, so a
\* set-up in progress ends in its catch block and reports the error.
DropChannel ==
  /\ amqpChannel' = NoChannel
  /\ inFlight' = {}
  /\ message' = Requeued
  /\ IF InSetup THEN Settle("error") ELSE UNCHANGED listenResult

\* The current channel after a call on it, still open or closed by the broker.
KeepChannel(open) ==
  /\ amqpChannel' = IF open THEN amqpChannel ELSE NoChannel
  /\ inFlight' = IF amqpChannel' = NoChannel THEN {} ELSE inFlight

-----------------------------------------------------------------------------
(* Connection life cycle: listen, start, close and the manager's events. *)

Listen ==
  /\ server = "idle"
  /\ server' = "open"
  /\ UNCHANGED <<options, connection, connects, attempts, listenResult, setting, broker, work, replies>>

Connect ==
  /\ server = "open" /\ connection = "down" /\ connects < MaxConnects
  /\ connection' = "up"
  /\ connects' = connects + 1
  /\ channel' = TRUE
  /\ amqpChannel' = connects'
  /\ setup' = "asserting" /\ retried' = FALSE
  /\ nextTag' = 1
  /\ UNCHANGED <<options, server, attempts, listenResult, declared, message, delivery, inFlight, work, replies>>

\* A failed connection attempt counts only until a channel exists; the last
\* one allowed closes the server and fails listen().
ConnectFailed ==
  /\ server = "open" /\ connection = "down"
  /\ ~channel /\ options.maxAttempts # Infinite
  /\ attempts' = attempts + 1
  /\ IF attempts' = options.maxAttempts
       THEN server' = "closed" /\ Settle("error")
       ELSE UNCHANGED <<server, listenResult>>
  /\ UNCHANGED <<options, connection, connects, setting, broker, work, replies>>

Disconnect ==
  /\ server = "open" /\ connection = "up" /\ connects < MaxConnects
  /\ connection' = "down"
  /\ DropChannel
  /\ setup' = "idle"
  /\ UNCHANGED <<options, server, connects, attempts, channel, retried, declared,
                 delivery, nextTag, work, replies>>

\* close() closes the wrapper, which rejects its queued messages, and the manager.
Close ==
  /\ server = "open"
  /\ server' = "closed"
  /\ connection' = "down"
  /\ DropChannel
  /\ setup' = "idle"
  /\ outbox' = {}
  /\ UNCHANGED <<options, connects, attempts, channel, retried, declared, delivery,
                 nextTag, tasks, dispatched, warned, replies>>

-----------------------------------------------------------------------------
(* setupChannel and deleteChannel, one step per awaited call. *)

SetupAssert ==
  /\ setup = "asserting" /\ amqpChannel # NoChannel
  /\ setup' = "prefetching"
  /\ declared' = (declared \/ ~options.skipAssert)
  /\ UNCHANGED <<options, manager, channel, amqpChannel, retried, message, delivery,
                 nextTag, inFlight, work, replies>>

\* channel.consume is not awaited: the callback reports success at once, and a
\* missing queue makes the broker close the channel afterwards.
SetupConsume ==
  /\ setup = "prefetching" /\ amqpChannel # NoChannel
  /\ setup' = "consuming"
  /\ Settle("ok")
  /\ KeepChannel(declared)
  /\ UNCHANGED <<options, server, connection, connects, attempts, channel, retried,
                 declared, message, delivery, nextTag, work, replies>>

\* A call of the set-up rejects.  A broker error closes the channel first; an
\* argument amqplib cannot encode leaves it open.
SetupFails(brokerError) ==
  /\ setup \in {"asserting", "prefetching"}
  /\ KeepChannel(~brokerError)
  /\ IF options.deleteOnFailure
       THEN setup' = "deleting" /\ UNCHANGED listenResult
       ELSE setup' = "failed" /\ Settle("error")
  /\ UNCHANGED <<options, server, connection, connects, attempts, channel, retried,
                 declared, message, delivery, nextTag, work, replies>>

\* Faulty variant: the set-up is tried again however often deleteChannel succeeds.
NeverLastTry == FALSE

LastTry == retried

\* deleteQueue succeeds: whatever waited in the queue is gone.  The set-up is
\* tried once more, unless this is the retry or unbindQueue rejects.
DeleteChannel(unbindFails) ==
  /\ setup = "deleting" /\ amqpChannel # NoChannel
  /\ unbindFails => options.exchange
  /\ declared' = FALSE
  /\ message' = [m \in Messages |-> IF message[m] = "ready" THEN "purged" ELSE message[m]]
  /\ KeepChannel(~unbindFails)
  /\ IF LastTry \/ unbindFails
       THEN setup' = "failed" /\ Settle("error") /\ UNCHANGED retried
       ELSE setup' = "asserting" /\ retried' = TRUE /\ UNCHANGED listenResult
  /\ UNCHANGED <<options, server, connection, connects, attempts, channel, delivery,
                 nextTag, work, replies>>

\* Faulty variant: the error is swallowed, the callback of listen() is not called.
DeleteChannelFailsSilently ==
  /\ setup = "deleting"
  /\ KeepChannel(FALSE)
  /\ setup' = "failed"
  /\ UNCHANGED <<options, manager, channel, retried, declared, message, delivery,
                 nextTag, work, replies>>

\* deleteExchange or deleteQueue rejects, as they do on a channel the broker has
\* closed: the catch block returns false, so there is no retry.
DeleteChannelFails ==
  /\ setup = "deleting"
  /\ KeepChannel(FALSE)
  /\ setup' = "failed"
  /\ Settle("error")
  /\ UNCHANGED <<options, server, connection, connects, attempts, channel, retried,
                 declared, message, delivery, nextTag, work, replies>>

-----------------------------------------------------------------------------
(* Messages: delivery, handleMessage, handleEvent and sendMessage. *)

\* External: a client publishes; without the queue the message is unroutable.
Publish(m) ==
  /\ message[m] = "unsent"
  /\ message' = [message EXCEPT ![m] = IF declared THEN "ready" ELSE "unroutable"]
  /\ UNCHANGED <<options, manager, setting, declared, delivery, nextTag, inFlight, work, replies>>

Unacked == {m \in Messages : message[m] = "unacked"}

\* Faulty variants: consume() is always, or never, told noAck.
AlwaysNoAck == TRUE
NeverNoAck == FALSE

\* The noAck argument of channel.consume.
NoAck == options.noAck

\* The consumer callback receives a message.  With noAck the broker forgets it
\* on delivery; otherwise it counts against the prefetch window.
Deliver(m) ==
  /\ message[m] = "ready" /\ setup = "consuming" /\ amqpChannel # NoChannel
  /\ \/ NoAck
     \/ options.prefetch = 0
     \/ Cardinality(Unacked) < options.prefetch
  /\ message' = [message EXCEPT ![m] = IF NoAck THEN "consumed" ELSE "unacked"]
  /\ delivery' = [delivery EXCEPT ![m] = [ch |-> amqpChannel, tag |-> nextTag]]
  /\ nextTag' = nextTag + 1
  /\ tasks' = tasks \cup {[msg |-> m, ch |-> amqpChannel, tag |-> nextTag, pc |-> "deserializing"]}
  /\ UNCHANGED <<options, manager, setting, declared, inFlight, dispatched, warned, outbox, replies>>

\* Faulty variant: the message is only reported.
NackNothing(t) == UNCHANGED inFlight

\* this.channel?.nack(message, false, false): the wrapper forwards the delivery
\* tag to its current channel, or drops the call when it has none.
Nack(t) ==
  inFlight' = IF amqpChannel = NoChannel THEN inFlight
              ELSE inFlight \cup {[ch |-> amqpChannel, tag |-> t.tag, kind |-> "nack"]}

\* Faulty variant: some handler is found for every pattern.
DispatchAnything(t) ==
  /\ t.pc = "deserializing"
  /\ tasks' = (tasks \ {t}) \cup {[t EXCEPT !.pc = "handling"]}
  /\ dispatched' = [dispatched EXCEPT ![t.msg] = @ + 1]
  /\ UNCHANGED <<options, manager, setting, broker, warned, outbox, replies>>

\* Faulty variant: an event is answered as well.
AnswerAll(m) == {m}

\* sendMessage is only reached for a packet with an id.
Answer(m) == {m} \cap Requests

\* The deserialized packet is given to its handler ...
Dispatch(t) ==
  /\ t.pc = "deserializing" /\ t.msg \in Handled
  /\ tasks' = (tasks \ {t}) \cup {[t EXCEPT !.pc = "handling"]}
  /\ dispatched' = [dispatched EXCEPT ![t.msg] = @ + 1]
  /\ UNCHANGED <<options, manager, setting, broker, warned, outbox, replies>>

\* Faulty variant: no reply says that there is no handler.
RefuseSilently(t) ==
  /\ t.pc = "deserializing" /\ t.msg \notin Handled
  /\ tasks' = tasks \ {t}
  /\ IF options.noAck THEN UNCHANGED <<warned, inFlight>>
                      ELSE warned' = warned \cup {t.msg} /\ Nack(t)
  /\ UNCHANGED <<options, manager, setting, declared, message, delivery, nextTag, dispatched, outbox, replies>>

\* ... or, when no pattern matches, refused: reported and negatively
\* acknowledged unless noAck, and answered with an error if it is a request.
Refuse(t) ==
  /\ t.pc = "deserializing" /\ t.msg \notin Handled
  /\ tasks' = tasks \ {t}
  /\ IF options.noAck THEN UNCHANGED <<warned, inFlight>>
                      ELSE warned' = warned \cup {t.msg} /\ Nack(t)
  /\ outbox' = outbox \cup Answer(t.msg)
  /\ UNCHANGED <<options, manager, setting, declared, message, delivery, nextTag, dispatched, replies>>

\* External: a handler acknowledges its own delivery through the channel it was
\* given; on a closed channel the call throws.
HandlerAcks(t) ==
  /\ t.pc = "handling" /\ ~options.noAck /\ t.ch = amqpChannel
  /\ tasks' = (tasks \ {t}) \cup {[t EXCEPT !.pc = "acked"]}
  /\ inFlight' = inFlight \cup {[ch |-> t.ch, tag |-> t.tag, kind |-> "ack"]}
  /\ UNCHANGED <<options, manager, setting, declared, message, delivery, nextTag,
                 dispatched, warned, outbox, replies>>

\* The handler's observable ends, or its ack threw: a request is answered.
HandlerEnds(t) ==
  /\ \/ t.pc = "acked"
     \/ t.pc = "handling" /\ (options.noAck \/ t.ch # amqpChannel)
  /\ tasks' = tasks \ {t}
  /\ outbox' = outbox \cup Answer(t.msg)
  /\ UNCHANGED <<options, manager, setting, broker, dispatched, warned, replies>>

\* External: the wrapper publishes a queued reply.
Flush(m) ==
  /\ m \in outbox /\ Publishing
  /\ outbox' = outbox \ {m}
  /\ replies' = replies \cup {m}
  /\ UNCHANGED <<options, manager, setting, broker, tasks, dispatched, warned>>

\* External: the broker reads an ack or a nack of a delivery it waits for ...
BrokerSettles(f, m) ==
  /\ f \in inFlight /\ message[m] = "unacked"
  /\ delivery[m] = [ch |-> f.ch, tag |-> f.tag]
  /\ message' = [message EXCEPT ![m] = IF f.kind = "ack" THEN "consumed" ELSE "discarded"]
  /\ inFlight' = inFlight \ {f}
  /\ UNCHANGED <<options, manager, setting, declared, delivery, nextTag, work, replies>>

\* ... or, the delivery tag being unknown on that channel, closes the channel.
BrokerRefuses(f) ==
  /\ f \in inFlight
  /\ \A m \in Unacked : delivery[m] # [ch |-> f.ch, tag |-> f.tag]
  /\ amqpChannel' = NoChannel
  /\ inFlight' = {}
  /\ message' = Requeued
  /\ UNCHANGED <<options, manager, channel, setup, retried, declared, delivery, nextTag, work, replies>>

-----------------------------------------------------------------------------
Environment ==
  \/ Listen \/ Connect \/ ConnectFailed \/ Disconnect \/ Close
  \/ \E m \in Messages : Publish(m) \/ Deliver(m) \/ Flush(m)
  \/ \E f \in inFlight : BrokerRefuses(f) \/ \E m \in Messages : BrokerSettles(f, m)

SetUpStep ==
  \/ SetupAssert \/ SetupConsume \/ DeleteChannelFails
  \/ \E failed \in BOOLEAN : SetupFails(failed) \/ DeleteChannel(failed)

Next ==
  \/ \E t \in tasks : Dispatch(t) \/ Refuse(t)
  \/ RunToCompletion /\ (Environment \/ SetUpStep)
  \/ RunToCompletion /\ \E t \in tasks : HandlerAcks(t) \/ HandlerEnds(t)

\* Every connection attempt ends, the set-up's calls return, a deserializer
\* and a handler end, the broker delivers and reads what it is sent.
Fairness ==
  /\ WF_vars(ConnectFailed \/ Connect)
  /\ WF_vars(SetUpStep)
  /\ WF_vars(\E t \in tasks : Dispatch(t) \/ Refuse(t))
  /\ WF_vars(\E t \in tasks : HandlerAcks(t) \/ HandlerEnds(t))
  /\ \A m \in Messages : WF_vars(Deliver(m)) /\ WF_vars(Flush(m))
  /\ WF_vars(\E f \in inFlight : BrokerRefuses(f) \/ \E m \in Messages : BrokerSettles(f, m))

Spec == Init /\ [][Next]_vars /\ Fairness

-----------------------------------------------------------------------------
(* Properties. *)

\* Only a message no handler matches is ever dead-lettered: the delivery tag the
\* server nacks through the wrapper names the message it reports as refused.
OnlyUnsupportedDiscarded ==
  \A m \in Messages : message[m] = "discarded" => m \notin Handled

\* With the default, synchronous deserializer the queue loses a message to a nack
\* only if the program refused and reported that very message.
NacksHitTheirMessage ==
  ~options.asyncDeserializer =>
    \A m \in Messages : message[m] = "discarded" => m \in warned /\ m \notin Handled

\* With manual acknowledgement a message is consumed only after its handler was
\* started, also when acks, nacks and redeliveries cross a reconnection.
ConsumedAfterHandling ==
  ~options.noAck => \A m \in Messages : message[m] = "consumed" => dispatched[m] > 0

\* With noAck a message is given to its handler at most once, however often the
\* connection is lost while it is being deserialized or handled.
AtMostOnceWithNoAck ==
  options.noAck => \A m \in Messages : dispatched[m] <= 1

\* The server implements the delivery contract.
Contract == INSTANCE AmqpDelivery WITH
  autoAck <- options.noAck,
  exact   <- ~options.asyncDeserializer,
  starts  <- dispatched,
  place   <- [m \in Messages |->
               CASE message[m] = "unsent"     -> "outside"
                 [] message[m] = "ready"      -> "waiting"
                 [] message[m] = "unacked"    -> "held"
                 [] message[m] = "consumed"   -> "done"
                 [] message[m] = "discarded"  -> "rejected"
                 [] OTHER                     -> "lost"]
ImplementsDelivery == Contract!Spec

\* A set-up ends: deleteChannel leads to one retry, not to a loop.
SetupTerminates == InSetup ~> ~InSetup

\* listen() settles with success, the set-up's error or the last connection
\* attempt allowed, unless the application closes the server first.
ListenSettles ==
  server = "open" ~>
    \/ listenResult # "pending"
    \/ server = "closed" /\ attempts # options.maxAttempts

\* The consumer is connected and its channel is neither lost nor badly set up.
Healthy ==
  server = "open" /\ connection = "up" /\ amqpChannel # NoChannel /\ setup # "failed"

\* If the consumer ends up healthy, no message waits or stays unacknowledged for
\* ever: neither the prefetch window nor a lost ack can block the queue.
QueueDrains ==
  <>[]Healthy => \A m \in Messages :
    message[m] = "ready" ~> message[m] \in {"consumed", "discarded", "purged"}

\* If the consumer ends up healthy, every request taken from the queue has a reply
\* on the broker, also one handled while the connection was down.
RequestsAnswered ==
  <>[]Healthy => \A m \in Requests :
    (\E t \in tasks : t.msg = m) ~> m \in replies
=============================================================================
