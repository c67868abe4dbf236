----------------------------- MODULE MCAmqpClient -----------------------------
(***************************************************************************)
(* AmqpClient for TLC: a client that may be closed and connect again,      *)
(* under every kind of reply queue, with two calls or a call and an event. *)
(***************************************************************************)
EXTENDS AmqpClient

CONSTANTS request, other, event

MCCalls  == {request, other, event}
MCEvents == {event}

Default == [queue |-> "direct", noAck |-> TRUE, prefetch |-> 0, asyncDeserializer |-> FALSE]

\* Two calls share the reply queue, or the window of unacknowledged replies.
WithTwoCalls ==
  {Default, [Default EXCEPT !.queue = "durable", !.noAck = FALSE, !.prefetch = 1]}

WithAnEvent ==
  {[Default EXCEPT !.queue = "exclusive"],
   [Default EXCEPT !.queue = "durable", !.noAck = FALSE],
   [Default EXCEPT !.queue = "shared", !.asyncDeserializer = TRUE]}

MCOptions == WithTwoCalls \cup WithAnEvent

\* Bound: which calls are made.  No fairness forces a call, so that a behaviour without
\* one is a behaviour of the client.
CallsMade ==
  {c \in Calls : call[c] # "idle"}
    \subseteq {request, IF options \in WithTwoCalls THEN other ELSE event}
=============================================================================
