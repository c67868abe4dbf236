----------------------------- MODULE MCAmqpServer -----------------------------
(* A small instance of AmqpServer: a handled request, a handled event and an *)
(* unsupported request, under configurations that differ in acknowledgement, *)
(* set-up and prefetch.                                                      *)
EXTENDS AmqpServer

CONSTANTS request, event, unsupported

MCMessages  == {request, event, unsupported}
TwoMessages == {request, unsupported}

MCRequests == {request, unsupported}
MCHandled  == {request, event}
TwoHandled == {request}

Default ==
  [noAck |-> TRUE, exchange |-> FALSE, skipAssert |-> FALSE, deleteOnFailure |-> TRUE,
   asyncDeserializer |-> FALSE, prefetch |-> 0, maxAttempts |-> Infinite]

MCOptions ==
  {[Default EXCEPT !.exchange = TRUE, !.maxAttempts = 2],
   [Default EXCEPT !.noAck = FALSE, !.deleteOnFailure = FALSE, !.prefetch = 1],
   [Default EXCEPT !.noAck = FALSE, !.skipAssert = TRUE, !.prefetch = 2],
   [Default EXCEPT !.noAck = FALSE, !.asyncDeserializer = TRUE, !.prefetch = 1]}

AsyncOptions ==
  {[Default EXCEPT !.noAck = FALSE, !.asyncDeserializer = TRUE]}
=============================================================================
