----------------------------- MODULE AmqpDelivery -----------------------------
(***************************************************************************)
(* What a consumer on top of AmqpServer is promised about each message     *)
(* published to its queue, whatever the connection does.  With automatic   *)
(* acknowledgement a message is handed over once and handled at most once. *)
(* With manual acknowledgement a message held by a lost channel is offered *)
(* again; it leaves the queue only after its handler was started, or,      *)
(* rejected, when it has no handler; if rejections are exact, a message     *)
(* with a handler is never rejected.                                       *)
(***************************************************************************)
EXTENDS Naturals

CONSTANTS Messages, Handled

VARIABLES
  autoAck,  \* noAck in amqplib's words: the queue forgets what it hands over
  exact,    \* a rejection reaches the message it is meant for
  place, starts

vars == <<autoAck, exact, place, starts>>

Init ==
  /\ autoAck \in BOOLEAN /\ exact \in BOOLEAN
  /\ place = [m \in Messages |-> "outside"]
  /\ starts = [m \in Messages |-> 0]

\* A published message enters the queue, or finds none.
Enter(m) ==
  /\ place[m] = "outside"
  /\ \E p \in {"waiting", "lost"} : place' = [place EXCEPT ![m] = p]
  /\ UNCHANGED <<autoAck, exact, starts>>

Take(m) ==
  /\ place[m] = "waiting"
  /\ place' = [place EXCEPT ![m] = IF autoAck THEN "done" ELSE "held"]
  /\ UNCHANGED <<autoAck, exact, starts>>

Start(m) ==
  /\ m \in Handled
  /\ autoAck => place[m] = "done" /\ starts[m] = 0
  /\ starts' = [starts EXCEPT ![m] = @ + 1]
  /\ UNCHANGED <<autoAck, exact, place>>

Finish(m) ==
  /\ place[m] = "held" /\ starts[m] > 0
  /\ place' = [place EXCEPT ![m] = "done"]
  /\ UNCHANGED <<autoAck, exact, starts>>

Reject(m) ==
  /\ place[m] = "held"
  /\ exact => m \notin Handled
  /\ place' = [place EXCEPT ![m] = "rejected"]
  /\ UNCHANGED <<autoAck, exact, starts>>

\* A channel is lost: all it held waits again.
GiveBack ==
  /\ place' = [m \in Messages |-> IF place[m] = "held" THEN "waiting" ELSE place[m]]
  /\ UNCHANGED <<autoAck, exact, starts>>

\* The queue is deleted with what waits in it.
Purge ==
  /\ place' = [m \in Messages |-> IF place[m] = "waiting" THEN "lost" ELSE place[m]]
  /\ UNCHANGED <<autoAck, exact, starts>>

Next ==
  \/ \E m \in Messages : Enter(m) \/ Take(m) \/ Start(m) \/ Finish(m) \/ Reject(m)
  \/ GiveBack \/ Purge

Spec == Init /\ [][Next]_vars
=============================================================================
