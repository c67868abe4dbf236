------------------------------ MODULE RpcContract ------------------------------
(***************************************************************************)
(* What ClientProxy.send and .emit promise to each caller on top of        *)
(* AmqpClient: a pending call receives values only after the server        *)
(* answered that very call, completes only on the server's end of it (an   *)
(* event: once it is published), and hears nothing after it has settled.   *)
(***************************************************************************)
EXTENDS Naturals

CONSTANTS Calls, Events

VARIABLES phase, got, served

vars == <<phase, got, served>>

Kinds == {"value", "end", "error"}

Init ==
  /\ phase = [c \in Calls |-> "idle"]
  /\ got = [c \in Calls |-> 0]
  /\ served = [c \in Calls |-> {}]

Settle(c, outcome) ==
  /\ phase[c] = "pending"
  /\ phase' = [phase EXCEPT ![c] = outcome]
  /\ UNCHANGED <<got, served>>

Start(c) ==
  /\ phase[c] = "idle"
  /\ phase' = [phase EXCEPT ![c] = "pending"]
  /\ UNCHANGED <<got, served>>

Serve(c, kind) ==
  /\ phase[c] # "idle" /\ c \notin Events
  /\ kind \notin served[c] /\ served[c] \cap {"end", "error"} = {}
  /\ served' = [served EXCEPT ![c] = @ \cup {kind}]
  /\ UNCHANGED <<phase, got>>

Value(c) ==
  /\ phase[c] = "pending" /\ "value" \in served[c]
  /\ got' = [got EXCEPT ![c] = @ + 1]
  /\ UNCHANGED <<phase, served>>

Complete(c) == (c \in Events \/ "end" \in served[c]) /\ Settle(c, "completed")

\* One failure may end several calls, as the close of the channel does.
Fail ==
  /\ \E failing \in SUBSET {c \in Calls : phase[c] = "pending"} :
       phase' = [c \in Calls |-> IF c \in failing THEN "failed" ELSE phase[c]]
  /\ UNCHANGED <<got, served>>

Next ==
  \/ \E c \in Calls : Start(c) \/ Value(c) \/ Complete(c) \/ Settle(c, "cancelled")
  \/ \E c \in Calls, kind \in Kinds : Serve(c, kind)
  \/ Fail

Spec == Init /\ [][Next]_vars
=============================================================================
