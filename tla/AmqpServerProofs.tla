--------------------------- MODULE AmqpServerProofs ---------------------------
(***************************************************************************)
(* Theorems about AmqpServer, for every set of messages, every option and  *)
(* any number of connections.                                              *)
(***************************************************************************)
EXTENDS AmqpServer, TLAPS

-----------------------------------------------------------------------------
(* Types. *)

LEMMA TypeInit == Init => TypeOK
<1> SUFFICES ASSUME Init PROVE TypeOK
  OBVIOUS
<1>1. MaxConnects \in Nat
  BY ServerAssumption
<1>2. delivery \in [Messages -> Deliveries] /\ dispatched \in [Messages -> Nat]
  BY DEF Init, Deliveries
<1>3. message \in [Messages -> Places]
  BY DEF Init, Places
<1>4. channel \in BOOLEAN /\ retried \in BOOLEAN /\ declared \in BOOLEAN
  BY Zenon DEF Init
<1> QED
  BY <1>1, <1>2, <1>3, <1>4 DEF Init, TypeOK, NoChannel, SetupSteps

LEMMA TypeNext == TypeOK /\ [Next]_vars => TypeOK'
<1> SUFFICES ASSUME TypeOK, [Next]_vars PROVE TypeOK'
  OBVIOUS
<1> USE ServerAssumption
        DEF TypeOK, NoChannel, Infinite, Places, SetupSteps, Deliveries, Frames, Tasks,
            manager, setting, broker, work, Settle, KeepChannel, DropChannel, Requeued
<1>1. ASSUME NEW t \in tasks, Dispatch(t) PROVE TypeOK'
<2>1. tasks' \subseteq Tasks /\ dispatched' \in [Messages -> Nat]
  BY <1>1 DEF Dispatch
<2> QED
  BY <1>1, <2>1 DEF Dispatch
<1>2. ASSUME NEW t \in tasks, Refuse(t) PROVE TypeOK'
<2>1. outbox' \subseteq Requests /\ warned' \subseteq Messages /\ tasks' \subseteq Tasks
  BY <1>2 DEF Refuse, Nack, Answer
<2>2. inFlight' \subseteq Frames
  BY <1>2 DEF Refuse, Nack
<2> QED
  BY <1>2, <2>1, <2>2 DEF Refuse
<1>3. ASSUME NEW t \in tasks, HandlerAcks(t) PROVE TypeOK'
<2>1. tasks' \subseteq Tasks
  BY <1>3 DEF HandlerAcks
<2>2. inFlight' \subseteq Frames
  BY <1>3 DEF HandlerAcks
<2> QED
  BY <1>3, <2>1, <2>2 DEF HandlerAcks
<1>4. ASSUME NEW t \in tasks, HandlerEnds(t) PROVE TypeOK'
  BY <1>4 DEF HandlerEnds, Answer
<1>5. CASE Listen
  BY <1>5 DEF Listen
<1>6. CASE Connect
<2>1. connects' \in 0..MaxConnects /\ amqpChannel' \in 0..MaxConnects
  BY <1>6 DEF Connect
<2>2. channel' \in BOOLEAN /\ retried' \in BOOLEAN /\ declared' \in BOOLEAN
  BY <1>6, Zenon DEF Connect
<2> QED
  BY <1>6, <2>1, <2>2 DEF Connect
<1>7. CASE ConnectFailed
  BY <1>7 DEF ConnectFailed
<1>8. CASE Disconnect
  BY <1>8 DEF Disconnect
<1>9. CASE Close
  BY <1>9 DEF Close
<1>10. ASSUME NEW m \in Messages, Publish(m) PROVE TypeOK'
  BY <1>10 DEF Publish
<1>11. ASSUME NEW m \in Messages, Deliver(m) PROVE TypeOK'
<2>1. message' \in [Messages -> Places] /\ delivery' \in [Messages -> Deliveries]
  BY <1>11 DEF Deliver
<2>2. tasks' \subseteq Tasks /\ nextTag' \in Nat \ {0}
  BY <1>11 DEF Deliver
<2> QED
  BY <1>11, <2>1, <2>2 DEF Deliver
<1>12. ASSUME NEW m \in Messages, Flush(m) PROVE TypeOK'
  BY <1>12 DEF Flush
<1>13. ASSUME NEW f \in inFlight, BrokerRefuses(f) PROVE TypeOK'
  BY <1>13 DEF BrokerRefuses
<1>14. ASSUME NEW f \in inFlight, NEW m \in Messages, BrokerSettles(f, m) PROVE TypeOK'
  BY <1>14 DEF BrokerSettles
<1>15. CASE SetupAssert
  BY <1>15 DEF SetupAssert
<1>16. CASE SetupConsume
  BY <1>16 DEF SetupConsume
<1>17. CASE DeleteChannelFails
  BY <1>17 DEF DeleteChannelFails
<1>18. ASSUME NEW failed \in BOOLEAN, SetupFails(failed) PROVE TypeOK'
  BY <1>18 DEF SetupFails
<1>19. ASSUME NEW failed \in BOOLEAN, DeleteChannel(failed) PROVE TypeOK'
<2>1. message' \in [Messages -> Places]
  BY <1>19 DEF DeleteChannel
<2>2. channel' \in BOOLEAN /\ retried' \in BOOLEAN /\ declared' \in BOOLEAN
  BY <1>19, Zenon DEF DeleteChannel, LastTry
<2> QED
  BY <1>19, <2>1, <2>2 DEF DeleteChannel, LastTry
<1>20. CASE UNCHANGED vars
  BY <1>20 DEF vars
<1> QED
  BY <1>1, <1>2, <1>3, <1>4, <1>5, <1>6, <1>7, <1>8, <1>9, <1>10, <1>11, <1>12, <1>13,
     <1>14, <1>15, <1>16, <1>17, <1>18, <1>19, <1>20
  DEF Next, Environment, SetUpStep

\* The variables keep their types: counters stay within their bounds, every task and
\* every frame on the wire belongs to a message, only requests are answered.
THEOREM TypeCorrect == Spec => []TypeOK
  BY TypeInit, TypeNext, PTL DEF Spec

-----------------------------------------------------------------------------
(* The inductive invariant.  A delivery tag means something only on the channel it   *)
(* was given on, so the three safety properties rest on how channels, deliveries,    *)
(* tasks and frames on the wire are related.                                         *)

\* Only the current channel holds messages and carries frames, and it holds messages
\* only once its set-up has got to consume().
CurrentChannel ==
  /\ amqpChannel # NoChannel => amqpChannel = connects
  /\ connection = "down" => amqpChannel = NoChannel
  /\ setup # "consuming" => \A m \in Messages : message[m] # "unacked"
  /\ \A m \in Messages : message[m] = "unacked" =>
       amqpChannel # NoChannel /\ delivery[m].ch = amqpChannel
  /\ \A f \in inFlight : amqpChannel # NoChannel /\ f.ch = amqpChannel

\* A channel and a tag name one message, and a message that waits in the queue has
\* not been delivered on the current channel.
UniqueTags ==
  /\ \A m \in Messages : /\ delivery[m].ch <= connects
                         /\ delivery[m].ch = connects => delivery[m].tag < nextTag
  /\ \A m, n \in Messages : delivery[m].ch # 0 /\ delivery[m] = delivery[n] => m = n
  /\ \A m \in Messages : message[m] \in {"unsent", "ready"} /\ amqpChannel # NoChannel =>
       delivery[m].ch # amqpChannel

\* A task of the current channel works on the last delivery of its message; the
\* handler has been started unless the task still deserializes, which it does without
\* a change of channel if the deserializer is synchronous.
OnTime(t) ==
  /\ t.ch # NoChannel /\ t.ch <= connects
  /\ t.ch = amqpChannel => delivery[t.msg] = [ch |-> t.ch, tag |-> t.tag]
  /\ t.pc # "deserializing" => t.msg \in Handled /\ dispatched[t.msg] > 0
  /\ t.pc = "deserializing" /\ ~options.asyncDeserializer => t.ch = amqpChannel

TasksOnTime == \A t \in tasks : OnTime(t)

\* An ack on the wire is for a message that was handled, a nack, with a synchronous
\* deserializer, for one that was refused.
Justified(f) ==
  /\ f.kind = "ack" =>
       \E m \in Messages : delivery[m] = [ch |-> f.ch, tag |-> f.tag] /\ dispatched[m] > 0
  /\ f.kind = "nack" /\ ~options.asyncDeserializer =>
       \E m \in Messages : /\ delivery[m] = [ch |-> f.ch, tag |-> f.tag]
                           /\ m \in warned /\ m \notin Handled

FramesJustified == \A f \in inFlight : Justified(f)

\* With noAck a message has one delivery, so one task until its handler starts.
OneDelivery ==
  options.noAck =>
    /\ \A m \in Messages :
         /\ message[m] # "unacked"
         /\ message[m] \in {"unsent", "ready"} =>
              dispatched[m] = 0 /\ \A t \in tasks : t.msg # m
    /\ \A t, u \in tasks : t.msg = u.msg => t = u
    /\ \A t \in tasks : t.pc = "deserializing" => dispatched[t.msg] = 0

IInv ==
  /\ TypeOK
  /\ CurrentChannel /\ UniqueTags /\ TasksOnTime /\ FramesJustified /\ OneDelivery
  /\ NacksHitTheirMessage /\ ConsumedAfterHandling /\ AtMostOnceWithNoAck

LEMMA CurrentChannelNext == IInv /\ TypeOK' /\ [Next]_vars => CurrentChannel'
<1> SUFFICES ASSUME IInv, TypeOK', [Next]_vars PROVE CurrentChannel'
  OBVIOUS
<1> USE ServerAssumption DEF IInv, CurrentChannel, UniqueTags, TasksOnTime, OnTime,
            TypeOK, NoChannel, Places, SetupSteps, Deliveries, Frames, Tasks,
            manager, setting, broker, work, Settle, KeepChannel, DropChannel, Requeued, InSetup
<1>1. ASSUME NEW t \in tasks, Dispatch(t) PROVE CurrentChannel'
  BY <1>1 DEF Dispatch
<1>2. ASSUME NEW t \in tasks, Refuse(t) PROVE CurrentChannel'
  BY <1>2 DEF Refuse, Nack
<1>3. ASSUME NEW t \in tasks, HandlerAcks(t) PROVE CurrentChannel'
<2>1. amqpChannel # NoChannel /\ t.ch = amqpChannel
  BY <1>3 DEF HandlerAcks
<2>2. \A f \in inFlight' : f.ch = amqpChannel
  BY <1>3, <2>1 DEF HandlerAcks
<2> QED
  BY <1>3, <2>1, <2>2 DEF HandlerAcks
<1>4. ASSUME NEW t \in tasks, HandlerEnds(t) PROVE CurrentChannel'
  BY <1>4 DEF HandlerEnds
<1>5. CASE Listen
  BY <1>5 DEF Listen
<1>6. CASE Connect
  BY <1>6 DEF Connect
<1>7. CASE ConnectFailed
  BY <1>7 DEF ConnectFailed
<1>8. CASE Disconnect
  BY <1>8 DEF Disconnect
<1>9. CASE Close
  BY <1>9 DEF Close
<1>10. ASSUME NEW m \in Messages, Publish(m) PROVE CurrentChannel'
  BY <1>10 DEF Publish
<1>11. ASSUME NEW m \in Messages, Deliver(m) PROVE CurrentChannel'
  BY <1>11 DEF Deliver, NoAck
<1>12. ASSUME NEW m \in Messages, Flush(m) PROVE CurrentChannel'
  BY <1>12 DEF Flush
<1>13. ASSUME NEW f \in inFlight, BrokerRefuses(f) PROVE CurrentChannel'
  BY <1>13 DEF BrokerRefuses
<1>14. ASSUME NEW f \in inFlight, NEW m \in Messages, BrokerSettles(f, m) PROVE CurrentChannel'
  BY <1>14 DEF BrokerSettles
<1>15. CASE SetupAssert
  BY <1>15 DEF SetupAssert
<1>16. CASE SetupConsume
  BY <1>16 DEF SetupConsume
<1>17. CASE DeleteChannelFails
  BY <1>17 DEF DeleteChannelFails
<1>18. ASSUME NEW failed \in BOOLEAN, SetupFails(failed) PROVE CurrentChannel'
  BY <1>18 DEF SetupFails
<1>19. ASSUME NEW failed \in BOOLEAN, DeleteChannel(failed) PROVE CurrentChannel'
  BY <1>19 DEF DeleteChannel
<1>20. CASE UNCHANGED vars
  BY <1>20 DEF vars
<1> QED
  BY <1>1, <1>2, <1>3, <1>4, <1>5, <1>6, <1>7, <1>8, <1>9, <1>10,
     <1>11, <1>12, <1>13, <1>14, <1>15, <1>16, <1>17, <1>18, <1>19, <1>20
  DEF Next, Environment, SetUpStep

LEMMA UniqueTagsNext == IInv /\ TypeOK' /\ [Next]_vars => UniqueTags'
<1> SUFFICES ASSUME IInv, TypeOK', [Next]_vars PROVE UniqueTags'
  OBVIOUS
<1> USE ServerAssumption DEF IInv, CurrentChannel, UniqueTags,
            TypeOK, NoChannel, Places, SetupSteps, Deliveries, Frames, Tasks,
            manager, setting, broker, work, Settle, KeepChannel, DropChannel, Requeued, InSetup
<1>1. ASSUME NEW t \in tasks, Dispatch(t) PROVE UniqueTags'
  BY <1>1 DEF Dispatch
<1>2. ASSUME NEW t \in tasks, Refuse(t) PROVE UniqueTags'
  BY <1>2 DEF Refuse, Nack
<1>3. ASSUME NEW t \in tasks, HandlerAcks(t) PROVE UniqueTags'
  BY <1>3 DEF HandlerAcks
<1>4. ASSUME NEW t \in tasks, HandlerEnds(t) PROVE UniqueTags'
  BY <1>4 DEF HandlerEnds
<1>5. CASE Listen
  BY <1>5 DEF Listen
<1>6. CASE Connect
  BY <1>6 DEF Connect
<1>7. CASE ConnectFailed
  BY <1>7 DEF ConnectFailed
<1>8. CASE Disconnect
  BY <1>8 DEF Disconnect
<1>9. CASE Close
  BY <1>9 DEF Close
<1>10. ASSUME NEW m \in Messages, Publish(m) PROVE UniqueTags'
  BY <1>10 DEF Publish
<1>11. ASSUME NEW m \in Messages, Deliver(m) PROVE UniqueTags'
  BY <1>11 DEF Deliver, NoAck
<1>12. ASSUME NEW m \in Messages, Flush(m) PROVE UniqueTags'
  BY <1>12 DEF Flush
<1>13. ASSUME NEW f \in inFlight, BrokerRefuses(f) PROVE UniqueTags'
  BY <1>13 DEF BrokerRefuses
<1>14. ASSUME NEW f \in inFlight, NEW m \in Messages, BrokerSettles(f, m) PROVE UniqueTags'
  BY <1>14 DEF BrokerSettles
<1>15. CASE SetupAssert
  BY <1>15 DEF SetupAssert
<1>16. CASE SetupConsume
  BY <1>16 DEF SetupConsume
<1>17. CASE DeleteChannelFails
  BY <1>17 DEF DeleteChannelFails
<1>18. ASSUME NEW failed \in BOOLEAN, SetupFails(failed) PROVE UniqueTags'
  BY <1>18 DEF SetupFails
<1>19. ASSUME NEW failed \in BOOLEAN, DeleteChannel(failed) PROVE UniqueTags'
  BY <1>19 DEF DeleteChannel
<1>20. CASE UNCHANGED vars
  BY <1>20 DEF vars
<1> QED
  BY <1>1, <1>2, <1>3, <1>4, <1>5, <1>6, <1>7, <1>8, <1>9, <1>10,
     <1>11, <1>12, <1>13, <1>14, <1>15, <1>16, <1>17, <1>18, <1>19, <1>20
  DEF Next, Environment, SetUpStep

LEMMA TasksOnTimeNext == IInv /\ TypeOK' /\ [Next]_vars => TasksOnTime'
<1> SUFFICES ASSUME IInv, TypeOK', [Next]_vars PROVE TasksOnTime'
  OBVIOUS
<1> USE ServerAssumption DEF IInv, CurrentChannel, UniqueTags, TasksOnTime, OnTime, RunToCompletion,
            TypeOK, NoChannel, Places, SetupSteps, Deliveries, Frames, Tasks,
            manager, setting, broker, work, Settle, KeepChannel, DropChannel, Requeued, InSetup
<1>1. ASSUME NEW t \in tasks, Dispatch(t) PROVE TasksOnTime'
<2> SUFFICES ASSUME NEW u \in tasks' PROVE OnTime(u)'
  OBVIOUS
<2>1. \A m \in Messages : dispatched[m] > 0 => dispatched'[m] > 0
  BY <1>1 DEF Dispatch
<2>2. UNCHANGED <<connects, amqpChannel, delivery, options>>
  BY <1>1 DEF Dispatch
<2>3. CASE u \in tasks
  BY <2>1, <2>2, <2>3
<2>4. CASE u = [t EXCEPT !.pc = "handling"]
  <3>1. u.ch = t.ch /\ u.tag = t.tag /\ u.msg = t.msg /\ u.pc = "handling"
    BY <2>4
  <3>2. t.msg \in Handled /\ dispatched'[t.msg] > 0
    BY <1>1 DEF Dispatch
  <3> QED
    BY <2>2, <3>1, <3>2
<2> QED
  BY <1>1, <2>3, <2>4 DEF Dispatch
<1>2. ASSUME NEW t \in tasks, Refuse(t) PROVE TasksOnTime'
  BY <1>2 DEF Refuse, Nack
<1>3. ASSUME NEW t \in tasks, RunToCompletion, HandlerAcks(t) PROVE TasksOnTime'
  BY <1>3 DEF HandlerAcks
<1>4. ASSUME NEW t \in tasks, RunToCompletion, HandlerEnds(t) PROVE TasksOnTime'
  BY <1>4 DEF HandlerEnds
<1>5. CASE RunToCompletion /\ Listen
  BY <1>5 DEF Listen
<1>6. CASE RunToCompletion /\ Connect
<2>1. connects \in Nat /\ connects' = connects + 1 /\ amqpChannel' = connects + 1
  BY <1>6 DEF Connect
<2>2. \A t \in tasks : t.pc = "deserializing" => options.asyncDeserializer
  BY <1>6
<2>3. UNCHANGED <<tasks, dispatched, options>>
  BY <1>6 DEF Connect
<2> SUFFICES ASSUME NEW t \in tasks PROVE OnTime(t)'
  BY <2>3
<2>4. t.ch \in Nat /\ OnTime(t)
  OBVIOUS
<2>5. t.ch # NoChannel /\ t.ch <= connects' /\ t.ch # amqpChannel'
  BY <2>1, <2>4
<2> QED
  BY <2>2, <2>3, <2>4, <2>5
<1>7. CASE RunToCompletion /\ ConnectFailed
  BY <1>7 DEF ConnectFailed
<1>8. CASE RunToCompletion /\ Disconnect
  BY <1>8 DEF Disconnect
<1>9. CASE RunToCompletion /\ Close
  BY <1>9 DEF Close
<1>10. ASSUME NEW m \in Messages, RunToCompletion, Publish(m) PROVE TasksOnTime'
  BY <1>10 DEF Publish
<1>11. ASSUME NEW m \in Messages, RunToCompletion, Deliver(m) PROVE TasksOnTime'
<2> SUFFICES ASSUME NEW u \in tasks' PROVE OnTime(u)'
  OBVIOUS
<2>1. /\ delivery' = [delivery EXCEPT ![m] = [ch |-> amqpChannel, tag |-> nextTag]]
      /\ amqpChannel # NoChannel /\ message[m] = "ready"
      /\ UNCHANGED <<connects, amqpChannel, dispatched, options>>
  BY <1>11 DEF Deliver
<2>2. CASE u \in tasks
  <3>1. u.ch = amqpChannel => u.msg # m
    <4>1. delivery[m].ch # amqpChannel
      BY <2>1
    <4>2. u.ch = amqpChannel => delivery[u.msg] = [ch |-> u.ch, tag |-> u.tag]
      BY <2>2
    <4>3. [ch |-> u.ch, tag |-> u.tag].ch = u.ch
      OBVIOUS
    <4> QED
      BY <4>1, <4>2, <4>3
  <3> QED
    BY <2>1, <2>2, <3>1
<2>3. CASE u = [msg |-> m, ch |-> amqpChannel, tag |-> nextTag, pc |-> "deserializing"]
  BY <2>1, <2>3
<2> QED
  BY <1>11, <2>2, <2>3 DEF Deliver
<1>12. ASSUME NEW m \in Messages, RunToCompletion, Flush(m) PROVE TasksOnTime'
  BY <1>12 DEF Flush
<1>13. ASSUME NEW f \in inFlight, RunToCompletion, BrokerRefuses(f) PROVE TasksOnTime'
  BY <1>13 DEF BrokerRefuses
<1>14. ASSUME NEW f \in inFlight, NEW m \in Messages, RunToCompletion, BrokerSettles(f, m) PROVE TasksOnTime'
  BY <1>14 DEF BrokerSettles
<1>15. CASE RunToCompletion /\ SetupAssert
  BY <1>15 DEF SetupAssert
<1>16. CASE RunToCompletion /\ SetupConsume
  BY <1>16 DEF SetupConsume
<1>17. CASE RunToCompletion /\ DeleteChannelFails
  BY <1>17 DEF DeleteChannelFails
<1>18. ASSUME NEW failed \in BOOLEAN, RunToCompletion, SetupFails(failed) PROVE TasksOnTime'
  BY <1>18 DEF SetupFails
<1>19. ASSUME NEW failed \in BOOLEAN, RunToCompletion, DeleteChannel(failed) PROVE TasksOnTime'
  BY <1>19 DEF DeleteChannel
<1>20. CASE UNCHANGED vars
  BY <1>20 DEF vars
<1> QED
  BY <1>1, <1>2, <1>3, <1>4, <1>5, <1>6, <1>7, <1>8, <1>9, <1>10,
     <1>11, <1>12, <1>13, <1>14, <1>15, <1>16, <1>17, <1>18, <1>19, <1>20
  DEF Next, Environment, SetUpStep

LEMMA FramesJustifiedNext == IInv /\ TypeOK' /\ [Next]_vars => FramesJustified'
<1> SUFFICES ASSUME IInv, TypeOK', [Next]_vars PROVE FramesJustified'
  OBVIOUS
<1> USE ServerAssumption DEF IInv, CurrentChannel, UniqueTags, TasksOnTime, OnTime, FramesJustified, Justified,
            TypeOK, NoChannel, Places, SetupSteps, Deliveries, Frames, Tasks,
            manager, setting, broker, work, Settle, KeepChannel, DropChannel, Requeued, InSetup
<1>1. ASSUME NEW t \in tasks, Dispatch(t) PROVE FramesJustified'
<2>1. \A m \in Messages : dispatched[m] > 0 => dispatched'[m] > 0
  BY <1>1 DEF Dispatch
<2> QED
  BY <1>1, <2>1 DEF Dispatch
<1>2. ASSUME NEW t \in tasks, Refuse(t) PROVE FramesJustified'
<2> SUFFICES ASSUME NEW f \in inFlight' PROVE Justified(f)'
  OBVIOUS
<2>1. warned \subseteq warned' /\ UNCHANGED <<delivery, dispatched, options>>
  BY <1>2 DEF Refuse
<2>2. CASE f \in inFlight
  BY <2>1, <2>2
<2>3. CASE f \notin inFlight
  <3>1. /\ amqpChannel # NoChannel
        /\ f = [ch |-> amqpChannel, tag |-> t.tag, kind |-> "nack"]
        /\ t.msg \in Messages /\ t.msg \notin Handled /\ t.msg \in warned'
    BY <1>2, <2>3 DEF Refuse, Nack
  <3>2. ~options.asyncDeserializer =>
          t.ch = amqpChannel /\ delivery[t.msg] = [ch |-> t.ch, tag |-> t.tag]
    BY <1>2 DEF Refuse
  <3>3. f.kind = "nack" /\ f.ch = amqpChannel /\ f.tag = t.tag
    BY <3>1
  <3> QED
    BY <2>1, <3>1, <3>2, <3>3
<2> QED
  BY <2>2, <2>3
<1>3. ASSUME NEW t \in tasks, HandlerAcks(t) PROVE FramesJustified'
<2> SUFFICES ASSUME NEW f \in inFlight' PROVE Justified(f)'
  OBVIOUS
<2>1. UNCHANGED <<delivery, dispatched, options, warned>>
  BY <1>3 DEF HandlerAcks
<2>2. CASE f \in inFlight
  BY <2>1, <2>2
<2>3. CASE f = [ch |-> t.ch, tag |-> t.tag, kind |-> "ack"]
  <3>1. t.msg \in Messages /\ delivery[t.msg] = [ch |-> t.ch, tag |-> t.tag] /\ dispatched[t.msg] > 0
    BY <1>3 DEF HandlerAcks
  <3> QED
    BY <2>1, <2>3, <3>1
<2> QED
  BY <1>3, <2>2, <2>3 DEF HandlerAcks
<1>4. ASSUME NEW t \in tasks, HandlerEnds(t) PROVE FramesJustified'
  BY <1>4 DEF HandlerEnds
<1>5. CASE Listen
  BY <1>5 DEF Listen
<1>6. CASE Connect
  BY <1>6 DEF Connect
<1>7. CASE ConnectFailed
  BY <1>7 DEF ConnectFailed
<1>8. CASE Disconnect
  BY <1>8 DEF Disconnect
<1>9. CASE Close
  BY <1>9 DEF Close
<1>10. ASSUME NEW m \in Messages, Publish(m) PROVE FramesJustified'
  BY <1>10 DEF Publish
<1>11. ASSUME NEW m \in Messages, Deliver(m) PROVE FramesJustified'
<2> SUFFICES ASSUME NEW f \in inFlight PROVE Justified(f)'
  BY <1>11 DEF Deliver
<2>1. ASSUME NEW n \in Messages, delivery[n] = [ch |-> f.ch, tag |-> f.tag]
      PROVE  delivery'[n] = delivery[n]
  <3>1. n # m
    BY <1>11, <2>1 DEF Deliver
  <3> QED
    BY <1>11, <2>1, <3>1 DEF Deliver
<2>2. UNCHANGED <<inFlight, dispatched, options, warned>>
  BY <1>11 DEF Deliver
<2>3. Justified(f)
  OBVIOUS
<2> QED
  BY <2>1, <2>2, <2>3
<1>12. ASSUME NEW m \in Messages, Flush(m) PROVE FramesJustified'
  BY <1>12 DEF Flush
<1>13. ASSUME NEW f \in inFlight, BrokerRefuses(f) PROVE FramesJustified'
  BY <1>13 DEF BrokerRefuses
<1>14. ASSUME NEW f \in inFlight, NEW m \in Messages, BrokerSettles(f, m) PROVE FramesJustified'
  BY <1>14 DEF BrokerSettles
<1>15. CASE SetupAssert
  BY <1>15 DEF SetupAssert
<1>16. CASE SetupConsume
  BY <1>16 DEF SetupConsume
<1>17. CASE DeleteChannelFails
  BY <1>17 DEF DeleteChannelFails
<1>18. ASSUME NEW failed \in BOOLEAN, SetupFails(failed) PROVE FramesJustified'
  BY <1>18 DEF SetupFails
<1>19. ASSUME NEW failed \in BOOLEAN, DeleteChannel(failed) PROVE FramesJustified'
  BY <1>19 DEF DeleteChannel
<1>20. CASE UNCHANGED vars
  BY <1>20 DEF vars
<1> QED
  BY <1>1, <1>2, <1>3, <1>4, <1>5, <1>6, <1>7, <1>8, <1>9, <1>10,
     <1>11, <1>12, <1>13, <1>14, <1>15, <1>16, <1>17, <1>18, <1>19, <1>20
  DEF Next, Environment, SetUpStep

LEMMA OneDeliveryNext == IInv /\ TypeOK' /\ [Next]_vars => OneDelivery'
<1> SUFFICES ASSUME IInv, TypeOK', [Next]_vars PROVE OneDelivery'
  OBVIOUS
<1> USE ServerAssumption DEF IInv, OneDelivery,
            TypeOK, NoChannel, Places, SetupSteps, Deliveries, Frames, Tasks,
            manager, setting, broker, work, Settle, KeepChannel, DropChannel, Requeued, InSetup
<1>1. ASSUME NEW t \in tasks, Dispatch(t) PROVE OneDelivery'
  BY <1>1 DEF Dispatch
<1>2. ASSUME NEW t \in tasks, Refuse(t) PROVE OneDelivery'
  BY <1>2 DEF Refuse, Nack
<1>3. ASSUME NEW t \in tasks, HandlerAcks(t) PROVE OneDelivery'
  BY <1>3 DEF HandlerAcks
<1>4. ASSUME NEW t \in tasks, HandlerEnds(t) PROVE OneDelivery'
  BY <1>4 DEF HandlerEnds
<1>5. CASE Listen
  BY <1>5 DEF Listen
<1>6. CASE Connect
  BY <1>6 DEF Connect
<1>7. CASE ConnectFailed
  BY <1>7 DEF ConnectFailed
<1>8. CASE Disconnect
  BY <1>8 DEF Disconnect
<1>9. CASE Close
  BY <1>9 DEF Close
<1>10. ASSUME NEW m \in Messages, Publish(m) PROVE OneDelivery'
  BY <1>10 DEF Publish
<1>11. ASSUME NEW m \in Messages, Deliver(m) PROVE OneDelivery'
  BY <1>11 DEF Deliver, NoAck
<1>12. ASSUME NEW m \in Messages, Flush(m) PROVE OneDelivery'
  BY <1>12 DEF Flush
<1>13. ASSUME NEW f \in inFlight, BrokerRefuses(f) PROVE OneDelivery'
  BY <1>13 DEF BrokerRefuses
<1>14. ASSUME NEW f \in inFlight, NEW m \in Messages, BrokerSettles(f, m) PROVE OneDelivery'
  BY <1>14 DEF BrokerSettles
<1>15. CASE SetupAssert
  BY <1>15 DEF SetupAssert
<1>16. CASE SetupConsume
  BY <1>16 DEF SetupConsume
<1>17. CASE DeleteChannelFails
  BY <1>17 DEF DeleteChannelFails
<1>18. ASSUME NEW failed \in BOOLEAN, SetupFails(failed) PROVE OneDelivery'
  BY <1>18 DEF SetupFails
<1>19. ASSUME NEW failed \in BOOLEAN, DeleteChannel(failed) PROVE OneDelivery'
  BY <1>19 DEF DeleteChannel
<1>20. CASE UNCHANGED vars
  BY <1>20 DEF vars
<1> QED
  BY <1>1, <1>2, <1>3, <1>4, <1>5, <1>6, <1>7, <1>8, <1>9, <1>10,
     <1>11, <1>12, <1>13, <1>14, <1>15, <1>16, <1>17, <1>18, <1>19, <1>20
  DEF Next, Environment, SetUpStep

LEMMA NacksNext == IInv /\ TypeOK' /\ [Next]_vars => NacksHitTheirMessage'
<1> SUFFICES ASSUME IInv, TypeOK', [Next]_vars PROVE NacksHitTheirMessage'
  OBVIOUS
<1> USE ServerAssumption DEF IInv, CurrentChannel, UniqueTags, FramesJustified, Justified,
            NacksHitTheirMessage, TypeOK, NoChannel, Places, SetupSteps, Deliveries, Frames, Tasks,
            manager, setting, broker, work, Settle, KeepChannel, DropChannel, Requeued, InSetup
<1>1. ASSUME NEW t \in tasks, Dispatch(t) PROVE NacksHitTheirMessage'
  BY <1>1 DEF Dispatch
<1>2. ASSUME NEW t \in tasks, Refuse(t) PROVE NacksHitTheirMessage'
  BY <1>2 DEF Refuse, Nack
<1>3. ASSUME NEW t \in tasks, HandlerAcks(t) PROVE NacksHitTheirMessage'
  BY <1>3 DEF HandlerAcks
<1>4. ASSUME NEW t \in tasks, HandlerEnds(t) PROVE NacksHitTheirMessage'
  BY <1>4 DEF HandlerEnds
<1>5. CASE Listen
  BY <1>5 DEF Listen
<1>6. CASE Connect
  BY <1>6 DEF Connect
<1>7. CASE ConnectFailed
  BY <1>7 DEF ConnectFailed
<1>8. CASE Disconnect
  BY <1>8 DEF Disconnect
<1>9. CASE Close
  BY <1>9 DEF Close
<1>10. ASSUME NEW m \in Messages, Publish(m) PROVE NacksHitTheirMessage'
  BY <1>10 DEF Publish
<1>11. ASSUME NEW m \in Messages, Deliver(m) PROVE NacksHitTheirMessage'
  BY <1>11 DEF Deliver, NoAck
<1>12. ASSUME NEW m \in Messages, Flush(m) PROVE NacksHitTheirMessage'
  BY <1>12 DEF Flush
<1>13. ASSUME NEW f \in inFlight, BrokerRefuses(f) PROVE NacksHitTheirMessage'
  BY <1>13 DEF BrokerRefuses
<1>14. ASSUME NEW f \in inFlight, NEW m \in Messages, BrokerSettles(f, m) PROVE NacksHitTheirMessage'
  BY <1>14 DEF BrokerSettles
<1>15. CASE SetupAssert
  BY <1>15 DEF SetupAssert
<1>16. CASE SetupConsume
  BY <1>16 DEF SetupConsume
<1>17. CASE DeleteChannelFails
  BY <1>17 DEF DeleteChannelFails
<1>18. ASSUME NEW failed \in BOOLEAN, SetupFails(failed) PROVE NacksHitTheirMessage'
  BY <1>18 DEF SetupFails
<1>19. ASSUME NEW failed \in BOOLEAN, DeleteChannel(failed) PROVE NacksHitTheirMessage'
  BY <1>19 DEF DeleteChannel
<1>20. CASE UNCHANGED vars
  BY <1>20 DEF vars
<1> QED
  BY <1>1, <1>2, <1>3, <1>4, <1>5, <1>6, <1>7, <1>8, <1>9, <1>10,
     <1>11, <1>12, <1>13, <1>14, <1>15, <1>16, <1>17, <1>18, <1>19, <1>20
  DEF Next, Environment, SetUpStep

LEMMA ConsumedNext == IInv /\ TypeOK' /\ [Next]_vars => ConsumedAfterHandling'
<1> SUFFICES ASSUME IInv, TypeOK', [Next]_vars PROVE ConsumedAfterHandling'
  OBVIOUS
<1> USE ServerAssumption DEF IInv, CurrentChannel, UniqueTags, FramesJustified, Justified,
            ConsumedAfterHandling, TypeOK, NoChannel, Places, SetupSteps, Deliveries, Frames, Tasks,
            manager, setting, broker, work, Settle, KeepChannel, DropChannel, Requeued, InSetup
<1>1. ASSUME NEW t \in tasks, Dispatch(t) PROVE ConsumedAfterHandling'
  BY <1>1 DEF Dispatch
<1>2. ASSUME NEW t \in tasks, Refuse(t) PROVE ConsumedAfterHandling'
  BY <1>2 DEF Refuse, Nack
<1>3. ASSUME NEW t \in tasks, HandlerAcks(t) PROVE ConsumedAfterHandling'
  BY <1>3 DEF HandlerAcks
<1>4. ASSUME NEW t \in tasks, HandlerEnds(t) PROVE ConsumedAfterHandling'
  BY <1>4 DEF HandlerEnds
<1>5. CASE Listen
  BY <1>5 DEF Listen
<1>6. CASE Connect
  BY <1>6 DEF Connect
<1>7. CASE ConnectFailed
  BY <1>7 DEF ConnectFailed
<1>8. CASE Disconnect
  BY <1>8 DEF Disconnect
<1>9. CASE Close
  BY <1>9 DEF Close
<1>10. ASSUME NEW m \in Messages, Publish(m) PROVE ConsumedAfterHandling'
  BY <1>10 DEF Publish
<1>11. ASSUME NEW m \in Messages, Deliver(m) PROVE ConsumedAfterHandling'
  BY <1>11 DEF Deliver, NoAck
<1>12. ASSUME NEW m \in Messages, Flush(m) PROVE ConsumedAfterHandling'
  BY <1>12 DEF Flush
<1>13. ASSUME NEW f \in inFlight, BrokerRefuses(f) PROVE ConsumedAfterHandling'
  BY <1>13 DEF BrokerRefuses
<1>14. ASSUME NEW f \in inFlight, NEW m \in Messages, BrokerSettles(f, m) PROVE ConsumedAfterHandling'
  BY <1>14 DEF BrokerSettles
<1>15. CASE SetupAssert
  BY <1>15 DEF SetupAssert
<1>16. CASE SetupConsume
  BY <1>16 DEF SetupConsume
<1>17. CASE DeleteChannelFails
  BY <1>17 DEF DeleteChannelFails
<1>18. ASSUME NEW failed \in BOOLEAN, SetupFails(failed) PROVE ConsumedAfterHandling'
  BY <1>18 DEF SetupFails
<1>19. ASSUME NEW failed \in BOOLEAN, DeleteChannel(failed) PROVE ConsumedAfterHandling'
  BY <1>19 DEF DeleteChannel
<1>20. CASE UNCHANGED vars
  BY <1>20 DEF vars
<1> QED
  BY <1>1, <1>2, <1>3, <1>4, <1>5, <1>6, <1>7, <1>8, <1>9, <1>10,
     <1>11, <1>12, <1>13, <1>14, <1>15, <1>16, <1>17, <1>18, <1>19, <1>20
  DEF Next, Environment, SetUpStep

LEMMA AtMostOnceNext == IInv /\ TypeOK' /\ [Next]_vars => AtMostOnceWithNoAck'
<1> SUFFICES ASSUME IInv, TypeOK', [Next]_vars PROVE AtMostOnceWithNoAck'
  OBVIOUS
<1> USE ServerAssumption DEF IInv, OneDelivery, AtMostOnceWithNoAck,
            TypeOK, NoChannel, Places, SetupSteps, Deliveries, Frames, Tasks,
            manager, setting, broker, work, Settle, KeepChannel, DropChannel, Requeued, InSetup
<1>1. ASSUME NEW t \in tasks, Dispatch(t) PROVE AtMostOnceWithNoAck'
  BY <1>1 DEF Dispatch
<1>2. ASSUME NEW t \in tasks, Refuse(t) PROVE AtMostOnceWithNoAck'
  BY <1>2 DEF Refuse, Nack
<1>3. ASSUME NEW t \in tasks, HandlerAcks(t) PROVE AtMostOnceWithNoAck'
  BY <1>3 DEF HandlerAcks
<1>4. ASSUME NEW t \in tasks, HandlerEnds(t) PROVE AtMostOnceWithNoAck'
  BY <1>4 DEF HandlerEnds
<1>5. CASE Listen
  BY <1>5 DEF Listen
<1>6. CASE Connect
  BY <1>6 DEF Connect
<1>7. CASE ConnectFailed
  BY <1>7 DEF ConnectFailed
<1>8. CASE Disconnect
  BY <1>8 DEF Disconnect
<1>9. CASE Close
  BY <1>9 DEF Close
<1>10. ASSUME NEW m \in Messages, Publish(m) PROVE AtMostOnceWithNoAck'
  BY <1>10 DEF Publish
<1>11. ASSUME NEW m \in Messages, Deliver(m) PROVE AtMostOnceWithNoAck'
  BY <1>11 DEF Deliver, NoAck
<1>12. ASSUME NEW m \in Messages, Flush(m) PROVE AtMostOnceWithNoAck'
  BY <1>12 DEF Flush
<1>13. ASSUME NEW f \in inFlight, BrokerRefuses(f) PROVE AtMostOnceWithNoAck'
  BY <1>13 DEF BrokerRefuses
<1>14. ASSUME NEW f \in inFlight, NEW m \in Messages, BrokerSettles(f, m) PROVE AtMostOnceWithNoAck'
  BY <1>14 DEF BrokerSettles
<1>15. CASE SetupAssert
  BY <1>15 DEF SetupAssert
<1>16. CASE SetupConsume
  BY <1>16 DEF SetupConsume
<1>17. CASE DeleteChannelFails
  BY <1>17 DEF DeleteChannelFails
<1>18. ASSUME NEW failed \in BOOLEAN, SetupFails(failed) PROVE AtMostOnceWithNoAck'
  BY <1>18 DEF SetupFails
<1>19. ASSUME NEW failed \in BOOLEAN, DeleteChannel(failed) PROVE AtMostOnceWithNoAck'
  BY <1>19 DEF DeleteChannel
<1>20. CASE UNCHANGED vars
  BY <1>20 DEF vars
<1> QED
  BY <1>1, <1>2, <1>3, <1>4, <1>5, <1>6, <1>7, <1>8, <1>9, <1>10,
     <1>11, <1>12, <1>13, <1>14, <1>15, <1>16, <1>17, <1>18, <1>19, <1>20
  DEF Next, Environment, SetUpStep
LEMMA IInvInit == Init => IInv
<1> SUFFICES ASSUME Init PROVE IInv
  OBVIOUS
<1>1. TypeOK
  BY TypeInit
<1>2. /\ inFlight = {} /\ tasks = {} /\ connects = 0 /\ amqpChannel = NoChannel /\ nextTag = 1
      /\ \A m \in Messages : /\ message[m] = "unsent" /\ dispatched[m] = 0
                             /\ delivery[m] = [ch |-> 0, tag |-> 0]
  BY DEF Init
<1>3. \A m \in Messages : delivery[m].ch = 0 /\ delivery[m].tag = 0
  BY <1>2
<1>4. CurrentChannel /\ UniqueTags
  BY <1>2, <1>3 DEF CurrentChannel, UniqueTags, NoChannel
<1>5. TasksOnTime /\ FramesJustified /\ OneDelivery
  BY <1>2 DEF TasksOnTime, FramesJustified, OneDelivery
<1>6. NacksHitTheirMessage /\ ConsumedAfterHandling /\ AtMostOnceWithNoAck
  BY <1>2 DEF NacksHitTheirMessage, ConsumedAfterHandling, AtMostOnceWithNoAck
<1> QED
  BY <1>1, <1>4, <1>5, <1>6 DEF IInv

LEMMA IInvNext == IInv /\ [Next]_vars => IInv'
<1> SUFFICES ASSUME IInv, [Next]_vars PROVE IInv'
  OBVIOUS
<1>1. TypeOK'
  BY TypeNext DEF IInv
<1> QED
  BY <1>1, CurrentChannelNext, UniqueTagsNext, TasksOnTimeNext, FramesJustifiedNext,
     OneDeliveryNext, NacksNext, ConsumedNext, AtMostOnceNext
  DEF IInv

LEMMA Invariance == Spec => []IInv
  BY IInvInit, IInvNext, PTL DEF Spec

-----------------------------------------------------------------------------
(* What it gives. *)

\* With a synchronous deserializer the nack sent through the wrapper in
\* handleMessage and handleEvent never discards another message than the refused one.
THEOREM NacksCorrect == Spec => []NacksHitTheirMessage
<1>1. IInv => NacksHitTheirMessage
  BY DEF IInv
<1> QED
  BY <1>1, Invariance, PTL

\* With manual acknowledgement no message leaves the queue as consumed before its
\* handler was started, whatever the connection and the set-up do.
THEOREM ConsumedCorrect == Spec => []ConsumedAfterHandling
<1>1. IInv => ConsumedAfterHandling
  BY DEF IInv
<1> QED
  BY <1>1, Invariance, PTL

\* With noAck no message is handled twice.
THEOREM AtMostOnceCorrect == Spec => []AtMostOnceWithNoAck
<1>1. IInv => AtMostOnceWithNoAck
  BY DEF IInv
<1> QED
  BY <1>1, Invariance, PTL

-----------------------------------------------------------------------------
(* AmqpServer implements AmqpDelivery. *)

\* Where the contract sees a message.
PlaceOf(where) ==
  CASE where = "unsent"     -> "outside"
    [] where = "ready"      -> "waiting"
    [] where = "unacked"    -> "held"
    [] where = "consumed"   -> "done"
    [] where = "discarded"  -> "rejected"
    [] OTHER                -> "lost"

Seen == [m \in Messages |-> PlaceOf(message[m])]

\* With noAck a task works on a message the broker has forgotten.
TakenByTask == options.noAck => \A t \in tasks : message[t.msg] = "consumed"

LEMMA TakenNext == IInv /\ TakenByTask /\ [Next]_vars => TakenByTask'
<1> SUFFICES ASSUME IInv, TakenByTask, [Next]_vars PROVE TakenByTask'
  OBVIOUS
<1> USE ServerAssumption DEF IInv, TakenByTask, TypeOK, Places, Tasks,
            manager, setting, broker, work, KeepChannel, DropChannel, Requeued
<1>1. ASSUME NEW t \in tasks, Dispatch(t) PROVE TakenByTask'
  BY <1>1 DEF Dispatch
<1>2. ASSUME NEW t \in tasks, Refuse(t) PROVE TakenByTask'
  BY <1>2 DEF Refuse
<1>3. ASSUME NEW t \in tasks, HandlerAcks(t) PROVE TakenByTask'
  BY <1>3 DEF HandlerAcks
<1>4. ASSUME NEW t \in tasks, HandlerEnds(t) PROVE TakenByTask'
  BY <1>4 DEF HandlerEnds
<1>5. CASE Listen
  BY <1>5 DEF Listen
<1>6. CASE Connect
  BY <1>6 DEF Connect
<1>7. CASE ConnectFailed
  BY <1>7 DEF ConnectFailed
<1>8. CASE Disconnect
  BY <1>8 DEF Disconnect
<1>9. CASE Close
  BY <1>9 DEF Close
<1>10. ASSUME NEW m \in Messages, Publish(m) PROVE TakenByTask'
  BY <1>10 DEF Publish
<1>11. ASSUME NEW m \in Messages, Deliver(m) PROVE TakenByTask'
  BY <1>11 DEF Deliver, NoAck
<1>12. ASSUME NEW m \in Messages, Flush(m) PROVE TakenByTask'
  BY <1>12 DEF Flush
<1>13. ASSUME NEW f \in inFlight, BrokerRefuses(f) PROVE TakenByTask'
  BY <1>13 DEF BrokerRefuses
<1>14. ASSUME NEW f \in inFlight, NEW m \in Messages, BrokerSettles(f, m) PROVE TakenByTask'
  BY <1>14 DEF BrokerSettles
<1>15. CASE SetupAssert
  BY <1>15 DEF SetupAssert
<1>16. CASE SetupConsume
  BY <1>16 DEF SetupConsume
<1>17. CASE DeleteChannelFails
  BY <1>17 DEF DeleteChannelFails
<1>18. ASSUME NEW failed \in BOOLEAN, SetupFails(failed) PROVE TakenByTask'
  BY <1>18 DEF SetupFails
<1>19. ASSUME NEW failed \in BOOLEAN, DeleteChannel(failed) PROVE TakenByTask'
  BY <1>19 DEF DeleteChannel
<1>20. CASE UNCHANGED vars
  BY <1>20 DEF vars
<1> QED
  BY <1>1, <1>2, <1>3, <1>4, <1>5, <1>6, <1>7, <1>8, <1>9, <1>10,
     <1>11, <1>12, <1>13, <1>14, <1>15, <1>16, <1>17, <1>18, <1>19, <1>20
  DEF Next, Environment, SetUpStep

\* The contract's actions as the server sees them.
LEMMA EnterIs == ASSUME NEW m \in Messages PROVE Contract!Enter(m) <=>
  /\ Seen[m] = "outside"
  /\ \E p \in {"waiting", "lost"} : Seen' = [Seen EXCEPT ![m] = p]
  /\ UNCHANGED <<options.noAck, ~options.asyncDeserializer, dispatched>>
  BY DEF Contract!Enter, Seen, PlaceOf

LEMMA TakeIs == ASSUME NEW m \in Messages PROVE Contract!Take(m) <=>
  /\ Seen[m] = "waiting"
  /\ Seen' = [Seen EXCEPT ![m] = IF options.noAck THEN "done" ELSE "held"]
  /\ UNCHANGED <<options.noAck, ~options.asyncDeserializer, dispatched>>
  BY DEF Contract!Take, Seen, PlaceOf

LEMMA StartIs == ASSUME NEW m \in Messages PROVE Contract!Start(m) <=>
  /\ m \in Handled
  /\ options.noAck => Seen[m] = "done" /\ dispatched[m] = 0
  /\ dispatched' = [dispatched EXCEPT ![m] = @ + 1]
  /\ UNCHANGED <<options.noAck, ~options.asyncDeserializer, Seen>>
  BY DEF Contract!Start, Seen, PlaceOf

LEMMA FinishIs == ASSUME NEW m \in Messages PROVE Contract!Finish(m) <=>
  /\ Seen[m] = "held" /\ dispatched[m] > 0
  /\ Seen' = [Seen EXCEPT ![m] = "done"]
  /\ UNCHANGED <<options.noAck, ~options.asyncDeserializer, dispatched>>
  BY DEF Contract!Finish, Seen, PlaceOf

LEMMA RejectIs == ASSUME NEW m \in Messages PROVE Contract!Reject(m) <=>
  /\ Seen[m] = "held"
  /\ ~options.asyncDeserializer => m \notin Handled
  /\ Seen' = [Seen EXCEPT ![m] = "rejected"]
  /\ UNCHANGED <<options.noAck, ~options.asyncDeserializer, dispatched>>
  BY DEF Contract!Reject, Seen, PlaceOf

LEMMA GiveBackIs == Contract!GiveBack <=>
  /\ Seen' = [m \in Messages |-> IF Seen[m] = "held" THEN "waiting" ELSE Seen[m]]
  /\ UNCHANGED <<options.noAck, ~options.asyncDeserializer, dispatched>>
  BY DEF Contract!GiveBack, Seen, PlaceOf

LEMMA PurgeIs == Contract!Purge <=>
  /\ Seen' = [m \in Messages |-> IF Seen[m] = "waiting" THEN "lost" ELSE Seen[m]]
  /\ UNCHANGED <<options.noAck, ~options.asyncDeserializer, dispatched>>
  BY DEF Contract!Purge, Seen, PlaceOf

LEMMA StutterIs == UNCHANGED Contract!vars <=>
  UNCHANGED <<options.noAck, ~options.asyncDeserializer, Seen, dispatched>>
  BY DEF Contract!vars, Seen, PlaceOf

LEMMA PlaceOfIs ==
  /\ PlaceOf("unsent") = "outside" /\ PlaceOf("ready") = "waiting"
  /\ PlaceOf("unacked") = "held" /\ PlaceOf("consumed") = "done"
  /\ PlaceOf("discarded") = "rejected"
  /\ PlaceOf("unroutable") = "lost" /\ PlaceOf("purged") = "lost"
  BY DEF PlaceOf

LEMMA SeenIs == TypeOK => \A m \in Messages :
  /\ Seen[m] = PlaceOf(message[m])
  /\ Seen[m] = "held" <=> message[m] = "unacked"
  /\ Seen[m] = "waiting" <=> message[m] = "ready"
<1> SUFFICES ASSUME TypeOK, NEW m \in Messages
             PROVE  /\ Seen[m] = PlaceOf(message[m])
                    /\ Seen[m] = "held" <=> message[m] = "unacked"
                    /\ Seen[m] = "waiting" <=> message[m] = "ready"
  OBVIOUS
<1>1. Seen[m] = PlaceOf(message[m])
  BY DEF Seen
<1>2. message[m] \in Places
  BY DEF TypeOK
<1> QED
  BY <1>1, <1>2, PlaceOfIs DEF Places

\* One message that moves is one entry of what the contract sees.
LEMMA SeenMoves ==
  ASSUME NEW m \in Messages, NEW p, TypeOK, message' = [message EXCEPT ![m] = p]
  PROVE  Seen' = [Seen EXCEPT ![m] = PlaceOf(p)]
  BY DEF Seen, TypeOK

\* A channel that goes away with the messages it holds is a GiveBack.
LEMMA SeenGivesBack ==
  ASSUME TypeOK, message' = Requeued
  PROVE  Seen' = [m \in Messages |-> IF Seen[m] = "held" THEN "waiting" ELSE Seen[m]]
<1>1. \A m \in Messages : PlaceOf(message'[m]) = IF Seen[m] = "held" THEN "waiting" ELSE Seen[m]
  BY SeenIs, PlaceOfIs DEF Requeued
<1> QED
  BY <1>1 DEF Seen

LEMMA Simulation == IInv /\ TakenByTask /\ [Next]_vars => [Contract!Next]_(Contract!vars)
<1> SUFFICES ASSUME IInv, TakenByTask, [Next]_vars
             PROVE  Contract!Next \/ UNCHANGED Contract!vars
  OBVIOUS
<1> USE DEF manager, setting, broker, work
<1>a. TypeOK
  BY DEF IInv
<1>b. ASSUME UNCHANGED <<options, message, dispatched>> PROVE UNCHANGED Contract!vars
  BY <1>b, StutterIs DEF Seen
<1>1. ASSUME NEW t \in tasks, Dispatch(t) PROVE Contract!Next
<2>1. t.msg \in Messages /\ t.msg \in Handled /\ t.pc = "deserializing"
  BY <1>a, <1>1 DEF Dispatch, TypeOK, Tasks
<2>2. UNCHANGED <<options, Seen>>
  BY <1>1 DEF Dispatch, Seen
<2>3. options.noAck => Seen[t.msg] = "done" /\ dispatched[t.msg] = 0
  BY <1>a, <2>1, SeenIs, PlaceOfIs DEF TakenByTask, IInv, OneDelivery
<2>4. Contract!Start(t.msg)
  BY <1>1, <2>1, <2>2, <2>3, StartIs DEF Dispatch
<2> QED
  BY <2>1, <2>4 DEF Contract!Next
<1>2. ASSUME NEW t \in tasks, Refuse(t) PROVE UNCHANGED Contract!vars
  BY <1>2, <1>b DEF Refuse
<1>3. ASSUME NEW t \in tasks, HandlerAcks(t) PROVE UNCHANGED Contract!vars
  BY <1>3, <1>b DEF HandlerAcks
<1>4. ASSUME NEW t \in tasks, HandlerEnds(t) PROVE UNCHANGED Contract!vars
  BY <1>4, <1>b DEF HandlerEnds
<1>5. CASE Listen
  BY <1>5, <1>b DEF Listen
<1>6. CASE Connect
  BY <1>6, <1>b DEF Connect
<1>7. CASE ConnectFailed
  BY <1>7, <1>b DEF ConnectFailed
<1>8. CASE Disconnect \/ Close
<2>1. message' = Requeued /\ UNCHANGED <<options, dispatched>>
  BY <1>8 DEF Disconnect, Close, DropChannel
<2> QED
  BY <1>a, <2>1, SeenGivesBack, GiveBackIs DEF Contract!Next
<1>10. ASSUME NEW m \in Messages, Publish(m) PROVE Contract!Next
<2>1. PICK p \in {"ready", "unroutable"} : message' = [message EXCEPT ![m] = p]
  BY <1>10 DEF Publish
<2>2. Seen[m] = "outside" /\ UNCHANGED <<options, dispatched>>
  BY <1>a, <1>10, SeenIs, PlaceOfIs DEF Publish
<2>3. PlaceOf(p) \in {"waiting", "lost"} /\ Seen' = [Seen EXCEPT ![m] = PlaceOf(p)]
  BY <1>a, <2>1, SeenMoves, PlaceOfIs
<2>4. Contract!Enter(m)
  BY <2>2, <2>3, EnterIs
<2> QED
  BY <2>4 DEF Contract!Next
<1>11. ASSUME NEW m \in Messages, Deliver(m) PROVE Contract!Next
<2>1. message' = [message EXCEPT ![m] = IF options.noAck THEN "consumed" ELSE "unacked"]
  BY <1>11 DEF Deliver, NoAck
<2>2. Seen[m] = "waiting" /\ UNCHANGED <<options, dispatched>>
  BY <1>a, <1>11, SeenIs DEF Deliver
<2>3. Seen' = [Seen EXCEPT ![m] = IF options.noAck THEN "done" ELSE "held"]
  <3>1. CASE options.noAck
    <4>1. message' = [message EXCEPT ![m] = "consumed"]
      BY <2>1, <3>1
    <4> QED
      BY <1>a, <3>1, <4>1, SeenMoves, PlaceOfIs
  <3>2. CASE ~options.noAck
    <4>1. message' = [message EXCEPT ![m] = "unacked"]
      BY <2>1, <3>2
    <4> QED
      BY <1>a, <3>2, <4>1, SeenMoves, PlaceOfIs
  <3> QED
    BY <3>1, <3>2
<2>4. Contract!Take(m)
  BY <2>2, <2>3, TakeIs
<2> QED
  BY <2>4 DEF Contract!Next
<1>12. ASSUME NEW m \in Messages, Flush(m) PROVE UNCHANGED Contract!vars
  BY <1>12, <1>b DEF Flush
<1>13. ASSUME NEW f \in inFlight, BrokerRefuses(f) PROVE Contract!Next
<2>1. message' = Requeued /\ UNCHANGED <<options, dispatched>>
  BY <1>13 DEF BrokerRefuses
<2> QED
  BY <1>a, <2>1, SeenGivesBack, GiveBackIs DEF Contract!Next
<1>14. ASSUME NEW f \in inFlight, NEW m \in Messages, BrokerSettles(f, m) PROVE Contract!Next
<2>1. message[m] = "unacked" /\ delivery[m] = [ch |-> f.ch, tag |-> f.tag]
  BY <1>14 DEF BrokerSettles
<2>2. Seen[m] = "held" /\ UNCHANGED <<options, dispatched>>
  BY <1>a, <1>14, <2>1, SeenIs DEF BrokerSettles
<2>3. delivery[m].ch # 0
  BY <2>1 DEF IInv, CurrentChannel, NoChannel
<2>4. \A n \in Messages : delivery[n] = [ch |-> f.ch, tag |-> f.tag] => n = m
  BY <2>1, <2>3 DEF IInv, UniqueTags
<2>5. Justified(f) /\ f.kind \in {"ack", "nack"}
  BY <1>a DEF IInv, FramesJustified, TypeOK, Frames
<2>6. CASE f.kind = "ack"
  <3>1. message' = [message EXCEPT ![m] = "consumed"]
    BY <1>14, <2>6 DEF BrokerSettles
  <3>2. Seen' = [Seen EXCEPT ![m] = "done"]
    BY <1>a, <3>1, SeenMoves, PlaceOfIs
  <3>3. dispatched[m] > 0
    BY <2>4, <2>5, <2>6 DEF Justified
  <3>4. Contract!Finish(m)
    BY <2>2, <3>2, <3>3, FinishIs
  <3> QED
    BY <3>4 DEF Contract!Next
<2>7. CASE f.kind = "nack"
  <3>1. message' = [message EXCEPT ![m] = "discarded"]
    BY <1>14, <2>7 DEF BrokerSettles
  <3>2. Seen' = [Seen EXCEPT ![m] = "rejected"]
    BY <1>a, <3>1, SeenMoves, PlaceOfIs
  <3>3. ~options.asyncDeserializer => m \notin Handled
    BY <2>4, <2>5, <2>7 DEF Justified
  <3>4. Contract!Reject(m)
    BY <2>2, <3>2, <3>3, RejectIs
  <3> QED
    BY <3>4 DEF Contract!Next
<2> QED
  BY <2>5, <2>6, <2>7
<1>15. CASE SetupAssert
  BY <1>15, <1>b DEF SetupAssert
<1>16. CASE SetupConsume
  BY <1>16, <1>b DEF SetupConsume
<1>17. CASE DeleteChannelFails
  BY <1>17, <1>b DEF DeleteChannelFails
<1>18. ASSUME NEW failed \in BOOLEAN, SetupFails(failed) PROVE UNCHANGED Contract!vars
  BY <1>18, <1>b DEF SetupFails
<1>19. ASSUME NEW failed \in BOOLEAN, DeleteChannel(failed) PROVE Contract!Next
<2>1. \A m \in Messages : message'[m] = IF message[m] = "ready" THEN "purged" ELSE message[m]
  BY <1>19 DEF DeleteChannel
<2>2. \A m \in Messages :
        PlaceOf(message'[m]) = IF Seen[m] = "waiting" THEN "lost" ELSE Seen[m]
  BY <1>a, <2>1, SeenIs, PlaceOfIs
<2>3. Seen' = [m \in Messages |-> IF Seen[m] = "waiting" THEN "lost" ELSE Seen[m]]
  BY <2>2 DEF Seen
<2>4. UNCHANGED <<options, dispatched>>
  BY <1>19 DEF DeleteChannel
<2> QED
  BY <2>3, <2>4, PurgeIs DEF Contract!Next
<1>20. CASE UNCHANGED vars
  BY <1>20, <1>b DEF vars
<1> QED
  BY <1>1, <1>2, <1>3, <1>4, <1>5, <1>6, <1>7, <1>8, <1>10,
     <1>11, <1>12, <1>13, <1>14, <1>15, <1>16, <1>17, <1>18, <1>19, <1>20
  DEF Next, Environment, SetUpStep

LEMMA ContractInit == Init => Contract!Init
<1> SUFFICES ASSUME Init PROVE Contract!Init
  OBVIOUS
<1>1. options \in OptionRecords
  BY ServerAssumption DEF Init
<1>2. options.noAck \in BOOLEAN /\ (~options.asyncDeserializer) \in BOOLEAN
  BY <1>1 DEF OptionRecords
<1>3. Seen = [m \in Messages |-> "outside"]
  BY PlaceOfIs DEF Init, Seen
<1>4. dispatched = [m \in Messages |-> 0]
  BY DEF Init
<1> QED
  BY <1>2, <1>3, <1>4 DEF Contract!Init, Seen, PlaceOf

\* Whatever the connection, the set-up, the handlers and the broker do, every step of
\* the server is a step of the delivery contract or leaves what it promises alone.
THEOREM ImplementsDeliveryCorrect == Spec => ImplementsDelivery
<1>1. Init => TakenByTask
  BY DEF Init, TakenByTask
<1>2. Spec => []TakenByTask
  BY <1>1, TakenNext, Invariance, PTL DEF Spec
<1> QED
  BY ContractInit, Simulation, Invariance, <1>2, PTL DEF Spec, ImplementsDelivery, Contract!Spec
=============================================================================
