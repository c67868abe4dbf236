------------------------------ MODULE AmqpRouting ------------------------------
(***************************************************************************)
(* Which handler AmqpServer gives a message to: matchAmqpPattern and       *)
(* getHandlerByPattern (amqp-server.ts), against the topic matching of an  *)
(* AMQP broker, which is what binds the queue to those same patterns.      *)
(*                                                                         *)
(* Patterns and topics are sequences of segments, as split('.') returns    *)
(* them; a segment is a string and "" an empty one.  The code looks at the *)
(* first character of a pattern segment: SingleLevel and MultiLevel are    *)
(* the segments that start with '*' and '#'.                               *)
(***************************************************************************)
EXTENDS Naturals, Sequences

CONSTANTS
  Segments,     \* the segments patterns and topics are made of
  SingleLevel,  \* those that start with '*'
  MultiLevel,   \* those that start with '#'
  Tables,       \* handler tables: sequences of patterns in insertion order
  Routes        \* the routes looked up

ASSUME RoutingAssumption ==
  /\ "" \in Segments
  /\ SingleLevel \subseteq Segments \ {""} /\ MultiLevel \subseteq Segments \ {""}
  /\ SingleLevel \cap MultiLevel = {}
  /\ {"*"} \cap Segments \subseteq SingleLevel /\ {"#"} \cap Segments \subseteq MultiLevel
  /\ Tables \subseteq Seq(Seq(Segments) \ {<<>>})
  /\ Routes \subseteq Seq(Segments) \ {<<>>}

VARIABLES
  handlers,  \* messageHandlers: the registered patterns
  route,     \* the route being looked up
  found,     \* whether getHandlerByPattern has returned
  handler    \* the pattern whose handler it returned, or NoHandler

vars == <<handlers, route, found, handler>>

NoHandler == <<>>

\* topicSegments[i], undefined past the end and falsy like "" there.
SegmentAt(topic, i) == IF i \in DOMAIN topic THEN topic[i] ELSE ""

\* Faulty variants: '#' needs a word to match, or accepts whatever follows it.
HashNeedsWord(p) == FALSE
HashEndsAnywhere(pattern, i) == TRUE

\* What '#' matches: also nothing, and only as the last segment.
MayBeMissing(p) == p \in MultiLevel
HashMatches(pattern, i) == i = Len(pattern)

\* One iteration of the loop: it goes on, or returns.
Verdict(pattern, topic, i) ==
  LET p == pattern[i]
      t == SegmentAt(topic, i)
  IN  CASE t = "" /\ p = ""                       -> "continue"
        [] t = "" /\ p # "" /\ ~MayBeMissing(p) -> "false"
        [] p \in MultiLevel                        -> IF HashMatches(pattern, i) THEN "true" ELSE "false"
        [] t # "" /\ p \notin SingleLevel \cup MultiLevel /\ p # t -> "false"
        [] OTHER                                   -> "continue"

\* The loop returns at the first segment with a verdict, or compares lengths.
MatchAmqpPattern(pattern, topic) ==
  LET decided == {i \in 1..Len(pattern) : Verdict(pattern, topic, i) # "continue"}
  IN  /\ topic # <<"">>
      /\ IF decided = {} THEN Len(pattern) = Len(topic)
         ELSE \E i \in decided :
                /\ \A j \in decided : i <= j
                /\ Verdict(pattern, topic, i) = "true"

HasWildcard(pattern) == \E i \in DOMAIN pattern : pattern[i] \in SingleLevel \cup MultiLevel

\* An exact entry first, then the first wildcard pattern that matches, in the order
\* of registration.
GetHandlerByPattern(keys, topic) ==
  LET matching == {k \in DOMAIN keys : HasWildcard(keys[k]) /\ MatchAmqpPattern(keys[k], topic)}
  IN  IF \E k \in DOMAIN keys : keys[k] = topic THEN topic
      ELSE IF matching = {} THEN NoHandler
      ELSE keys[CHOOSE k \in matching : \A l \in matching : k <= l]

Init ==
  /\ handlers \in Tables /\ route \in Routes
  /\ found = FALSE /\ handler = NoHandler

LookUp ==
  /\ ~found
  /\ found' = TRUE
  /\ handler' = GetHandlerByPattern(handlers, route)
  /\ UNCHANGED <<handlers, route>>

Spec == Init /\ [][LookUp]_vars

-----------------------------------------------------------------------------
(* The broker's definition: '*' is one word, '#' any number of words. *)

\* The topic can be cut into one piece for each segment of the pattern.
BrokerMatches(pattern, topic) ==
  \E cut \in [1..Len(pattern) + 1 -> 1..Len(topic) + 1] :
    /\ cut[1] = 1 /\ cut[Len(pattern) + 1] = Len(topic) + 1
    /\ \A i \in DOMAIN pattern :
         IF pattern[i] = "#" THEN cut[i] <= cut[i + 1]
         ELSE cut[i + 1] = cut[i] + 1 /\ pattern[i] \in {"*", topic[cut[i]]}

\* Wildcards are whole segments, as AMQP has them, and no word is empty: the loop
\* skips an empty word past the end of the topic, so "*..#" matches "a".
WellFormed(pattern) ==
  \A i \in DOMAIN pattern :
    /\ pattern[i] # ""
    /\ pattern[i] \in SingleLevel \cup MultiLevel => pattern[i] \in {"*", "#"}

HashIsLast(pattern) == \A i \in DOMAIN pattern : pattern[i] = "#" => i = Len(pattern)

-----------------------------------------------------------------------------
(* Properties. *)

\* A message is never given to a handler whose well-formed pattern the broker would
\* not match, so two queues bound to disjoint patterns share no message.
RoutedAsBound ==
  found /\ handler # NoHandler /\ WellFormed(handler) => BrokerMatches(handler, route)

\* A message is refused only if the broker matches none of the patterns either, as
\* long as '#' is used last only and the route has no empty word.
RefusedAsUnbound ==
  (found /\ handler = NoHandler /\ \A i \in DOMAIN route : route[i] # "") =>
    \A k \in DOMAIN handlers :
      WellFormed(handlers[k]) /\ HashIsLast(handlers[k]) => ~BrokerMatches(handlers[k], route)
=============================================================================
