-------------------------- MODULE AmqpRoutingProofs --------------------------
(***************************************************************************)
(* Theorems about AmqpRouting, for any segments and for tables, patterns   *)
(* and routes of any length: what getHandlerByPattern returns agrees with  *)
(* the broker's matching, wherever the patterns are well formed.           *)
(***************************************************************************)
EXTENDS AmqpRouting, SequenceTheorems, WellFoundedInduction, TLAPS

-----------------------------------------------------------------------------
(* The loop of matchAmqpPattern ends at the first segment with a verdict,   *)
(* and the search at the first pattern that matches.                        *)

LEMMA Least == ASSUME NEW T \in SUBSET Nat, T # {} PROVE \E n \in T : \A m \in T : n <= m
<1>1. IsWellFoundedOn(OpToRel(<, Nat), Nat)
  BY NatLessThanWellFounded
<1>2. \E x \in T : \A y \in T : ~ (<<y, x>> \in OpToRel(<, Nat))
  BY <1>1, WFMin, Zenon
<1>3. PICK x \in T : \A y \in T : ~ (<<y, x>> \in OpToRel(<, Nat))
  BY <1>2
<1>4. \A y \in T : ~ (y < x)
  BY <1>3 DEF OpToRel
<1> QED
  BY <1>4

Patterns == Seq(Segments) \ {<<>>}

LEMMA Lengths ==
  ASSUME NEW p \in Patterns
  PROVE  /\ Len(p) \in Nat /\ Len(p) >= 1 /\ DOMAIN p = 1..Len(p)
         /\ \A i \in DOMAIN p : p[i] \in Segments
<1>1. p \in Seq(Segments) /\ p # <<>>
  BY DEF Patterns
<1>2. Len(p) # 0
  BY <1>1, EmptySeq
<1> QED
  BY <1>1, <1>2

LEMMA WildcardSegments ==
  ASSUME NEW pattern \in Patterns, WellFormed(pattern), NEW i \in DOMAIN pattern
  PROVE  /\ pattern[i] # ""
         /\ pattern[i] \in SingleLevel <=> pattern[i] = "*"
         /\ pattern[i] \in MultiLevel <=> pattern[i] = "#"
<1>1. pattern[i] \in Segments
  BY Lengths
<1>2. pattern[i] # "" /\ (pattern[i] \in SingleLevel \cup MultiLevel => pattern[i] \in {"*", "#"})
  BY DEF WellFormed
<1> QED
  BY <1>1, <1>2, RoutingAssumption

\* The loop goes on exactly past a segment that the word at its place matches, and
\* returns true exactly at a last '#'.
LEMMA Continues ==
  ASSUME NEW pattern \in Patterns, WellFormed(pattern), NEW topic \in Patterns,
         NEW i \in DOMAIN pattern
  PROVE  Verdict(pattern, topic, i) = "continue" <=>
           /\ i \in DOMAIN topic /\ topic[i] # ""
           /\ pattern[i] # "#" /\ pattern[i] \in {"*", topic[i]}
<1> DEFINE p == pattern[i]
           t == SegmentAt(topic, i)
<1>1. /\ p # "" /\ (p \in SingleLevel <=> p = "*") /\ (p \in MultiLevel <=> p = "#")
  BY WildcardSegments
<1>2. t # "" <=> i \in DOMAIN topic /\ topic[i] # ""
  BY DEF SegmentAt
<1>3. t # "" => t = topic[i]
  BY DEF SegmentAt
<1>4. Verdict(pattern, topic, i) = "continue" <=>
        t # "" /\ p # "#" /\ (p = "*" \/ p = t)
  BY <1>1 DEF Verdict, MayBeMissing
<1> QED
  BY <1>2, <1>3, <1>4

LEMMA Accepts ==
  ASSUME NEW pattern \in Patterns, WellFormed(pattern), NEW topic \in Patterns,
         NEW i \in DOMAIN pattern
  PROVE  Verdict(pattern, topic, i) = "true" <=> pattern[i] = "#" /\ i = Len(pattern)
<1> DEFINE p == pattern[i]
           t == SegmentAt(topic, i)
<1>1. /\ p # "" /\ (p \in SingleLevel <=> p = "*") /\ (p \in MultiLevel <=> p = "#")
  BY WildcardSegments
<1> QED
  BY <1>1 DEF Verdict, MayBeMissing, HashMatches

-----------------------------------------------------------------------------
(* What the loop accepts, the broker matches. *)

\* Each word to its own segment.
LEMMA WordByWord ==
  ASSUME NEW pattern \in Patterns, NEW topic \in Patterns,
         Len(pattern) = Len(topic),
         \A i \in DOMAIN pattern : pattern[i] \in {"*", "#", topic[i]}
  PROVE  BrokerMatches(pattern, topic)
<1> DEFINE cut == [i \in 1..Len(pattern) + 1 |-> i]
<1>1. Len(pattern) \in Nat /\ DOMAIN pattern = 1..Len(pattern)
  BY DEF Patterns
<1>2. cut \in [1..Len(pattern) + 1 -> 1..Len(topic) + 1]
  OBVIOUS
<1>3. cut[1] = 1 /\ cut[Len(pattern) + 1] = Len(topic) + 1
  BY <1>1
<1>4. ASSUME NEW i \in DOMAIN pattern
      PROVE  IF pattern[i] = "#" THEN cut[i] <= cut[i + 1]
             ELSE cut[i + 1] = cut[i] + 1 /\ pattern[i] \in {"*", topic[cut[i]]}
<2>1. i \in 1..Len(pattern) + 1 /\ i + 1 \in 1..Len(pattern) + 1
  BY <1>1
<2>2. cut[i] = i /\ cut[i + 1] = i + 1
  BY <2>1
<2> QED
  BY <1>1, <2>2
<1> QED
  BY <1>2, <1>3, <1>4 DEF BrokerMatches

\* The last '#' takes what the segments before it leave.
LEMMA HashTakesTheRest ==
  ASSUME NEW pattern \in Patterns, NEW topic \in Patterns,
         pattern[Len(pattern)] = "#",
         \A j \in DOMAIN pattern : j < Len(pattern) =>
           j \in DOMAIN topic /\ pattern[j] # "#" /\ pattern[j] \in {"*", topic[j]}
  PROVE  BrokerMatches(pattern, topic)
<1> DEFINE n == Len(pattern)
           cut == [i \in 1..n + 1 |-> IF i = n + 1 THEN Len(topic) + 1 ELSE i]
<1>1. /\ n \in Nat /\ n >= 1 /\ DOMAIN pattern = 1..n
      /\ Len(topic) \in Nat /\ Len(topic) >= 1 /\ DOMAIN topic = 1..Len(topic)
  BY Lengths
<1>2. \A j \in 1..n : j <= Len(topic) + 1
<2> SUFFICES ASSUME NEW j \in 1..n, j > Len(topic) + 1 PROVE FALSE
  BY <1>1
<2>1. Len(topic) + 1 \in DOMAIN pattern /\ Len(topic) + 1 < n
  BY <1>1
<2> QED
  BY <1>1, <2>1
<1>3. cut \in [1..n + 1 -> 1..Len(topic) + 1]
  BY <1>1, <1>2
<1>4. cut[1] = 1 /\ cut[n + 1] = Len(topic) + 1
  BY <1>1
<1>5. ASSUME NEW i \in DOMAIN pattern
      PROVE  IF pattern[i] = "#" THEN cut[i] <= cut[i + 1]
             ELSE cut[i + 1] = cut[i] + 1 /\ pattern[i] \in {"*", topic[cut[i]]}
<2>1. i \in 1..n + 1 /\ i + 1 \in 1..n + 1 /\ cut[i] = i
  BY <1>1
<2>2. CASE i < n
  BY <1>1, <2>1, <2>2
<2>3. CASE i = n
  BY <1>1, <1>2, <2>1, <2>3
<2> QED
  BY <1>1, <2>2, <2>3
<1> QED
  BY <1>3, <1>4, <1>5 DEF BrokerMatches

LEMMA AcceptedIsBound ==
  ASSUME NEW pattern \in Patterns, WellFormed(pattern), NEW topic \in Patterns,
         MatchAmqpPattern(pattern, topic)
  PROVE  BrokerMatches(pattern, topic)
<1> DEFINE decided == {i \in 1..Len(pattern) : Verdict(pattern, topic, i) # "continue"}
<1>1. DOMAIN pattern = 1..Len(pattern)
  BY DEF Patterns
<1>2. CASE decided = {}
<2>1. Len(pattern) = Len(topic)
  BY <1>2 DEF MatchAmqpPattern
<2>2. \A i \in DOMAIN pattern : pattern[i] \in {"*", "#", topic[i]}
  BY <1>1, <1>2, Continues
<2> QED
  BY <2>1, <2>2, WordByWord
<1>3. CASE decided # {}
<2>1. PICK i \in decided : /\ \A j \in decided : i <= j
                           /\ Verdict(pattern, topic, i) = "true"
  BY <1>3 DEF MatchAmqpPattern
<2>2. pattern[i] = "#" /\ i = Len(pattern)
  BY <1>1, <2>1, Accepts
<2>3. ASSUME NEW j \in DOMAIN pattern, j < Len(pattern)
      PROVE  j \in DOMAIN topic /\ pattern[j] # "#" /\ pattern[j] \in {"*", topic[j]}
<3>1. Verdict(pattern, topic, j) = "continue"
  BY <1>1, <2>1, <2>2, <2>3
<3> QED
  BY <3>1, Continues
<2> QED
  BY <2>2, <2>3, HashTakesTheRest
<1> QED
  BY <1>2, <1>3

-----------------------------------------------------------------------------
(* What the broker matches, the loop accepts, if '#' is last. *)

\* Before the '#', a cut gives each segment the word at its own place.
LEMMA CutIsInStep ==
  ASSUME NEW pattern \in Patterns, HashIsLast(pattern), NEW topic \in Patterns,
         NEW cut \in [1..Len(pattern) + 1 -> 1..Len(topic) + 1], cut[1] = 1,
         \A i \in DOMAIN pattern :
           IF pattern[i] = "#" THEN cut[i] <= cut[i + 1]
           ELSE cut[i + 1] = cut[i] + 1 /\ pattern[i] \in {"*", topic[cut[i]]}
  PROVE  \A i \in DOMAIN pattern : cut[i] = i
<1> DEFINE T == {i \in DOMAIN pattern : cut[i] # i}
<1>1. Len(pattern) \in Nat /\ DOMAIN pattern = 1..Len(pattern)
  BY DEF Patterns
<1>2. CASE T # {}
<2>1. T \in SUBSET Nat
  BY <1>1
<2>2. PICK n \in T : \A m \in T : n <= m
  BY <1>2, <2>1, Least
<2>3. n # 1 /\ n \in 1..Len(pattern)
  BY <1>1, <2>2
<2>4. PICK m \in 1..Len(pattern) : n = m + 1
<3>1. n - 1 \in 1..Len(pattern) /\ n = (n - 1) + 1
  BY <1>1, <2>3
<3> QED
  BY <3>1
<2>5. m \in DOMAIN pattern /\ cut[m] = m
  BY <1>1, <2>2, <2>4
<2>6. pattern[m] # "#"
  BY <1>1, <2>3, <2>4, <2>5 DEF HashIsLast
<2>7. cut[n] = n
  BY <2>4, <2>5, <2>6
<2> QED
  BY <2>2, <2>7
<1>3. CASE T = {}
  BY <1>3
<1> QED
  BY <1>2, <1>3

NoEmptyWord(topic) == \A i \in DOMAIN topic : topic[i] # ""

LEMMA BoundIsAccepted ==
  ASSUME NEW pattern \in Patterns, WellFormed(pattern), HashIsLast(pattern),
         NEW topic \in Patterns, NoEmptyWord(topic), BrokerMatches(pattern, topic)
  PROVE  /\ MatchAmqpPattern(pattern, topic)
         /\ ~HasWildcard(pattern) => pattern = topic
<1> DEFINE n == Len(pattern)
           decided == {i \in 1..n : Verdict(pattern, topic, i) # "continue"}
<1>1. /\ n \in Nat /\ n >= 1 /\ DOMAIN pattern = 1..n
      /\ Len(topic) \in Nat /\ Len(topic) >= 1 /\ DOMAIN topic = 1..Len(topic)
  BY Lengths
<1>2. PICK cut \in [1..n + 1 -> 1..Len(topic) + 1] :
        /\ cut[1] = 1 /\ cut[n + 1] = Len(topic) + 1
        /\ \A i \in DOMAIN pattern :
             IF pattern[i] = "#" THEN cut[i] <= cut[i + 1]
             ELSE cut[i + 1] = cut[i] + 1 /\ pattern[i] \in {"*", topic[cut[i]]}
  BY DEF BrokerMatches
<1>3. \A i \in DOMAIN pattern : cut[i] = i
  BY <1>2, CutIsInStep
<1>4. ASSUME NEW i \in DOMAIN pattern, pattern[i] # "#"
      PROVE  i \in DOMAIN topic /\ pattern[i] \in {"*", topic[i]} /\ cut[i + 1] = i + 1
<2>1. cut[i + 1] = i + 1 /\ pattern[i] \in {"*", topic[i]}
  BY <1>2, <1>3, <1>4
<2>2. cut[i + 1] \in 1..Len(topic) + 1
  BY <1>1, <1>2
<2> QED
  BY <1>1, <2>1, <2>2
<1>5. \A i \in DOMAIN pattern : pattern[i] # "#" => Verdict(pattern, topic, i) = "continue"
  BY <1>4, Continues DEF NoEmptyWord
<1>6. topic # <<"">>
<2>1. 1 \in DOMAIN topic
  BY <1>1
<2>2. topic[1] # ""
  BY <2>1 DEF NoEmptyWord
<2>3. <<"">>[1] = ""
  OBVIOUS
<2> QED
  BY <2>2, <2>3
<1>7. CASE pattern[n] = "#"
<2>1. n \in decided /\ Verdict(pattern, topic, n) = "true"
  BY <1>1, <1>7, Accepts
<2>2. \A j \in decided : n <= j
  BY <1>1, <1>5, <1>7 DEF HashIsLast
<2>3. MatchAmqpPattern(pattern, topic)
  BY <1>6, <2>1, <2>2 DEF MatchAmqpPattern
<2>4. HasWildcard(pattern)
<3>1. n \in DOMAIN pattern
  BY <1>1
<3>2. pattern[n] \in MultiLevel
  BY <1>7, <3>1, WildcardSegments
<3> QED
  BY <3>1, <3>2 DEF HasWildcard
<2> QED
  BY <2>3, <2>4
<1>8. CASE pattern[n] # "#"
<2>1. \A i \in DOMAIN pattern : pattern[i] # "#"
  BY <1>1, <1>8 DEF HashIsLast
<2>2. decided = {}
  BY <1>1, <1>5, <2>1
<2>3. Len(pattern) = Len(topic)
<3>1. cut[n + 1] = n + 1
  BY <1>1, <1>4, <1>8
<3>2. cut[n + 1] = Len(topic) + 1
  BY <1>2
<3>3. n + 1 = Len(topic) + 1
  BY <3>1, <3>2
<3>4. n \in Nat /\ Len(topic) \in Nat
  BY <1>1
<3> HIDE DEF n
<3>5. n = Len(topic)
  BY <3>3, <3>4
<3> QED
  BY <3>5 DEF n
<2>4. MatchAmqpPattern(pattern, topic)
  BY <1>6, <2>2, <2>3 DEF MatchAmqpPattern
<2>5. ASSUME ~HasWildcard(pattern) PROVE pattern = topic
<3>1. ASSUME NEW i \in DOMAIN pattern PROVE pattern[i] = topic[i]
<4>1. pattern[i] # "*"
  BY <2>5, WildcardSegments DEF HasWildcard
<4> QED
  BY <1>4, <2>1, <4>1
<3> QED
  BY <1>1, <2>3, <3>1, SeqEqual DEF Patterns
<2> QED
  BY <2>4, <2>5
<1> QED
  BY <1>7, <1>8

-----------------------------------------------------------------------------
(* The search. *)

LEMMA Handler ==
  ASSUME NEW keys \in Seq(Patterns), NEW topic \in Patterns
  PROVE  LET h == GetHandlerByPattern(keys, topic)
         IN  /\ h # NoHandler =>
                  h = topic \/ (h \in Patterns /\ MatchAmqpPattern(h, topic))
             /\ h = NoHandler =>
                  \A k \in DOMAIN keys :
                    keys[k] # topic /\ ~(HasWildcard(keys[k]) /\ MatchAmqpPattern(keys[k], topic))
<1> DEFINE h == GetHandlerByPattern(keys, topic)
           matching == {k \in DOMAIN keys :
                          HasWildcard(keys[k]) /\ MatchAmqpPattern(keys[k], topic)}
           first == CHOOSE k \in matching : \A l \in matching : k <= l
<1>1. topic # NoHandler /\ (\A k \in DOMAIN keys : keys[k] \in Patterns) /\ NoHandler \notin Patterns
  BY DEF NoHandler, Patterns
<1>2. CASE \E k \in DOMAIN keys : keys[k] = topic
<2>1. h = topic
  BY <1>2 DEF GetHandlerByPattern
<2> QED
  BY <1>1, <2>1
<1>3. CASE ~(\E k \in DOMAIN keys : keys[k] = topic) /\ matching = {}
  BY <1>3 DEF GetHandlerByPattern
<1>4. CASE ~(\E k \in DOMAIN keys : keys[k] = topic) /\ matching # {}
<2>1. h = keys[first]
  BY <1>4 DEF GetHandlerByPattern
<2>2. \E k \in matching : \A l \in matching : k <= l
<3>1. matching \in SUBSET Nat
  OBVIOUS
<3> QED
  BY <1>4, <3>1, Least
<2>3. first \in matching
  BY <2>2
<2> QED
  BY <1>1, <2>1, <2>3
<1> QED
  BY <1>2, <1>3, <1>4

-----------------------------------------------------------------------------
(* The specification. *)

LookedUp ==
  /\ handlers \in Tables /\ route \in Routes
  /\ found => handler = GetHandlerByPattern(handlers, route)

LEMMA LookedUpAlways == Spec => []LookedUp
<1>1. Init => LookedUp
  BY DEF Init, LookedUp
<1>2. LookedUp /\ [LookUp]_vars => LookedUp'
<2> SUFFICES ASSUME LookedUp, [LookUp]_vars PROVE LookedUp'
  OBVIOUS
<2>1. CASE LookUp
  BY <2>1 DEF LookUp, LookedUp
<2>2. CASE UNCHANGED vars
  BY <2>2 DEF vars, LookedUp
<2> QED
  BY <2>1, <2>2
<1> QED
  BY <1>1, <1>2, PTL DEF Spec

LEMMA Known == ASSUME LookedUp PROVE handlers \in Seq(Patterns) /\ route \in Patterns
  BY RoutingAssumption DEF LookedUp, Patterns

\* A message is never given to the handler of a pattern the broker would not match:
\* whatever getHandlerByPattern returns, exactly or by a wildcard, is bound to it.
THEOREM RoutedAsBoundCorrect == Spec => []RoutedAsBound
<1>1. LookedUp => RoutedAsBound
<2> SUFFICES ASSUME LookedUp, found, handler # NoHandler, WellFormed(handler)
             PROVE  BrokerMatches(handler, route)
  BY DEF RoutedAsBound
<2>1. handlers \in Seq(Patterns) /\ route \in Patterns
  BY Known
<2>2. handler = GetHandlerByPattern(handlers, route)
  BY DEF LookedUp
<2>3. CASE handler = route
<3>1. \A i \in DOMAIN handler : handler[i] \in {"*", "#", route[i]}
  BY <2>3
<3> QED
  BY <2>1, <2>3, <3>1, WordByWord
<2>4. CASE handler \in Patterns /\ MatchAmqpPattern(handler, route)
  BY <2>1, <2>4, AcceptedIsBound
<2> QED
  BY <2>1, <2>2, <2>3, <2>4, Handler
<1> QED
  BY <1>1, LookedUpAlways, PTL

\* A message is refused only if the broker matches none of the registered patterns, as
\* long as '#' is their last segment and the route has no empty word.
THEOREM RefusedAsUnboundCorrect == Spec => []RefusedAsUnbound
<1>1. LookedUp => RefusedAsUnbound
<2> SUFFICES ASSUME LookedUp, found, handler = NoHandler, NoEmptyWord(route),
                    NEW k \in DOMAIN handlers,
                    WellFormed(handlers[k]), HashIsLast(handlers[k]),
                    BrokerMatches(handlers[k], route)
             PROVE  FALSE
  BY DEF RefusedAsUnbound, NoEmptyWord
<2>1. handlers \in Seq(Patterns) /\ route \in Patterns
  BY Known
<2>2. handlers[k] \in Patterns
  BY <2>1
<2>3. NoHandler = GetHandlerByPattern(handlers, route)
  BY DEF LookedUp
<2>4. /\ handlers[k] # route
      /\ ~(HasWildcard(handlers[k]) /\ MatchAmqpPattern(handlers[k], route))
  BY <2>1, <2>3, Handler
<2>5. /\ MatchAmqpPattern(handlers[k], route)
      /\ ~HasWildcard(handlers[k]) => handlers[k] = route
  BY <2>1, <2>2, BoundIsAccepted
<2> QED
  BY <2>4, <2>5
<1> QED
  BY <1>1, LookedUpAlways, PTL
=============================================================================
