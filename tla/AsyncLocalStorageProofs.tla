------------------------ MODULE AsyncLocalStorageProofs ------------------------
(***************************************************************************)
(* Theorems about AsyncLocalStorage, for any requests, services and keys,  *)
(* every configuration and any number of maps and of nested calls.         *)
(***************************************************************************)
EXTENDS AsyncLocalStorage, SequenceTheorems, TLAPS

-----------------------------------------------------------------------------
(* Flows and their stacks of contexts. *)

LEMMA FlowIs ==
  /\ \A f \in Flows : f[1] \in Requests /\ f[2] \in {"main", "background"} /\ f = <<f[1], f[2]>>
  /\ \A r \in Requests : Main(r) \in Flows /\ <<r, "background">> \in Flows
  /\ \A r \in Requests : Main(r)[1] = r /\ Main(r)[2] = "main"
  /\ \A f \in Flows : f[2] = "main" => f = Main(f[1])
  /\ \A f \in Flows : f[2] = "background" => f = <<f[1], "background">>
  BY DEF Flows, Main

LEMMA ContextIs ==
  ASSUME TypeOK, NEW f \in Flows, Live(f)
  PROVE  /\ stack[f] \in Seq(Contexts) /\ Len(stack[f]) \in Nat \ {0}
         /\ DOMAIN stack[f] = 1..Len(stack[f]) /\ Len(stack[f]) \in DOMAIN stack[f]
         /\ Context(f) \in Contexts
         /\ \A s \in Services : Exists(s) => used[s] \in Services /\ StoreOf(f, s) \in Maps \cup {None}
<1>1. stack[f] \in Seq(Contexts) /\ stack[f] # <<>>
  BY DEF TypeOK, Live
<1>2. Len(stack[f]) \in Nat \ {0} /\ DOMAIN stack[f] = 1..Len(stack[f])
  BY <1>1, EmptySeq
<1>3. Context(f) \in Contexts
  BY <1>1, <1>2 DEF Context
<1>4. \A s \in Services : Exists(s) => used[s] \in Services
  BY DEF TypeOK, Exists
<1> QED
  BY <1>1, <1>2, <1>3, <1>4 DEF StoreOf, Contexts

LEMMA TopIs ==
  ASSUME TypeOK, NEW f \in Flows, Live(f), NEW context \in Contexts
  PROVE  /\ Top(f, context) \in [Flows -> Seq(Contexts)]
         /\ \A g \in Flows : g # f => Top(f, context)[g] = stack[g]
         /\ Len(Top(f, context)[f]) = Len(stack[f])
         /\ DOMAIN Top(f, context)[f] = DOMAIN stack[f]
         /\ \A i \in DOMAIN stack[f] :
              Top(f, context)[f][i] = IF i = Len(stack[f]) THEN context ELSE stack[f][i]
<1> DEFINE old == stack[f]
           new == [old EXCEPT ![Len(old)] = context]
<1>1. old \in Seq(Contexts) /\ Len(old) \in 1..Len(old) /\ DOMAIN old = 1..Len(old)
  BY ContextIs
<1>2. stack \in [Flows -> Seq(Contexts)]
  BY DEF TypeOK
<1>3. Top(f, context) = [stack EXCEPT ![f] = new]
  BY DEF Top
<1>4. /\ new \in Seq(Contexts) /\ Len(new) = Len(old) /\ DOMAIN new = DOMAIN old
      /\ \A i \in 1..Len(old) : new[i] = IF i = Len(old) THEN context ELSE old[i]
<2>1. new \in Seq(Contexts)
  BY <1>1, ExceptSeq
<2>2. Len(new) = Len(old)
  BY <1>1, ExceptSeq
<2>3. \A i \in 1..Len(old) : new[i] = IF i = Len(old) THEN context ELSE old[i]
  BY <1>1
<2>4. DOMAIN new = DOMAIN old
  OBVIOUS
<2> QED
  BY <2>1, <2>2, <2>3, <2>4
<1> HIDE DEF new
<1>5. Top(f, context)[f] = new /\ \A g \in Flows : g # f => Top(f, context)[g] = stack[g]
  BY <1>2, <1>3
<1>6. Top(f, context) \in [Flows -> Seq(Contexts)]
  BY <1>2, <1>3, <1>4
<1> QED
  BY <1>1, <1>4, <1>5, <1>6

LEMMA PushIs ==
  ASSUME TypeOK, NEW f \in Flows, Live(f), NEW context \in Contexts
  PROVE  /\ Push(f, context) \in [Flows -> Seq(Contexts)]
         /\ \A g \in Flows : g # f => Push(f, context)[g] = stack[g]
         /\ Len(Push(f, context)[f]) = Len(stack[f]) + 1
         /\ DOMAIN Push(f, context)[f] = DOMAIN stack[f] \cup {Len(stack[f]) + 1}
         /\ \A i \in DOMAIN stack[f] : Push(f, context)[f][i] = stack[f][i]
         /\ Push(f, context)[f][Len(stack[f]) + 1] = context
<1> DEFINE old == stack[f]
           new == Append(old, context)
<1>1. old \in Seq(Contexts) /\ Len(old) \in Nat /\ DOMAIN old = 1..Len(old)
  BY ContextIs
<1>2. stack \in [Flows -> Seq(Contexts)]
  BY DEF TypeOK
<1>3. Push(f, context) = [stack EXCEPT ![f] = new]
  BY DEF Push
<1>4. /\ new \in Seq(Contexts) /\ Len(new) = Len(old) + 1 /\ DOMAIN new = DOMAIN old \cup {Len(old) + 1}
      /\ \A i \in 1..Len(old) : new[i] = old[i]
      /\ new[Len(old) + 1] = context
  BY <1>1
<1> HIDE DEF new
<1>5. Push(f, context)[f] = new /\ \A g \in Flows : g # f => Push(f, context)[g] = stack[g]
  BY <1>2, <1>3
<1>6. Push(f, context) \in [Flows -> Seq(Contexts)]
  BY <1>2, <1>3, <1>4
<1> QED
  BY <1>1, <1>4, <1>5, <1>6

LEMMA PopIs ==
  ASSUME TypeOK, NEW f \in Flows, Live(f)
  PROVE  /\ Pop(f) \in [Flows -> Seq(Contexts)]
         /\ \A g \in Flows : g # f => Pop(f)[g] = stack[g]
         /\ Len(Pop(f)[f]) = Len(stack[f]) - 1
         /\ DOMAIN Pop(f)[f] \subseteq DOMAIN stack[f]
         /\ \A i \in DOMAIN Pop(f)[f] : Pop(f)[f][i] = stack[f][i]
<1> DEFINE old == stack[f]
           new == SubSeq(old, 1, Len(old) - 1)
<1>1. old \in Seq(Contexts) /\ Len(old) \in Nat \ {0} /\ DOMAIN old = 1..Len(old)
  BY ContextIs
<1>2. stack \in [Flows -> Seq(Contexts)]
  BY DEF TypeOK
<1>3. Pop(f) = [stack EXCEPT ![f] = new]
  BY DEF Pop
<1>4. /\ new \in Seq(Contexts) /\ Len(new) = Len(old) - 1 /\ DOMAIN new = 1..Len(old) - 1
      /\ \A i \in 1..Len(old) - 1 : new[i] = old[i]
  BY <1>1
<1> HIDE DEF new
<1>5. Pop(f)[f] = new /\ \A g \in Flows : g # f => Pop(f)[g] = stack[g]
  BY <1>2, <1>3
<1>6. Pop(f) \in [Flows -> Seq(Contexts)]
  BY <1>2, <1>3, <1>4
<1> QED
  BY <1>1, <1>4, <1>5, <1>6

LEMMA WithIs ==
  ASSUME TypeOK, NEW f \in Flows, Live(f), NEW s \in Services, Exists(s), NEW m \in Maps \cup {None}
  PROVE  /\ With(f, s, m) \in Contexts /\ With(f, s, m)[used[s]] = m
         /\ \A t \in Services : t # used[s] => With(f, s, m)[t] = Context(f)[t]
<1>1. Context(f) \in Contexts /\ used[s] \in Services
  BY ContextIs
<1> QED
  BY <1>1 DEF With, Contexts

LEMMA NewMapIs ==
  ASSUME TypeOK, NEW r \in Requests \cup {None}, NewMap(r)
  PROVE  /\ created + 1 \in Maps /\ created' = created + 1 /\ created' \in 0..MaxMaps
         /\ content' \in [Maps -> [Keys -> Requests \cup {None}]]
         /\ \A m \in Maps : m # created + 1 => content'[m] = content[m]
         /\ content'[created + 1]["ctx"] = r
         /\ \A k \in Keys : content'[created + 1][k] \in {r, None}
<1> DEFINE map == [Blank EXCEPT !["ctx"] = r]
<1>1. created + 1 \in Maps /\ created' = created + 1 /\ content' = [content EXCEPT ![created + 1] = map]
  BY DEF NewMap, FreshMap
<1>2. /\ map \in [Keys -> Requests \cup {None}] /\ map["ctx"] = r
      /\ \A k \in Keys : map[k] \in {r, None}
  BY StorageAssumption DEF Blank
<1>3. created' \in 0..MaxMaps
  BY <1>1, StorageAssumption DEF Maps, TypeOK
<1> HIDE DEF map
<1> QED
  BY <1>1, <1>2, <1>3 DEF TypeOK

-----------------------------------------------------------------------------
(* Types. *)

LEMMA TypeInit == Init => TypeOK
<1> SUFFICES ASSUME Init PROVE TypeOK
  OBVIOUS
<1>1. options \in Options /\ instance \in Services \cup {None} /\ used \in [Services -> Services \cup {None}]
  BY DEF Init
<1>2. /\ phase \in [Requests -> {"new", "guarding", "intercepting", "handling", "responding", "done"}]
      /\ \A r \in Requests : phase[r] = "new"
  BY DEF Init
<1>3. stack \in [Flows -> Seq(Contexts)] /\ \A f \in Flows : stack[f] = <<>> /\ Len(stack[f]) <= MaxDepth
  BY StorageAssumption DEF Init
<1>4. content \in [Maps -> [Keys -> Requests \cup {None}]]
  BY DEF Init, Blank
<1>5. created \in 0..MaxMaps
  BY StorageAssumption DEF Init
<1>6. outer \in [Requests -> Contexts]
  BY DEF Init, NoContext, Contexts
<1> QED
  BY <1>1, <1>2, <1>3, <1>4, <1>5, <1>6, FlowIs DEF TypeOK, Live

\* What a step of a request or of the application does to the stacks is well typed.
StackTyped ==
  /\ stack \in [Flows -> Seq(Contexts)] /\ \A f \in Flows : Len(stack[f]) <= MaxDepth
  /\ \A r \in Requests : Live(Main(r)) <=> phase[r] \notin {"new", "done"}

LEMMA StackIs ==
  ASSUME TypeOK, NEW f \in Flows, Live(f), NEW context \in Contexts, UNCHANGED phase,
         \/ stack' = Top(f, context)
         \/ stack' = Push(f, context) /\ Len(stack[f]) < MaxDepth
         \/ stack' = Pop(f) /\ Len(stack[f]) > 1
  PROVE  StackTyped'
<1>1. stack[f] \in Seq(Contexts) /\ Len(stack[f]) \in Nat \ {0} /\ MaxDepth \in Nat
  BY ContextIs, StorageAssumption
<1>2. /\ stack' \in [Flows -> Seq(Contexts)] /\ \A g \in Flows : g # f => stack'[g] = stack[g]
      /\ Len(stack'[f]) <= MaxDepth /\ Len(stack'[f]) > 0
<2>1. CASE stack' = Top(f, context)
  BY <1>1, <2>1, TopIs DEF TypeOK
<2>2. CASE stack' = Push(f, context) /\ Len(stack[f]) < MaxDepth
<3>1. Len(Push(f, context)[f]) = Len(stack[f]) + 1 /\ Push(f, context) \in [Flows -> Seq(Contexts)]
  BY PushIs
<3>2. Len(stack'[f]) = Len(stack[f]) + 1
  BY <2>2, <3>1
<3> QED
  BY <1>1, <2>2, <3>1, <3>2, PushIs
<2>3. CASE stack' = Pop(f) /\ Len(stack[f]) > 1
<3>1. Len(stack[f]) <= MaxDepth
  BY DEF TypeOK
<3> QED
  BY <1>1, <2>3, <3>1, PopIs
<2> QED
  BY <2>1, <2>2, <2>3
<1>3. \A g \in Flows : Len(stack'[g]) <= MaxDepth
  BY <1>2 DEF TypeOK
<1>4. stack'[f] # <<>>
  BY <1>2
<1>5. \A g \in Flows : Live(g)' <=> Live(g)
  BY <1>2, <1>4 DEF Live
<1> QED
  BY <1>2, <1>3, <1>5, FlowIs DEF StackTyped, TypeOK

-----------------------------------------------------------------------------
(* The inductive invariant. *)

\* All services share the first storage, and nothing runs before there is one.
Storages ==
  /\ \A s \in Services : used[s] \in {None, instance}
  /\ \A r \in Requests :
       /\ phase[r] # "new" => Exists(Own)
       /\ Live(<<r, "background">>) => phase[r] \in {"handling", "responding", "done"}

\* The contexts of a request are those it arrived with and, while a handler runs in
\* one, that of the interceptor, under those of the handler.
Nested ==
  \A r \in Requests :
    /\ phase[r] \in {"guarding", "intercepting", "responding"} => Len(stack[Main(r)]) = 1
    /\ phase[r] = "handling" => Len(stack[Main(r)]) >= Depth
    /\ Runs /\ phase[r] \in {"handling", "responding"} => stack[Main(r)][1] = outer[r]

\* No context has a map that is still to be created.
NoneAhead ==
  \A f \in Flows : \A i \in DOMAIN stack[f], s \in Services : stack[f][i][s] \in 1..created \cup {None}

\* The contexts of a flow that its code may see: not those that its request came
\* with, or that the interceptor will restore.
Seen(f) ==
  {i \in DOMAIN stack[f] :
     f[2] = "main" => \/ phase[f[1]] = "handling" /\ i >= Depth
                      \/ phase[f[1]] = "intercepting" /\ Guarded /\ ~options.slowGuard}

\* Code of the request may see the map.
Sees(r, m) ==
  \E f \in Flows : \E i \in Seen(f) : f[1] = r /\ m # None /\ stack[f][i][instance] = m

\* A map is seen by one request only, and holds what that request wrote.
Private ==
  Contextualised =>
    /\ \A r \in Requests, m \in Maps : Sees(r, m) => \A k \in Keys : content[m][k] \in {r, None}
    /\ \A r, q \in Requests, m \in Maps : Sees(r, m) /\ Sees(q, m) => r = q

\* What the guard entered is there for the handler.
Entered ==
  \A r \in Requests :
    phase[r] = "intercepting" /\ Guarded /\ ~options.slowGuard =>
      LET m == stack[Main(r)][1][instance] IN m \in Maps /\ content[m]["ctx"] = r

IInv == TypeOK /\ Storages /\ Nested /\ NoneAhead /\ Private /\ Entered

LEMMA OwnExists ==
  ASSUME IInv, NEW r \in Requests, phase[r] # "new"
  PROVE  Exists(Own) /\ Own \in Services /\ used[Own] = instance /\ instance \in Services
  BY StorageAssumption DEF IInv, Storages, TypeOK, Exists

LEMMA OwnWithIs ==
  ASSUME IInv, NEW r \in Requests, Live(Main(r)), NEW m \in Maps \cup {None}
  PROVE  /\ With(Main(r), Own, m) \in Contexts
         /\ With(Main(r), Own, m)[instance] = m
         /\ \A t \in Services : t # instance => With(Main(r), Own, m)[t] = Context(Main(r))[t]
<1>1. TypeOK /\ Main(r) \in Flows
  BY FlowIs DEF IInv
<1>2. phase[r] # "new"
  BY <1>1 DEF TypeOK
<1> QED
  BY <1>1, <1>2, OwnExists, WithIs

\* Code of the application uses the one storage: it writes to the map it sees, or it
\* enters, runs in, or exits to a context that differs by a new map or by none.
LEMMA UseIs ==
  ASSUME IInv, NEW f \in Flows, NEW s \in Services, Use(f, s)
  PROVE  /\ Active(f) /\ Live(f) /\ used[s] = instance /\ instance \in Services
         /\ UNCHANGED <<options, instance, used, phase, outer>>
         /\ \/ /\ UNCHANGED <<stack, created>>
               /\ StoreOf(f, s) \in Maps
               /\ content' \in [Maps -> [Keys -> Requests \cup {None}]]
               /\ \A m \in Maps : m # StoreOf(f, s) => content'[m] = content[m]
               /\ \A k \in Keys : content'[StoreOf(f, s)][k] \in {content[StoreOf(f, s)][k], f[1], None}
            \/ /\ NewMap(None)
               /\ \/ stack' = Top(f, With(f, s, created + 1))
                  \/ stack' = Push(f, With(f, s, created + 1)) /\ Len(stack[f]) < MaxDepth
            \/ /\ UNCHANGED <<content, created>>
               /\ stack' = Push(f, With(f, s, None)) /\ Len(stack[f]) < MaxDepth
<1>a. Active(f) /\ Exists(s)
  BY DEF Use, Set, Remove, Clear, Update, EnterWith, Run, Exit
<1>b. Live(f) /\ TypeOK /\ f[1] \in Requests
  BY <1>a, FlowIs DEF Active, IInv
<1>c. used[s] = instance /\ instance \in Services
  BY <1>a, <1>b DEF IInv, Storages, Exists, TypeOK
<1> DEFINE m == StoreOf(f, s)
           Writes == /\ UNCHANGED <<options, instance, used, phase, outer, stack, created>>
                     /\ m \in Maps
                     /\ content' \in [Maps -> [Keys -> Requests \cup {None}]]
                     /\ \A n \in Maps : n # m => content'[n] = content[n]
                     /\ \A k \in Keys : content'[m][k] \in {content[m][k], f[1], None}
<1>1. ASSUME NEW map, Update(f, s, map),
             map \in [Keys -> Requests \cup {None}],
             \A k \in Keys : map[k] \in {content[m][k], f[1], None}
      PROVE  Writes
<2>1. m \in Maps /\ content' = [content EXCEPT ![m] = map]
  BY <1>1, <1>a, <1>b, ContextIs DEF Update
<2> QED
  BY <1>1, <1>b, <2>1 DEF Update, TypeOK
<1>2. ASSUME m \in Maps, NEW k \in Keys, NEW v \in {f[1], None}
      PROVE  /\ [content[m] EXCEPT ![k] = v] \in [Keys -> Requests \cup {None}]
             /\ \A l \in Keys : [content[m] EXCEPT ![k] = v][l] \in {content[m][l], f[1], None}
  BY <1>2, <1>b DEF TypeOK
<1>3. ASSUME NEW k \in Keys, Set(f, s, k) \/ Remove(f, s, k) PROVE Writes
<2>1. m \in Maps
  BY <1>3, <1>a, <1>b, ContextIs DEF Set, Remove, Update
<2>2. CASE Set(f, s, k)
  BY <1>1, <1>2, <2>1, <2>2 DEF Set
<2>3. CASE Remove(f, s, k)
  BY <1>1, <1>2, <2>1, <2>3 DEF Remove
<2> QED
  BY <1>3, <2>2, <2>3
<1>4. ASSUME Clear(f, s) PROVE Writes
<2>1. Blank \in [Keys -> Requests \cup {None}] /\ \A k \in Keys : Blank[k] = None
  BY DEF Blank
<2> QED
  BY <1>1, <1>4, <2>1 DEF Clear
<1>5. CASE EnterWith(f, s)
  BY <1>5, <1>a, <1>b, <1>c DEF EnterWith, FreshMap
<1>6. CASE Run(f, s)
  BY <1>6, <1>a, <1>b, <1>c DEF Run, FreshMap
<1>7. CASE Exit(f, s)
  BY <1>7, <1>a, <1>b, <1>c DEF Exit
<1> QED
  BY <1>3, <1>4, <1>5, <1>6, <1>7, <1>a, <1>b, <1>c DEF Use

-----------------------------------------------------------------------------
(* Types and the shape of the stacks. *)

Shape == TypeOK /\ Storages /\ Nested

LEMMA ShapeInit == Init => Shape
<1> SUFFICES ASSUME Init PROVE Shape
  OBVIOUS
<1>1. Storages
  BY FlowIs DEF Init, Storages, Live
<1>2. Nested
  BY DEF Init, Nested
<1> QED
  BY <1>1, <1>2, TypeInit DEF Shape

\* A step that leaves requests where they are keeps the shape, if it disturbs no
\* context below the handler's.
LEMMA FlowShape ==
  ASSUME IInv, NEW f \in Flows, Active(f), NEW context \in Contexts,
         UNCHANGED <<options, instance, used, phase, outer>>,
         content' \in [Maps -> [Keys -> Requests \cup {None}]], created' \in 0..MaxMaps,
         \/ stack' = Top(f, context)
         \/ stack' = Push(f, context) /\ Len(stack[f]) < MaxDepth
         \/ stack' = Pop(f) /\ Len(stack[f]) > (IF f[2] = "main" THEN Depth ELSE 1)
  PROVE  Shape'
<1>1. Live(f) /\ TypeOK /\ Storages /\ Nested
  BY DEF IInv, Active
<1>2. Len(stack[f]) \in Nat \ {0} /\ Depth \in {1, 2} /\ DOMAIN stack[f] = 1..Len(stack[f])
  BY <1>1, ContextIs DEF Depth
<1>3. StackTyped'
<2>1. stack' = Pop(f) => Len(stack[f]) > 1 \/ stack' = Top(f, context) \/ stack' = Push(f, context)
  BY <1>2
<2> QED
  BY <1>1, <1>2, <2>1, StackIs
<1>4. TypeOK'
  BY <1>1, <1>3 DEF StackTyped, TypeOK
<1>5. /\ \A g \in Flows : g # f => stack'[g] = stack[g]
      /\ Len(stack'[f]) > 0
      /\ f[2] = "main" /\ Len(stack[f]) >= Depth => Len(stack'[f]) >= Depth
      /\ f[2] = "main" /\ Depth = 2 /\ Len(stack[f]) >= 2 => stack'[f][1] = stack[f][1]
<2>1. CASE stack' = Top(f, context)
  BY <1>1, <1>2, <2>1, TopIs
<2>2. CASE stack' = Push(f, context)
  BY <1>1, <1>2, <2>2, PushIs
<2>3. CASE stack' = Pop(f) /\ Len(stack[f]) > (IF f[2] = "main" THEN Depth ELSE 1)
<3>1. Len(stack'[f]) = Len(stack[f]) - 1 /\ stack'[f] \in Seq(Contexts)
  BY <1>1, <2>3, FlowIs, PopIs
<3>2. DOMAIN stack'[f] = 1..Len(stack'[f])
  BY <3>1
<3> QED
  BY <1>1, <1>2, <2>3, <3>1, <3>2, PopIs
<2> QED
  BY <2>1, <2>2, <2>3
<1>6. \A g \in Flows : Live(g)' => Live(g)
  BY <1>1, <1>5 DEF Live
<1>7. Storages'
  BY <1>1, <1>6, FlowIs DEF Storages, Exists
<1>8. Nested'
<2> SUFFICES ASSUME NEW r \in Requests
             PROVE  /\ phase[r] \in {"guarding", "intercepting", "responding"} => Len(stack'[Main(r)]) = 1
                    /\ phase[r] = "handling" => Len(stack'[Main(r)]) >= Depth
                    /\ Runs /\ phase[r] \in {"handling", "responding"} => stack'[Main(r)][1] = outer[r]
  BY DEF Nested, Depth, Runs, Intercepted
<2>1. CASE f # Main(r)
<3>1. stack'[Main(r)] = stack[Main(r)]
  BY <1>5, <2>1, FlowIs
<3> QED
  BY <1>1, <3>1 DEF Nested
<2>2. CASE f = Main(r)
<3>1. phase[r] = "handling" /\ f[2] = "main" /\ Len(stack[f]) >= Depth
  BY <1>1, <2>2, FlowIs DEF Active, Nested
<3>2. Runs => Depth = 2
  BY DEF Depth
<3> QED
  BY <1>1, <1>2, <1>5, <2>2, <3>1, <3>2 DEF Nested
<2> QED
  BY <2>1, <2>2
<1> QED
  BY <1>4, <1>7, <1>8 DEF Shape

\* The only live flows of a request that is not yet under way, or is over, are none of
\* its handler's: so there is a storage wherever code of the application runs.
LEMMA ActiveIs ==
  ASSUME TypeOK, Storages, NEW f \in Flows, Active(f)
  PROVE  /\ f[1] \in Requests /\ Live(f) /\ phase[f[1]] # "new" /\ Exists(Own)
         /\ f[2] = "main" => f = Main(f[1]) /\ phase[f[1]] = "handling"
         /\ f[2] = "background" => f = <<f[1], "background">>
<1>1. f[1] \in Requests /\ Live(f) /\ f[2] \in {"main", "background"}
  BY FlowIs DEF Active
<1>2. CASE f[2] = "main"
  BY <1>1, <1>2, FlowIs DEF Active, Storages
<1>3. CASE f[2] = "background"
  BY <1>1, <1>3, FlowIs DEF Storages
<1> QED
  BY <1>1, <1>2, <1>3

LEMMA CreateServiceShape ==
  ASSUME Shape, NEW s \in Services, CreateService(s)
  PROVE  Shape'
<1>1. /\ UNCHANGED <<options, phase, stack, content, created, outer>>
      /\ ~Exists(s) /\ TypeOK /\ Storages /\ Nested
  BY DEF CreateService, Shape
<1>2. instance' \in Services /\ used' = [used EXCEPT ![s] = instance']
  BY <1>1 DEF CreateService, FirstInstance, TypeOK
<1>3. \A t \in Services : used'[t] = (IF t = s THEN instance' ELSE used[t])
  BY <1>1, <1>2 DEF TypeOK
<1>4. TypeOK'
  BY <1>1, <1>2 DEF TypeOK, Live, Contexts
<1>5. \A t \in Services : used[t] # None => instance' = instance
  BY <1>1 DEF Storages, CreateService, FirstInstance
<1>6. \A t \in Services : used'[t] \in {None, instance'}
  BY <1>1, <1>3, <1>5 DEF Storages
<1>7. \A t \in Services : Exists(t) => Exists(t)'
  BY <1>1, <1>3 DEF Exists
<1>8. Storages'
  BY <1>1, <1>6, <1>7, StorageAssumption DEF Storages, Live
<1>9. Nested'
  BY <1>1 DEF Nested, Depth, Runs, Intercepted, Main
<1> QED
  BY <1>4, <1>8, <1>9 DEF Shape

LEMMA NotEmpty == \A q \in Seq(Contexts) : Len(q) > 0 => q # <<>>
  BY EmptySeq

\* The contexts of a request as the phase it moves to has them.
StackFor(r, to) ==
  /\ Len(stack[Main(r)]) <= MaxDepth
  /\ stack[Main(r)] # <<>> <=> to # "done"
  /\ to \in {"guarding", "intercepting", "responding"} => Len(stack[Main(r)]) = 1
  /\ to = "handling" => Len(stack[Main(r)]) >= Depth
  /\ Runs /\ to \in {"handling", "responding"} => stack[Main(r)][1] = outer[r]

\* A step of a request leaves the shape if the contexts of that request keep it.
LEMMA RequestShape ==
  ASSUME IInv, NEW r \in Requests, NEW to \in {"guarding", "intercepting", "handling", "responding", "done"},
         UNCHANGED <<options, instance, used>>, Exists(Own),
         phase' = [phase EXCEPT ![r] = to],
         stack' \in [Flows -> Seq(Contexts)],
         \A g \in Flows : g # Main(r) => stack'[g] = stack[g],
         content' \in [Maps -> [Keys -> Requests \cup {None}]], created' \in 0..MaxMaps,
         outer' \in [Requests -> Contexts], \A q \in Requests : q # r => outer'[q] = outer[q],
         StackFor(r, to)', Live(<<r, "background">>) => to \in {"handling", "responding", "done"}
  PROVE  Shape'
<1>1. TypeOK /\ Storages /\ Nested
  BY DEF IInv
<1>2. \A q \in Requests : phase'[q] = IF q = r THEN to ELSE phase[q]
  BY <1>1 DEF TypeOK
<1>3. \A q \in Requests : q # r => stack'[Main(q)] = stack[Main(q)] /\ outer'[q] = outer[q]
<2>1. \A q \in Requests : q # r => Main(q) # Main(r)
  BY DEF Main
<2>2. \A q \in Requests : Main(q) \in Flows
  BY DEF Flows, Main
<2> QED
  BY <2>1, <2>2
<1>4. \A q \in Requests : stack'[<<q, "background">>] = stack[<<q, "background">>]
<2>1. \A q \in Requests : <<q, "background">> # Main(r) /\ <<q, "background">> \in Flows
<3>1. \A q \in Requests : <<q, "background">> # Main(r)
  BY DEF Main
<3>2. \A q \in Requests : <<q, "background">> \in Flows
  BY DEF Flows
<3> QED
  BY <3>1, <3>2
<2> QED
  BY <2>1
<1>5. TypeOK'
<2>1. \A f \in Flows : Len(stack'[f]) <= MaxDepth
<3>1. Len(stack'[Main(r)]) <= MaxDepth
  BY DEF StackFor, Main
<3> QED
  BY <1>1, <3>1 DEF TypeOK
<2>2. \A q \in Requests : Live(Main(q))' <=> phase'[q] \notin {"new", "done"}
<3> SUFFICES ASSUME NEW q \in Requests PROVE Live(Main(q))' <=> phase'[q] \notin {"new", "done"}
  OBVIOUS
<3>1. CASE q = r
  BY <1>2, <3>1 DEF Live, Main, StackFor
<3>2. CASE q # r
  BY <1>1, <1>2, <1>3, <3>2 DEF Live, Main, TypeOK
<3> QED
  BY <3>1, <3>2
<2>3. phase' \in [Requests -> {"new", "guarding", "intercepting", "handling", "responding", "done"}]
  BY <1>1 DEF TypeOK
<2> QED
  BY <1>1, <2>1, <2>2, <2>3 DEF TypeOK
<1>6. Storages'
  BY <1>1, <1>2, <1>4 DEF Storages, Exists, Live
<1>7. Nested'
<2> SUFFICES ASSUME NEW q \in Requests
             PROVE  /\ phase'[q] \in {"guarding", "intercepting", "responding"} => Len(stack'[Main(q)]) = 1
                    /\ phase'[q] = "handling" => Len(stack'[Main(q)]) >= Depth
                    /\ Runs /\ phase'[q] \in {"handling", "responding"} => stack'[Main(q)][1] = outer'[q]
  BY DEF Nested, Depth, Runs, Intercepted, Main
<2>1. CASE q = r
  BY <1>2, <2>1 DEF StackFor, Depth, Runs, Intercepted, Main
<2>2. CASE q # r
  BY <1>1, <1>2, <1>3, <2>2 DEF Nested
<2> QED
  BY <2>1, <2>2
<1> QED
  BY <1>5, <1>6, <1>7 DEF Shape

LEMMA ServeShape ==
  ASSUME IInv, NEW r \in Requests, Serve(r)
  PROVE  Shape'
<1> DEFINE f == Main(r)
<1>1. TypeOK /\ Storages /\ Nested /\ f \in Flows /\ f[1] = r /\ f[2] = "main"
  BY FlowIs DEF IInv
<1>2. Depth \in {1, 2} /\ MaxDepth \in Nat /\ MaxDepth >= 2 /\ (Runs => Depth = 2)
  BY StorageAssumption DEF Depth
<1>3. stack \in [Flows -> Seq(Contexts)] /\ outer \in [Requests -> Contexts] /\ created \in 0..MaxMaps
  BY <1>1 DEF TypeOK
<1>4. content \in [Maps -> [Keys -> Requests \cup {None}]]
  BY <1>1 DEF TypeOK
<1>5. phase[r] \notin {"new", "done"} => Live(f) /\ Context(f) \in Contexts /\ Len(stack[f]) \in Nat \ {0}
  BY <1>1, ContextIs DEF TypeOK
<1>6. \A m \in Maps : phase[r] \notin {"new", "done"} => With(f, Own, m) \in Contexts
  BY <1>5, OwnWithIs
<1>7. phase[r] # "new" => Exists(Own)
  BY OwnExists
<1>8. phase[r] \in {"new", "guarding", "intercepting"} => ~Live(<<r, "background">>)
  BY <1>1 DEF Storages
<1>9. ASSUME NEW context \in Contexts, Arrive(r, context) PROVE Shape'
<2>1. stack' = [stack EXCEPT ![f] = <<context>>] /\ <<context>> \in Seq(Contexts) /\ Len(<<context>>) = 1
  BY <1>9 DEF Arrive
<2>2. /\ stack' \in [Flows -> Seq(Contexts)] /\ stack'[f] = <<context>> /\ stack'[f] # <<>> /\ Len(stack'[f]) = 1
      /\ \A g \in Flows : g # f => stack'[g] = stack[g]
  BY <1>1, <1>3, <2>1
<2>3. /\ phase[r] = "new" /\ phase' = [phase EXCEPT ![r] = "guarding"] /\ Exists(Own)
      /\ UNCHANGED <<options, instance, used, content, created, outer>>
  BY <1>9 DEF Arrive
<2>4. StackFor(r, "guarding")'
  BY <1>2, <2>2 DEF StackFor, Main
<2> QED
  BY <1>3, <1>4, <1>8, <2>2, <2>3, <2>4, RequestShape
<1>10. CASE Arrive(r, NoContext) \/ \E g \in Flows : Active(g) /\ Arrive(r, Context(g))
<2>1. NoContext \in Contexts /\ \A g \in Flows : Active(g) => Context(g) \in Contexts
  BY <1>1, ContextIs DEF NoContext, Contexts, Active
<2> QED
  BY <1>9, <1>10, <2>1
<1>11. CASE CanActivate(r)
<2>1. /\ phase[r] = "guarding" /\ phase' = [phase EXCEPT ![r] = "intercepting"]
      /\ UNCHANGED <<options, instance, used, outer>>
      /\ \/ UNCHANGED <<stack, content, created>>
         \/ NewMap(r) /\ (stack' = stack \/ stack' = Top(f, With(f, Own, created + 1)))
  BY <1>11 DEF CanActivate, FreshMap
<2>2. content' \in [Maps -> [Keys -> Requests \cup {None}]] /\ created' \in 0..MaxMaps
  BY <1>1, <1>3, <1>4, <2>1, NewMapIs
<2>3. Len(stack[f]) = 1 /\ stack[f] # <<>>
  BY <1>1, <1>5, <2>1 DEF Nested, Live
<2>4. stack' \in [Flows -> Seq(Contexts)] /\ Len(stack'[f]) = 1 /\ \A g \in Flows : g # f => stack'[g] = stack[g]
<3>1. CASE stack' = stack
  BY <1>3, <2>3, <3>1
<3>2. CASE NewMap(r) /\ stack' = Top(f, With(f, Own, created + 1))
<4>1. With(f, Own, created + 1) \in Contexts
  BY <1>1, <1>6, <2>1, <3>2, NewMapIs
<4> QED
  BY <1>1, <1>5, <2>1, <2>3, <3>2, <4>1, TopIs
<3> QED
  BY <2>1, <3>1, <3>2
<2>5. stack'[f] # <<>>
<3>1. stack'[f] \in Seq(Contexts) /\ Len(stack'[f]) > 0
  BY <1>1, <2>4
<3> QED
  BY <3>1, NotEmpty
<2>6. StackFor(r, "intercepting")'
  BY <1>2, <2>4, <2>5 DEF StackFor, Main
<2> QED
  BY <1>3, <1>7, <1>8, <2>1, <2>2, <2>4, <2>6, RequestShape
<1>12. CASE Intercept(r)
<2>1. /\ phase[r] = "intercepting" /\ phase' = [phase EXCEPT ![r] = "handling"]
      /\ UNCHANGED <<options, instance, used>>
      /\ outer' = [outer EXCEPT ![r] = Context(f)]
      /\ \/ ~Runs /\ UNCHANGED <<stack, content, created>>
         \/ NewMap(r) /\ Runs /\ stack' = Push(f, With(f, Own, created + 1))
  BY <1>12 DEF Intercept, FreshMap, InterceptRunning
<2>2. content' \in [Maps -> [Keys -> Requests \cup {None}]] /\ created' \in 0..MaxMaps
  BY <1>1, <1>3, <1>4, <2>1, NewMapIs
<2>3. Len(stack[f]) = 1 /\ stack[f] # <<>> /\ Context(f) = stack[f][1] /\ 1 \in DOMAIN stack[f]
  BY <1>1, <1>5, <2>1, ContextIs DEF Nested, Live, Context
<2>4. /\ outer' \in [Requests -> Contexts] /\ outer'[r] = Context(f)
      /\ \A q \in Requests : q # r => outer'[q] = outer[q]
  BY <1>3, <1>5, <2>1
<2>5. /\ stack' \in [Flows -> Seq(Contexts)] /\ \A g \in Flows : g # f => stack'[g] = stack[g]
      /\ Len(stack'[f]) = Depth /\ stack'[f][1] = Context(f)
<3>1. CASE ~Runs /\ stack' = stack
  BY <1>3, <2>3, <3>1 DEF Depth
<3>2. CASE NewMap(r) /\ Runs /\ stack' = Push(f, With(f, Own, created + 1))
<4>1. With(f, Own, created + 1) \in Contexts
  BY <1>1, <1>6, <2>1, <3>2, NewMapIs
<4>2. Depth = Len(stack[f]) + 1
  BY <1>2, <2>3, <3>2
<4>3. /\ Push(f, With(f, Own, created + 1)) \in [Flows -> Seq(Contexts)]
      /\ Len(Push(f, With(f, Own, created + 1))[f]) = Depth
      /\ \A g \in Flows : g # f => Push(f, With(f, Own, created + 1))[g] = stack[g]
  BY <1>1, <1>5, <2>1, <4>1, <4>2, PushIs
<4>4. Push(f, With(f, Own, created + 1))[f][1] = stack[f][1]
  BY <1>1, <1>5, <2>1, <2>3, <4>1, PushIs
<4> QED
  BY <2>3, <3>2, <4>3, <4>4
<3> QED
  BY <2>1, <3>1, <3>2
<2>6. stack'[f] # <<>> /\ Len(stack'[f]) <= MaxDepth /\ Len(stack'[f]) >= Depth
  BY <1>1, <1>2, <2>5, NotEmpty
<2>7. StackFor(r, "handling")'
<3>1. Depth' = Depth
  BY <2>1 DEF Depth, Runs, Intercepted
<3> QED
  BY <2>4, <2>5, <2>6, <3>1 DEF StackFor, Main
<2> QED
  BY <1>7, <1>8, <2>1, <2>2, <2>4, <2>5, <2>7, RequestShape
<1>13. CASE HandlerEnds(r)
<2>1. /\ phase[r] = "handling" /\ Len(stack[f]) <= Depth
      /\ phase' = [phase EXCEPT ![r] = "responding"]
      /\ UNCHANGED <<options, instance, used, content, created, outer>>
      /\ stack' = IF Len(stack[f]) = 2 THEN Pop(f) ELSE stack
  BY <1>13 DEF HandlerEnds
<2>2. Len(stack[f]) = Depth /\ (Runs => stack[f][1] = outer[r])
  BY <1>1, <1>2, <1>5, <2>1 DEF Nested
<2>3. /\ stack' \in [Flows -> Seq(Contexts)] /\ \A g \in Flows : g # f => stack'[g] = stack[g]
      /\ Len(stack'[f]) = 1 /\ stack'[f][1] = stack[f][1]
<3>1. CASE Len(stack[f]) = 2
<4>1. stack' = Pop(f) /\ Live(f)
  BY <1>5, <2>1, <3>1
<4>2. Len(Pop(f)[f]) = 1 /\ Pop(f) \in [Flows -> Seq(Contexts)]
<5>1. Pop(f) \in [Flows -> Seq(Contexts)] /\ Len(Pop(f)[f]) = Len(stack[f]) - 1
  BY <1>1, <4>1, PopIs
<5> QED
  BY <3>1, <5>1
<4>3. Pop(f)[f] \in Seq(Contexts)
  BY <1>1, <4>2
<4>4. 1 \in DOMAIN Pop(f)[f]
  BY <4>2, <4>3
<4>5. \A g \in Flows : g # f => Pop(f)[g] = stack[g]
  BY <1>1, <4>1, PopIs
<4>6. Pop(f)[f][1] = stack[f][1]
  BY <1>1, <4>1, <4>4, PopIs
<4> QED
  BY <4>1, <4>2, <4>5, <4>6
<3>2. CASE Len(stack[f]) # 2
  BY <1>2, <1>3, <2>1, <2>2, <3>2
<3> QED
  BY <3>1, <3>2
<2>4. stack'[f] # <<>> /\ Len(stack'[f]) <= MaxDepth
<3>1. stack'[f] \in Seq(Contexts)
  BY <1>1, <2>3
<3>2. stack'[f] # <<>>
  BY <2>3, <3>1, NotEmpty
<3> QED
  BY <1>2, <2>3, <3>2
<2>5. StackFor(r, "responding")'
<3>1. Runs' = Runs
  BY <2>1 DEF Runs, Intercepted
<3> QED
  BY <2>1, <2>2, <2>3, <2>4, <3>1 DEF StackFor, Main
<2> QED
  BY <1>3, <1>4, <1>7, <2>1, <2>3, <2>5, RequestShape
<1>14. CASE Respond(r)
<2>1. /\ phase[r] = "responding" /\ phase' = [phase EXCEPT ![r] = "done"]
      /\ stack' = [stack EXCEPT ![f] = <<>>]
      /\ outer' = [outer EXCEPT ![r] = NoContext]
      /\ UNCHANGED <<options, instance, used, content, created>>
  BY <1>14 DEF Respond
<2>2. NoContext \in Contexts
  BY DEF NoContext, Contexts
<2>3. /\ stack' \in [Flows -> Seq(Contexts)] /\ stack'[f] = <<>>
      /\ \A g \in Flows : g # f => stack'[g] = stack[g]
  BY <1>1, <1>3, <2>1
<2>4. outer' \in [Requests -> Contexts] /\ \A q \in Requests : q # r => outer'[q] = outer[q]
  BY <1>3, <2>1, <2>2
<2>5. Len(stack'[f]) <= MaxDepth
  BY <1>2, <2>3
<2>6. StackFor(r, "done")'
  BY <2>3, <2>5 DEF StackFor, Main
<2> QED
  BY <1>3, <1>4, <1>7, <2>1, <2>3, <2>4, <2>6, RequestShape
<1>15. CASE Spawn(r)
<2> DEFINE b == <<r, "background">>
<2>1. /\ phase[r] = "handling" /\ stack' = [stack EXCEPT ![b] = <<Context(f)>>]
      /\ UNCHANGED <<options, instance, used, phase, content, created, outer>>
  BY <1>15 DEF Spawn
<2>2. b \in Flows /\ (\A q \in Requests : Main(q) # b) /\ \A q \in Requests : q # r => <<q, "background">> # b
  BY FlowIs DEF Main
<2>3. Context(f) \in Contexts
  BY <1>5, <2>1
<2>4. <<Context(f)>> \in Seq(Contexts) /\ Len(<<Context(f)>>) = 1
  BY <2>3
<2>5. /\ stack' \in [Flows -> Seq(Contexts)] /\ Len(stack'[b]) = 1
      /\ \A g \in Flows : g # b => stack'[g] = stack[g]
  BY <1>3, <2>1, <2>2, <2>4
<2>6. \A g \in Flows : Len(stack'[g]) <= MaxDepth
<3>1. Len(stack'[b]) <= MaxDepth
  BY <1>2, <2>5
<3> QED
  BY <1>1, <2>5, <3>1 DEF TypeOK
<2>7. \A q \in Requests : stack'[Main(q)] = stack[Main(q)]
  BY <2>2, <2>5, FlowIs
<2>8. TypeOK'
  BY <1>1, <2>1, <2>5, <2>6, <2>7 DEF TypeOK, Live, Main
<2>9. \A q \in Requests : q # r => stack'[<<q, "background">>] = stack[<<q, "background">>]
  BY <2>2, <2>5, FlowIs
<2>10. Storages'
  BY <1>1, <2>1, <2>9 DEF Storages, Live, Exists
<2>11. Nested'
  BY <1>1, <2>1, <2>7 DEF Nested, Depth, Runs, Intercepted, Main
<2> QED
  BY <2>8, <2>10, <2>11 DEF Shape
<1> QED
  BY <1>10, <1>11, <1>12, <1>13, <1>14, <1>15 DEF Serve

LEMMA ShapeNext == IInv /\ [Next]_vars => Shape'
<1> SUFFICES ASSUME IInv, [Next]_vars PROVE Shape'
  OBVIOUS
<1>1. TypeOK /\ Storages /\ Nested /\ Shape
  BY DEF IInv, Shape
<1>2. ASSUME NEW s \in Services, CreateService(s) PROVE Shape'
  BY <1>1, <1>2, CreateServiceShape
<1>3. ASSUME NEW r \in Requests, Serve(r) PROVE Shape'
  BY <1>3, ServeShape
<1>4. ASSUME NEW f \in Flows, NEW s \in Services, Use(f, s) PROVE Shape'
<2>1. /\ Active(f) /\ Live(f) /\ Exists(s) /\ instance \in Services
      /\ UNCHANGED <<options, instance, used, phase, outer>>
  BY <1>1, <1>4, UseIs, StorageAssumption DEF Exists
<2>2. CASE /\ UNCHANGED <<stack, created>>
           /\ content' \in [Maps -> [Keys -> Requests \cup {None}]]
<3>1. TypeOK'
  BY <1>1, <2>1, <2>2 DEF TypeOK, Live, Main
<3>2. Storages' /\ Nested'
  BY <1>1, <2>1, <2>2 DEF Storages, Nested, Live, Exists, Depth, Runs, Intercepted, Main
<3> QED
  BY <3>1, <3>2 DEF Shape
<2>3. CASE /\ NewMap(None)
           /\ \/ stack' = Top(f, With(f, s, created + 1))
              \/ stack' = Push(f, With(f, s, created + 1)) /\ Len(stack[f]) < MaxDepth
<3>1. /\ created + 1 \in Maps /\ created' \in 0..MaxMaps
      /\ content' \in [Maps -> [Keys -> Requests \cup {None}]]
  BY <1>1, <2>3, NewMapIs
<3>2. With(f, s, created + 1) \in Contexts
  BY <1>1, <2>1, <3>1, WithIs
<3> QED
  BY <2>1, <2>3, <3>1, <3>2, FlowShape
<2>4. CASE UNCHANGED <<content, created>> /\ stack' = Push(f, With(f, s, None)) /\ Len(stack[f]) < MaxDepth
<3>1. With(f, s, None) \in Contexts
  BY <1>1, <2>1, WithIs
<3>2. created' \in 0..MaxMaps /\ content' \in [Maps -> [Keys -> Requests \cup {None}]]
  BY <1>1, <2>4 DEF TypeOK
<3> QED
  BY <2>1, <2>4, <3>1, <3>2, FlowShape
<2> QED
  BY <1>4, <2>2, <2>3, <2>4, UseIs
<1>5. ASSUME NEW f \in Flows, CallbackEnds(f) PROVE Shape'
<2>1. /\ Active(f) /\ UNCHANGED <<options, instance, used, phase, content, created, outer>>
      /\ stack' = Pop(f) /\ Len(stack[f]) > (IF f[2] = "main" THEN Depth ELSE 1)
  BY <1>5 DEF CallbackEnds
<2>2. Context(f) \in Contexts
  BY <1>1, <2>1, ContextIs DEF Active
<2>3. created' \in 0..MaxMaps /\ content' \in [Maps -> [Keys -> Requests \cup {None}]]
  BY <1>1, <2>1 DEF TypeOK
<2> QED
  BY <2>1, <2>2, <2>3, FlowShape
<1>6. CASE UNCHANGED vars
<2>1. TypeOK'
  BY <1>1, <1>6 DEF TypeOK, Live, Main, vars
<2>2. Storages' /\ Nested'
  BY <1>1, <1>6 DEF Storages, Nested, Live, Exists, Depth, Runs, Intercepted, Main, vars
<2> QED
  BY <2>1, <2>2 DEF Shape
<1> QED
  BY <1>2, <1>3, <1>4, <1>5, <1>6 DEF Next

-----------------------------------------------------------------------------
(* Whose maps a step touches. *)

\* A step for a request makes it see, besides what it saw, at most a map it creates.
SeesOwn(q) ==
  \A p \in Requests, m \in Maps :
    Sees(p, m)' => Sees(p, m) \/ (p = q /\ m = FreshMap /\ created' = FreshMap)

\* A step for a request writes to a map it sees, or creates one, with its own values.
WritesOwn(q) ==
  /\ \A m \in 1..created :
       \/ content'[m] = content[m]
       \/ /\ Sees(q, m) /\ phase[q] # "intercepting"
          /\ \A k \in Keys : content'[m][k] \in {content[m][k], q, None}
  /\ created' = FreshMap => \A k \in Keys : content'[FreshMap][k] \in {q, None}

\* What awaits a handler is what was there, or the map created for it.
EntersOwn ==
  \A r \in Requests :
    phase'[r] = "intercepting" /\ Guarded /\ ~options.slowGuard =>
      \/ phase[r] = "intercepting" /\ stack'[Main(r)][1][instance'] = stack[Main(r)][1][instance]
      \/ /\ FreshMap \in Maps /\ stack'[Main(r)][1][instance'] = FreshMap
         /\ content'[FreshMap]["ctx"] = r

LEMMA FreshIs ==
  ASSUME TypeOK
  PROVE  /\ 1..created \subseteq Maps /\ FreshMap \notin 1..created /\ created # FreshMap
         /\ created' = FreshMap => 1..created' = 1..created \cup {FreshMap}
<1>1. created \in Nat /\ MaxMaps \in Nat /\ created <= MaxMaps
  BY StorageAssumption DEF TypeOK
<1> QED
  BY <1>1 DEF FreshMap, Maps

LEMMA NewMapOwn ==
  ASSUME TypeOK, NEW q \in Requests, NEW r \in {q, None}, NewMap(r)
  PROVE  /\ WritesOwn(q) /\ created' = FreshMap /\ FreshMap \in Maps
         /\ content'[FreshMap]["ctx"] = r
<1>1. /\ FreshMap \in Maps /\ created' = FreshMap
      /\ \A m \in Maps : m # FreshMap => content'[m] = content[m]
      /\ content'[FreshMap]["ctx"] = r
      /\ \A k \in Keys : content'[FreshMap][k] \in {r, None}
  BY NewMapIs DEF FreshMap
<1>2. 1..created \subseteq Maps /\ FreshMap \notin 1..created
  BY FreshIs
<1>3. \A m \in 1..created : content'[m] = content[m]
  BY <1>1, <1>2
<1> QED
  BY <1>1, <1>3 DEF WritesOwn

LEMMA NoMapOwn ==
  ASSUME TypeOK, NEW q \in Requests, UNCHANGED <<content, created>>
  PROVE  WritesOwn(q)
  BY FreshIs DEF WritesOwn

\* These are what keeps the maps of requests apart.
LEMMA StepIsolates ==
  ASSUME IInv, NEW q \in Requests, UNCHANGED options, NoneAhead',
         Contextualised => SeesOwn(q), WritesOwn(q), EntersOwn
  PROVE  Private' /\ Entered'
<1>1. TypeOK /\ Private /\ Entered /\ Nested /\ NoneAhead
  BY DEF IInv
<1>2. Contextualised' <=> Contextualised
  BY DEF Contextualised, Runs, Guarded, Intercepted
<1>3. 1..created \subseteq Maps /\ FreshMap \notin 1..created
  BY <1>1, FreshIs
<1>4. ASSUME NEW r \in Requests, NEW m \in Maps, Sees(r, m) PROVE m \in 1..created
<2>a. PICK f \in Flows : \E i \in Seen(f) : m # None /\ stack[f][i][instance] = m
  BY <1>4 DEF Sees
<2>1. PICK i \in Seen(f) : m # None /\ stack[f][i][instance] = m
  BY <2>a
<2>2. i \in DOMAIN stack[f] /\ instance \in Services
<3>1. i \in DOMAIN stack[f] /\ Live(f)
  BY <1>1, <2>1 DEF Seen, TypeOK, Live
<3>2. \E p \in Requests : phase[p] # "new"
<4>1. f[1] \in Requests /\ (f[2] = "main" => f = Main(f[1])) /\ (f[2] # "main" => f = <<f[1], "background">>)
  BY FlowIs
<4>2. CASE f[2] = "main"
  BY <1>1, <3>1, <4>1, <4>2 DEF TypeOK
<4>3. CASE f[2] # "main"
  BY <3>1, <4>1, <4>3 DEF IInv, Storages
<4> QED
  BY <4>2, <4>3
<3> QED
  BY <3>1, <3>2, OwnExists
<2> QED
  BY <1>1, <2>1, <2>2 DEF NoneAhead
<1>5. ASSUME Contextualised PROVE Private'
<2>1. /\ \A r \in Requests, m \in Maps : Sees(r, m) => \A k \in Keys : content[m][k] \in {r, None}
      /\ \A r, p \in Requests, m \in Maps : Sees(r, m) /\ Sees(p, m) => r = p
  BY <1>1, <1>5 DEF Private
<2>2. SeesOwn(q)
  BY <1>5
<2>3. ASSUME NEW r \in Requests, NEW m \in Maps, Sees(r, m)', NEW k \in Keys
      PROVE  content'[m][k] \in {r, None}
<3>1. CASE Sees(r, m)
<4>1. m \in 1..created /\ content[m][k] \in {r, None}
  BY <1>4, <2>1, <3>1
<4> QED
  BY <2>1, <3>1, <4>1 DEF WritesOwn
<3>2. CASE r = q /\ m = FreshMap /\ created' = FreshMap
  BY <3>2 DEF WritesOwn
<3> QED
  BY <2>2, <2>3, <3>1, <3>2 DEF SeesOwn
<2>4. ASSUME NEW r \in Requests, NEW p \in Requests, NEW m \in Maps, Sees(r, m)', Sees(p, m)'
      PROVE  r = p
<3>1. Sees(r, m) \/ (r = q /\ m = FreshMap)
  BY <2>2, <2>4 DEF SeesOwn
<3>2. Sees(p, m) \/ (p = q /\ m = FreshMap)
  BY <2>2, <2>4 DEF SeesOwn
<3> QED
  BY <1>3, <1>4, <2>1, <3>1, <3>2
<2> QED
  BY <2>3, <2>4 DEF Private
<1>6. Private'
  BY <1>2, <1>5 DEF Private
<1>7. Entered'
<2>1. (Guarded' <=> Guarded) /\ options' = options
  BY DEF Guarded
<2> DEFINE Ends(r) == LET m == stack'[Main(r)][1][instance'] IN m \in Maps /\ content'[m]["ctx"] = r
<2>2. SUFFICES ASSUME NEW r \in Requests, phase'[r] = "intercepting", Guarded, ~options.slowGuard
               PROVE  Ends(r)
  BY <2>1 DEF Entered, Main
<2>3. CASE phase[r] = "intercepting" /\ stack'[Main(r)][1][instance'] = stack[Main(r)][1][instance]
<3> DEFINE n == stack[Main(r)][1][instance]
<3>1. n \in Maps /\ content[n]["ctx"] = r /\ n # None
  BY <1>1, <2>2, <2>3, StorageAssumption DEF Entered
<3>2. Main(r) \in Flows /\ Main(r)[1] = r /\ Main(r)[2] = "main"
  BY FlowIs
<3>3. 1 \in DOMAIN stack[Main(r)]
<4>1. Len(stack[Main(r)]) = 1 /\ stack[Main(r)] \in Seq(Contexts)
  BY <1>1, <2>3, <3>2 DEF Nested, TypeOK
<4> QED
  BY <4>1
<3>4. 1 \in Seen(Main(r))
  BY <2>2, <2>3, <3>2, <3>3 DEF Seen
<3>5. Sees(r, n)
  BY <3>1, <3>2, <3>4 DEF Sees
<3>6. Contextualised
  BY <2>2 DEF Contextualised
<3>7. ~(Sees(q, n) /\ phase[q] # "intercepting")
  BY <1>1, <2>3, <3>1, <3>5, <3>6 DEF Private
<3>8. content'[n] = content[n]
  BY <1>4, <3>1, <3>5, <3>7 DEF WritesOwn
<3> QED
  BY <2>3, <3>1, <3>8
<2>4. CASE /\ FreshMap \in Maps /\ stack'[Main(r)][1][instance'] = FreshMap
           /\ content'[FreshMap]["ctx"] = r
  BY <2>4
<2> QED
  BY <2>2, <2>3, <2>4 DEF EntersOwn
<1> QED
  BY <1>6, <1>7

-----------------------------------------------------------------------------
(* How contexts move. *)

\* Every context of a flow was there already, or is the one given to flow f.
Kept(f, context) ==
  \A g \in Flows : \A i \in DOMAIN stack'[g] :
    \/ i \in DOMAIN stack[g] /\ stack'[g][i] = stack[g][i]
    \/ g = f /\ stack'[g][i] = context

LEMMA KeptIs ==
  ASSUME TypeOK, NEW f \in Flows, Live(f), NEW context \in Contexts,
         stack' = Top(f, context) \/ stack' = Push(f, context) \/ stack' = Pop(f)
  PROVE  Kept(f, context)
<1>1. CASE stack' = Top(f, context)
  BY <1>1, TopIs DEF Kept
<1>2. CASE stack' = Push(f, context)
  BY <1>2, PushIs DEF Kept
<1>3. CASE stack' = Pop(f)
  BY <1>3, PopIs DEF Kept
<1> QED
  BY <1>1, <1>2, <1>3

\* The maps a context has: created ones and, it may be, the next.
Available(context, m) == \A s \in Services : context[s] \in 1..created \cup {m, None}

LEMMA LiveAvailable ==
  ASSUME TypeOK, NoneAhead, NEW f \in Flows, Live(f), NEW m
  PROVE  Available(Context(f), m)
<1>1. Len(stack[f]) \in DOMAIN stack[f]
  BY ContextIs
<1> QED
  BY <1>1 DEF NoneAhead, Available, Context

LEMMA WithAvailable ==
  ASSUME TypeOK, NoneAhead, NEW f \in Flows, Live(f), NEW s \in Services, Exists(s),
         NEW m \in Maps \cup {None}
  PROVE  Available(With(f, s, m), m)
<1>1. Available(Context(f), m)
  BY LiveAvailable
<1>2. \A t \in Services : t # used[s] => With(f, s, m)[t] = Context(f)[t]
  BY WithIs
<1>3. With(f, s, m)[used[s]] = m
  BY WithIs
<1> QED
  BY <1>1, <1>2, <1>3 DEF Available

\* The step creates the map that the new context has, or that has none to come.
Creates(m) ==
  \/ m = None /\ created' = created
  \/ m = FreshMap /\ created' = FreshMap

LEMMA KeptAhead ==
  ASSUME TypeOK, NoneAhead, NEW f \in Flows, NEW context \in Contexts, Kept(f, context),
         NEW m, Available(context, m), Creates(m)
  PROVE  NoneAhead'
<1>1. 1..created \subseteq 1..created' /\ m \in 1..created' \cup {None}
  BY FreshIs DEF Creates
<1>2. \A s \in Services : context[s] \in 1..created' \cup {None}
  BY <1>1 DEF Available
<1>3. SUFFICES ASSUME NEW g \in Flows, NEW i \in DOMAIN stack'[g], NEW s \in Services
               PROVE  stack'[g][i][s] \in 1..created' \cup {None}
  BY DEF NoneAhead
<1>4. CASE i \in DOMAIN stack[g] /\ stack'[g][i] = stack[g][i]
  BY <1>1, <1>4 DEF NoneAhead
<1>5. CASE stack'[g][i] = context
  BY <1>2, <1>5
<1> QED
  BY <1>4, <1>5 DEF Kept

\* Code of the application changes what it sees by one context of its own.
LEMMA KeptSees ==
  ASSUME UNCHANGED <<options, instance, phase>>, NEW f \in Flows, NEW context, Kept(f, context),
         NEW m, context[instance] = m, Creates(m)
  PROVE  SeesOwn(f[1])
<1>1. SUFFICES ASSUME NEW p \in Requests, NEW n \in Maps, Sees(p, n)'
               PROVE  Sees(p, n) \/ (p = f[1] /\ n = FreshMap /\ created' = FreshMap)
  BY DEF SeesOwn
<1>2. PICK g \in Flows : \E i \in Seen(g)' : g[1] = p /\ n # None /\ stack'[g][i][instance] = n
  BY <1>1 DEF Sees
<1>3. PICK i \in Seen(g)' : g[1] = p /\ n # None /\ stack'[g][i][instance] = n
  BY <1>2
<1>4. i \in DOMAIN stack'[g] /\ (i \in DOMAIN stack[g] => i \in Seen(g))
  BY <1>3 DEF Seen, Depth, Runs, Intercepted, Guarded
<1>5. CASE i \in DOMAIN stack[g] /\ stack'[g][i] = stack[g][i]
  BY <1>3, <1>4, <1>5 DEF Sees
<1>6. CASE g = f /\ stack'[g][i] = context
  BY <1>3, <1>6 DEF Creates
<1> QED
  BY <1>4, <1>5, <1>6 DEF Kept

\* A step of a request leaves what other flows see as it is.
LEMMA ServeSees ==
  ASSUME TypeOK, NEW r \in Requests, NEW to, UNCHANGED <<options, instance>>,
         phase' = [phase EXCEPT ![r] = to],
         \A g \in Flows : g # Main(r) => stack'[g] = stack[g],
         \A m \in Maps : \A i \in Seen(Main(r))' :
           stack'[Main(r)][i][instance] = m => Sees(r, m) \/ (m = FreshMap /\ created' = FreshMap)
  PROVE  SeesOwn(r)
<1>1. SUFFICES ASSUME NEW p \in Requests, NEW n \in Maps, Sees(p, n)'
               PROVE  Sees(p, n) \/ (p = r /\ n = FreshMap /\ created' = FreshMap)
  BY DEF SeesOwn
<1>2. PICK g \in Flows : \E i \in Seen(g)' : g[1] = p /\ n # None /\ stack'[g][i][instance] = n
  BY <1>1 DEF Sees
<1>3. PICK i \in Seen(g)' : g[1] = p /\ n # None /\ stack'[g][i][instance] = n
  BY <1>2
<1>4. CASE g = Main(r)
<2>1. p = r
  BY <1>3, <1>4, FlowIs
<2> QED
  BY <1>3, <1>4, <2>1
<1>5. CASE g # Main(r)
<2>1. stack'[g] = stack[g]
  BY <1>5
<2>2. g[2] = "main" => phase'[g[1]] = phase[g[1]]
<3>1. g[2] = "main" => g[1] # r /\ g[1] \in Requests
  BY <1>5, FlowIs
<3> QED
  BY <3>1 DEF TypeOK
<2>3. i \in Seen(g)
  BY <1>3, <2>1, <2>2 DEF Seen, Depth, Runs, Intercepted, Guarded
<2> QED
  BY <1>3, <2>1, <2>3 DEF Sees
<1> QED
  BY <1>4, <1>5

\* Code that runs sees its current context.
LEMMA ActiveSees ==
  ASSUME IInv, NEW f \in Flows, Active(f)
  PROVE  /\ Len(stack[f]) \in Seen(f)
         /\ \A m \in Maps : Context(f)[instance] = m => m # None /\ Sees(f[1], m)
<1>1. TypeOK /\ Storages /\ Nested /\ Live(f)
  BY DEF IInv, Active
<1>2. Len(stack[f]) \in DOMAIN stack[f]
  BY <1>1, ContextIs
<1>3. f[2] = "main" => phase[f[1]] = "handling" /\ Len(stack[f]) >= Depth
  BY <1>1, ActiveIs DEF Nested
<1>4. Len(stack[f]) \in Seen(f)
  BY <1>2, <1>3 DEF Seen
<1>5. f[1] \in Requests /\ \A m \in Maps : m # None
  BY FlowIs, StorageAssumption
<1> QED
  BY <1>4, <1>5 DEF Sees, Context

-----------------------------------------------------------------------------
(* What each step touches. *)

Isolates(q) == NoneAhead' /\ (Contextualised => SeesOwn(q)) /\ WritesOwn(q) /\ EntersOwn

\* What awaits a handler is not touched by what runs.
LEMMA FlowEnters ==
  ASSUME IInv, NEW f \in Flows, Active(f), UNCHANGED <<phase, instance>>,
         \A g \in Flows : g # f => stack'[g] = stack[g]
  PROVE  EntersOwn
<1>1. SUFFICES ASSUME NEW r \in Requests, phase[r] = "intercepting"
               PROVE  stack'[Main(r)][1][instance'] = stack[Main(r)][1][instance]
  BY DEF EntersOwn
<1>2. Main(r) # f /\ Main(r) \in Flows
<2>1. Main(r) \in Flows /\ Main(r)[1] = r /\ Main(r)[2] = "main"
  BY FlowIs
<2> QED
  BY <1>1, <2>1 DEF Active
<1> QED
  BY <1>2

LEMMA FlowIsolates ==
  ASSUME IInv, NEW f \in Flows, Active(f), UNCHANGED <<options, instance, phase>>,
         NEW context \in Contexts, NEW m,
         stack' = Top(f, context) \/ stack' = Push(f, context) \/ stack' = Pop(f),
         Available(context, m), context[instance] = m, Creates(m), WritesOwn(f[1])
  PROVE  Isolates(f[1])
<1>1. TypeOK /\ NoneAhead /\ Live(f)
  BY DEF IInv, Active
<1>2. Kept(f, context)
  BY <1>1, KeptIs
<1>3. \A g \in Flows : g # f => stack'[g] = stack[g]
  BY <1>1, TopIs, PushIs, PopIs
<1> QED
  BY <1>1, <1>2, <1>3, KeptAhead, KeptSees, FlowEnters DEF Isolates

\* A step that leaves contexts and maps alone.
LEMMA StillIsolates ==
  ASSUME IInv, NEW q \in Requests, UNCHANGED <<options, instance, phase, stack, created>>, WritesOwn(q)
  PROVE  Isolates(q)
<1>1. NoneAhead'
  BY DEF IInv, NoneAhead
<1>2. SeesOwn(q)
  BY DEF SeesOwn, Sees, Seen, Depth, Runs, Intercepted, Guarded
<1>3. EntersOwn
  BY DEF EntersOwn, Main
<1> QED
  BY <1>1, <1>2, <1>3 DEF Isolates

LEMMA UseIsolates ==
  ASSUME IInv, NEW f \in Flows, NEW s \in Services, Use(f, s)
  PROVE  Isolates(f[1])
<1>1. /\ Active(f) /\ Live(f) /\ used[s] = instance /\ instance \in Services /\ Exists(s)
      /\ UNCHANGED <<options, instance, used, phase, outer>> /\ TypeOK /\ NoneAhead /\ f[1] \in Requests
  BY UseIs, FlowIs, StorageAssumption DEF Exists, IInv
<1>2. CASE /\ UNCHANGED <<stack, created>>
           /\ StoreOf(f, s) \in Maps
           /\ \A m \in Maps : m # StoreOf(f, s) => content'[m] = content[m]
           /\ \A k \in Keys : content'[StoreOf(f, s)][k] \in {content[StoreOf(f, s)][k], f[1], None}
<2> DEFINE n == StoreOf(f, s)
<2>1. n \in Maps /\ Context(f)[instance] = n
  BY <1>1, <1>2 DEF StoreOf
<2>2. Sees(f[1], n)
  BY <1>1, <2>1, ActiveSees
<2>3. phase[f[1]] # "intercepting"
<3>1. Storages
  BY DEF IInv
<3>2. f[2] = "main" => phase[f[1]] = "handling"
  BY <1>1 DEF Active
<3>3. f[2] # "main" => f = <<f[1], "background">>
  BY FlowIs
<3>4. f[2] # "main" => phase[f[1]] \in {"handling", "responding", "done"}
  BY <1>1, <3>1, <3>3 DEF Storages
<3> QED
  BY <3>2, <3>4
<2>4. WritesOwn(f[1])
<3>1. 1..created \subseteq Maps /\ created # FreshMap
  BY <1>1, FreshIs
<3>2. \A m \in 1..created :
        \/ content'[m] = content[m]
        \/ m = n /\ \A k \in Keys : content'[m][k] \in {content[m][k], f[1], None}
  BY <1>2, <3>1
<3> QED
  BY <1>2, <2>2, <2>3, <3>1, <3>2 DEF WritesOwn
<2> QED
  BY <1>1, <1>2, <2>4, StillIsolates
<1>3. CASE /\ NewMap(None)
           /\ stack' = Top(f, With(f, s, FreshMap)) \/ stack' = Push(f, With(f, s, FreshMap))
<2>1. WritesOwn(f[1]) /\ FreshMap \in Maps /\ created' = FreshMap
  BY <1>1, <1>3, NewMapOwn
<2>2. With(f, s, FreshMap) \in Contexts /\ With(f, s, FreshMap)[instance] = FreshMap
  BY <1>1, <2>1, WithIs
<2>3. Available(With(f, s, FreshMap), FreshMap)
  BY <1>1, <2>1, WithAvailable
<2>4. Creates(FreshMap)
  BY <2>1 DEF Creates
<2> QED
  BY <1>1, <1>3, <2>1, <2>2, <2>3, <2>4, FlowIsolates
<1>4. CASE UNCHANGED <<content, created>> /\ stack' = Push(f, With(f, s, None))
<2>1. WritesOwn(f[1])
  BY <1>1, <1>4, NoMapOwn
<2>2. With(f, s, None) \in Contexts /\ With(f, s, None)[instance] = None
  BY <1>1, WithIs
<2>3. Available(With(f, s, None), None)
  BY <1>1, WithAvailable
<2>4. Creates(None)
  BY <1>4 DEF Creates
<2> QED
  BY <1>1, <1>4, <2>1, <2>2, <2>3, <2>4, FlowIsolates
<1> QED
  BY <1>2, <1>3, <1>4, UseIs DEF FreshMap

LEMMA CallbackEndsIsolates ==
  ASSUME IInv, NEW f \in Flows, CallbackEnds(f)
  PROVE  Isolates(f[1])
<1>1. /\ Active(f) /\ UNCHANGED <<options, instance, used, phase, content, created, outer>>
      /\ stack' = Pop(f) /\ TypeOK /\ Storages /\ f[1] \in Requests
  BY FlowIs DEF CallbackEnds, IInv
<1>2. NoContext \in Contexts /\ Available(NoContext, None)
  BY DEF NoContext, Contexts, Available
<1>3. NoContext[instance] = None
<2>1. phase[f[1]] # "new"
  BY <1>1, ActiveIs
<2> QED
  BY <1>1, <2>1, OwnExists DEF NoContext
<1>4. WritesOwn(f[1]) /\ Creates(None)
  BY <1>1, NoMapOwn DEF Creates
<1> QED
  BY <1>1, <1>2, <1>3, <1>4, FlowIsolates

\* A request that starts, or is over, sees nothing.
LEMMA ArriveIsolates ==
  ASSUME IInv, NEW r \in Requests, NEW context \in Contexts, Available(context, None), Arrive(r, context)
  PROVE  Isolates(r)
<1>1. /\ phase[r] = "new" /\ phase' = [phase EXCEPT ![r] = "guarding"]
      /\ stack' = [stack EXCEPT ![Main(r)] = <<context>>]
      /\ UNCHANGED <<options, instance, used, content, created, outer>>
      /\ TypeOK /\ NoneAhead
  BY DEF Arrive, IInv
<1>2. Main(r) \in Flows /\ Main(r)[1] = r /\ Main(r)[2] = "main"
  BY FlowIs
<1>3. stack'[Main(r)] = <<context>> /\ \A g \in Flows : g # Main(r) => stack'[g] = stack[g]
  BY <1>1, <1>2 DEF TypeOK
<1>4. \A p \in Requests : phase'[p] = IF p = r THEN "guarding" ELSE phase[p]
  BY <1>1 DEF TypeOK
<1>5. Kept(Main(r), context)
  BY <1>3 DEF Kept
<1>6. NoneAhead'
<2>1. Creates(None)
  BY <1>1 DEF Creates
<2> QED
  BY <1>1, <1>2, <1>5, <2>1, KeptAhead
<1>7. SeesOwn(r)
<2>1. Seen(Main(r))' = {}
  BY <1>2, <1>4 DEF Seen, Main
<2> QED
  BY <1>1, <1>3, <2>1, ServeSees
<1>8. EntersOwn
<2>1. SUFFICES ASSUME NEW q \in Requests, phase'[q] = "intercepting"
               PROVE  phase[q] = "intercepting" /\ stack'[Main(q)][1][instance'] = stack[Main(q)][1][instance]
  BY DEF EntersOwn
<2>2. q # r /\ phase[q] = "intercepting"
  BY <1>4, <2>1
<2>3. Main(q) \in Flows /\ Main(q) # Main(r)
  BY <2>2 DEF Main, Flows
<2> QED
  BY <1>1, <1>3, <2>2, <2>3
<1> QED
  BY <1>1, <1>6, <1>7, <1>8, NoMapOwn DEF Isolates

LEMMA CanActivateIsolates ==
  ASSUME IInv, NEW r \in Requests, CanActivate(r)
  PROVE  Isolates(r)
<1> DEFINE f == Main(r)
           new == With(f, Own, FreshMap)
<1>1. /\ phase[r] = "guarding" /\ phase' = [phase EXCEPT ![r] = "intercepting"]
      /\ UNCHANGED <<options, instance, used, outer>>
      /\ TypeOK /\ NoneAhead /\ Nested
  BY DEF CanActivate, IInv
<1>2. f \in Flows /\ f[1] = r /\ f[2] = "main" /\ Live(f)
  BY <1>1, FlowIs DEF TypeOK
<1>3. Exists(Own) /\ Own \in Services /\ used[Own] = instance /\ instance \in Services
  BY <1>1, OwnExists
<1>4. Len(stack[f]) = 1 /\ 1 \in DOMAIN stack[f]
  BY <1>1, <1>2, ContextIs DEF Nested
<1>5. \A p \in Requests : phase'[p] = IF p = r THEN "intercepting" ELSE phase[p]
  BY <1>1 DEF TypeOK
<1>6. \A g \in Flows : g # f => stack'[g] = stack[g]
<2>1. CASE stack' = stack
  BY <2>1
<2>2. CASE NewMap(r) /\ stack' = Top(f, new)
<3>1. new \in Contexts
  BY <1>1, <1>2, <1>3, <2>2, NewMapIs, WithIs DEF FreshMap
<3> QED
  BY <1>1, <1>2, <2>2, <3>1, TopIs
<2> QED
  BY <2>1, <2>2 DEF CanActivate
<1>7. \A q \in Requests : phase'[q] = "intercepting" /\ q # r =>
        phase[q] = "intercepting" /\ stack'[Main(q)][1][instance'] = stack[Main(q)][1][instance]
<2>1. SUFFICES ASSUME NEW q \in Requests, phase'[q] = "intercepting", q # r
               PROVE  phase[q] = "intercepting" /\ stack'[Main(q)][1][instance'] = stack[Main(q)][1][instance]
  OBVIOUS
<2>2. Main(q) \in Flows /\ Main(q) # f
  BY <2>1 DEF Main, Flows
<2> QED
  BY <1>1, <1>5, <1>6, <2>1, <2>2
<1>8. CASE Guarded /\ ~options.slowGuard
<2>1. NewMap(r) /\ stack' = Top(f, new)
  BY <1>8 DEF CanActivate
<2>2. /\ WritesOwn(r) /\ FreshMap \in Maps /\ created' = FreshMap /\ content'[FreshMap]["ctx"] = r
      /\ Creates(FreshMap)
  BY <1>1, <2>1, NewMapOwn DEF Creates
<2>3. new \in Contexts /\ new[instance] = FreshMap
  BY <1>1, <1>2, <1>3, <2>2, WithIs
<2>4. Available(new, FreshMap)
  BY <1>1, <1>2, <1>3, <2>2, WithAvailable
<2>5. NoneAhead'
  BY <1>1, <1>2, <2>1, <2>2, <2>3, <2>4, KeptIs, KeptAhead
<2>6. DOMAIN stack'[f] = DOMAIN stack[f] /\ stack'[f][1] = new /\ DOMAIN stack[f] = {1}
<3>1. DOMAIN stack[f] = {1}
  BY <1>1, <1>2, <1>4, ContextIs
<3> QED
  BY <1>1, <1>2, <1>4, <2>1, <2>3, <3>1, TopIs
<2>7. SeesOwn(r)
<3>1. \A i \in Seen(f)' : stack'[f][i][instance] = FreshMap
  BY <2>3, <2>6 DEF Seen, Main
<3> QED
  BY <1>1, <1>6, <2>2, <3>1, ServeSees
<2>8. EntersOwn
  BY <1>1, <1>7, <2>2, <2>3, <2>6 DEF EntersOwn
<2> QED
  BY <2>2, <2>5, <2>7, <2>8 DEF Isolates
<1>9. CASE ~(Guarded /\ ~options.slowGuard)
<2>1. UNCHANGED stack /\ (NewMap(r) \/ UNCHANGED <<content, created>>)
  BY <1>9 DEF CanActivate
<2>2. WritesOwn(r) /\ (created' = created \/ created' = FreshMap)
  BY <1>1, <2>1, NewMapOwn, NoMapOwn
<2>3. NoneAhead'
  BY <1>1, <2>1, <2>2, FreshIs DEF NoneAhead
<2>4. SeesOwn(r)
<3>1. Seen(f)' = {}
  BY <1>1, <1>2, <1>5, <1>9 DEF Seen, Main, Guarded
<3> QED
  BY <1>1, <1>6, <3>1, ServeSees
<2>5. EntersOwn
  BY <1>9 DEF EntersOwn
<2> QED
  BY <2>2, <2>3, <2>4, <2>5 DEF Isolates
<1> QED
  BY <1>8, <1>9

\* What awaits the handlers of other requests is not touched by a step of a request.
LEMMA ServeEnters ==
  ASSUME TypeOK, NEW r \in Requests, NEW to, to # "intercepting", UNCHANGED instance,
         phase' = [phase EXCEPT ![r] = to],
         \A g \in Flows : g # Main(r) => stack'[g] = stack[g]
  PROVE  EntersOwn
<1>1. SUFFICES ASSUME NEW q \in Requests, phase'[q] = "intercepting"
               PROVE  phase[q] = "intercepting" /\ stack'[Main(q)][1][instance'] = stack[Main(q)][1][instance]
  BY DEF EntersOwn
<1>2. q # r /\ phase[q] = "intercepting"
  BY <1>1 DEF TypeOK
<1>3. Main(q) \in Flows /\ Main(q) # Main(r)
  BY <1>2 DEF Main, Flows
<1> QED
  BY <1>2, <1>3

LEMMA InterceptIsolates ==
  ASSUME IInv, NEW r \in Requests, Intercept(r)
  PROVE  Isolates(r)
<1> DEFINE f == Main(r)
           new == With(f, Own, FreshMap)
<1>1. /\ phase[r] = "intercepting" /\ phase' = [phase EXCEPT ![r] = "handling"]
      /\ UNCHANGED <<options, instance, used>>
      /\ TypeOK /\ NoneAhead /\ Nested
  BY DEF Intercept, IInv
<1>2. f \in Flows /\ f[1] = r /\ f[2] = "main" /\ Live(f)
  BY <1>1, FlowIs DEF TypeOK
<1>3. Exists(Own) /\ Own \in Services /\ used[Own] = instance /\ instance \in Services
  BY <1>1, OwnExists
<1>4. Len(stack[f]) = 1 /\ DOMAIN stack[f] = {1}
<2>1. Len(stack[f]) = 1 /\ DOMAIN stack[f] = 1..Len(stack[f])
  BY <1>1, <1>2, ContextIs DEF Nested
<2> QED
  BY <2>1
<1>5. phase'[r] = "handling"
  BY <1>1 DEF TypeOK
<1>6. CASE Runs
<2>1. NewMap(r) /\ stack' = Push(f, new)
  BY <1>6 DEF Intercept, InterceptRunning
<2>2. WritesOwn(r) /\ FreshMap \in Maps /\ created' = FreshMap /\ Creates(FreshMap)
  BY <1>1, <2>1, NewMapOwn DEF Creates
<2>3. new \in Contexts /\ new[instance] = FreshMap
  BY <1>1, <1>2, <1>3, <2>2, WithIs
<2>4. Available(new, FreshMap)
  BY <1>1, <1>2, <1>3, <2>2, WithAvailable
<2>5. NoneAhead'
  BY <1>1, <1>2, <2>1, <2>2, <2>3, <2>4, KeptIs, KeptAhead
<2>6. /\ DOMAIN stack'[f] = {1, 2} /\ stack'[f][2] = new
      /\ \A g \in Flows : g # f => stack'[g] = stack[g]
<3>1. /\ DOMAIN Push(f, new)[f] = DOMAIN stack[f] \cup {Len(stack[f]) + 1}
      /\ Push(f, new)[f][Len(stack[f]) + 1] = new
      /\ \A g \in Flows : g # f => Push(f, new)[g] = stack[g]
  BY <1>1, <1>2, <2>3, PushIs
<3>2. Len(stack[f]) + 1 = 2
  BY <1>4
<3> QED
  BY <1>4, <2>1, <3>1, <3>2
<2>7. SeesOwn(r)
<3>1. Depth' = 2
  BY <1>1, <1>6 DEF Depth, Runs, Intercepted
<3>2. \A i \in Seen(f)' : i \in DOMAIN stack'[f] /\ i >= 2
  BY <1>2, <1>5, <3>1 DEF Seen, Main
<3>3. \A i \in Seen(f)' : i = 2
  BY <2>6, <3>2
<3>4. \A i \in Seen(f)' : stack'[f][i][instance] = FreshMap
  BY <2>3, <2>6, <3>3
<3> QED
  BY <1>1, <2>2, <2>6, <3>4, ServeSees
<2>8. EntersOwn
  BY <1>1, <2>6, ServeEnters
<2> QED
  BY <2>2, <2>5, <2>7, <2>8 DEF Isolates
<1>7. CASE ~Runs
<2>1. UNCHANGED <<stack, content, created>>
  BY <1>7 DEF Intercept
<2>2. NoneAhead'
  BY <1>1, <2>1 DEF NoneAhead
<2>3. ASSUME Contextualised PROVE SeesOwn(r)
<3>1. \A i \in Seen(f)' : i \in Seen(f)
  BY <1>1, <1>2, <1>7, <2>1, <2>3 DEF Seen, Main, Contextualised
<3>2. \A m \in Maps : m # None
  BY StorageAssumption
<3>3. \A m \in Maps : \A i \in Seen(f)' : stack'[f][i][instance] = m => Sees(r, m)
  BY <1>2, <2>1, <3>1, <3>2 DEF Sees
<3> QED
  BY <1>1, <2>1, <3>3, ServeSees
<2>4. EntersOwn
  BY <1>1, <2>1, ServeEnters
<2> QED
  BY <1>1, <2>1, <2>2, <2>3, <2>4, NoMapOwn DEF Isolates
<1> QED
  BY <1>6, <1>7

LEMMA EndsIsolates ==
  ASSUME IInv, NEW r \in Requests, HandlerEnds(r) \/ Respond(r)
  PROVE  Isolates(r)
<1> DEFINE f == Main(r)
<1>1. TypeOK /\ NoneAhead /\ phase[r] \in {"handling", "responding"}
  BY DEF IInv, HandlerEnds, Respond
<1>2. f \in Flows /\ f[1] = r /\ f[2] = "main" /\ Live(f)
  BY <1>1, FlowIs DEF TypeOK
<1>3. PICK to \in {"responding", "done"} :
        phase' = [phase EXCEPT ![r] = to] /\ UNCHANGED <<options, instance, used, content, created>>
  BY DEF HandlerEnds, Respond
<1>4. stack' = stack \/ stack' = Pop(f) \/ stack' = [stack EXCEPT ![f] = <<>>]
  BY DEF HandlerEnds, Respond
<1>5. /\ \A g \in Flows : g # f => stack'[g] = stack[g]
      /\ \A i \in DOMAIN stack'[f] : i \in DOMAIN stack[f] /\ stack'[f][i] = stack[f][i]
<2>1. CASE stack' = stack
  BY <2>1
<2>2. CASE stack' = Pop(f)
  BY <1>1, <1>2, <2>2, PopIs
<2>3. CASE stack' = [stack EXCEPT ![f] = <<>>]
<3>1. stack'[f] = <<>> /\ \A g \in Flows : g # f => stack'[g] = stack[g]
  BY <1>1, <1>2, <2>3 DEF TypeOK
<3>2. DOMAIN stack'[f] = {}
  BY <3>1
<3> QED
  BY <3>1, <3>2
<2> QED
  BY <1>4, <2>1, <2>2, <2>3
<1>6. NoneAhead'
<2>1. \A g \in Flows : \A i \in DOMAIN stack'[g] : i \in DOMAIN stack[g] /\ stack'[g][i] = stack[g][i]
  BY <1>5
<2> QED
  BY <1>1, <1>3, <2>1 DEF NoneAhead
<1>7. SeesOwn(r)
<2>1. phase'[r] = to
  BY <1>1, <1>3 DEF TypeOK
<2>2. Seen(f)' = {}
  BY <1>2, <1>3, <2>1 DEF Seen, Main
<2> QED
  BY <1>1, <1>3, <1>5, <2>2, ServeSees
<1>8. EntersOwn
  BY <1>1, <1>3, <1>5, ServeEnters
<1> QED
  BY <1>1, <1>3, <1>6, <1>7, <1>8, NoMapOwn DEF Isolates

\* What a handler leaves running sees what the handler saw.
LEMMA SpawnIsolates ==
  ASSUME IInv, NEW r \in Requests, Spawn(r)
  PROVE  Isolates(r)
<1> DEFINE f == Main(r)
           b == <<r, "background">>
<1>1. /\ phase[r] = "handling" /\ stack' = [stack EXCEPT ![b] = <<Context(f)>>]
      /\ UNCHANGED <<options, instance, used, phase, content, created, outer>>
      /\ TypeOK /\ NoneAhead
  BY DEF Spawn, IInv
<1>2. f \in Flows /\ f[1] = r /\ Active(f) /\ Live(f)
  BY <1>1, FlowIs DEF TypeOK, Active
<1>3. b \in Flows /\ b[1] = r
  BY FlowIs
<1>4. stack'[b] = <<Context(f)>> /\ \A g \in Flows : g # b => stack'[g] = stack[g]
  BY <1>1, <1>3 DEF TypeOK
<1>5. Kept(b, Context(f)) /\ Context(f) \in Contexts
  BY <1>1, <1>2, <1>4, ContextIs DEF Kept
<1>6. Available(Context(f), None) /\ Creates(None)
  BY <1>1, <1>2, LiveAvailable DEF Creates
<1>7. NoneAhead'
  BY <1>1, <1>3, <1>5, <1>6, KeptAhead
<1>8. SeesOwn(r)
<2>1. SUFFICES ASSUME NEW p \in Requests, NEW m \in Maps, Sees(p, m)' PROVE Sees(p, m)
  BY DEF SeesOwn
<2>2. PICK g \in Flows : \E i \in Seen(g)' : g[1] = p /\ m # None /\ stack'[g][i][instance] = m
  BY <1>1, <2>1 DEF Sees
<2>3. PICK i \in Seen(g)' : g[1] = p /\ m # None /\ stack'[g][i][instance] = m
  BY <2>2
<2>4. CASE g = b
<3>1. stack'[g][i] = Context(f) /\ p = r
<4>1. i \in DOMAIN <<Context(f)>>
  BY <1>4, <2>3, <2>4 DEF Seen
<4> QED
  BY <1>3, <1>4, <2>3, <2>4, <4>1
<3> QED
  BY <1>2, <2>3, <3>1, ActiveSees
<2>5. CASE g # b
<3>1. i \in Seen(g) /\ stack'[g] = stack[g]
  BY <1>1, <1>4, <2>3, <2>5 DEF Seen, Depth, Runs, Intercepted, Guarded
<3> QED
  BY <2>3, <3>1 DEF Sees
<2> QED
  BY <2>4, <2>5
<1>9. EntersOwn
<2>1. \A q \in Requests : Main(q) # b /\ Main(q) \in Flows
  BY DEF Main, Flows
<2> QED
  BY <1>1, <1>4, <2>1 DEF EntersOwn, Main
<1> QED
  BY <1>1, <1>7, <1>8, <1>9, NoMapOwn DEF Isolates

LEMMA ServeIsolates ==
  ASSUME IInv, NEW r \in Requests, Serve(r)
  PROVE  Isolates(r)
<1>1. TypeOK /\ NoneAhead
  BY DEF IInv
<1>2. CASE Arrive(r, NoContext)
<2>1. NoContext \in Contexts /\ Available(NoContext, None)
  BY DEF NoContext, Contexts, Available
<2> QED
  BY <1>2, <2>1, ArriveIsolates
<1>3. ASSUME NEW f \in Flows, Active(f), Arrive(r, Context(f)) PROVE Isolates(r)
<2>1. Context(f) \in Contexts /\ Available(Context(f), None)
  BY <1>1, <1>3, ContextIs, LiveAvailable DEF Active
<2> QED
  BY <1>3, <2>1, ArriveIsolates
<1> QED
  BY <1>2, <1>3, CanActivateIsolates, InterceptIsolates, EndsIsolates, SpawnIsolates DEF Serve

\* Before the first service nothing runs: after it the storage stays.
LEMMA CreateServiceIsolates ==
  ASSUME IInv, NEW s \in Services, CreateService(s)
  PROVE  NoneAhead' /\ Private' /\ Entered'
<1>1. /\ UNCHANGED <<options, phase, stack, content, created, outer>>
      /\ TypeOK /\ Storages /\ NoneAhead /\ Private /\ Entered
  BY DEF CreateService, IInv
<1>2. instance = None => \A f \in Flows : ~Live(f)
<2>1. SUFFICES ASSUME instance = None, NEW f \in Flows, Live(f) PROVE FALSE
  OBVIOUS
<2>2. f[1] \in Requests /\ (f[2] = "main" => f = Main(f[1])) /\ (f[2] # "main" => f = <<f[1], "background">>)
  BY FlowIs
<2>3. phase[f[1]] # "new"
<3>1. CASE f[2] = "main"
  BY <1>1, <2>1, <2>2, <3>1 DEF TypeOK
<3>2. CASE f[2] # "main"
  BY <1>1, <2>1, <2>2, <3>2 DEF Storages
<3> QED
  BY <3>1, <3>2
<2> QED
  BY <2>1, <2>2, <2>3, OwnExists DEF Exists
<1>3. instance # None => instance' = instance
  BY DEF CreateService, FirstInstance
<1>4. NoneAhead'
  BY <1>1 DEF NoneAhead
<1>5. \A f \in Flows : Seen(f)' = Seen(f) /\ stack'[f] = stack[f]
  BY <1>1 DEF Seen, Depth, Runs, Intercepted, Guarded
<1>6. CASE instance # None
<2>1. \A p \in Requests, m \in Maps : Sees(p, m)' => Sees(p, m)
  BY <1>3, <1>5, <1>6 DEF Sees
<2>2. Private'
  BY <1>1, <2>1 DEF Private, Contextualised, Runs, Guarded, Intercepted
<2>3. Entered'
  BY <1>1, <1>3, <1>6 DEF Entered, Guarded, Main
<2> QED
  BY <1>4, <2>2, <2>3
<1>7. CASE instance = None
<2>1. \A f \in Flows : Seen(f)' = {}
<3>1. \A f \in Flows : stack[f] = <<>>
  BY <1>2, <1>7 DEF Live
<3>2. \A f \in Flows : DOMAIN stack[f] = {}
  BY <3>1
<3> QED
  BY <1>1, <3>2 DEF Seen
<2>2. \A p \in Requests, m \in Maps : ~Sees(p, m)'
  BY <2>1 DEF Sees
<2>3. Private'
  BY <2>2 DEF Private
<2>4. \A r \in Requests : phase[r] # "intercepting"
  BY <1>1, <1>2, <1>7, FlowIs DEF TypeOK
<2>5. Entered'
  BY <1>1, <2>4 DEF Entered
<2> QED
  BY <1>4, <2>3, <2>5
<1> QED
  BY <1>6, <1>7

-----------------------------------------------------------------------------
LEMMA InvInit == Init => IInv
<1> SUFFICES ASSUME Init PROVE IInv
  OBVIOUS
<1>1. TypeOK /\ Storages /\ Nested
  BY ShapeInit DEF Shape
<1>2. \A f \in Flows : stack[f] = <<>>
  BY DEF Init
<1>3. \A f \in Flows : DOMAIN stack[f] = {}
  BY <1>2
<1>4. NoneAhead
  BY <1>3 DEF NoneAhead
<1>5. \A r \in Requests, m \in Maps : ~Sees(r, m)
  BY <1>3 DEF Sees, Seen
<1>6. Private
  BY <1>5 DEF Private
<1>7. Entered
  BY DEF Init, Entered
<1> QED
  BY <1>1, <1>4, <1>6, <1>7 DEF IInv

LEMMA InvNext == IInv /\ [Next]_vars => IInv'
<1> SUFFICES ASSUME IInv, [Next]_vars PROVE IInv'
  OBVIOUS
<1>1. TypeOK' /\ Storages' /\ Nested'
  BY ShapeNext DEF Shape
<1>2. ASSUME NEW q \in Requests, UNCHANGED options, Isolates(q)
      PROVE  NoneAhead' /\ Private' /\ Entered'
  BY <1>2, StepIsolates DEF Isolates
<1>3. ASSUME NEW s \in Services, CreateService(s) PROVE NoneAhead' /\ Private' /\ Entered'
  BY <1>3, CreateServiceIsolates
<1>4. ASSUME NEW f \in Flows, NEW s \in Services, Use(f, s) PROVE NoneAhead' /\ Private' /\ Entered'
  BY <1>2, <1>4, UseIs, UseIsolates, FlowIs
<1>5. ASSUME NEW r \in Requests, Serve(r) PROVE NoneAhead' /\ Private' /\ Entered'
<2>1. UNCHANGED options
  BY <1>5 DEF Serve, Arrive, CanActivate, Intercept, HandlerEnds, Respond, Spawn
<2> QED
  BY <1>2, <1>5, <2>1, ServeIsolates
<1>6. ASSUME NEW f \in Flows, CallbackEnds(f) PROVE NoneAhead' /\ Private' /\ Entered'
<2>1. UNCHANGED options
  BY <1>6 DEF CallbackEnds
<2> QED
  BY <1>2, <1>6, <2>1, CallbackEndsIsolates, FlowIs
<1>7. ASSUME UNCHANGED vars PROVE NoneAhead' /\ Private' /\ Entered'
<2>1. NoneAhead /\ Private /\ Entered
  BY DEF IInv
<2>2. NoneAhead'
  BY <1>7, <2>1 DEF NoneAhead, vars
<2>3. Private'
  BY <1>7, <2>1 DEF Private, Sees, Seen, Contextualised, Runs, Guarded, Intercepted, Depth, vars
<2>4. Entered'
  BY <1>7, <2>1 DEF Entered, Guarded, Main, vars
<2> QED
  BY <2>2, <2>3, <2>4
<1>8. NoneAhead' /\ Private' /\ Entered'
  BY <1>3, <1>4, <1>5, <1>6, <1>7 DEF Next
<1> QED
  BY <1>1, <1>8 DEF IInv

LEMMA InvCorrect == Spec => []IInv
  BY InvInit, InvNext, PTL DEF Spec

\* The types of the variables; a request has a context exactly while it is under way.
THEOREM TypeCorrect == Spec => []TypeOK
<1>1. IInv => TypeOK
  BY DEF IInv
<1> QED
  BY <1>1, InvCorrect, PTL

\* No call reads what another request wrote: what code of a request may see, in
\* its flows now or when a callback of its own returns, is its own or nobody's.
THEOREM IsolatedCorrect == Spec => []Isolated
<1>1. IInv => Isolated
<2>1. SUFFICES ASSUME IInv, Contextualised, NEW f \in Flows, NEW s \in Services, NEW k \in Keys,
                      Active(f), Exists(s)
               PROVE  Value(f, s, k) \in {f[1], None}
  BY DEF Isolated
<2>2. TypeOK /\ Storages /\ Private /\ Live(f) /\ f[1] \in Requests
  BY <2>1, FlowIs DEF IInv, Active
<2>3. used[s] = instance
  BY <2>1, <2>2 DEF Storages, Exists
<2>4. StoreOf(f, s) \in Maps \cup {None} /\ StoreOf(f, s) = Context(f)[instance]
  BY <2>1, <2>2, <2>3, ContextIs DEF StoreOf
<2>5. CASE StoreOf(f, s) = None
  BY <2>5 DEF Value
<2>6. CASE StoreOf(f, s) \in Maps /\ StoreOf(f, s) # None
<3>1. Sees(f[1], StoreOf(f, s))
  BY <2>1, <2>4, <2>6, ActiveSees
<3> QED
  BY <2>1, <2>2, <2>6, <3>1 DEF Value, Private
<2> QED
  BY <2>4, <2>5, <2>6
<1> QED
  BY <1>1, InvCorrect, PTL

\* However deep the handler nested its contexts, when it has ended an interceptor that
\* ran it, without a guard before it, leaves the request in the context it came with.
THEOREM RestoresCorrect == Spec => []InterceptorRestores
<1>1. IInv => InterceptorRestores
<2>1. SUFFICES ASSUME IInv, Runs, ~Guarded, NEW r \in Requests, phase[r] = "responding"
               PROVE  Context(Main(r)) = outer[r]
  BY DEF InterceptorRestores
<2>2. Len(stack[Main(r)]) = 1 /\ stack[Main(r)][1] = outer[r]
  BY <2>1 DEF IInv, Nested
<2> QED
  BY <2>2 DEF Context
<1> QED
  BY <1>1, InvCorrect, PTL

\* The handler of every request starts with its own request context, through whichever
\* service it asks.
THEOREM HandlerStartsCorrect == Spec => HandlerStartsInContext
<1>1. IInv /\ [Next]_vars =>
     [\A r \in Requests, s \in Services :
       phase[r] = "intercepting" /\ phase'[r] = "handling" /\ Contextualised /\ Exists(s)
         => Value(Main(r), s, "ctx")' = r]_vars
<2>1. SUFFICES ASSUME IInv, [Next]_vars, NEW r \in Requests, NEW s \in Services,
                      phase[r] = "intercepting", phase'[r] = "handling", Contextualised, Exists(s)
               PROVE  Value(Main(r), s, "ctx")' = r
  OBVIOUS
<2> DEFINE f == Main(r)
           new == With(f, Own, FreshMap)
<2>2. TypeOK /\ Nested /\ Entered /\ Storages
  BY <2>1 DEF IInv
<2>3. Intercept(r)
<3>1. ASSUME NEW q \in Requests, Serve(q) PROVE Intercept(r)
<4>1. CASE \E context : Arrive(q, context)
  BY <2>1, <2>2, <4>1 DEF Arrive, TypeOK
<4>2. CASE CanActivate(q)
  BY <2>1, <2>2, <4>2 DEF CanActivate, TypeOK
<4>3. CASE Intercept(q)
  BY <2>1, <2>2, <4>3 DEF Intercept, TypeOK
<4>4. CASE HandlerEnds(q)
  BY <2>1, <2>2, <4>4 DEF HandlerEnds, TypeOK
<4>5. CASE Respond(q)
  BY <2>1, <2>2, <4>5 DEF Respond, TypeOK
<4>6. CASE Spawn(q)
  BY <2>1, <4>6 DEF Spawn
<4> QED
  BY <3>1, <4>1, <4>2, <4>3, <4>4, <4>5, <4>6 DEF Serve
<3>2. ASSUME NEW g \in Flows, NEW t \in Services, Use(g, t) PROVE FALSE
  BY <2>1, <3>2, UseIs
<3>3. ASSUME NEW t \in Services, CreateService(t) PROVE FALSE
  BY <2>1, <3>3 DEF CreateService
<3>4. ASSUME NEW g \in Flows, CallbackEnds(g) PROVE FALSE
  BY <2>1, <3>4 DEF CallbackEnds
<3>5. CASE UNCHANGED vars
  BY <2>1, <3>5 DEF vars
<3> QED
  BY <2>1, <3>1, <3>2, <3>3, <3>4, <3>5 DEF Next
<2>4. f \in Flows /\ Live(f)
  BY <2>1, <2>2, FlowIs DEF TypeOK
<2>5. /\ Exists(Own) /\ Own \in Services /\ used[Own] = instance /\ instance \in Services
      /\ used[s] = instance /\ UNCHANGED used
  BY <2>1, <2>2, <2>3, OwnExists DEF Storages, Exists, Intercept
<2>6. Len(stack[f]) = 1
  BY <2>1, <2>2 DEF Nested
<2>7. LET m == stack'[f][Len(stack'[f])][instance] IN m # None /\ content'[m]["ctx"] = r
<3>1. CASE Runs
<4>1. NewMap(r) /\ stack' = Push(f, new)
  BY <2>3, <3>1 DEF Intercept, InterceptRunning
<4>2. FreshMap \in Maps /\ content'[FreshMap]["ctx"] = r
  BY <2>2, <4>1, NewMapOwn
<4>3. new \in Contexts /\ new[instance] = FreshMap
  BY <2>2, <2>4, <2>5, <4>2, WithIs
<4>4. stack'[f][Len(stack'[f])] = new
<5>1. Len(Push(f, new)[f]) = Len(stack[f]) + 1 /\ Push(f, new)[f][Len(stack[f]) + 1] = new
  BY <2>2, <2>4, <4>3, PushIs
<5> QED
  BY <4>1, <5>1
<4> QED
  BY <4>2, <4>3, <4>4, StorageAssumption
<3>2. CASE ~Runs
<4>1. Guarded /\ ~options.slowGuard /\ UNCHANGED <<stack, content>>
  BY <2>1, <2>3, <3>2 DEF Contextualised, Intercept
<4>2. stack[f][1][instance] \in Maps /\ content[stack[f][1][instance]]["ctx"] = r
  BY <2>1, <2>2, <4>1 DEF Entered
<4> QED
  BY <2>6, <4>1, <4>2, StorageAssumption
<3> QED
  BY <3>1, <3>2
<2> QED
  BY <2>5, <2>7 DEF Value, StoreOf, Context, Main
<1> QED
  BY <1>1, InvCorrect, PTL DEF Spec, HandlerStartsInContext

=============================================================================
