--------------------------- MODULE AsyncLocalStorage ---------------------------
(***************************************************************************)
(* The stores that concurrent requests see through AsyncLocalStorageService *)
(* under AsyncLocalStorageGuard and AsyncLocalStorageInterceptor.  A flow    *)
(* is a chain of asynchronous continuations: the one that handles a request, *)
(* and one that it started in the background and nobody awaits.  A new flow  *)
(* inherits the context it was started in: requests too may be started by a  *)
(* flow, as calls within the process are.                                    *)
(*                                                                           *)
(* External, modelled from their use: the AsyncLocalStorage of Node.js       *)
(* (enterWith replaces the store for the rest of the flow, run and exit      *)
(* replace it for their callback only) and the order guard, interceptor,     *)
(* handler, response of NestJS.                                              *)
(***************************************************************************)
EXTENDS Naturals, Sequences

CONSTANTS
  Requests,
  Services,   \* instances of the service, each given a storage of its own name
  Own,        \* the service injected into the guard and the interceptor
  Keys,       \* properties of a map, among them REQUEST_CONTEXT_KEY
  Options,    \* configurations: a set of option records
  None,       \* no storage, no store, no value
  MaxMaps,    \* bound: maps created
  MaxDepth    \* bound: nested calls of run() and exit()

OptionRecords ==
  [useGuard : BOOLEAN, useInterceptor : BOOLEAN,   \* options of forRoot
   appGuard : BOOLEAN, appInterceptor : BOOLEAN,   \* registered by the application
   slowGuard : BOOLEAN]                            \* an asynchronous guard runs before

\* forRoot() refuses to register both, and registers the interceptor with the guard.
ForRootAccepts(o) == ~(o.useGuard /\ o.useInterceptor)

Maps  == 1..MaxMaps
Flows == Requests \X {"main", "background"}

ASSUME StorageAssumption ==
  /\ MaxMaps \in Nat /\ MaxDepth \in Nat \ {0, 1}   \* the interceptor nests two contexts
  /\ Own \in Services /\ "ctx" \in Keys /\ None \notin Services \cup Requests \cup Maps
  /\ \A o \in Options : o \in OptionRecords /\ ForRootAccepts(o)

VARIABLES
  options,
  instance,   \* AsyncLocalStorageService._instance: a storage
  used,       \* this.instance of each service: a storage, or None before it exists
  phase,      \* where each request is
  stack,      \* per flow, its context and those that run() or exit() will restore
  content,    \* content of each map: which request wrote the value of each key
  created,    \* number of maps created
  outer       \* history: the context in which each request was intercepted

vars == <<options, instance, used, phase, stack, content, created, outer>>

Contexts == [Services -> Maps \cup {None}]   \* per storage, its store
NoContext == [s \in Services |-> None]
Blank == [k \in Keys |-> None]
Exists(s) == used[s] # None
Main(r) == <<r, "main">>
Live(f) == stack[f] # <<>>
Context(f) == stack[f][Len(stack[f])]
StoreOf(f, s) == Context(f)[used[s]]   \* service.store
Value(f, s, k) == IF StoreOf(f, s) = None THEN None ELSE content[StoreOf(f, s)][k]

TypeOK ==
  /\ options \in Options
  /\ instance \in Services \cup {None} /\ used \in [Services -> Services \cup {None}]
  /\ phase \in [Requests -> {"new", "guarding", "intercepting", "handling", "responding", "done"}]
  /\ stack \in [Flows -> Seq(Contexts)] /\ \A f \in Flows : Len(stack[f]) <= MaxDepth
  /\ \A r \in Requests : Live(Main(r)) <=> phase[r] \notin {"new", "done"}
  /\ content \in [Maps -> [Keys -> Requests \cup {None}]]
  /\ created \in 0..MaxMaps
  /\ outer \in [Requests -> Contexts]

Init ==
  /\ options \in Options
  /\ instance = None /\ used = [s \in Services |-> None]
  /\ phase = [r \in Requests |-> "new"]
  /\ stack = [f \in Flows |-> <<>>]
  /\ content = [m \in Maps |-> Blank] /\ created = 0
  /\ outer = [r \in Requests |-> NoContext]

-----------------------------------------------------------------------------
(* Contexts. *)

Top(f, context)  == [stack EXCEPT ![f][Len(stack[f])] = context]
Push(f, context) == [stack EXCEPT ![f] = Append(@, context)]
Pop(f)           == [stack EXCEPT ![f] = SubSeq(@, 1, Len(@) - 1)]
With(f, s, m)    == [Context(f) EXCEPT ![used[s]] = m]

\* Faulty variant: the default argument of enterWith() is one map for all.
SharedMap == 1

\* new Map(), evaluated at each call.
FreshMap == created + 1

\* A map created for a request (None: by the application), with its request context.
NewMap(r) ==
  /\ FreshMap \in Maps
  /\ created' = created + 1
  /\ content' = [content EXCEPT ![FreshMap] = [Blank EXCEPT !["ctx"] = r]]

\* Faulty variant: each service keeps the storage it was given.
OwnInstance(s) == s

\* The constructor: the first storage is the one of all services.
FirstInstance(s) == IF instance = None THEN s ELSE instance

CreateService(s) ==
  /\ ~Exists(s)
  /\ instance' = FirstInstance(s)
  /\ used' = [used EXCEPT ![s] = FirstInstance(s)]
  /\ UNCHANGED <<options, phase, stack, content, created, outer>>

-----------------------------------------------------------------------------
(* A request. *)

Guarded == options.useGuard \/ options.appGuard
Intercepted == options.useGuard \/ options.useInterceptor \/ options.appInterceptor

\* The interceptor's mode is Guard if and only if useGuard is set: not, as the comment in its
\* file has it, by default and whenever the guard is used (InterceptorExits).
Runs == Intercepted /\ ~options.useGuard

\* External: a request arrives from outside, or is made by a flow of this process.
Arrive(r, context) ==
  /\ phase[r] = "new" /\ Exists(Own)
  /\ phase' = [phase EXCEPT ![r] = "guarding"]
  /\ stack' = [stack EXCEPT ![Main(r)] = <<context>>]
  /\ UNCHANGED <<options, instance, used, content, created, outer>>

\* canActivate(): enters a new map and sets the request context.  After another
\* guard that was awaited this is the context of what is left of the guards' own
\* continuation, and the continuation that awaits them does not see it.
CanActivate(r) ==
  /\ phase[r] = "guarding"
  /\ phase' = [phase EXCEPT ![r] = "intercepting"]
  /\ IF ~Guarded THEN UNCHANGED <<stack, content, created>>
     ELSE /\ NewMap(r)
          /\ stack' = IF options.slowGuard THEN stack
                      ELSE Top(Main(r), With(Main(r), Own, FreshMap))
  /\ UNCHANGED <<options, instance, used, outer>>

\* Faulty variant: the interceptor enters the new map instead of running in it.
InterceptEntering(r, context) == Top(Main(r), context)

InterceptRunning(r, context) == Push(Main(r), context)

\* intercept() up to next.handle().  In Guard mode nothing is done yet.
Intercept(r) ==
  /\ phase[r] = "intercepting"
  /\ phase' = [phase EXCEPT ![r] = "handling"]
  /\ outer' = [outer EXCEPT ![r] = Context(Main(r))]
  /\ IF ~Runs THEN UNCHANGED <<stack, content, created>>
     ELSE NewMap(r) /\ stack' = InterceptRunning(r, With(Main(r), Own, FreshMap))
  /\ UNCHANGED <<options, instance, used>>

\* What run() and exit() of the handler itself will have restored when it ends.
Depth == IF Runs THEN 2 ELSE 1

\* The handler settles, with a value, an error, or nothing at all (which
\* lastValueFrom makes an error), and so does run().  In Guard mode exit() calls a
\* function that does nothing, outside the store, and then restores the store.
HandlerEnds(r) ==
  /\ phase[r] = "handling" /\ Len(stack[Main(r)]) <= Depth
  /\ phase' = [phase EXCEPT ![r] = "responding"]
  /\ stack' = IF Len(stack[Main(r)]) = 2 THEN Pop(Main(r)) ELSE stack
  /\ UNCHANGED <<options, instance, used, content, created, outer>>

\* External: exception filters have run and the response is sent.
Respond(r) ==
  /\ phase[r] = "responding"
  /\ phase' = [phase EXCEPT ![r] = "done"]
  /\ stack' = [stack EXCEPT ![Main(r)] = <<>>]
  /\ outer' = [outer EXCEPT ![r] = NoContext]
  /\ UNCHANGED <<options, instance, used, content, created>>

\* The handler starts something it does not wait for.
Spawn(r) ==
  /\ phase[r] = "handling" /\ ~Live(<<r, "background">>)
  /\ stack' = [stack EXCEPT ![<<r, "background">>] = <<Context(Main(r))>>]
  /\ UNCHANGED <<options, instance, used, phase, content, created, outer>>

-----------------------------------------------------------------------------
(* What the code of the application does with a service in one of its flows. *)

Active(f) == Live(f) /\ (f[2] = "main" => phase[f[1]] = "handling")

\* The Map methods.  Without a store those of an instance throw, and the static
\* ones do nothing.
Update(f, s, map) ==
  /\ Active(f) /\ Exists(s) /\ StoreOf(f, s) # None
  /\ content' = [content EXCEPT ![StoreOf(f, s)] = map]
  /\ UNCHANGED <<options, instance, used, phase, stack, created, outer>>

Set(f, s, k)    == Update(f, s, [content[StoreOf(f, s)] EXCEPT ![k] = f[1]])
Remove(f, s, k) == Update(f, s, [content[StoreOf(f, s)] EXCEPT ![k] = None])
Clear(f, s)     == Update(f, s, Blank)

EnterWith(f, s) ==
  /\ Active(f) /\ Exists(s) /\ NewMap(None)
  /\ stack' = Top(f, With(f, s, FreshMap))
  /\ UNCHANGED <<options, instance, used, phase, outer>>

\* run(new Map(), callback) and exit(callback) begin, and their callback ends.
Run(f, s) ==
  /\ Active(f) /\ Exists(s) /\ Len(stack[f]) < MaxDepth /\ NewMap(None)
  /\ stack' = Push(f, With(f, s, FreshMap))
  /\ UNCHANGED <<options, instance, used, phase, outer>>

Exit(f, s) ==
  /\ Active(f) /\ Exists(s) /\ Len(stack[f]) < MaxDepth
  /\ stack' = Push(f, With(f, s, None))
  /\ UNCHANGED <<options, instance, used, phase, content, created, outer>>

CallbackEnds(f) ==
  /\ Active(f) /\ Len(stack[f]) > IF f[2] = "main" THEN Depth ELSE 1
  /\ stack' = Pop(f)
  /\ UNCHANGED <<options, instance, used, phase, content, created, outer>>

-----------------------------------------------------------------------------
Serve(r) ==
  \/ Arrive(r, NoContext) \/ \E f \in Flows : Active(f) /\ Arrive(r, Context(f))
  \/ CanActivate(r) \/ Intercept(r) \/ HandlerEnds(r) \/ Respond(r) \/ Spawn(r)

Use(f, s) ==
  \/ \E k \in Keys : Set(f, s, k) \/ Remove(f, s, k)
  \/ Clear(f, s) \/ EnterWith(f, s) \/ Run(f, s) \/ Exit(f, s)

Next ==
  \/ \E s \in Services : CreateService(s) \/ \E f \in Flows : Use(f, s)
  \/ \E r \in Requests : Serve(r)
  \/ \E f \in Flows : CallbackEnds(f)

Spec == Init /\ [][Next]_vars

-----------------------------------------------------------------------------
(* Properties. *)

\* The configuration gives every request a context its handler can see.
Contextualised == Runs \/ (Guarded /\ ~options.slowGuard)

\* A handler starts with the request context of its own request, through any
\* service and the static methods, whoever made the request and in whatever order
\* services, guards and interceptors came.
HandlerStartsInContext ==
  [][\A r \in Requests, s \in Services :
       phase[r] = "intercepting" /\ phase'[r] = "handling" /\ Contextualised /\ Exists(s)
         => Value(Main(r), s, "ctx")' = r]_vars

\* Handlers and what they left running in the background never read what another
\* request wrote, not even that of a request that made theirs.
Isolated ==
  Contextualised =>
    \A f \in Flows, s \in Services, k \in Keys :
      Active(f) /\ Exists(s) => Value(f, s, k) \in {f[1], None}

\* Whatever a handler entered or left behind, after an interceptor that runs it the
\* request is back in the context it was intercepted in, however the handler ended.
\* (For requests with a guard, InterceptorExits says what is promised.)
InterceptorRestores ==
  Runs /\ ~Guarded => \A r \in Requests : phase[r] = "responding" => Context(Main(r)) = outer[r]

\* What the comment of the interceptor's file says of it ("The Guard mode is used when the
\* AsyncLocalStorageGuard is used", and then the interceptor "is used to exit the
\* AsyncLocalStorageService"): after the handler of a guarded request there is no store.
InterceptorExits ==
  Guarded /\ Intercepted =>
    \A r \in Requests : phase[r] = "responding" => StoreOf(Main(r), Own) = None
=============================================================================
