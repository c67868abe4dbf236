--------------------------- MODULE ClusterService ---------------------------
(***************************************************************************)
(* The primary process of cluster.service.ts: clusterize() forks a number  *)
(* of workers one by one, revive() replaces a worker whose channel to the  *)
(* primary closed, shutdown() signals the workers and forceKill() ends     *)
(* them and the primary after a grace period.  node:cluster, the operating *)
(* system and the workers are external: they are modelled from how the     *)
(* service uses them.  Left out: the events emitted to the application,    *)
(* the messages between a worker and the primary, and the wording of logs. *)
(*                                                                         *)
(* The primary learns of the end of a worker through two events that come  *)
(* in either order, "disconnect" (the channel closed) and "exit" (the      *)
(* process ended); node:cluster takes a worker out of cluster.workers when *)
(* it has seen both, or as soon as the primary asks it to disconnect.      *)
(***************************************************************************)
EXTENDS Integers, FiniteSets

CONSTANTS
  Options,     \* the configurations checked, a set of option records
  MaxCount,    \* bound: the largest workersCount among them
  MaxFaults,   \* bound: workers that end, or are told to, outside a shutdown
  MaxSignals   \* bound: how often the handler of shutdown() is called

OptionRecords ==
  [count : 0..MaxCount,   \* workersCount
   restart : BOOLEAN,     \* restartOnExit
   mortal : BOOLEAN,      \* the lifetime is finite
   stubborn : BOOLEAN]    \* workers trap the signals and go on

ASSUME ClusterAssumption ==
  /\ MaxCount \in Nat /\ MaxFaults \in Nat /\ MaxSignals \in Nat
  /\ Options \subseteq OptionRecords

VARIABLES
  options,     \* the configuration, fixed at construction
  primary,     \* where clusterize() is, or "exited" once process.exit ran
  running,     \* running
  expired,     \* Date.now() >= this.reviveUntil
  started,     \* the i of fork()
  timers,      \* pending calls of forceKill, by their killProcess
  forks,       \* cluster: workers forked so far; the next has id forks + 1
  registered,  \* cluster.workers
  seen,        \* cluster: which events of the end of each worker were handled
  leaving,     \* pending timeouts of disconnect(workerId)
  released,    \* cluster: workers the primary asked to disconnect
  process,     \* the process of each worker
  closed,      \* workers whose channel to the primary is closed
  graceful,    \* workers that do not exit when that channel closes
  signalled,   \* workers that were sent a signal
  faults, signals  \* counters of the bounds

service == <<options, primary, running, expired, started, timers, leaving>>
node    == <<forks, registered, seen, released>>
workers == <<process, closed, graceful, signalled>>
counts  == <<faults, signals>>
vars    == <<service, node, workers, counts>>

Workers == 1..MaxCount + MaxFaults
Events  == {"exit", "disconnect"}
Alive(w) == process[w] \in {"starting", "online"}

TypeOK ==
  /\ options \in Options
  /\ primary \in {"new", "preparing", "forking", "ready", "failed", "exited"}
  /\ running \in BOOLEAN /\ expired \in BOOLEAN
  /\ started \in 0..options.count
  /\ timers \in [BOOLEAN -> 0..MaxSignals]
  /\ forks \in 0..MaxCount + MaxFaults
  /\ seen \in [Workers -> SUBSET Events]
  /\ process \in [Workers -> {"none", "starting", "online", "ended"}]
  /\ \A w \in Workers : process[w] = "none" <=> w > forks
  /\ registered \cup closed \cup graceful \cup signalled \cup leaving \subseteq 1..forks
  /\ released \subseteq graceful \ registered
  /\ faults \in 0..MaxFaults /\ signals \in 0..MaxSignals

Init ==
  /\ options \in Options
  /\ primary = "new" /\ running = FALSE /\ expired = FALSE /\ started = 0
  /\ timers = [k \in BOOLEAN |-> 0]
  /\ forks = 0 /\ registered = {} /\ released = {} /\ leaving = {}
  /\ seen = [w \in Workers |-> {}]
  /\ process = [w \in Workers |-> "none"]
  /\ closed = {} /\ graceful = {} /\ signalled = {}
  /\ faults = 0 /\ signals = 0

-----------------------------------------------------------------------------
(***************************************************************************)
(* Starting.                                                               *)
(***************************************************************************)

\* cluster.fork(): the next worker, next to those in others.
Fork(others) ==
  /\ forks' = forks + 1
  /\ registered' = others \cup {forks'}
  /\ process' = [process EXCEPT ![forks'] = "starting"]

Clusterize ==
  /\ primary = "new"
  /\ primary' = "preparing" /\ running' = TRUE
  /\ UNCHANGED <<options, expired, started, timers, leaving, node, workers, counts>>

\* The promise of primaryFn settles; without workers to fork, so does fork().
PrimaryFnEnds ==
  /\ primary = "preparing"
  /\ primary' \in {"failed", IF options.count = 0 THEN "ready" ELSE "forking"}
  /\ UNCHANGED <<options, running, expired, started, timers, leaving, node, workers, counts>>

\* The timeout of one turn of the loop in fork(), which does not look at
\* running; after the last turn "ready" is emitted.
ForkNext ==
  /\ primary = "forking"
  /\ started' = started + 1
  /\ primary' = IF started' = options.count THEN "ready" ELSE "forking"
  /\ Fork(registered)
  /\ UNCHANGED <<options, running, expired, timers, leaving, seen, released,
                 closed, graceful, signalled, counts>>

LifetimeEnds ==
  /\ options.mortal /\ running /\ ~expired
  /\ expired' = TRUE
  /\ UNCHANGED <<options, primary, running, started, timers, leaving, node, workers, counts>>

-----------------------------------------------------------------------------
(***************************************************************************)
(* The end of a worker, as the primary sees it.                            *)
(***************************************************************************)

\* Faulty variants: a replacement during the shutdown, and none at all for a
\* worker that exited on its own.
MayReviveAnyway(w) == options.restart /\ ~expired
MayReviveOnExit(w) == running /\ options.restart /\ ~expired /\ "exit" \notin seen[w]

\* The early returns of revive().
MayRevive(w) == running /\ options.restart /\ ~expired

\* The "disconnect" event: node:cluster forgets a worker that also exited,
\* then revive() runs.
SeesDisconnect(w) ==
  LET others == IF "exit" \in seen[w] THEN registered \ {w} ELSE registered
  IN
  /\ primary # "exited" /\ w \in closed /\ "disconnect" \notin seen[w]
  /\ seen' = [seen EXCEPT ![w] = @ \cup {"disconnect"}]
  /\ \/ MayRevive(w) /\ Fork(others)
     \/ ~MayRevive(w) /\ registered' = others /\ UNCHANGED <<forks, process>>
  /\ UNCHANGED <<service, released, closed, graceful, signalled, counts>>

SeesExit(w) ==
  /\ primary # "exited" /\ process[w] = "ended" /\ "exit" \notin seen[w]
  /\ seen' = [seen EXCEPT ![w] = @ \cup {"exit"}]
  /\ registered' = IF "disconnect" \in seen[w] THEN registered \ {w} ELSE registered
  /\ UNCHANGED <<service, forks, released, workers, counts>>

-----------------------------------------------------------------------------
(***************************************************************************)
(* Calls that end one worker.                                              *)
(***************************************************************************)

CountFault == faults < MaxFaults /\ faults' = faults + 1 /\ UNCHANGED signals

\* kill(workerId): a worker that is no longer registered is left alone.
Kill(w) ==
  /\ primary # "exited" /\ w \in registered /\ CountFault
  /\ signalled' = signalled \cup {w}
  /\ UNCHANGED <<service, node, process, closed, graceful>>

\* disconnect(workerId) in the primary, 50 ms ahead of its effect.
Disconnect(w) ==
  /\ primary # "exited" /\ w \in 1..forks \ leaving /\ CountFault
  /\ leaving' = leaving \cup {w}
  /\ UNCHANGED <<options, primary, running, expired, started, timers, node, workers>>

DisconnectTimeout(w) ==
  /\ primary # "exited" /\ w \in leaving
  /\ leaving' = leaving \ {w}
  /\ released' = released \cup ({w} \cap registered)
  /\ graceful' = graceful \cup ({w} \cap registered)
  /\ registered' = registered \ {w}
  /\ UNCHANGED <<options, primary, running, expired, started, timers,
                 forks, seen, process, closed, signalled, counts>>

-----------------------------------------------------------------------------
(***************************************************************************)
(* Ending the cluster.                                                     *)
(***************************************************************************)

\* Faulty variants of the loop of shutdown() and forceKill(), and of
\* forceKill() itself.
ListedConnected == registered \ closed
ExitUnlessWaiting(kill) == kill /\ registered = {}

\* The workers both loops go through.
Listed == registered
\* Whether forceKill() calls process.exit.
Exits(kill) == kill

\* The function shutdown(signal) returns; called with a signal's name by
\* process.on, or with its parameter killProcess by the application.
Shutdown(kill) ==
  /\ primary \notin {"new", "exited"} /\ signals < MaxSignals
  /\ signals' = signals + 1
  /\ running' = FALSE
  /\ timers' = [timers EXCEPT ![kill] = @ + 1]
  /\ signalled' = signalled \cup Listed
  /\ UNCHANGED <<options, primary, expired, started, leaving, node,
                 process, closed, graceful, faults>>

\* The grace period is over.
ForceKill(kill) ==
  /\ primary # "exited" /\ timers[kill] > 0
  /\ timers' = [timers EXCEPT ![kill] = @ - 1]
  /\ signalled' = signalled \cup Listed
  /\ primary' = IF Exits(kill) THEN "exited" ELSE primary
  /\ UNCHANGED <<options, running, expired, started, leaving, node,
                 process, closed, graceful, counts>>

\* Nothing keeps the primary: no worker, no fork to come, no timeout of
\* disconnect(); the timers of forceKill() are unref'd.
PrimaryDrains ==
  /\ primary \in {"ready", "failed"} /\ leaving = {}
  /\ \A w \in 1..forks : seen[w] = Events
  /\ primary' = "exited"
  /\ UNCHANGED <<options, running, expired, started, timers, leaving, node, workers, counts>>

-----------------------------------------------------------------------------
(***************************************************************************)
(* The workers' processes.                                                 *)
(***************************************************************************)

WorkerStarts(w) ==
  /\ process[w] = "starting"
  /\ process' = [process EXCEPT ![w] = "online"]
  /\ UNCHANGED <<service, node, closed, graceful, signalled, counts>>

WorkerEnds(w) ==
  /\ Alive(w)
  /\ process' = [process EXCEPT ![w] = "ended"]
  /\ closed' = closed \cup {w}
  /\ UNCHANGED <<service, node, graceful, signalled>>

\* Its function fails or exits; or it passes an id to its disconnect or send,
\* which clusterize() hands over without their this, and the TypeError is
\* not caught.
Crash(w) == w \notin closed /\ CountFault /\ WorkerEnds(w)

\* A worker that traps the signals does so once it is online.
DiesOfSignal(w) ==
  /\ w \in signalled /\ (process[w] = "starting" \/ ~options.stubborn)
  /\ UNCHANGED counts /\ WorkerEnds(w)

\* The worker calls its disconnect() without an id: 50 ms later
\* cluster.worker.disconnect() closes its channel.
WorkerDisconnects(w) ==
  /\ process[w] = "online" /\ w \notin closed /\ CountFault
  /\ closed' = closed \cup {w} /\ graceful' = graceful \cup {w}
  /\ UNCHANGED <<service, node, process, signalled>>

\* The worker was asked to disconnect and closes its channel.
WorkerObeys(w) ==
  /\ process[w] = "online" /\ w \in released \ closed
  /\ closed' = closed \cup {w}
  /\ UNCHANGED <<service, node, process, graceful, signalled, counts>>

\* A worker without channel ends when it has no work left, if ever.
WorkerDrains(w) ==
  /\ w \in closed /\ UNCHANGED counts /\ WorkerEnds(w)

\* The primary exited: its workers exit with the channel, but those that were
\* asked to disconnect just lose it.
LosesPrimary(w) ==
  /\ primary = "exited" /\ process[w] = "online" /\ w \notin closed
  /\ closed' = closed \cup {w}
  /\ process' = [process EXCEPT ![w] = IF w \in graceful THEN @ ELSE "ended"]
  /\ UNCHANGED <<service, node, graceful, signalled, counts>>

-----------------------------------------------------------------------------
Primary ==
  \/ Clusterize \/ PrimaryFnEnds \/ ForkNext \/ LifetimeEnds \/ PrimaryDrains
  \/ \E kill \in BOOLEAN : Shutdown(kill) \/ ForceKill(kill)
  \/ \E w \in Workers :
       \/ SeesDisconnect(w) \/ SeesExit(w)
       \/ Kill(w) \/ Disconnect(w) \/ DisconnectTimeout(w)

Worker(w) ==
  \/ WorkerStarts(w) \/ Crash(w) \/ DiesOfSignal(w) \/ WorkerDisconnects(w)
  \/ WorkerObeys(w) \/ WorkerDrains(w) \/ LosesPrimary(w)

Next == Primary \/ \E w \in Workers : Worker(w)

\* Timers fire, promises of primaryFn settle, events are delivered, processes
\* start, and die of a signal they do not trap.
Fairness ==
  /\ WF_vars(PrimaryFnEnds) /\ WF_vars(ForkNext)
  /\ \A kill \in BOOLEAN : WF_vars(ForceKill(kill))
  /\ \A w \in Workers :
       /\ WF_vars(SeesDisconnect(w)) /\ WF_vars(SeesExit(w)) /\ WF_vars(DisconnectTimeout(w))
       /\ WF_vars(WorkerStarts(w)) /\ WF_vars(DiesOfSignal(w))
       /\ WF_vars(WorkerObeys(w)) /\ WF_vars(LosesPrimary(w))

Spec == Init /\ [][Next]_vars /\ Fairness

-----------------------------------------------------------------------------
(***************************************************************************)
(* Properties.                                                             *)
(***************************************************************************)

Connected == {w \in 1..forks : "disconnect" \notin seen[w]}
Online == {w \in Workers : process[w] = "online" /\ w \notin closed}

\* There are never more workers with a channel than the loop of fork() has
\* started, and as long as workers are to be restarted not one fewer: each end
\* of a worker is answered by one fork (revive, fork), however forks of the
\* loop and of revive() interleave.
StrengthKept ==
  /\ Cardinality(Connected) <= started
  /\ options.restart /\ running /\ ~expired => Cardinality(Connected) = started

\* When the primary is gone, every worker process that lives was sent a signal
\* by shutdown() or forceKill(), workers forked during the grace period too;
\* only one that the primary had asked to disconnect can be missed, because
\* node:cluster no longer lists it.
NobodyMissed ==
  primary = "exited" => \A w \in Workers : Alive(w) => w \in signalled \cup released

\* A cluster that restarts its workers, has no lifetime and is not shut down
\* is at full strength in the end (fork, revive).
FullStrength ==
  options.restart /\ ~options.mortal =>
    <>[](primary = "ready" /\ running => Cardinality(Online) = options.count)

\* A shutdown that is to kill the process ends with the primary gone and with
\* no worker left but ones that were asked to disconnect (shutdown, forceKill),
\* even if workers trap the signals.
ShutdownEnds ==
  (timers[TRUE] > 0) ~> (primary = "exited" /\ \A w \in Workers : Alive(w) => w \in graceful)
=============================================================================
