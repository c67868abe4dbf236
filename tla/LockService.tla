----------------------------- MODULE LockService -----------------------------
(***************************************************************************)
(* Processes that lock keys of one Redis through lock.service.ts.  Each has *)
(* its own connection and waits for it in onModuleInit; lock, optimistic    *)
(* and unlock are calls with awaits in between, one call per service at a   *)
(* time (the calls of one service share nothing but its connection).        *)
(*                                                                          *)
(* External, modelled from their use: Redis with keys that expire; ioredis, *)
(* which sends a command again when the connection was lost before its      *)
(* answer; redlock, whose acquire sets a free key to a fresh value and      *)
(* undoes a failed attempt, and whose release deletes a key only while it   *)
(* holds the value of the Lock object, and rejects otherwise.               *)
(***************************************************************************)
EXTENDS Naturals

CONSTANTS
  Services,   \* processes, each with a LockService
  Keys,       \* keys to lock
  NoLock,     \* the content of a free key
  MaxLocks,   \* bound: acquisitions that are tried
  MaxLosses   \* bound: connections lost

Ids == Keys \X (1..MaxLocks)   \* lock ids: a random value, with the key it is for

ASSUME LockAssumption ==
  NoLock \notin Ids /\ MaxLocks \in Nat /\ MaxLosses \in Nat

VARIABLES
  status,    \* this.redis.status: "none" before createConnection()
  init,      \* the promise of waitUntilInitialized
  late,      \* services whose deadline found them initialized: only ticks are left
  store,     \* Redis: the value of each key
  state,     \* per service, where its call is,
  id,        \* the lock id it is about,
  lock,      \* and the value of the Lock object it releases
  issued,    \* number of lock ids drawn
  losses,    \* number of connections lost
  granted,   \* history: ids whose lock() resolved or whose callback started
  expired,   \* history: granted ids that Redis dropped by their time to live
  ended,     \* history: ids not expired when their release reached Redis
  kept       \* history: ids whose unlock() or optimistic() resolved

connection == <<status, init, late, losses>>
calls      == <<state, id, lock, issued>>
history    == <<granted, expired, ended, kept>>
vars       == <<connection, store, calls, history>>

Acquiring == {"locking", "using"}
Awaiting  == {"getting", "releasing"}

TypeOK ==
  /\ status \in [Services -> {"none", "connecting", "ready", "closed"}]
  /\ init \in [Services -> {"none", "waiting", "resolved", "rejected"}]
  /\ late \subseteq Services
  /\ store \in [Keys -> Ids \cup {NoLock}]
  /\ state \in [Services -> {"idle", "running"} \cup Acquiring \cup Awaiting]
  /\ id \in [Services -> Ids \cup {NoLock}]
  /\ lock \in [Services -> Ids \cup {NoLock}]
  /\ \A s \in Services : state[s] # "idle" => id[s] \in Ids
  /\ \A s \in Services : state[s] \in {"running"} \cup Awaiting => id[s] \in granted
  /\ \A s \in Services : state[s] = "releasing" => lock[s] = id[s]
  /\ issued \in 0..MaxLocks /\ losses \in 0..MaxLosses
  /\ expired \cup ended \cup kept \subseteq granted /\ granted \subseteq Ids

Init ==
  /\ status = [s \in Services |-> "none"] /\ init = [s \in Services |-> "none"]
  /\ late = {} /\ losses = 0
  /\ store = [k \in Keys |-> NoLock]
  /\ state = [s \in Services |-> "idle"]
  /\ id = [s \in Services |-> NoLock] /\ lock = [s \in Services |-> NoLock]
  /\ issued = 0
  /\ granted = {} /\ expired = {} /\ ended = {} /\ kept = {}

-----------------------------------------------------------------------------
(* The connection and onModuleInit. *)

IsInitialized(s) == status[s] = "ready"

\* createConnection(), then the interval and the deadline are started.
OnModuleInit(s) ==
  /\ init[s] = "none"
  /\ status' = [status EXCEPT ![s] = "connecting"]
  /\ init' = [init EXCEPT ![s] = "waiting"]
  /\ UNCHANGED <<late, losses, store, calls, history>>

Connected(s) ==
  /\ status[s] = "connecting"
  /\ status' = [status EXCEPT ![s] = "ready"]
  /\ UNCHANGED <<init, late, losses, store, calls, history>>

Lose(s) ==
  /\ status[s] = "ready" /\ losses < MaxLosses
  /\ status' = [status EXCEPT ![s] = "connecting"]
  /\ losses' = losses + 1

ConnectionLost(s) == Lose(s) /\ UNCHANGED <<init, late, store, calls, history>>

\* Faulty variant: the deadline clears the interval whatever it finds.
TickBeforeDeadline(s) ==
  /\ init[s] = "waiting" /\ IsInitialized(s) /\ s \notin late
  /\ init' = [init EXCEPT ![s] = "resolved"] /\ late' = late \ {s}
  /\ UNCHANGED <<status, losses, store, calls, history>>

\* The interval finds the service initialized: both timers are cleared.
Tick(s) ==
  /\ init[s] = "waiting" /\ IsInitialized(s)
  /\ init' = [init EXCEPT ![s] = "resolved"] /\ late' = late \ {s}
  /\ UNCHANGED <<status, losses, store, calls, history>>

\* The deadline rejects, unless the service is initialized: then it does nothing,
\* and the interval goes on alone.
Deadline(s) ==
  /\ init[s] = "waiting" /\ s \notin late
  /\ IF IsInitialized(s) THEN late' = late \cup {s} /\ UNCHANGED init
     ELSE init' = [init EXCEPT ![s] = "rejected"] /\ UNCHANGED late
  /\ UNCHANGED <<status, losses, store, calls, history>>

\* close(), called by onModuleDestroy or by the application: QUIT.
Close(s) ==
  /\ status[s] \in {"connecting", "ready"}
  /\ status' = [status EXCEPT ![s] = "closed"]
  /\ UNCHANGED <<init, late, losses, store, calls, history>>

-----------------------------------------------------------------------------
(* lock() and optimistic(); both throw before anything if not initialized. *)

\* A call returns: its locals are gone.
Return(s) ==
  /\ state' = [state EXCEPT ![s] = "idle"]
  /\ id' = [id EXCEPT ![s] = NoLock] /\ lock' = [lock EXCEPT ![s] = NoLock]

Begin(s, k, how) ==
  /\ state[s] = "idle" /\ IsInitialized(s) /\ issued < MaxLocks
  /\ issued' = issued + 1
  /\ id' = [id EXCEPT ![s] = <<k, issued + 1>>]
  /\ state' = [state EXCEPT ![s] = how]
  /\ UNCHANGED <<connection, store, lock, history>>

Lock(s, k)       == Begin(s, k, "locking")
Optimistic(s, k) == Begin(s, k, "using")

\* Redis sets the free key.  lock() resolves, optimistic() starts its callback.
Acquired(s) ==
  /\ state[s] \in Acquiring /\ store[id[s][1]] = NoLock
  /\ store' = [store EXCEPT ![id[s][1]] = id[s]]
  /\ granted' = granted \cup {id[s]}
  /\ IF state[s] = "locking" THEN Return(s)
     ELSE state' = [state EXCEPT ![s] = "running"] /\ UNCHANGED <<id, lock>>
  /\ UNCHANGED <<connection, issued, expired, ended, kept>>

\* Redis sets the key and the answer is lost: sent again, the command will find
\* the key taken, by the call's own value.
AcquiredUnheard(s) ==
  /\ state[s] \in Acquiring /\ store[id[s][1]] = NoLock /\ Lose(s)
  /\ store' = [store EXCEPT ![id[s][1]] = id[s]]
  /\ UNCHANGED <<init, late, calls, history>>

\* The key stayed taken through the retries, or the connection is away for too
\* long: the attempt is undone, if the command that undoes it arrives.
AcquireFails(s) ==
  /\ state[s] \in Acquiring
  /\ store[id[s][1]] # NoLock \/ ~IsInitialized(s)
  /\ \/ store[id[s][1]] = id[s] /\ store' = [store EXCEPT ![id[s][1]] = NoLock]
     \/ (store[id[s][1]] # id[s] \/ ~IsInitialized(s)) /\ UNCHANGED store
  /\ Return(s)
  /\ UNCHANGED <<connection, issued, history>>

\* The time to live of a lock ends.  (redlock extends the lock of an optimistic()
\* while it can; a lock that is extended is one that has not expired yet.)
Expire(k) ==
  /\ store[k] # NoLock
  /\ store' = [store EXCEPT ![k] = NoLock]
  /\ expired' = expired \cup ({store[k]} \cap granted)
  /\ UNCHANGED <<connection, calls, granted, ended, kept>>

\* The callback of optimistic() settles: redlock releases its lock.
CallbackEnds(s) ==
  /\ state[s] = "running"
  /\ state' = [state EXCEPT ![s] = "releasing"]
  /\ lock' = [lock EXCEPT ![s] = id[s]]
  /\ UNCHANGED <<connection, store, id, issued, history>>

-----------------------------------------------------------------------------
(* unlock(): reads the owner, then releases. *)

\* unlock(key, lockId), by any process that was told the id, once or repeatedly.
Unlock(s, i) ==
  /\ state[s] = "idle" /\ IsInitialized(s) /\ i \in granted
  /\ id' = [id EXCEPT ![s] = i]
  /\ state' = [state EXCEPT ![s] = "getting"]
  /\ UNCHANGED <<connection, store, lock, issued, history>>

\* Faulty variant: get() does not compare the value with lockId.
OwnerAsFound(value, lockId) == value

\* get(): the Lock object made of the value read, or null.
Owner(value, lockId) == IF value # lockId THEN NoLock ELSE lockId

\* The answer of GET: the lock is not found and unlock() rejects, or release() starts.
Get(s) ==
  /\ state[s] = "getting"
  /\ LET owner == Owner(store[id[s][1]], id[s]) IN
     IF owner = NoLock THEN Return(s)
     ELSE /\ lock' = [lock EXCEPT ![s] = owner]
          /\ state' = [state EXCEPT ![s] = "releasing"]
          /\ UNCHANGED id
  /\ UNCHANGED <<connection, store, issued, history>>

\* Faulty variant: the rejection of release() is swallowed.
ResolvesAnyway(s) == {id[s]}

\* The ids whose call resolves: release() rejects if the key holds another value.
Resolves(s) == IF store[id[s][1]] = lock[s] THEN {id[s]} ELSE {}

Delete(s) ==
  store' = [store EXCEPT ![id[s][1]] = IF @ = lock[s] THEN NoLock ELSE @]

Released(s) ==
  /\ state[s] = "releasing"
  /\ Delete(s)
  /\ ended' = ended \cup ({id[s]} \ expired) /\ kept' = kept \cup Resolves(s)
  /\ Return(s)
  /\ UNCHANGED <<connection, issued, granted, expired>>

\* The key is deleted and the answer is lost: sent again, the command finds no key.
ReleasedUnheard(s) ==
  /\ state[s] = "releasing" /\ Lose(s)
  /\ Delete(s)
  /\ ended' = ended \cup ({id[s]} \ expired)
  /\ UNCHANGED <<init, late, calls, granted, expired, kept>>

\* The connection is away for too long: GET or the release rejects.
CommandFails(s) ==
  /\ state[s] \in Awaiting /\ ~IsInitialized(s)
  /\ Return(s)
  /\ UNCHANGED <<connection, store, issued, history>>

-----------------------------------------------------------------------------
Connecting(s) == OnModuleInit(s) \/ Connected(s) \/ ConnectionLost(s)
                 \/ Tick(s) \/ Deadline(s) \/ Close(s)

Calling(s) ==
  \/ \E k \in Keys : Lock(s, k) \/ Optimistic(s, k)
  \/ Acquired(s) \/ AcquiredUnheard(s) \/ AcquireFails(s) \/ CallbackEnds(s)
  \/ \E i \in granted : Unlock(s, i)
  \/ Get(s) \/ Released(s) \/ ReleasedUnheard(s) \/ CommandFails(s)

Next == \/ \E s \in Services : Connecting(s) \/ Calling(s)
        \/ \E k \in Keys : Expire(k)

\* Timers fire; an interval that finds the service initialized now and then will
\* find it so for good once the losses are used up.
Fairness == \A s \in Services : WF_vars(Tick(s)) /\ WF_vars(Deadline(s))

Spec == Init /\ [][Next]_vars /\ Fairness

-----------------------------------------------------------------------------
(* Properties. *)

\* Locks that somebody was given, that did not expire and that nobody released.
Valid == granted \ (expired \cup ended)

\* Mutual exclusion: while a lock is valid nobody else is given its key, whatever
\* stale or foreign ids other processes unlock between its read and its release,
\* and whichever answers are lost.
Exclusive == \A i, j \in Valid : i[1] = j[1] => i = j

\* unlock() and optimistic() report success only if the lock was held until they
\* released it: a lock that expired during the work makes the call reject.
KeptInTime == kept \cap expired = {}

\* waitUntilInitialized settles, with one exception: a connection that was up when
\* the deadline passed and was lost before the next tick.
InitSettles ==
  \A s \in Services :
    init[s] = "waiting" ~> (init[s] # "waiting" \/ (s \in late /\ ~IsInitialized(s)))
=============================================================================
