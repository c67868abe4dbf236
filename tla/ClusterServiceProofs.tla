-------------------------- MODULE ClusterServiceProofs --------------------------
(***************************************************************************)
(* Theorems about ClusterService, for any number of workers, faults and    *)
(* signals and every configuration.                                        *)
(***************************************************************************)
EXTENDS ClusterService, FiniteSetTheorems, TLAPS

-----------------------------------------------------------------------------
(* The inductive invariant.  A worker is forked by the loop, which counts in   *)
(* started, or for a worker whose disconnect was seen; while the cluster runs, *)
(* only faults make workers disconnect.                                        *)

Gone      == {w \in Workers : "disconnect" \in seen[w]}
Disturbed == closed \cup signalled \cup leaving \cup released

\* Where the service is before, in and after the loop of fork(); a call of shutdown()
\* ends running for good.
Phases ==
  /\ primary \in {"new", "preparing"} => started = 0 /\ forks = 0
  /\ primary = "new" => timers = [k \in BOOLEAN |-> 0]
  /\ primary = "forking" => started < options.count
  /\ running => \A k \in BOOLEAN : timers[k] = 0
  /\ \A k \in BOOLEAN : timers[k] <= signals

\* An event is seen only after what it is about, and a worker that is no longer listed
\* ended or was asked to disconnect.
Observed ==
  /\ Gone \subseteq closed
  /\ \A w \in Workers : "exit" \in seen[w] => process[w] = "ended"
  /\ \A w \in 1..forks : w \notin registered => w \in released \/ process[w] = "ended"

Counted ==
  /\ forks <= started + Cardinality(Gone)
  /\ forks <= started + faults
  /\ running /\ primary # "exited" => Cardinality(Disturbed) <= faults

IInv == TypeOK /\ Phases /\ Observed /\ Counted /\ StrengthKept /\ NobodyMissed

LEMMA Finite ==
  ASSUME TypeOK
  PROVE  /\ forks \in Nat /\ started \in Nat /\ faults \in Nat
         /\ IsFiniteSet(Workers) /\ 1..forks \subseteq Workers
         /\ IsFiniteSet(Gone) /\ Cardinality(Gone) \in Nat
         /\ Disturbed \subseteq 1..forks
         /\ IsFiniteSet(Disturbed) /\ Cardinality(Disturbed) \in Nat
         /\ IsFiniteSet(Connected) /\ Cardinality(Connected) \in Nat
<1>1. /\ MaxCount \in Nat /\ MaxFaults \in Nat /\ forks \in Nat /\ faults \in Nat
      /\ started \in Nat /\ options.count \in 0..MaxCount
  BY ClusterAssumption DEF TypeOK, OptionRecords
<1>2. IsFiniteSet(Workers) /\ IsFiniteSet(1..forks) /\ 1..forks \subseteq Workers
<2>1. MaxCount + MaxFaults \in Int /\ forks \in Int /\ 1 \in Int
  BY <1>1
<2>2. 1..forks \subseteq Workers
  BY <1>1 DEF TypeOK, Workers
<2> QED
  BY <2>1, <2>2, FS_Interval DEF Workers
<1>3. Disturbed \subseteq 1..forks
<2>1. released \subseteq 1..forks
  BY DEF TypeOK
<2> QED
  BY <2>1 DEF TypeOK, Disturbed
<1>4. Gone \subseteq Workers /\ Connected \subseteq 1..forks
  BY DEF Gone, Connected
<1>5. IsFiniteSet(Gone) /\ IsFiniteSet(Disturbed) /\ IsFiniteSet(Connected)
  BY <1>2, <1>3, <1>4, FS_Subset
<1> QED
  BY <1>1, <1>2, <1>3, <1>5, FS_CardinalityType

LEMMA InvInit == Init => IInv
<1> SUFFICES ASSUME Init PROVE IInv
  OBVIOUS
<1> USE ClusterAssumption
<1>1. running = FALSE /\ expired = FALSE /\ running \in BOOLEAN /\ expired \in BOOLEAN
  BY Zenon DEF Init
<1>2. options.count \in Nat
  BY DEF Init, OptionRecords
<1>3. timers \in [BOOLEAN -> 0..MaxSignals] /\ seen \in [Workers -> SUBSET Events]
      /\ process \in [Workers -> {"none", "starting", "online", "ended"}]
<2>1. timers \in [BOOLEAN -> 0..MaxSignals]
  BY DEF Init
<2>2. seen \in [Workers -> SUBSET Events]
  BY DEF Init
<2>3. process \in [Workers -> {"none", "starting", "online", "ended"}]
  BY DEF Init
<2> QED
  BY <2>1, <2>2, <2>3
<1>4. \A w \in Workers : process[w] = "none" /\ w > 0 /\ seen[w] = {}
  BY DEF Init, Workers
<1>5. TypeOK
<2>1. \A w \in Workers : process[w] = "none" <=> w > forks
  BY <1>4 DEF Init
<2>2. /\ options \in Options /\ primary = "new" /\ started \in 0..options.count
      /\ forks \in 0..MaxCount + MaxFaults /\ faults \in 0..MaxFaults /\ signals \in 0..MaxSignals
      /\ registered \cup closed \cup graceful \cup signalled \cup leaving = {} /\ released = {}
  BY <1>2 DEF Init
<2> QED
  BY <1>1, <1>3, <2>1, <2>2 DEF TypeOK
<1>6. Gone = {} /\ Connected = {}
  BY <1>4 DEF Init, Gone, Connected
<1>7. Cardinality({}) = 0
  BY FS_EmptySet
<1>8. Phases /\ Observed /\ Counted
  BY <1>1, <1>6, <1>7 DEF Init, Phases, Observed, Counted
<1>9. StrengthKept /\ NobodyMissed
  BY <1>1, <1>6, <1>7 DEF Init, StrengthKept, NobodyMissed
<1> QED
  BY <1>5, <1>8, <1>9 DEF IInv

-----------------------------------------------------------------------------
(* Forks. *)

\* revive() runs for a worker that a fault disconnected, so there is a number left for
\* the worker it forks.
LEMMA ReviveRoom ==
  ASSUME IInv, running, primary # "exited", NEW w \in closed, "disconnect" \notin seen[w]
  PROVE  /\ w \in 1..forks /\ w \notin Gone
         /\ Cardinality(Gone \cup {w}) = Cardinality(Gone) + 1
         /\ forks + 1 <= started + faults /\ forks + 1 \in Workers
<1> USE Finite, ClusterAssumption DEF IInv
<1>1. w \in 1..forks /\ w \notin Gone
  BY DEF TypeOK, Gone
<1>2. Cardinality(Gone \cup {w}) = Cardinality(Gone) + 1
  BY <1>1, FS_AddElement
<1>3. Gone \cup {w} \subseteq Disturbed
  BY DEF Observed, Disturbed
<1>4. Cardinality(Gone \cup {w}) <= Cardinality(Disturbed)
  BY <1>3, FS_Subset
<1>5. forks + 1 <= started + faults
  BY <1>2, <1>4 DEF Counted
<1>6. started <= MaxCount /\ faults <= MaxFaults
  BY DEF TypeOK, OptionRecords
<1>7. forks + 1 \in Workers
  BY <1>5, <1>6 DEF Workers
<1> QED
  BY <1>1, <1>2, <1>5, <1>7

\* A fork adds one connected worker; the process of none ended or was ended by it.
LEMMA ForkTypes ==
  ASSUME TypeOK, forks + 1 \in Workers, NEW others \in SUBSET registered, Fork(others)
  PROVE  /\ forks' \in 0..MaxCount + MaxFaults
         /\ process' \in [Workers -> {"none", "starting", "online", "ended"}]
         /\ \A v \in Workers : process'[v] = "none" <=> v > forks'
         /\ registered' \subseteq 1..forks' /\ 1..forks \subseteq 1..forks'
         /\ 1..forks' = 1..forks \cup {forks + 1}
         /\ forks + 1 \notin 1..forks /\ released \cap registered' = {}
         /\ \A v \in Workers : process'[v] = IF v = forks + 1 THEN "starting" ELSE process[v]
<1>1. forks \in Nat /\ forks' = forks + 1 /\ forks + 1 <= MaxCount + MaxFaults
  BY Finite, ClusterAssumption DEF Fork, Workers
<1>2. \A v \in Workers : process'[v] = IF v = forks + 1 THEN "starting" ELSE process[v]
  BY <1>1 DEF Fork, TypeOK
<1>3. 1..forks' = 1..forks \cup {forks + 1} /\ forks + 1 \notin 1..forks
  BY <1>1
<1>4. \A v \in Workers : process'[v] = "none" <=> v > forks'
<2>1. \A v \in Workers : v \in Int
  BY ClusterAssumption DEF Workers
<2> QED
  BY <1>1, <1>2, <2>1 DEF TypeOK
<1>5. process' \in [Workers -> {"none", "starting", "online", "ended"}]
  BY DEF Fork, TypeOK
<1>6. registered' \subseteq 1..forks' /\ released \cap registered' = {}
  BY <1>1, <1>3 DEF Fork, TypeOK
<1> QED
  BY <1>1, <1>2, <1>3, <1>4, <1>5, <1>6, ClusterAssumption

LEMMA ForkNextInv == IInv /\ ForkNext => IInv'
<1> SUFFICES ASSUME IInv, ForkNext PROVE IInv'
  OBVIOUS
<1> USE Finite, ClusterAssumption DEF IInv
<1>1. /\ started < options.count /\ started' = started + 1 /\ options.count \in 0..MaxCount
      /\ options' = options
  BY DEF ForkNext, Phases, TypeOK, OptionRecords
<1>2. forks + 1 \in Workers
<2>1. forks <= started + faults /\ faults <= MaxFaults /\ faults \in Nat
  BY DEF Counted, TypeOK
<2> QED
  BY <1>1, <2>1 DEF Workers
<1>3. /\ forks' = forks + 1 /\ registered' = registered \cup {forks + 1}
      /\ forks' \in 0..MaxCount + MaxFaults
      /\ process' \in [Workers -> {"none", "starting", "online", "ended"}]
      /\ \A v \in Workers : process'[v] = "none" <=> v > forks'
      /\ registered' \subseteq 1..forks' /\ 1..forks \subseteq 1..forks'
      /\ 1..forks' = 1..forks \cup {forks + 1}
      /\ forks + 1 \notin 1..forks /\ released \cap registered' = {}
      /\ \A v \in Workers : process'[v] = IF v = forks + 1 THEN "starting" ELSE process[v]
<2>1. Fork(registered) /\ forks' = forks + 1 /\ registered' = registered \cup {forks + 1}
  BY DEF ForkNext, Fork
<2> QED
  BY <1>2, <2>1, ForkTypes
<1>4. /\ running' = running /\ expired' = expired /\ primary = "forking"
      /\ primary' \in {"ready", "forking"} /\ (primary' = "forking" => started' # options.count)
      /\ timers' = timers /\ leaving' = leaving /\ seen' = seen /\ released' = released
      /\ closed' = closed /\ graceful' = graceful /\ signalled' = signalled
      /\ faults' = faults /\ signals' = signals
  BY DEF ForkNext, counts
<1>5. TypeOK'
  BY <1>1, <1>3, <1>4 DEF TypeOK
<1>6. Gone' = Gone /\ Disturbed' = Disturbed
  BY <1>4 DEF Gone, Disturbed
<1>7. Connected' = Connected \cup {forks + 1} /\ forks + 1 \notin Connected
<2>1. "disconnect" \notin seen[forks + 1]
  BY <1>2, <1>3 DEF Observed, Gone, TypeOK
<2> QED
  BY <1>3, <1>4, <2>1 DEF Connected
<1>8. Cardinality(Connected') = Cardinality(Connected) + 1
  BY <1>7, FS_AddElement
<1>9. StrengthKept'
  BY <1>1, <1>4, <1>8 DEF StrengthKept
<1>10. Counted'
  BY <1>1, <1>3, <1>4, <1>6 DEF Counted
<1>11. Phases'
  BY <1>1, <1>4 DEF Phases
<1>12. Observed'
<2>1. process[forks + 1] = "none"
  BY <1>2 DEF TypeOK
<2> QED
  BY <1>2, <1>3, <1>4, <1>6, <2>1 DEF Observed
<1>13. NobodyMissed'
  BY <1>4 DEF NobodyMissed
<1> QED
  BY <1>5, <1>9, <1>10, <1>11, <1>12, <1>13

LEMMA SeesDisconnectInv == ASSUME IInv, NEW w \in Workers, SeesDisconnect(w) PROVE IInv'
<1> USE Finite, ClusterAssumption DEF IInv
<1>1. /\ primary # "exited" /\ w \in closed /\ "disconnect" \notin seen[w] /\ w \in 1..forks
      /\ UNCHANGED <<options, primary, running, expired, started, timers, leaving, released,
                     closed, graceful, signalled, faults, signals>>
      /\ seen' = [seen EXCEPT ![w] = @ \cup {"disconnect"}]
  BY DEF SeesDisconnect, service, counts, TypeOK
<1>2. /\ seen' \in [Workers -> SUBSET Events]
      /\ \A v \in Workers : seen'[v] = IF v = w THEN seen[w] \cup {"disconnect"} ELSE seen[v]
  BY <1>1 DEF TypeOK, Events
<1>3. Gone' = Gone \cup {w} /\ Disturbed' = Disturbed /\ w \notin Gone
  BY <1>1, <1>2 DEF Gone, Disturbed
<1>4. Cardinality(Gone') = Cardinality(Gone) + 1
  BY <1>3, FS_AddElement
<1>5. w \in Connected /\ IsFiniteSet(Connected \ {w})
      /\ Cardinality(Connected \ {w}) = Cardinality(Connected) - 1
<2>1. w \in Connected
  BY <1>1 DEF Connected
<2> QED
  BY <2>1, FS_RemoveElement
<1> DEFINE others == IF "exit" \in seen[w] THEN registered \ {w} ELSE registered
<1>6. \A v \in registered : v \in others \/ (v = w /\ process[w] = "ended")
  BY DEF Observed
<1>7. CASE MayRevive(w) /\ Fork(others)
<2>1. running /\ forks + 1 <= started + faults /\ forks + 1 \in Workers
  BY <1>1, <1>7, ReviveRoom DEF MayRevive
<2>2. /\ forks' = forks + 1 /\ registered' = others \cup {forks + 1}
      /\ forks' \in 0..MaxCount + MaxFaults
      /\ process' \in [Workers -> {"none", "starting", "online", "ended"}]
      /\ \A v \in Workers : process'[v] = "none" <=> v > forks'
      /\ registered' \subseteq 1..forks' /\ 1..forks \subseteq 1..forks'
      /\ 1..forks' = 1..forks \cup {forks + 1}
      /\ forks + 1 \notin 1..forks /\ released \cap registered' = {}
      /\ \A v \in Workers : process'[v] = IF v = forks + 1 THEN "starting" ELSE process[v]
<3>1. others \in SUBSET registered /\ forks' = forks + 1 /\ registered' = others \cup {forks + 1}
  BY <1>7 DEF Fork
<3> QED
  BY <1>7, <2>1, <3>1, ForkTypes
<2>3. TypeOK'
  BY <1>1, <1>2, <2>2 DEF TypeOK
<2>4. Connected' = (Connected \ {w}) \cup {forks + 1} /\ forks + 1 \notin Connected
<3>1. "disconnect" \notin seen[forks + 1] /\ forks + 1 # w
  BY <1>1, <2>1, <2>2 DEF Observed, Gone, TypeOK
<3> QED
  BY <1>2, <2>1, <2>2, <3>1 DEF Connected
<2>5. Cardinality(Connected') = Cardinality(Connected)
<3>1. Cardinality((Connected \ {w}) \cup {forks + 1}) = Cardinality(Connected \ {w}) + 1
  BY <1>5, <2>4, FS_AddElement
<3> QED
  BY <1>5, <2>4, <3>1
<2>6. StrengthKept'
  BY <1>1, <2>5 DEF StrengthKept
<2>7. Counted'
  BY <1>1, <1>3, <1>4, <2>1, <2>2 DEF Counted
<2>8. Observed'
<3>1. process[forks + 1] = "none"
  BY <2>1 DEF TypeOK
<3> QED
  BY <1>1, <1>2, <1>3, <1>6, <2>1, <2>2, <3>1 DEF Observed
<2>9. Phases' /\ NobodyMissed'
  BY <1>1, <2>1 DEF Phases, NobodyMissed
<2> QED
  BY <2>3, <2>6, <2>7, <2>8, <2>9
<1>8. CASE ~MayRevive(w) /\ registered' = others /\ UNCHANGED <<forks, process>>
<2>1. TypeOK'
  BY <1>1, <1>2, <1>8 DEF TypeOK
<2>2. Connected' = Connected \ {w}
  BY <1>2, <1>8 DEF Connected
<2>3. StrengthKept'
  BY <1>1, <1>5, <1>8, <2>2 DEF StrengthKept, MayRevive
<2>4. Counted'
  BY <1>1, <1>3, <1>4, <1>8 DEF Counted
<2>5. Observed'
  BY <1>1, <1>2, <1>3, <1>6, <1>8 DEF Observed
<2>6. Phases' /\ NobodyMissed'
  BY <1>1, <1>8 DEF Phases, NobodyMissed
<2> QED
  BY <2>1, <2>3, <2>4, <2>5, <2>6
<1> QED
  BY <1>7, <1>8 DEF SeesDisconnect

-----------------------------------------------------------------------------
(* The other steps. *)

\* A step that forks nobody and handles no disconnect keeps the counts if it adds at
\* most as many disturbed workers as faults.
LEMMA Steady ==
  ASSUME IInv, UNCHANGED <<options, started, forks>>, Gone' = Gone, Connected' = Connected,
         running' => running, expired => expired', faults' >= faults,
         running' /\ primary' # "exited" =>
           primary # "exited" /\
           (Disturbed' \subseteq Disturbed
            \/ \E w \in Workers : Disturbed' \subseteq Disturbed \cup {w} /\ faults' = faults + 1),
         TypeOK'
  PROVE  StrengthKept' /\ Counted'
<1> USE Finite DEF IInv
<1>1. StrengthKept'
  BY DEF StrengthKept
<1>2. faults' \in Nat
  BY ClusterAssumption DEF TypeOK
<1>3. ASSUME running', primary' # "exited" PROVE Cardinality(Disturbed') <= faults'
<2>1. Cardinality(Disturbed) <= faults /\ Cardinality(Disturbed) \in Nat /\ faults \in Nat
  BY <1>3 DEF Counted
<2>2. CASE Disturbed' \subseteq Disturbed
<3>1. Cardinality(Disturbed') <= Cardinality(Disturbed) /\ IsFiniteSet(Disturbed')
  BY <2>2, FS_Subset
<3>2. Cardinality(Disturbed') \in Nat
  BY <3>1, FS_CardinalityType
<3> QED
  BY <1>2, <2>1, <3>1, <3>2
<2>3. CASE \E w \in Workers : Disturbed' \subseteq Disturbed \cup {w} /\ faults' = faults + 1
<3>1. PICK w \in Workers : Disturbed' \subseteq Disturbed \cup {w} /\ faults' = faults + 1
  BY <2>3
<3>2. IsFiniteSet(Disturbed \cup {w}) /\ Cardinality(Disturbed \cup {w}) <= Cardinality(Disturbed) + 1
      /\ Cardinality(Disturbed \cup {w}) \in Nat
<4>1. IsFiniteSet(Disturbed \cup {w})
      /\ Cardinality(Disturbed \cup {w})
           = IF w \in Disturbed THEN Cardinality(Disturbed) ELSE Cardinality(Disturbed) + 1
  BY FS_AddElement
<4> QED
  BY <2>1, <4>1
<3>3. Cardinality(Disturbed') <= Cardinality(Disturbed \cup {w}) /\ IsFiniteSet(Disturbed')
  BY <3>1, <3>2, FS_Subset
<3>4. Cardinality(Disturbed') \in Nat
  BY <3>3, FS_CardinalityType
<3> QED
  BY <2>1, <3>1, <3>2, <3>3, <3>4
<2> QED
  BY <1>3, <2>2, <2>3
<1>4. Counted'
  BY <1>2, <1>3 DEF Counted
<1> QED
  BY <1>1, <1>4

LEMMA ServiceInv ==
  ASSUME IInv,
         \/ Clusterize \/ PrimaryFnEnds \/ LifetimeEnds \/ PrimaryDrains
         \/ \E kill \in BOOLEAN : Shutdown(kill) \/ ForceKill(kill)
  PROVE  IInv'
<1> USE Finite, ClusterAssumption
    DEF IInv, node, workers, counts
<1>1. Gone' = Gone /\ Connected' = Connected
  BY DEF Gone, Connected, Clusterize, PrimaryFnEnds, LifetimeEnds, PrimaryDrains, Shutdown, ForceKill
<1>2. CASE Clusterize
<2>1. TypeOK'
  BY <1>2 DEF Clusterize, TypeOK
<2>2. forks = 0 /\ started = 0 /\ Connected = {} /\ Disturbed' = {}
<3>1. forks = 0 /\ started = 0
  BY <1>2 DEF Clusterize, Phases
<3>2. 1..forks = {}
  BY <3>1
<3> QED
  BY <1>2, <3>1, <3>2 DEF Clusterize, Connected, Disturbed
<2>3. Cardinality({}) = 0
  BY FS_EmptySet
<2>4. StrengthKept' /\ Counted'
  BY <1>1, <1>2, <2>2, <2>3 DEF Clusterize, StrengthKept, Counted
<2>5. Phases' /\ Observed' /\ NobodyMissed'
  BY <1>1, <1>2 DEF Clusterize, Phases, Observed, NobodyMissed
<2> QED
  BY <2>1, <2>4, <2>5
<1>3. CASE PrimaryFnEnds
<2>1. TypeOK' /\ Disturbed' = Disturbed
  BY <1>3 DEF PrimaryFnEnds, TypeOK, Disturbed
<2>2. StrengthKept' /\ Counted'
  BY <1>1, <1>3, <2>1, Steady DEF PrimaryFnEnds
<2>3. options.count \in Nat
  BY DEF TypeOK, OptionRecords
<2>4. Phases' /\ Observed' /\ NobodyMissed'
  BY <1>1, <1>3, <2>3 DEF PrimaryFnEnds, Phases, Observed, NobodyMissed
<2> QED
  BY <2>1, <2>2, <2>4
<1>4. CASE LifetimeEnds
<2>1. TypeOK' /\ Disturbed' = Disturbed
  BY <1>4 DEF LifetimeEnds, TypeOK, Disturbed
<2>2. /\ expired' /\ UNCHANGED <<options, primary, running, started, forks, faults>>
      /\ faults' >= faults
  BY <1>4 DEF LifetimeEnds
<2>3. StrengthKept' /\ Counted'
  BY <1>1, <2>1, <2>2, Steady
<2>4. Phases' /\ Observed' /\ NobodyMissed'
  BY <1>1, <1>4 DEF LifetimeEnds, Phases, Observed, NobodyMissed, Alive
<2> QED
  BY <2>1, <2>3, <2>4
<1>5. CASE PrimaryDrains
<2>1. TypeOK' /\ Disturbed' = Disturbed
  BY <1>5 DEF PrimaryDrains, TypeOK, Disturbed
<2>2. StrengthKept' /\ Counted'
  BY <1>1, <1>5, <2>1, Steady DEF PrimaryDrains
<2>3. Phases' /\ Observed'
  BY <1>1, <1>5 DEF PrimaryDrains, Phases, Observed
<2>4. \A w \in Workers : process[w] \in {"none", "ended"}
  BY <1>5 DEF PrimaryDrains, Observed, TypeOK, Events, Workers
<2>5. NobodyMissed'
  BY <1>5, <2>4 DEF PrimaryDrains, NobodyMissed, Alive
<2> QED
  BY <2>1, <2>2, <2>3, <2>5
<1>6. ASSUME NEW kill \in BOOLEAN, Shutdown(kill) PROVE IInv'
<2>1. /\ timers[kill] \in Nat /\ timers[kill] + 1 <= signals' /\ signals' = signals + 1
      /\ signals' \in 0..MaxSignals
      /\ \A k \in BOOLEAN : timers'[k] = IF k = kill THEN timers[kill] + 1 ELSE timers[k]
  BY <1>6 DEF Shutdown, TypeOK, Phases
<2>2. timers' \in [BOOLEAN -> 0..MaxSignals]
  BY <1>6, <2>1 DEF Shutdown, TypeOK
<2>3. running' = FALSE /\ running' \in BOOLEAN /\ expired' \in BOOLEAN /\ faults' = faults
      /\ expired' = expired
  BY <1>6, Zenon DEF Shutdown, TypeOK
<2>4. TypeOK'
  BY <1>6, <2>1, <2>2, <2>3 DEF Shutdown, TypeOK, Listed
<2>5. StrengthKept' /\ Counted'
  BY <1>1, <1>6, <2>3 DEF Shutdown, StrengthKept, Counted
<2>6. \A k \in BOOLEAN : timers'[k] <= signals'
  BY <2>1 DEF TypeOK, Phases
<2>7. Phases' /\ Observed' /\ NobodyMissed'
  BY <1>1, <1>6, <2>3, <2>6 DEF Shutdown, Phases, Observed, NobodyMissed
<2> QED
  BY <2>4, <2>5, <2>7
<1>7. ASSUME NEW kill \in BOOLEAN, ForceKill(kill) PROVE IInv'
<2>1. /\ timers[kill] \in Nat
      /\ \A k \in BOOLEAN : timers'[k] = IF k = kill THEN timers[kill] - 1 ELSE timers[k]
  BY <1>7 DEF ForceKill, TypeOK
<2>2. ~running /\ timers' \in [BOOLEAN -> 0..MaxSignals] /\ primary # "new"
  BY <1>7, <2>1 DEF ForceKill, TypeOK, Phases
<2>3. TypeOK'
  BY <1>7, <2>2 DEF ForceKill, TypeOK, Listed
<2>4. StrengthKept' /\ Counted'
  BY <1>1, <1>7, <2>2 DEF ForceKill, StrengthKept, Counted
<2>5. Phases' /\ Observed'
  BY <1>1, <1>7, <2>1, <2>2 DEF ForceKill, Phases, Observed, TypeOK
<2>6. \A w \in Workers : Alive(w) => w \in registered \cup released
  BY DEF Alive, Observed, TypeOK, Workers
<2>7. NobodyMissed'
  BY <1>7, <2>6 DEF ForceKill, NobodyMissed, Alive, Listed
<2> QED
  BY <2>3, <2>4, <2>5, <2>7
<1> QED
  BY <1>2, <1>3, <1>4, <1>5, <1>6, <1>7

\* A worker may only do what leaves the primary's variables alone.
LEMMA WorkerInv == ASSUME IInv, NEW w \in Workers, Worker(w) PROVE IInv'
<1> USE Finite, ClusterAssumption DEF IInv
<1>1. /\ UNCHANGED <<options, primary, running, expired, started, timers, leaving, forks,
                      registered, seen, released, signalled, signals>>
      /\ Gone' = Gone /\ Connected' = Connected
  BY DEF Worker, WorkerStarts, Crash, DiesOfSignal, WorkerDisconnects, WorkerObeys, WorkerDrains,
         LosesPrimary, WorkerEnds, CountFault, service, node, counts, Gone, Connected
<1>2. /\ process' \in [Workers -> {"none", "starting", "online", "ended"}]
      /\ w \in 1..forks /\ closed' \subseteq closed \cup {w} /\ graceful' \subseteq graceful \cup {w}
      /\ closed \subseteq closed' /\ graceful \subseteq graceful'
      /\ \A v \in Workers : process'[v] = process[v] \/ (Alive(v) /\ process'[v] \in {"online", "ended"})
<2>1. w \in 1..forks
  BY DEF Worker, WorkerStarts, Crash, DiesOfSignal, WorkerDisconnects, WorkerObeys, WorkerDrains,
         LosesPrimary, WorkerEnds, Alive, TypeOK, Workers
<2> QED
  BY <2>1 DEF Worker, WorkerStarts, Crash, DiesOfSignal, WorkerDisconnects, WorkerObeys,
     WorkerDrains, LosesPrimary, WorkerEnds, Alive, TypeOK
<1>3. faults' \in 0..MaxFaults /\ faults' >= faults
  BY DEF Worker, WorkerStarts, Crash, DiesOfSignal, WorkerDisconnects, WorkerObeys, WorkerDrains,
         LosesPrimary, WorkerEnds, CountFault, counts, TypeOK
<1>4. TypeOK'
  BY <1>1, <1>2, <1>3 DEF TypeOK, Alive
<1>5. primary # "exited" =>
        Disturbed' \subseteq Disturbed \/ (Disturbed' \subseteq Disturbed \cup {w} /\ faults' = faults + 1)
  BY <1>1, <1>2 DEF Worker, WorkerStarts, Crash, DiesOfSignal, WorkerDisconnects, WorkerObeys,
     WorkerDrains, LosesPrimary, WorkerEnds, CountFault, counts, Disturbed
<1>6. StrengthKept' /\ Counted'
  BY <1>1, <1>3, <1>4, <1>5, Steady
<1>7. Phases' /\ Observed'
  BY <1>1, <1>2 DEF Phases, Observed, Alive
<1>8. NobodyMissed'
  BY <1>1, <1>2 DEF NobodyMissed, Alive
<1> QED
  BY <1>4, <1>6, <1>7, <1>8

LEMMA InvNext == IInv /\ [Next]_vars => IInv'
<1> SUFFICES ASSUME IInv, [Next]_vars PROVE IInv'
  OBVIOUS
<1> USE Finite, ClusterAssumption DEF service, node, workers, counts
<1>1. ASSUME NEW w \in Workers, SeesExit(w) PROVE IInv'
<2>1. /\ seen' \in [Workers -> SUBSET Events]
      /\ \A v \in Workers : seen'[v] = IF v = w THEN seen[w] \cup {"exit"} ELSE seen[v]
  BY <1>1 DEF SeesExit, IInv, TypeOK, Events
<2>2. Gone' = Gone /\ Connected' = Connected /\ Disturbed' = Disturbed
  BY <1>1, <2>1 DEF SeesExit, Gone, Connected, Disturbed, IInv
<2>3. TypeOK'
  BY <1>1, <2>1 DEF SeesExit, IInv, TypeOK
<2>4. StrengthKept' /\ Counted'
  BY <1>1, <2>2, <2>3, Steady DEF SeesExit, IInv
<2>5. Phases' /\ NobodyMissed' /\ Observed'
  BY <1>1, <2>1, <2>2 DEF SeesExit, IInv, Phases, NobodyMissed, Observed, Alive
<2> QED
  BY <2>3, <2>4, <2>5 DEF IInv
<1>2. ASSUME NEW w \in Workers, Kill(w) \/ Disconnect(w) PROVE IInv'
<2>1. Gone' = Gone /\ Connected' = Connected /\ Disturbed' \subseteq Disturbed \cup {w}
      /\ faults' = faults + 1 /\ faults' >= faults
  BY <1>2 DEF Kill, Disconnect, CountFault, Gone, Connected, Disturbed, IInv
<2>2. TypeOK'
  BY <1>2 DEF Kill, Disconnect, CountFault, IInv, TypeOK
<2>3. StrengthKept' /\ Counted'
  BY <1>2, <2>1, <2>2, Steady DEF Kill, Disconnect
<2>4. Phases' /\ NobodyMissed' /\ Observed'
  BY <1>2, <2>1 DEF Kill, Disconnect, CountFault, IInv, Phases, NobodyMissed, Observed, Alive
<2> QED
  BY <2>2, <2>3, <2>4 DEF IInv
<1>3. ASSUME NEW w \in Workers, DisconnectTimeout(w) PROVE IInv'
<2>1. Gone' = Gone /\ Connected' = Connected /\ Disturbed' \subseteq Disturbed
      /\ faults' = faults /\ faults' >= faults
  BY <1>3 DEF DisconnectTimeout, Gone, Connected, Disturbed, IInv
<2>2. TypeOK'
  BY <1>3 DEF DisconnectTimeout, IInv, TypeOK
<2>3. StrengthKept' /\ Counted'
  BY <1>3, <2>1, <2>2, Steady DEF DisconnectTimeout
<2>4. Phases' /\ NobodyMissed' /\ Observed'
  BY <1>3, <2>1 DEF DisconnectTimeout, IInv, Phases, NobodyMissed, Observed, Alive
<2> QED
  BY <2>2, <2>3, <2>4 DEF IInv
<1>4. CASE UNCHANGED vars
<2>1. Gone' = Gone /\ Connected' = Connected /\ Disturbed' = Disturbed
  BY <1>4 DEF vars, Gone, Connected, Disturbed
<2> QED
  BY <1>4, <2>1 DEF vars, IInv, TypeOK, Phases, Observed, Counted, StrengthKept, NobodyMissed, Alive
<1> QED
  BY <1>1, <1>2, <1>3, <1>4, ForkNextInv, SeesDisconnectInv, ServiceInv, WorkerInv
  DEF Next, Primary

LEMMA Invariant == Spec => []IInv
  BY InvInit, InvNext, PTL DEF Spec

\* The variables keep their types; above all the loop and revive() together never fork
\* more workers than configured plus one for each fault.
THEOREM TypeCorrect == Spec => []TypeOK
<1>1. IInv => TypeOK
  BY DEF IInv
<1> QED
  BY <1>1, Invariant, PTL

\* Never too many workers, and none too few while the cluster restarts them.
THEOREM StrengthCorrect == Spec => []StrengthKept
<1>1. IInv => StrengthKept
  BY DEF IInv
<1> QED
  BY <1>1, Invariant, PTL

\* No worker outlives the primary unsignalled, unless it was asked to disconnect.
THEOREM NobodyMissedCorrect == Spec => []NobodyMissed
<1>1. IInv => NobodyMissed
  BY DEF IInv
<1> QED
  BY <1>1, Invariant, PTL
=============================================================================
