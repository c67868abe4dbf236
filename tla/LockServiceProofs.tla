--------------------------- MODULE LockServiceProofs ---------------------------
(***************************************************************************)
(* Theorems about LockService, for any processes and keys, any number of   *)
(* acquisitions and any number of lost connections.                        *)
(***************************************************************************)
EXTENDS LockService, TLAPS

-----------------------------------------------------------------------------
(* Types. *)

LEMMA TypeInit == Init => TypeOK
  BY LockAssumption DEF Init, TypeOK, Acquiring, Awaiting

LEMMA IdsArePairs ==
  /\ NoLock \notin Ids
  /\ \A i \in Ids : i[1] \in Keys /\ i[2] \in 1..MaxLocks
  /\ \A i, j \in Ids : i[1] = j[1] /\ i[2] = j[2] => i = j
  BY LockAssumption DEF Ids

LEMMA TypeNext == TypeOK /\ [Next]_vars => TypeOK'
<1> SUFFICES ASSUME TypeOK, [Next]_vars PROVE TypeOK'
  OBVIOUS
<1> USE LockAssumption, IdsArePairs
    DEF TypeOK, connection, calls, history, Acquiring, Awaiting
<1>1. ASSUME NEW s \in Services, Connecting(s) PROVE TypeOK'
<2>1. CASE OnModuleInit(s)
  BY <2>1 DEF OnModuleInit
<2>2. CASE Connected(s)
  BY <2>2 DEF Connected
<2>3. CASE ConnectionLost(s)
  BY <2>3 DEF ConnectionLost, Lose
<2>4. CASE Tick(s)
  BY <2>4 DEF Tick
<2>5. CASE Deadline(s)
  BY <2>5 DEF Deadline
<2>6. CASE Close(s)
  BY <2>6 DEF Close
<2> QED
  BY <1>1, <2>1, <2>2, <2>3, <2>4, <2>5, <2>6 DEF Connecting
<1>2. ASSUME NEW s \in Services, NEW k \in Keys, NEW how \in Acquiring, Begin(s, k, how)
      PROVE  TypeOK'
<2>1. issued + 1 \in 1..MaxLocks /\ <<k, issued + 1>> \in Ids
  BY <1>2 DEF Begin, Ids
<2>2. id' \in [Services -> Ids \cup {NoLock}]
  BY <1>2, <2>1 DEF Begin
<2> QED
  BY <1>2, <2>1, <2>2 DEF Begin
<1>3. ASSUME NEW s \in Services, Acquired(s) PROVE TypeOK'
  BY <1>3 DEF Acquired, Return
<1>4. ASSUME NEW s \in Services, AcquiredUnheard(s) PROVE TypeOK'
  BY <1>4 DEF AcquiredUnheard, Lose
<1>5. ASSUME NEW s \in Services, AcquireFails(s) PROVE TypeOK'
  BY <1>5 DEF AcquireFails, Return
<1>6. ASSUME NEW s \in Services, CallbackEnds(s) PROVE TypeOK'
  BY <1>6 DEF CallbackEnds
<1>7. ASSUME NEW s \in Services, NEW i \in granted, Unlock(s, i) PROVE TypeOK'
  BY <1>7 DEF Unlock
<1>8. ASSUME NEW s \in Services, Get(s) PROVE TypeOK'
  BY <1>8 DEF Get, Owner, Return
<1>9. ASSUME NEW s \in Services, Delete(s)
      PROVE  store' \in [Keys -> Ids \cup {NoLock}]
  BY <1>9 DEF Delete
<1>10. ASSUME NEW s \in Services, Released(s) PROVE TypeOK'
<2>1. store' \in [Keys -> Ids \cup {NoLock}]
  BY <1>9, <1>10 DEF Released
<2> QED
  BY <1>10, <2>1 DEF Released, Return, Resolves
<1>11. ASSUME NEW s \in Services, ReleasedUnheard(s) PROVE TypeOK'
<2>1. store' \in [Keys -> Ids \cup {NoLock}]
  BY <1>9, <1>11 DEF ReleasedUnheard
<2> QED
  BY <1>11, <2>1 DEF ReleasedUnheard, Lose
<1>12. ASSUME NEW s \in Services, CommandFails(s) PROVE TypeOK'
  BY <1>12 DEF CommandFails, Return
<1>13. ASSUME NEW k \in Keys, Expire(k) PROVE TypeOK'
  BY <1>13 DEF Expire
<1>14. CASE UNCHANGED vars
  BY <1>14 DEF vars
<1> QED
  BY <1>1, <1>2, <1>3, <1>4, <1>5, <1>6, <1>7, <1>8, <1>10, <1>11, <1>12, <1>13, <1>14
  DEF Next, Calling, Lock, Optimistic

\* The variables keep their types: whoever is in a call has a lock id, releases the lock
\* it names, and only ids that were granted expire, are released or are reported kept.
THEOREM TypeCorrect == Spec => []TypeOK
  BY TypeInit, TypeNext, PTL DEF Spec

-----------------------------------------------------------------------------
(* The inductive invariant.  A value in Redis is the id of one acquisition; it *)
(* is there for the key it is for, and it comes there before it is granted and *)
(* never after it expired or was reported kept.                                *)

\* Ids are drawn once: of two acquisitions under way none has the other's id, nor one
\* that was granted.
FreshIds ==
  /\ \A s \in Services : state[s] # "idle" => id[s][2] <= issued
  /\ \A i \in granted : i[2] <= issued
  /\ \A s \in Services : state[s] \in Acquiring => id[s] \notin granted
  /\ \A s, t \in Services :
       state[s] \in Acquiring /\ state[t] \in Acquiring /\ id[s] = id[t] => s = t

\* What a key holds, and that every valid lock is what its key holds.
StoreHolds ==
  /\ \A k \in Keys : store[k] # NoLock =>
       store[k][1] = k /\ store[k] \notin expired \cup kept
  /\ \A i \in Valid : store[i[1]] = i

IInv == TypeOK /\ FreshIds /\ StoreHolds /\ KeptInTime

LEMMA InvInit == Init => IInv
<1> SUFFICES ASSUME Init PROVE IInv
  OBVIOUS
<1>1. TypeOK
  BY TypeInit
<1> QED
  BY <1>1 DEF Init, IInv, FreshIds, StoreHolds, KeptInTime, Valid, Acquiring

\* Steps that leave Redis and what was granted alone keep what the store holds.
LEMMA StoreFrame ==
  ASSUME IInv, UNCHANGED <<store, granted, expired, ended, kept>>
  PROVE  StoreHolds' /\ KeptInTime'
  BY DEF IInv, StoreHolds, KeptInTime, Valid

\* Deleting a lock that the service may release: the lock is not valid afterwards.
LEMMA DeleteKeeps ==
  ASSUME IInv, TypeOK', NEW s \in Services, state[s] = "releasing", Delete(s),
         granted' = granted, expired' = expired, ended' = ended \cup ({id[s]} \ expired)
  PROVE  /\ \A i \in Valid' : store'[i[1]] = i
         /\ \A k \in Keys : store'[k] # NoLock => store'[k] = store[k] /\ store[k] # id[s]
<1> USE IdsArePairs DEF IInv, TypeOK, StoreHolds
<1>1. id[s] \in Ids /\ lock[s] = id[s]
  BY DEF Acquiring, Awaiting
<1>2. \A k \in Keys :
        store'[k] = IF k = id[s][1] /\ store[k] = id[s] THEN NoLock ELSE store[k]
  BY <1>1 DEF Delete
<1>3. ASSUME NEW i \in Valid' PROVE store'[i[1]] = i
<2>1. i \in Valid /\ i # id[s] /\ i \in Ids
  BY <1>1 DEF Valid
<2> QED
  BY <1>2, <2>1
<1>4. ASSUME NEW k \in Keys, store'[k] # NoLock PROVE store'[k] = store[k] /\ store[k] # id[s]
  BY <1>1, <1>2, <1>4
<1> QED
  BY <1>3, <1>4

LEMMA InvNext == IInv /\ [Next]_vars => IInv'
<1> SUFFICES ASSUME IInv, [Next]_vars PROVE IInv'
  OBVIOUS
<1>0. TypeOK /\ TypeOK'
  BY TypeNext DEF IInv
<1> USE <1>0, LockAssumption, IdsArePairs DEF connection, calls, history
<1>1. ASSUME NEW s \in Services, Connecting(s) PROVE IInv'
<2>1. UNCHANGED <<store, calls, history>>
  BY <1>1 DEF Connecting, OnModuleInit, Connected, ConnectionLost, Tick, Deadline, Close
<2> QED
  BY <2>1, StoreFrame DEF IInv, FreshIds
<1>2. ASSUME NEW s \in Services, NEW k \in Keys, NEW how \in Acquiring, Begin(s, k, how)
      PROVE  IInv'
<2>1. issued \in Nat /\ issued' = issued + 1 /\ id'[s] = <<k, issued + 1>> /\ granted' = granted
  BY <1>2 DEF Begin, TypeOK
<2>2. \A t \in Services \ {s} : id'[t] = id[t] /\ state'[t] = state[t]
  BY <1>2 DEF Begin, TypeOK
<2>3. \A t \in Services : state[t] # "idle" => id[t][2] \in Nat
  BY DEF TypeOK
<2>4. FreshIds'
<3>1. ASSUME NEW t \in Services, state'[t] # "idle" PROVE id'[t][2] <= issued'
  BY <2>1, <2>2, <2>3, <3>1 DEF IInv, FreshIds
<3>2. ASSUME NEW i \in granted PROVE i[2] <= issued /\ i[2] < issued'
<4>1. i[2] \in Nat
  BY DEF TypeOK
<4> QED
  BY <2>1, <4>1 DEF IInv, FreshIds
<3>3. id'[s] \notin granted
  BY <2>1, <3>2
<3>4. ASSUME NEW t \in Services \ {s}, state'[t] \in Acquiring PROVE id'[t] # id'[s]
<4>1. id[t][2] <= issued
  BY <2>2, <3>4 DEF IInv, FreshIds, Acquiring
<4> QED
  BY <2>1, <2>2, <2>3, <3>4, <4>1 DEF Acquiring
<3>5. ASSUME NEW t \in Services, state'[t] \in Acquiring PROVE id'[t] \notin granted'
  BY <2>1, <2>2, <3>3, <3>5 DEF IInv, FreshIds
<3>6. ASSUME NEW t \in Services, NEW u \in Services,
             state'[t] \in Acquiring, state'[u] \in Acquiring, id'[t] = id'[u]
      PROVE  t = u
  BY <2>2, <3>4, <3>6 DEF IInv, FreshIds
<3> QED
  BY <2>1, <3>1, <3>2, <3>5, <3>6 DEF FreshIds, TypeOK
<2> QED
  BY <1>2, <2>4, StoreFrame DEF Begin, IInv
<1>3. ASSUME NEW s \in Services, Acquired(s) PROVE IInv'
<2>1. id[s] \in Ids /\ id[s] \notin granted /\ id[s][2] <= issued
  BY <1>3 DEF Acquired, Acquiring, TypeOK, IInv, FreshIds
<2>2. FreshIds'
<3>1. \A t \in Services : /\ state'[t] # "idle" => state[t] # "idle" /\ id'[t] = id[t]
                          /\ state'[t] \in Acquiring => state[t] \in Acquiring /\ t # s
  BY <1>3 DEF Acquired, Return, TypeOK, Acquiring
<3>2. granted' = granted \cup {id[s]} /\ issued' = issued /\ state[s] \in Acquiring
  BY <1>3 DEF Acquired
<3> QED
  BY <2>1, <3>1, <3>2 DEF IInv, FreshIds, Acquiring
<2>3. \A k \in Keys : store'[k] = IF k = id[s][1] THEN id[s] ELSE store[k]
  BY <1>3, <2>1 DEF Acquired, TypeOK
<2>4. StoreHolds'
<3>1. ASSUME NEW i \in Valid' PROVE store'[i[1]] = i
  BY <1>3, <2>1, <2>3 DEF Acquired, Valid, TypeOK, IInv, StoreHolds
<3>2. ASSUME NEW k \in Keys, store'[k] # NoLock
      PROVE  store'[k][1] = k /\ store'[k] \notin (expired \cup kept)'
  BY <1>3, <2>1, <2>3, <3>2 DEF Acquired, TypeOK, IInv, StoreHolds
<3> QED
  BY <3>1, <3>2 DEF StoreHolds
<2> QED
  BY <1>3, <2>2, <2>4 DEF Acquired, IInv, KeptInTime
<1>4. ASSUME NEW s \in Services, AcquiredUnheard(s) PROVE IInv'
<2>1. id[s] \in Ids /\ id[s] \notin granted
  BY <1>4 DEF AcquiredUnheard, Acquiring, TypeOK, IInv, FreshIds
<2>2. \A k \in Keys : store'[k] = IF k = id[s][1] THEN id[s] ELSE store[k]
  BY <1>4, <2>1 DEF AcquiredUnheard, TypeOK
<2>3. StoreHolds'
  BY <1>4, <2>1, <2>2 DEF AcquiredUnheard, Valid, TypeOK, IInv, StoreHolds
<2> QED
  BY <1>4, <2>3 DEF AcquiredUnheard, IInv, FreshIds, KeptInTime
<1>5. ASSUME NEW s \in Services, AcquireFails(s) PROVE IInv'
<2>1. id[s] \in Ids /\ id[s] \notin granted
  BY <1>5 DEF AcquireFails, Acquiring, TypeOK, IInv, FreshIds
<2>2. \A k \in Keys : store'[k] = store[k] \/ (store[k] = id[s] /\ store'[k] = NoLock)
  BY <1>5, <2>1 DEF AcquireFails, TypeOK
<2>3. StoreHolds'
  BY <1>5, <2>1, <2>2 DEF AcquireFails, Valid, TypeOK, IInv, StoreHolds
<2>4. FreshIds'
  BY <1>5 DEF AcquireFails, Return, TypeOK, IInv, FreshIds, Acquiring
<2> QED
  BY <1>5, <2>3, <2>4 DEF AcquireFails, IInv, KeptInTime
<1>6. ASSUME NEW s \in Services, CallbackEnds(s) PROVE IInv'
<2>1. FreshIds'
  BY <1>6 DEF CallbackEnds, TypeOK, IInv, FreshIds, Acquiring
<2> QED
  BY <1>6, <2>1, StoreFrame DEF CallbackEnds, IInv
<1>7. ASSUME NEW s \in Services, NEW i \in granted, Unlock(s, i) PROVE IInv'
<2>1. FreshIds'
  BY <1>7 DEF Unlock, TypeOK, IInv, FreshIds, Acquiring
<2> QED
  BY <1>7, <2>1, StoreFrame DEF Unlock, IInv
<1>8. ASSUME NEW s \in Services, Get(s) PROVE IInv'
<2>1. FreshIds'
  BY <1>8 DEF Get, Return, TypeOK, IInv, FreshIds, Acquiring
<2> QED
  BY <1>8, <2>1, StoreFrame DEF Get, IInv
<1>9. ASSUME NEW s \in Services, Released(s) PROVE IInv'
<2>1. FreshIds'
  BY <1>9 DEF Released, Return, TypeOK, IInv, FreshIds, Acquiring
<2>2. id[s] \in Ids /\ lock[s] = id[s]
  BY <1>9 DEF Released, TypeOK
<2>3. /\ \A i \in Valid' : store'[i[1]] = i
      /\ \A k \in Keys : store'[k] # NoLock => store'[k] = store[k] /\ store[k] # id[s]
  BY <1>9, DeleteKeeps DEF Released
<2>4. kept' \subseteq kept \cup {id[s]} /\ (id[s] \in kept' \ kept => store[id[s][1]] = id[s])
  BY <1>9, <2>2 DEF Released, Resolves
<2>5. StoreHolds'
  BY <1>9, <2>3, <2>4 DEF Released, IInv, StoreHolds
<2>6. id[s] \in kept' \ kept => id[s] \notin expired
  BY <2>2, <2>4 DEF IInv, StoreHolds
<2>7. KeptInTime'
  BY <1>9, <2>4, <2>6 DEF Released, IInv, KeptInTime
<2> QED
  BY <2>1, <2>5, <2>7 DEF IInv
<1>10. ASSUME NEW s \in Services, ReleasedUnheard(s) PROVE IInv'
<2>1. /\ \A i \in Valid' : store'[i[1]] = i
      /\ \A k \in Keys : store'[k] # NoLock => store'[k] = store[k] /\ store[k] # id[s]
  BY <1>10, DeleteKeeps DEF ReleasedUnheard
<2>2. StoreHolds'
  BY <1>10, <2>1 DEF ReleasedUnheard, IInv, StoreHolds
<2> QED
  BY <1>10, <2>2 DEF ReleasedUnheard, IInv, FreshIds, KeptInTime
<1>11. ASSUME NEW s \in Services, CommandFails(s) PROVE IInv'
<2>1. FreshIds'
  BY <1>11 DEF CommandFails, Return, TypeOK, IInv, FreshIds, Acquiring
<2> QED
  BY <1>11, <2>1, StoreFrame DEF CommandFails, IInv
<1>12. ASSUME NEW k \in Keys, Expire(k) PROVE IInv'
<2>1. store[k] \in Ids /\ store[k] \notin kept /\ store[k][1] = k
  BY <1>12 DEF Expire, TypeOK, IInv, StoreHolds
<2>2. \A l \in Keys : store'[l] = IF l = k THEN NoLock ELSE store[l]
  BY <1>12 DEF Expire, TypeOK
<2>3. \A l \in Keys : store'[l] # NoLock => store[l] # store[k]
  BY <2>1, <2>2 DEF IInv, StoreHolds
<2>4. \A i \in Valid' : i \in Valid /\ i # store[k] /\ i \in Ids
  BY <1>12 DEF Expire, Valid, TypeOK
<2>5. StoreHolds'
  BY <1>12, <2>1, <2>2, <2>3, <2>4 DEF Expire, IInv, StoreHolds
<2>6. KeptInTime'
  BY <1>12, <2>1 DEF Expire, IInv, KeptInTime
<2> QED
  BY <1>12, <2>5, <2>6 DEF Expire, IInv, FreshIds
<1>13. CASE UNCHANGED vars
<2>1. UNCHANGED <<connection, store, calls, history>>
  BY <1>13 DEF vars
<2> QED
  BY <2>1, StoreFrame DEF IInv, FreshIds
<1> QED
  BY <1>1, <1>2, <1>3, <1>4, <1>5, <1>6, <1>7, <1>8, <1>9, <1>10, <1>11, <1>12, <1>13
  DEF Next, Calling, Lock, Optimistic, Acquiring

LEMMA Invariant == Spec => []IInv
  BY InvInit, InvNext, PTL DEF Spec

\* Two processes never hold the same key, whatever ids are unlocked between the read
\* of an owner and its release, and whichever answers are lost.
THEOREM ExclusiveCorrect == Spec => []Exclusive
<1>1. IInv => Exclusive
  BY DEF IInv, StoreHolds, Exclusive
<1> QED
  BY <1>1, Invariant, PTL

\* A call that reports success released its lock before the lock expired.
THEOREM KeptInTimeCorrect == Spec => []KeptInTime
<1>1. IInv => KeptInTime
  BY DEF IInv
<1> QED
  BY <1>1, Invariant, PTL
=============================================================================
