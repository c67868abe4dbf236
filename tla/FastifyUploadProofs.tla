-------------------------- MODULE FastifyUploadProofs --------------------------
(***************************************************************************)
(* Theorems about FastifyUpload, for any number of concurrent requests and *)
(* files, shared paths or not, and all options of handlers and storages.   *)
(***************************************************************************)
EXTENDS FastifyUpload, FiniteSetTheorems, TLAPS

Reads(r) == pc[r] \in {"storing", "filtering"}

\* The file a request is reading has been taken and is neither listed nor left over;
\* no removal of a listed file starts before the request fails or has responded.
Bookkeeping ==
  /\ \A r \in Requests : Reads(r) =>
       current[r] \in (Of(r) \cap taken) \ (accepted \cup leftover)
  /\ \A f \in accepted : f \notin leftover
  /\ \A f \in accepted :
       pc[Request[f]] \in {"parsing", "storing", "filtering", "handling", "errored"} =>
         f \notin cleanup \cup rejected

TInv == TypeOK /\ Bookkeeping

\* Names depend on the options only, which never change.
LEMMA SamePaths ==
  ASSUME options' = options
  PROVE  /\ Storage' = Storage /\ RemoveAfter' = RemoveAfter
         /\ \A f \in Files : /\ Path(f)' = Path(f) /\ Alone(f)' = Alone(f)
                            /\ MayRemove(f)' = MayRemove(f)
  BY DEF Storage, RemoveAfter, Path, Alone, SharedNames, CustomName, MayRemove

LEMMA PathsOfFiles == \A f \in Files : Path(f) \in Paths
  BY DEF Path, Paths

-----------------------------------------------------------------------------
(* Types and bookkeeping. *)

LEMMA TypeInit == Init => TInv
<1> SUFFICES ASSUME Init PROVE TInv
  OBVIOUS
<1>1. held \in [Paths -> Files \cup {NoFile}]
  BY DEF Init
<1> QED
  BY <1>1 DEF Init, TInv, TypeOK, Bookkeeping, Reads

LEMMA TypeNext == TInv /\ [Next]_vars => TInv'
<1> SUFFICES ASSUME TInv, [Next]_vars PROVE TInv'
  OBVIOUS
<1> USE UploadAssumption, PathsOfFiles DEF TInv, TypeOK, Bookkeeping, Reads, Of, Kept, reading
<1>1. ASSUME NEW r \in Requests, NEW f \in Of(r), TakeFile(r, f) PROVE TInv'
<2>1. held' \in [Paths -> Files \cup {NoFile}]
  BY <1>1 DEF TakeFile
<2>2. CASE Admits(r, f)
  BY <1>1, <2>1, <2>2 DEF TakeFile
<2>3. CASE ~Admits(r, f)
  BY <1>1, <2>1, <2>3 DEF TakeFile, Catch
<2> QED
  BY <2>2, <2>3
<1>2. ASSUME NEW r \in Requests, Store(r) PROVE TInv'
<2>1. held' \in [Paths -> Files \cup {NoFile}]
  BY <1>2 DEF Store
<2> QED
  BY <1>2, <2>1 DEF Store
<1>3. ASSUME NEW r \in Requests, StoreFails(r) PROVE TInv'
  BY <1>3 DEF StoreFails, Catch
<1>4. ASSUME NEW r \in Requests, FilterAccepts(r) PROVE TInv'
  BY <1>4 DEF FilterAccepts
<1>5. ASSUME NEW r \in Requests, FilterDrops(r) PROVE TInv'
  BY <1>5 DEF FilterDrops
<1>6. ASSUME NEW r \in Requests, FilterThrows(r) PROVE TInv'
<2>1. held' \in [Paths -> Files \cup {NoFile}]
  BY <1>6 DEF FilterThrows
<2> QED
  BY <1>6, <2>1 DEF FilterThrows, Catch
<1>7. ASSUME NEW r \in Requests, PartsFail(r) PROVE TInv'
  BY <1>7 DEF PartsFail, Catch
<1>8. ASSUME NEW r \in Requests, PartsEnd(r) PROVE TInv'
  BY <1>8 DEF PartsEnd
<1>9. ASSUME NEW r \in Requests, HandlerResponds(r) PROVE TInv'
  BY <1>9 DEF HandlerResponds
<1>10. ASSUME NEW r \in Requests, HandlerThrows(r) PROVE TInv'
  BY <1>10 DEF HandlerThrows
<1>11. ASSUME NEW r \in Requests, NEW f \in Of(r), ReadToEnd(r, f) PROVE TInv'
  BY <1>11 DEF ReadToEnd
<1>12. ASSUME NEW r \in Requests, NEW f \in Of(r), StreamBreaks(r, f) PROVE TInv'
  BY <1>12 DEF StreamBreaks
<1>13. ASSUME NEW r \in Requests, Rethrow(r) PROVE TInv'
  BY <1>13 DEF Rethrow
<1>14. ASSUME NEW r \in Requests, NEW f \in Of(r), RemoveByForce(r, f) PROVE TInv'
<2>1. held' \in [Paths -> Files \cup {NoFile}]
  BY <1>14 DEF RemoveByForce, Removed, Rejects
<2> QED
  BY <1>14, <2>1 DEF RemoveByForce, Removed, Rejects
<1>15. ASSUME NEW r \in Requests, NEW f \in Of(r), RemoveFile(r, f) PROVE TInv'
<2>1. held' \in [Paths -> Files \cup {NoFile}]
  BY <1>15 DEF RemoveFile, Removed, Rejects
<2> QED
  BY <1>15, <2>1 DEF RemoveFile, Removed, Rejects
<1>16. CASE UNCHANGED vars
  BY <1>16 DEF vars
<1> QED
  BY <1>1, <1>2, <1>3, <1>4, <1>5, <1>6, <1>7, <1>8, <1>9, <1>10, <1>11, <1>12, <1>13,
     <1>14, <1>15, <1>16
  DEF Next, Removal

LEMMA TypeInvariant == Spec => []TInv
  BY TypeInit, TypeNext, PTL DEF Spec

\* The variables keep their types: only listed files are removed, read or rejected, and
\* none has a removal under way that has already rejected.
THEOREM TypeCorrect == Spec => []TypeOK
<1>1. TInv => TypeOK
  BY DEF TInv
<1> QED
  BY <1>1, TypeInvariant, PTL

-----------------------------------------------------------------------------
(* Where the files are.  A listed file whose path is nobody else's stays in    *)
(* place while anybody may still read or remove it, so no removal finds it     *)
(* gone; and what a path holds belongs to somebody who will remove it.         *)

\* A listed file that nobody has removed yet.
Waits(f) ==
  \/ f \in cleanup
  \/ pc[Request[f]] \in {"parsing", "storing", "filtering", "handling", "errored"}
  \/ /\ pc[Request[f]] = "responded"
     /\ ~MayRemove(f) \/ (Storage = "stream" /\ f \notin ended)

\* The file being read is where it was opened, in memory once it is complete.
Written(r) ==
  pc[r] = "filtering" \/ (pc[r] = "storing" /\ Storage # "memory")

InPlace ==
  /\ \A f \in accepted : Alone(f) /\ Waits(f) => held[Path(f)] = f
  /\ \A r \in Requests : Written(r) /\ Alone(current[r]) => held[Path(current[r])] = current[r]

Owned ==
  \A f \in Files : held[Path(f)] = f =>
    /\ \/ f \in accepted \cup leftover
       \/ Reads(Request[f]) /\ current[Request[f]] = f
    /\ pc[Request[f]] \in {"cleaning", "failed"} => f \in leftover \cup cleanup

PInv == InPlace /\ Owned /\ RemovedOnce

LEMMA PlaceInit == TInv /\ Init => PInv
<1> SUFFICES ASSUME TInv, Init PROVE PInv
  OBVIOUS
<1>1. \A f \in Files : held[Path(f)] = NoFile
  BY PathsOfFiles DEF Init
<1> QED
  BY <1>1, UploadAssumption DEF Init, PInv, InPlace, Owned, RemovedOnce, Written

LEMMA PlaceNext == TInv /\ TInv' /\ PInv /\ [Next]_vars => PInv'
<1> SUFFICES ASSUME TInv, TInv', PInv, [Next]_vars PROVE PInv'
  OBVIOUS
<1>0. /\ Storage' = Storage /\ RemoveAfter' = RemoveAfter
      /\ \A f \in Files : /\ Path(f)' = Path(f) /\ Alone(f)' = Alone(f)
                         /\ MayRemove(f)' = MayRemove(f)
<2>1. options' = options
  BY DEF Next, vars, TakeFile, Store, StoreFails, FilterAccepts, FilterDrops, FilterThrows,
         PartsFail, PartsEnd, HandlerResponds, HandlerThrows, ReadToEnd, StreamBreaks, Removal,
         Rethrow, RemoveByForce, RemoveFile
<2> QED
  BY <2>1, SamePaths
<1> USE UploadAssumption, <1>0
    DEF TInv, TypeOK, Bookkeeping, Reads, Of, Kept, reading, PInv, InPlace, Owned, RemovedOnce,
        Waits, Written
<1>1. ASSUME NEW r \in Requests, NEW f \in Of(r), TakeFile(r, f) PROVE PInv'
<2>1. CASE Admits(r, f) /\ Storage # "memory"
<3>1. held' = [held EXCEPT ![Path(f)] = f]
  BY <1>1, <2>1 DEF TakeFile
<3>2. \A g \in Files :
        /\ held'[Path(g)] = IF Path(g) = Path(f) THEN f ELSE held[Path(g)]
        /\ Alone(g) /\ g # f => held'[Path(g)] = held[Path(g)]
  BY <3>1, PathsOfFiles DEF Alone
<3> QED
  BY <1>1, <2>1, <3>2 DEF TakeFile
<2>2. CASE Admits(r, f) /\ Storage = "memory"
  BY <1>1, <2>2 DEF TakeFile
<2>3. CASE ~Admits(r, f)
  BY <1>1, <2>3 DEF TakeFile, Catch
<2> QED
  BY <2>1, <2>2, <2>3
<1>2. ASSUME NEW r \in Requests, Store(r) PROVE PInv'
<2>1. CASE Storage = "memory"
<3>1. current[r] \in Files
  BY <1>2 DEF Store
<3>2. held' = [held EXCEPT ![Path(current[r])] = current[r]]
  BY <1>2, <2>1 DEF Store
<3>3. \A g \in Files :
        /\ held'[Path(g)] = IF Path(g) = Path(current[r]) THEN current[r] ELSE held[Path(g)]
        /\ Alone(g) /\ g # current[r] => held'[Path(g)] = held[Path(g)]
  BY <3>1, <3>2, PathsOfFiles DEF Alone
<3> QED
  BY <1>2, <2>1, <3>1, <3>3 DEF Store
<2>2. CASE Storage # "memory"
  BY <1>2, <2>2 DEF Store
<2> QED
  BY <2>1, <2>2
<1>3. ASSUME NEW r \in Requests, StoreFails(r) PROVE PInv'
  BY <1>3 DEF StoreFails, Catch
<1>4. ASSUME NEW r \in Requests, FilterAccepts(r) PROVE PInv'
  BY <1>4 DEF FilterAccepts
<1>5. ASSUME NEW r \in Requests, FilterDrops(r) PROVE PInv'
  BY <1>5 DEF FilterDrops
<1>6. ASSUME NEW r \in Requests, FilterThrows(r) PROVE PInv'
<2>1. current[r] \in Files
  BY <1>6 DEF FilterThrows
<2>2. held' = [held EXCEPT ![Path(current[r])] = NoFile]
  BY <1>6 DEF FilterThrows
<2>3. \A g \in Files :
        /\ held'[Path(g)] = IF Path(g) = Path(current[r]) THEN NoFile ELSE held[Path(g)]
        /\ Alone(g) /\ g # current[r] => held'[Path(g)] = held[Path(g)]
  BY <2>1, <2>2, PathsOfFiles DEF Alone
<2> QED
  BY <1>6, <2>1, <2>3 DEF FilterThrows, Catch
<1>7. ASSUME NEW r \in Requests, PartsFail(r) PROVE PInv'
  BY <1>7 DEF PartsFail, Catch
<1>8. ASSUME NEW r \in Requests, PartsEnd(r) PROVE PInv'
  BY <1>8 DEF PartsEnd
<1>9. ASSUME NEW r \in Requests, HandlerResponds(r) PROVE PInv'
  BY <1>9 DEF HandlerResponds
<1>10. ASSUME NEW r \in Requests, HandlerThrows(r) PROVE PInv'
  BY <1>10 DEF HandlerThrows
<1>11. ASSUME NEW r \in Requests, NEW f \in Of(r), ReadToEnd(r, f) PROVE PInv'
  BY <1>11 DEF ReadToEnd
<1>12. ASSUME NEW r \in Requests, NEW f \in Of(r), StreamBreaks(r, f) PROVE PInv'
  BY <1>12 DEF StreamBreaks
<1>13. ASSUME NEW r \in Requests, Rethrow(r) PROVE PInv'
  BY <1>13 DEF Rethrow
<1>14. ASSUME NEW r \in Requests, NEW f \in Of(r), RemoveByForce(r, f) PROVE PInv'
<2>1. CASE Gone(f)
  BY <1>14, <2>1 DEF RemoveByForce, Rejects, Gone
<2>2. CASE ~Gone(f)
<3>1. held' = [held EXCEPT ![Path(f)] = NoFile]
  BY <1>14, <2>2 DEF RemoveByForce, Removed
<3>2. \A g \in Files :
        /\ held'[Path(g)] = IF Path(g) = Path(f) THEN NoFile ELSE held[Path(g)]
        /\ Alone(g) /\ g # f => held'[Path(g)] = held[Path(g)]
  BY <3>1, PathsOfFiles DEF Alone
<3> QED
  BY <1>14, <2>2, <3>2 DEF RemoveByForce, Removed
<2> QED
  BY <2>1, <2>2
<1>15. ASSUME NEW r \in Requests, NEW f \in Of(r), RemoveFile(r, f) PROVE PInv'
<2>1. CASE ~MayRemove(f)
  BY <1>15, <2>1 DEF RemoveFile
<2>2. CASE MayRemove(f) /\ (Gone(f) \/ f \in broken)
  BY <1>15, <2>2 DEF RemoveFile, Rejects, Gone
<2>3. CASE MayRemove(f) /\ ~Gone(f) /\ f \notin broken
<3>1. held' = [held EXCEPT ![Path(f)] = NoFile]
  BY <1>15, <2>3 DEF RemoveFile, Removed
<3>2. \A g \in Files :
        /\ held'[Path(g)] = IF Path(g) = Path(f) THEN NoFile ELSE held[Path(g)]
        /\ Alone(g) /\ g # f => held'[Path(g)] = held[Path(g)]
  BY <3>1, PathsOfFiles DEF Alone
<3> QED
  BY <1>15, <2>3, <3>2 DEF RemoveFile, Removed
<2> QED
  BY <2>1, <2>2, <2>3
<1>16. CASE UNCHANGED vars
  BY <1>16 DEF vars
<1> QED
  BY <1>1, <1>2, <1>3, <1>4, <1>5, <1>6, <1>7, <1>8, <1>9, <1>10, <1>11, <1>12, <1>13,
     <1>14, <1>15, <1>16
  DEF Next, Removal

LEMMA PlaceInvariant == Spec => [](TInv /\ PInv)
  BY TypeInit, TypeNext, PlaceInit, PlaceNext, PTL DEF Spec

\* What the route handler was given is there while it may be read, whatever concurrent
\* requests do.
THEOREM HandlerHasItsFilesCorrect == Spec => []HandlerHasItsFiles
<1>1. TInv /\ PInv => HandlerHasItsFiles
  BY DEF TInv, TypeOK, PInv, InPlace, Waits, MayRemove, HandlerHasItsFiles, Kept, Of
<1> QED
  BY <1>1, PlaceInvariant, PTL

\* A failed request leaves no file behind but those the code lets go of.
THEOREM FailedRequestsCleanUpCorrect == Spec => []FailedRequestsCleanUp
<1>1. PInv => FailedRequestsCleanUp
  BY DEF PInv, Owned, FailedRequestsCleanUp, Of
<1> QED
  BY <1>1, PlaceInvariant, PTL

\* A removal rejects only for a shared path or a stream whose reader gave up.
THEOREM RemovedOnceCorrect == Spec => []RemovedOnce
<1>1. PInv => RemovedOnce
  BY DEF PInv
<1> QED
  BY <1>1, PlaceInvariant, PTL

-----------------------------------------------------------------------------
(* Limits.  A set of listed files is within the limits of its handler while the *)
(* file that is being read could still join it.                                  *)

SameField(K, f) == {g \in K : Field[g] = Field[f]}

Within(K) ==
  /\ options.handler # "any" => \A f \in K : Field[f] \in options.accepts
  /\ options.handler = "single" => Cardinality(K) <= 1
  /\ options.handler = "multiple" => Cardinality(K) <= options.maxCount
  /\ options.handler = "fields" => \A f \in K : Cardinality(SameField(K, f)) <= options.maxCount

LInv ==
  \A r \in Requests :
    /\ Within(Kept(r))
    /\ Reads(r) => Within(Kept(r) \cup {current[r]})

\* A file the handler admits leaves the list within its limits.
LEMMA AdmittedFits ==
  ASSUME TInv, NEW r \in Requests, NEW f \in Of(r), f \notin taken,
         Within(Kept(r)), Admits(r, f)
  PROVE  Within(Kept(r) \cup {f})
<1> DEFINE K == Kept(r)
<1>1. /\ K \subseteq Files /\ IsFiniteSet(K) /\ f \in Files /\ f \notin K
      /\ options.maxCount \in Nat /\ options.handler \in {"any", "single", "multiple", "fields"}
<2>1. K \subseteq Files /\ f \in Files /\ f \notin K
  BY DEF Kept, Of, TInv, TypeOK
<2>2. IsFiniteSet(K)
  BY <2>1, UploadAssumption, FS_Subset
<2>3. options.maxCount \in Nat /\ options.handler \in {"any", "single", "multiple", "fields"}
  BY UploadAssumption DEF TInv, TypeOK, OptionRecords
<2> QED
  BY <2>1, <2>2, <2>3
<1>2. ASSUME NEW S \in SUBSET K
      PROVE  /\ IsFiniteSet(S) /\ Cardinality(S) \in Nat
             /\ Cardinality(S \cup {f}) = Cardinality(S) + 1
<2>1. IsFiniteSet(S) /\ f \notin S
  BY <1>1, FS_Subset
<2> QED
  BY <2>1, FS_AddElement, FS_CardinalityType
<1>3. CASE options.handler = "any"
  BY <1>3 DEF Within
<1>4. CASE options.handler = "single"
<2>1. Cardinality(K) + 1 <= 1 /\ Field[f] \in options.accepts
  BY <1>4 DEF Admits, Fits
<2> QED
  BY <1>2, <1>4, <2>1 DEF Within
<1>5. CASE options.handler = "multiple"
<2>1. Cardinality(K) + 1 <= options.maxCount /\ Field[f] \in options.accepts
  BY <1>5 DEF Admits, Fits
<2> QED
  BY <1>2, <1>5, <2>1 DEF Within
<1>6. CASE options.handler = "fields"
<2>1. Cardinality(SameField(K, f)) + 1 <= options.maxCount /\ Field[f] \in options.accepts
  BY <1>6 DEF Admits, Fits, SameField
<2>2. ASSUME NEW g \in K \cup {f}
      PROVE  Cardinality(SameField(K \cup {f}, g)) <= options.maxCount
<3>1. CASE Field[g] = Field[f]
<4>1. SameField(K \cup {f}, g) = SameField(K, f) \cup {f}
  BY <3>1 DEF SameField
<4>2. SameField(K, f) \in SUBSET K
  BY DEF SameField
<4> QED
  BY <1>2, <2>1, <4>1, <4>2
<3>2. CASE Field[g] # Field[f]
<4>1. SameField(K \cup {f}, g) = SameField(K, g) /\ g \in K
  BY <3>2 DEF SameField
<4> QED
  BY <1>6, <4>1 DEF Within
<3> QED
  BY <3>1, <3>2
<2> QED
  BY <1>6, <2>1, <2>2 DEF Within
<1> QED
  BY <1>1, <1>3, <1>4, <1>5, <1>6

LEMMA LimitsInit == TInv /\ Init => LInv
<1> SUFFICES ASSUME TInv, Init, NEW r \in Requests PROVE Within(Kept(r))
  BY DEF Init, LInv, Reads
<1>1. Kept(r) = {}
  BY DEF Init, Kept
<1>2. Cardinality({}) = 0
  BY FS_EmptySet
<1>3. options.maxCount \in Nat
  BY UploadAssumption DEF TInv, TypeOK, OptionRecords
<1> QED
  BY <1>1, <1>2, <1>3 DEF Within

LEMMA LimitsNext == TInv /\ LInv /\ [Next]_vars => LInv'
<1> SUFFICES ASSUME TInv, LInv, [Next]_vars PROVE LInv'
  OBVIOUS
<1>1. options' = options
  BY DEF Next, vars, TakeFile, Store, StoreFails, FilterAccepts, FilterDrops, FilterThrows,
         PartsFail, PartsEnd, HandlerResponds, HandlerThrows, ReadToEnd, StreamBreaks, Removal,
         Rethrow, RemoveByForce, RemoveFile
<1>2. ASSUME NEW K PROVE Within(K)' <=> Within(K)
  BY <1>1 DEF Within
<1>3. ASSUME accepted' = accepted, \A r \in Requests : Reads(r)' => Reads(r) /\ current'[r] = current[r]
      PROVE  LInv'
<2>1. \A r \in Requests : Kept(r)' = Kept(r)
  BY <1>3 DEF Kept
<2> QED
  BY <1>1, <1>3, <2>1 DEF LInv, Within
<1>4. ASSUME NEW r \in Requests, NEW f \in Of(r), TakeFile(r, f), Admits(r, f) PROVE LInv'
<2>1. /\ \A t \in Requests : Kept(t)' = Kept(t)
      /\ \A t \in Requests : Reads(t)' => t = r \/ (Reads(t) /\ current'[t] = current[t])
      /\ current'[r] = f /\ f \notin taken
  BY <1>4 DEF TakeFile, TInv, TypeOK, Kept, Reads
<2>2. Within(Kept(r) \cup {f})
  BY <1>4, <2>1, AdmittedFits DEF LInv
<2> QED
  BY <1>1, <2>1, <2>2 DEF LInv, Within
<1>5. ASSUME NEW r \in Requests, FilterAccepts(r) PROVE LInv'
<2>1. current[r] \in Of(r)
  BY <1>5 DEF FilterAccepts, TInv, Bookkeeping, Reads
<2>2. /\ Kept(r)' = Kept(r) \cup {current[r]}
      /\ \A t \in Requests \ {r} : Kept(t)' = Kept(t)
      /\ \A t \in Requests : Reads(t)' => Reads(t) /\ t # r /\ current'[t] = current[t]
  BY <1>5, <2>1 DEF FilterAccepts, TInv, TypeOK, Kept, Reads, Of
<2>3. Within(Kept(r) \cup {current[r]})
  BY <1>5 DEF FilterAccepts, LInv, Reads
<2> QED
  BY <1>1, <2>2, <2>3 DEF LInv, Within
<1>6. ASSUME NEW r \in Requests,
             \/ Store(r) \/ StoreFails(r) \/ FilterDrops(r) \/ FilterThrows(r) \/ PartsFail(r)
             \/ PartsEnd(r) \/ HandlerResponds(r) \/ HandlerThrows(r) \/ Removal(r)
      PROVE  LInv'
<2>1. accepted' = accepted
  BY <1>6 DEF Store, StoreFails, FilterDrops, FilterThrows, PartsFail, PartsEnd, HandlerResponds,
       HandlerThrows, Removal, Rethrow, RemoveByForce, RemoveFile
<2>2. \A t \in Requests : Reads(t)' => Reads(t) /\ current'[t] = current[t]
  BY <1>6 DEF Store, StoreFails, FilterDrops, FilterThrows, PartsFail, PartsEnd, HandlerResponds,
       HandlerThrows, Removal, Rethrow, RemoveByForce, RemoveFile, Catch, TInv, TypeOK, Reads
<2> QED
  BY <1>3, <2>1, <2>2
<1>7. CASE UNCHANGED vars
  BY <1>3, <1>7 DEF vars, Reads
<1>8. ASSUME NEW r \in Requests, NEW f \in Of(r), TakeFile(r, f), ~Admits(r, f) PROVE LInv'
<2>1. accepted' = accepted /\ \A t \in Requests : Reads(t)' => Reads(t) /\ current'[t] = current[t]
  BY <1>8 DEF TakeFile, Catch, TInv, TypeOK, Reads
<2> QED
  BY <1>3, <2>1
<1>9. ASSUME NEW r \in Requests, NEW f \in Of(r), ReadToEnd(r, f) \/ StreamBreaks(r, f)
      PROVE  LInv'
<2>1. accepted' = accepted /\ \A t \in Requests : Reads(t)' => Reads(t) /\ current'[t] = current[t]
  BY <1>9 DEF ReadToEnd, StreamBreaks, Reads
<2> QED
  BY <1>3, <2>1
<1> QED
  BY <1>4, <1>5, <1>6, <1>7, <1>8, <1>9 DEF Next

\* A request reaches its route handler only within its limits, for any limits and any
\* number of files, dropped, failed or accepted.
THEOREM LimitsHoldCorrect == Spec => []LimitsHold
<1>1. Spec => [](TInv /\ LInv)
  BY TypeInit, TypeNext, LimitsInit, LimitsNext, PTL DEF Spec
<1>2. TInv /\ LInv => LimitsHold
  BY DEF LInv, Within, SameField, LimitsHold
<1> QED
  BY <1>1, <1>2, PTL
=============================================================================
