----------------------------- MODULE FastifyUpload -----------------------------
(***************************************************************************)
(* Multipart uploads (fastify-upload): the interceptors parse the parts of *)
(* a request, store each file, filter it, and hand the accepted files to   *)
(* the route handler; a storage keeps them in memory, on disk, or in a     *)
(* temporary file that is read as a stream.  Requests run concurrently and *)
(* share the file system.                                                  *)
(*                                                                         *)
(* A stored file is a path holding the upload written there last.  Field   *)
(* values, encodings and sizes are left out.                               *)
(***************************************************************************)
EXTENDS Naturals, FiniteSets

CONSTANTS
  Requests,
  Files,       \* the files clients upload, each in one request
  Request,     \* [Files -> Requests]
  Field,       \* [Files -> field names]
  Name,        \* [Files -> original file names]
  Options      \* configurations: a set of option records

NoFile == "none"

OptionRecords ==
  [handler : {"any", "single", "multiple", "fields"},
   accepts : SUBSET {Field[f] : f \in Files},   \* fields that may hold files
   maxCount : Nat,
   storage : {"memory", "disk", "stream"},
   dest : BOOLEAN,          \* the dest option is given
   removeAfter : BOOLEAN,   \* DiskStorage option
   customName : BOOLEAN]    \* DiskStorage option filename reuses the original name

ASSUME UploadAssumption ==
  /\ IsFiniteSet(Files)
  /\ Request \in [Files -> Requests]
  /\ DOMAIN Field = Files /\ DOMAIN Name = Files
  /\ NoFile \notin Files
  /\ Options \subseteq OptionRecords

VARIABLES
  options,    \* the interceptor's options
  pc,         \* per request, where it is
  current,    \* per request, the file being stored or filtered
  taken,      \* files whose part has been read
  accepted,   \* files pushed to the list the route handler gets
  held,       \* per path, the upload stored there
  cleanup,    \* files with a removal under way
  ended,      \* accepted files whose content was read to the end
  broken,     \* accepted files whose stream was destroyed before its end
  rejected,   \* files whose removal rejected
  leftover    \* history: files dropped by the filter or cut off while stored

reading == <<ended, broken, rejected>>
vars    == <<options, pc, current, taken, accepted, held, cleanup, reading, leftover>>

\* transformUploadOptions: dest replaces whatever storage is given by a DiskStorage,
\* which inherits the options of a DiskStorage only.
Storage     == IF options.dest THEN "disk" ELSE options.storage
RemoveAfter == options.storage = "disk" /\ options.removeAfter
CustomName  == options.storage = "disk" /\ options.customName

\* getFilename and temporaryFileOutput: a random name, or the client's.
SharedNames == Storage = "stream" \/ (Storage = "disk" /\ CustomName)
Path(f)     == IF SharedNames THEN Name[f] ELSE f
Paths       == Files \cup {Name[f] : f \in Files}

Of(r) == {f \in Files : Request[f] = r}
Kept(r) == accepted \cap Of(r)

\* The path of f is nobody else's.
Alone(f) == \A g \in Files \ {f} : Path(g) # Path(f)

TypeOK ==
  /\ options \in Options
  /\ pc \in [Requests -> {"parsing", "storing", "filtering", "cleaning", "handling",
                          "responded", "errored", "failed"}]
  /\ current \in [Requests -> Files \cup {NoFile}]
  /\ taken \subseteq Files /\ accepted \subseteq taken
  /\ held \in [Paths -> Files \cup {NoFile}]
  /\ cleanup \subseteq accepted
  /\ ended \subseteq accepted /\ broken \subseteq accepted \ ended
  /\ rejected \subseteq accepted \ cleanup
  /\ leftover \subseteq taken

Init ==
  /\ options \in Options
  /\ pc = [r \in Requests |-> "parsing"]
  /\ current = [r \in Requests |-> NoFile]
  /\ taken = {} /\ accepted = {} /\ cleanup = {} /\ leftover = {}
  /\ ended = {} /\ broken = {} /\ rejected = {}
  /\ held = [p \in Paths |-> NoFile]

-----------------------------------------------------------------------------
(* Parsing: the loops of the four multipart handlers. *)

\* Faulty variant: the count is compared without the new file.
FitsOneMore(count, limit) == count <= limit

Fits(count, limit) == count + 1 <= limit

\* Whether the handler takes a file of this field: it checks the field's name, then
\* how many files it has accepted so far, for that field or in all.
Admits(r, f) ==
  \/ options.handler = "any"
  \/ /\ Field[f] \in options.accepts
     /\ LET counted == IF options.handler = "fields"
                         THEN {g \in Kept(r) : Field[g] = Field[f]} ELSE Kept(r)
            limit == IF options.handler = "single" THEN 1 ELSE options.maxCount
        IN  Fits(Cardinality(counted), limit)

\* Faulty variant: every file whose part was read is removed, listed or not.
CatchRemovesTaken(r) ==
  /\ pc' = [pc EXCEPT ![r] = "cleaning"]
  /\ cleanup' = cleanup \cup (taken \cap Of(r))

\* Any error leaves the loop: the catch block removes what was accepted, by force.
Catch(r) ==
  /\ pc' = [pc EXCEPT ![r] = "cleaning"]
  /\ cleanup' = cleanup \cup Kept(r)

\* A file part: refused, or stored.  Both file storages open their path for writing
\* at once; memory holds the file when it is complete.
TakeFile(r, f) ==
  /\ pc[r] = "parsing" /\ f \in Of(r) \ taken
  /\ taken' = taken \cup {f}
  /\ IF Admits(r, f)
       THEN /\ pc' = [pc EXCEPT ![r] = "storing"]
            /\ current' = [current EXCEPT ![r] = f]
            /\ held' = IF Storage = "memory" THEN held ELSE [held EXCEPT ![Path(f)] = f]
            /\ UNCHANGED cleanup
       ELSE Catch(r) /\ UNCHANGED <<current, held>>
  /\ UNCHANGED <<options, accepted, reading, leftover>>

Store(r) ==
  /\ pc[r] = "storing"
  /\ pc' = [pc EXCEPT ![r] = "filtering"]
  /\ held' = IF Storage = "memory" THEN [held EXCEPT ![Path(current[r])] = current[r]] ELSE held
  /\ UNCHANGED <<options, current, taken, accepted, cleanup, reading, leftover>>

\* The upload breaks off or exceeds a limit: the file on disk stays as it is.
StoreFails(r) ==
  /\ pc[r] = "storing"
  /\ Catch(r)
  /\ leftover' = leftover \cup {current[r]}
  /\ UNCHANGED <<options, current, taken, accepted, held, reading>>

FilterAccepts(r) ==
  /\ pc[r] = "filtering"
  /\ pc' = [pc EXCEPT ![r] = "parsing"]
  /\ accepted' = accepted \cup {current[r]}
  /\ UNCHANGED <<options, current, taken, held, cleanup, reading, leftover>>

\* A filter that returns false: the file is neither listed nor removed.
FilterDrops(r) ==
  /\ pc[r] = "filtering"
  /\ pc' = [pc EXCEPT ![r] = "parsing"]
  /\ leftover' = leftover \cup {current[r]}
  /\ UNCHANGED <<options, current, taken, accepted, held, cleanup, reading>>

\* Faulty variant: filterUpload has no catch block.
FilterThrowsKeeping(r) ==
  /\ pc[r] = "filtering"
  /\ Catch(r)
  /\ UNCHANGED <<options, current, taken, accepted, held, reading, leftover>>

\* A filter that throws or returns a message: the file is removed by force first.
FilterThrows(r) ==
  /\ pc[r] = "filtering"
  /\ held' = [held EXCEPT ![Path(current[r])] = NoFile]
  /\ Catch(r)
  /\ UNCHANGED <<options, current, taken, accepted, reading, leftover>>

\* The parts iterator throws between two files.
PartsFail(r) ==
  /\ pc[r] = "parsing"
  /\ Catch(r)
  /\ UNCHANGED <<options, current, taken, accepted, held, reading, leftover>>

PartsEnd(r) ==
  /\ pc[r] = "parsing"
  /\ pc' = [pc EXCEPT ![r] = "handling"]
  /\ UNCHANGED <<options, current, taken, accepted, held, cleanup, reading, leftover>>

-----------------------------------------------------------------------------
(* Removal by the catch block, the route handler, removal after it. *)

\* unlink fails for a file that is gone; StreamStorage ignores that.
Gone(f) == Storage = "disk" /\ held[Path(f)] = NoFile

Removed(f) == held' = [held EXCEPT ![Path(f)] = NoFile] /\ UNCHANGED reading

Rejects(f) == rejected' = rejected \cup {f} /\ UNCHANGED <<held, ended, broken>>

\* removeFile with force, in parallel for all accepted files.  The first one that
\* fails ends the wait for them, and its error replaces the one that was caught.
RemoveByForce(r, f) ==
  /\ pc[r] \in {"cleaning", "failed"} /\ f \in cleanup \cap Of(r)
  /\ cleanup' = cleanup \ {f}
  /\ IF Gone(f) THEN Rejects(f) /\ pc' = [pc EXCEPT ![r] = "failed"]
                ELSE Removed(f) /\ UNCHANGED pc
  /\ UNCHANGED <<options, current, taken, accepted, leftover>>

Rethrow(r) ==
  /\ pc[r] = "cleaning" /\ cleanup \cap Of(r) = {}
  /\ pc' = [pc EXCEPT ![r] = "failed"]
  /\ UNCHANGED <<options, current, taken, accepted, held, cleanup, reading, leftover>>

\* External: a file the route handler was given is read to its end, by the handler
\* or, when it responds with the stream, afterwards; or its reader gives up.
ReadToEnd(r, f) ==
  /\ pc[r] \in {"handling", "responded"} /\ f \in Kept(r) \ (ended \cup broken)
  /\ ended' = ended \cup {f}
  /\ UNCHANGED <<options, pc, current, taken, accepted, held, cleanup, broken, rejected, leftover>>

StreamBreaks(r, f) ==
  /\ pc[r] \in {"handling", "responded"} /\ f \in Kept(r) \ (ended \cup broken)
  /\ Storage = "stream"
  /\ broken' = broken \cup {f}
  /\ UNCHANGED <<options, pc, current, taken, accepted, held, cleanup, ended, rejected, leftover>>

\* Faulty variant: the interceptor does not pipe tap(remove).
HandlerRespondsOnly(r) ==
  /\ pc[r] = "handling"
  /\ pc' = [pc EXCEPT ![r] = "responded"]
  /\ UNCHANGED <<options, current, taken, accepted, held, cleanup, reading, leftover>>

\* tap(remove) runs on the value the handler emits ...
HandlerResponds(r) ==
  /\ pc[r] = "handling"
  /\ pc' = [pc EXCEPT ![r] = "responded"]
  /\ cleanup' = cleanup \cup Kept(r)
  /\ UNCHANGED <<options, current, taken, accepted, held, reading, leftover>>

\* ... so a handler that throws leaves every file where it is.
HandlerThrows(r) ==
  /\ pc[r] = "handling"
  /\ pc' = [pc EXCEPT ![r] = "errored"]
  /\ UNCHANGED <<options, current, taken, accepted, held, cleanup, reading, leftover>>

\* Faulty variant: removeFile behaves as if forced.
MayRemoveAlways(f) == TRUE

\* removeFile without force: DiskStorage keeps the file unless removeAfter,
\* StreamStorage waits for its stream, and fails with it.
MayRemove(f) == Storage = "disk" => RemoveAfter

RemoveFile(r, f) ==
  /\ pc[r] = "responded" /\ f \in cleanup \cap Of(r)
  /\ Storage = "stream" => f \in ended \cup broken
  /\ cleanup' = cleanup \ {f}
  /\ CASE ~MayRemove(f) -> UNCHANGED <<held, reading>>
       [] MayRemove(f) /\ (Gone(f) \/ f \in broken) -> Rejects(f)
       [] OTHER -> Removed(f)
  /\ UNCHANGED <<options, pc, current, taken, accepted, leftover>>

Removal(r) == Rethrow(r) \/ \E f \in Of(r) : RemoveByForce(r, f) \/ RemoveFile(r, f)

Next ==
  \E r \in Requests :
    \/ Store(r) \/ StoreFails(r)
    \/ FilterAccepts(r) \/ FilterDrops(r) \/ FilterThrows(r)
    \/ PartsFail(r) \/ PartsEnd(r)
    \/ HandlerResponds(r) \/ HandlerThrows(r)
    \/ \E f \in Of(r) : TakeFile(r, f) \/ ReadToEnd(r, f) \/ StreamBreaks(r, f)
    \/ Removal(r)

\* A removal that was started goes on.
Spec == Init /\ [][Next]_vars /\ \A r \in Requests : WF_vars(Removal(r))

-----------------------------------------------------------------------------
(* Properties. *)

\* What the route handler was given is there while it may be read, until it responds
\* and, for a stream, until its end, and after it with a DiskStorage that does not
\* remove files, whatever concurrent requests, their failures and their removals do
\* (removeFile; only a path two files share is excepted).
HandlerHasItsFiles ==
  \A r \in Requests : \A f \in Kept(r) :
    Alone(f) /\ (\/ pc[r] = "handling"
                 \/ pc[r] = "responded" /\ Storage = "stream" /\ f \notin ended
                 \/ pc[r] \in {"responded", "errored"} /\ Storage = "disk" /\ ~RemoveAfter)
      => held[Path(f)] = f

\* A failed request leaves none of its files behind, in whatever order parts, filter
\* and storage failed, except what the filter dropped, the file cut off while it was
\* written, and what is still being removed after a first removal failed (the catch
\* blocks of the four handlers, filterUpload).
FailedRequestsCleanUp ==
  \A r \in Requests : pc[r] = "failed" =>
    \A f \in Of(r) \ (leftover \cup cleanup) : held[Path(f)] # f

\* No file is removed twice: a removal finds its file gone only if two files share the
\* path.  It fails, too, with a stream whose reader gave up (DiskStorage.removeFile,
\* StreamStorage.removeFile).  Nobody handles the rejection of a removal after the
\* response, which ends a Node.js process by default: tap() ignores what remove returns.
RemovedOnce == \A f \in rejected : ~Alone(f) \/ f \in broken

\* A request reaches its route handler only within its limits, also when files were
\* dropped by the filter between the accepted ones (maxCount, one file, field names).
LimitsHold ==
  \A r \in Requests : pc[r] \in {"handling", "responded"} =>
    /\ options.handler # "any" => \A f \in Kept(r) : Field[f] \in options.accepts
    /\ options.handler = "single" => Cardinality(Kept(r)) <= 1
    /\ options.handler = "multiple" => Cardinality(Kept(r)) <= options.maxCount
    /\ options.handler = "fields" => \A f \in Kept(r) :
         Cardinality({g \in Kept(r) : Field[g] = Field[f]}) <= options.maxCount

\* After a response each accepted file is removed in the end, where the storage lets
\* go of it: memory always, DiskStorage with removeAfter, a stream that has ended
\* (tap(remove)).
RemovedAfterResponse ==
  \A f \in Files :
    (/\ pc[Request[f]] = "responded" /\ f \in accepted
     /\ (Storage = "disk" => RemoveAfter)
     /\ (Storage = "stream" => f \in ended))
      ~> held[Path(f)] # f
=============================================================================
