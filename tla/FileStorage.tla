----------------------------- MODULE FileStorage -----------------------------
(***************************************************************************)
(* The three storages of packages/file-storage behind FileStorageService:  *)
(* files of a directory tree (FileStorageLocal), objects of a bucket in S3 *)
(* (FileStorageS3) and in Google Cloud Storage (FileStorageGoogle).        *)
(* Several callers upload, move and delete files and delete directories at *)
(* the same time; every awaited call may fail, and each is one step.  The  *)
(* file system and the object stores are external: they are modelled from  *)
(* how the storages use them.                                              *)
(*                                                                         *)
(* A path is a sequence of names.  An object store knows no directories:   *)
(* it lists the keys a string is a prefix of, so a name that starts with   *)
(* another one matters (Extends).  Reading operations, which change        *)
(* nothing, are left out but for readDir; so are sizes and file options.   *)
(***************************************************************************)
EXTENDS Naturals, FiniteSets, Sequences

CONSTANTS
  Callers,    \* each makes one call
  Files,      \* the paths files are stored at
  Extends,    \* pairs <<n, m>> of names where m is n and something more
  Calls,      \* the calls made: a set of call records
  Stored,     \* what may be stored at first, a set of sets of files
  Options,    \* the configurations checked, a set of option records
  PageSize    \* objects in one page of S3's listObjects

Dirs == UNION {{SubSeq(f, 1, n) : n \in 0..Len(f) - 1} : f \in Files}

CallRecords ==
  [kind : {"upload", "move", "deleteFile", "deleteDir"},
   path : Files \cup Dirs,   \* filePath or dirPath
   to : Files \cup Dirs]     \* newFilePath of a move

OptionRecords ==
  [backend : {"fs", "s3", "google"},
   perRequest : BOOLEAN]     \* config.filePath makes the key depend on the request

ASSUME StorageAssumption ==
  /\ IsFiniteSet(Files)
  /\ Files \subseteq Seq(STRING) \ {<<>>}
  /\ Dirs \cap Files = {}
  /\ Calls \subseteq CallRecords
  /\ \A k \in Calls : k.kind # "deleteDir" => k.path \in Files
  /\ \A k \in Calls : k.kind = "move" => k.to \in Files /\ k.path # k.to
  /\ Stored \subseteq SUBSET Files
  /\ Options \subseteq OptionRecords
  /\ PageSize \in Nat \ {0}

VARIABLES
  options,
  file,       \* per path, what is stored there
  dirs,       \* file system: the directories that exist
  call,       \* per caller, its call
  pc,         \* per caller, where the call is
  opened,     \* file system: per caller, where the file it writes to is by now
  page,       \* per caller of deleteDir, the files listed and not yet deleted
  truncated,  \* per caller of deleteDir, whether the listing has more pages
  onRequest,  \* per caller, whether the call still carries its request
  refused,    \* history: per caller of deleteDir, what S3 refused to delete of the last page
  before,     \* history: per mover, what it was to move when its call began
  touched     \* history: per caller, the paths others changed since its call began

calls   == <<call, page, truncated, onRequest, refused>>
history == <<before, touched>>
vars    == <<options, file, dirs, opened, pc, calls, history>>

\* A stored file carries the name of the caller that wrote it; a mixed one has bytes of
\* several, or a hole between them.
Initially  == "initially"
Contents   == [by : Callers \cup {Initially}, state : {"none", "partial", "whole", "mixed"}]
None       == [by |-> Initially, state |-> "none"]
Mixed      == [by |-> Initially, state |-> "mixed"]
Whole(c)   == [by |-> c, state |-> "whole"]
Partial(c) == [by |-> c, state |-> "partial"]

Nowhere     == <<>>   \* where a file is that has no path (any more)
Exists(p)   == file[p] # None
Local       == options.backend = "fs"
NoCall      == [kind |-> "none", path |-> <<>>, to |-> <<>>]
Is(c, kind) == call[c].kind = kind
Underway    == {"called", "made", "writing", "copied", "deleting"}
Active(c)   == pc[c] \in Underway
Goto(c, label) == pc' = [pc EXCEPT ![c] = label]

-----------------------------------------------------------------------------
(***************************************************************************)
(* Paths and listings.                                                     *)
(***************************************************************************)

\* The directories a path lies in.
Above(p) == {SubSeq(p, 1, n) : n \in 0..Len(p) - 1}

\* p lies in directory d.
Under(p, d) == d \in Above(p)

\* The key of d is a prefix of the key of p, as strings.
StartsWith(p, d) ==
  \/ d = <<>>
  \/ /\ Len(p) >= Len(d)
     /\ \A i \in 1..Len(d) - 1 : p[i] = d[i]
     /\ p[Len(d)] = d[Len(d)] \/ <<d[Len(d)], p[Len(d)]>> \in Extends

\* Faulty variants: deleteDir looks at the directory's own files only; the file system,
\* too, takes the directory for a prefix.
FoundHere(c) == {p \in Files : Exists(p) /\ Under(p, call[c].path) /\ Len(p) = Len(call[c].path) + 1}
FoundByPrefix(c) == {p \in Files : Exists(p) /\ StartsWith(p, call[c].path)}

\* What deleteDir finds.  Without its request, a key that depends on the request
\* is computed for somebody else's directory, where none of these files are.
Found(c) ==
  {p \in Files :
     /\ Exists(p)
     /\ IF Local THEN Under(p, call[c].path) ELSE StartsWith(p, call[c].path)
     /\ onRequest[c] \/ ~options.perRequest}

\* Faulty variant: readDir lists without the trailing slash.
WithoutSlash(p, d) == StartsWith(p, d) /\ p # d

\* S3: the prefix readDir asks for ends in a slash.
WithSlash(p, d) == Under(p, d)

\* What listObjects, called once, may return of some objects and prefixes.
FirstPage(all) ==
  IF Cardinality(all) > PageSize THEN {some \in SUBSET all : Cardinality(some) = PageSize} ELSE {all}

\* readDir with its default serializer, in the file system: the names of the entries
\* of the directory, or nothing without it.
ReadDirLocal(d) ==
  LET here == {p \in Files : Exists(p)} \cup dirs
  IN  {p[Len(d) + 1] : p \in {p \in here : Under(p, d) /\ Len(p) = Len(d) + 1}}

\* In S3 the delimiter cuts the keys after the next name: common prefixes lose their
\* slash, contents their prefix, and contents are left out when there is no prefix: for the
\* root of a bucket without a filePath of its own.  The set of what one call, which does
\* not look at IsTruncated, may return.
ReadDirS3(d) ==
  LET listed   == {p \in Files : Exists(p) /\ WithSlash(p, d)}
      prefixes == {p[Len(d) + 1] : p \in {p \in listed : Len(p) > Len(d) + 1}}
      contents == {p[Len(d) + 1] : p \in {p \in listed : Len(p) = Len(d) + 1}}
  IN  {IF d = <<>> THEN names \cap prefixes ELSE names : names \in FirstPage(prefixes \cup contents)}

\* Google Cloud Storage has no delimiter here: every key the path is a prefix of, with
\* the path and a slash cut out where they occur (given as paths, not as names).
ReadDirGoogle(d) ==
  {IF WithSlash(p, d) THEN SubSeq(p, Len(d) + 1, Len(p)) ELSE p :
     p \in {p \in Files : Exists(p) /\ StartsWith(p, d)}}

-----------------------------------------------------------------------------
(***************************************************************************)
(* Steps.                                                                  *)
(***************************************************************************)

Init ==
  /\ options \in Options
  /\ \E stored \in Stored :
       /\ file = [p \in Files |-> IF p \in stored THEN Whole(Initially) ELSE None]
       /\ dirs = UNION {Above(p) : p \in stored}
  /\ call = [c \in Callers |-> NoCall]
  /\ pc = [c \in Callers |-> "idle"]
  /\ opened = [c \in Callers |-> Nowhere]
  /\ page = [c \in Callers |-> {}] /\ refused = [c \in Callers |-> {}]
  /\ truncated = [c \in Callers |-> FALSE]
  /\ onRequest = [c \in Callers |-> TRUE]
  /\ before = [c \in Callers |-> None]
  /\ touched = [c \in Callers |-> {}]

\* Caller c stores new.
Change(c, new) ==
  LET changed == {p \in Files : new[p] # file[p]} IN
  /\ file' = new
  /\ touched' = [d \in Callers |->
                   IF d = c \/ pc[d] = "idle" THEN touched[d] ELSE touched[d] \cup changed]
  /\ UNCHANGED before

\* Caller c deletes what is at some paths; who has such a file open keeps it, at no path.
Unlink(c, paths) ==
  /\ Change(c, [p \in Files |-> IF p \in paths THEN None ELSE file[p]])
  /\ opened' = [d \in Callers |-> IF opened[d] \in paths THEN Nowhere ELSE opened[d]]

\* The answer to a request that took effect reaches the caller, or is lost.
Answered(c, label) == Goto(c, label) \/ Goto(c, "failed")

Call(c) ==
  /\ pc[c] = "idle"
  /\ \E k \in Calls :
       /\ call' = [call EXCEPT ![c] = k]
       /\ before' = [before EXCEPT ![c] = IF k.kind = "move" THEN file[k.path] ELSE None]
  /\ Goto(c, "called")
  /\ UNCHANGED <<options, file, dirs, opened, page, truncated, onRequest, refused, touched>>

\* Any awaited call may fail, and the storages pass the failure on, but for the
\* one of deleteFile in the file system and in Google.
Fail(c) ==
  /\ Active(c)
  /\ Is(c, "deleteFile") => options.backend = "s3"
  /\ Goto(c, "failed")
  /\ opened' = [opened EXCEPT ![c] = Nowhere]
  /\ UNCHANGED <<options, file, dirs, calls, history>>

\* rm and deleteFiles delete side by side: the first failure rejects the call, and the
\* other deletions go on.
FailHalfway(c) ==
  /\ Is(c, "deleteDir") /\ pc[c] = IF Local THEN "called" ELSE "deleting"
  /\ options.backend # "s3"
  /\ Goto(c, "leaving")
  /\ UNCHANGED <<options, file, dirs, opened, calls, history>>

\* Faulty variant: the directory is made only in one that is there.
MadeFlat(p) == IF \A d \in Above(p) \ {SubSeq(p, 1, Len(p) - 1)} : d \in dirs THEN Above(p) ELSE {}

\* The directories made for a file to be written: mkdir is recursive.
Made(p) == Above(p)

Target(c) == IF Is(c, "move") THEN call[c].to ELSE call[c].path

\* File system: transformFilePath sees to the directory of a file to be written.
MakeDir(c) ==
  /\ Local /\ pc[c] = "called" /\ (Is(c, "upload") \/ Is(c, "move"))
  /\ dirs' = dirs \cup Made(Target(c))
  /\ Goto(c, "made")
  /\ UNCHANGED <<options, file, opened, calls, history>>

\* ... which somebody may have deleted since.
DirMissing(c) ==
  /\ Local /\ pc[c] = "made" /\ ~(Above(Target(c)) \subseteq dirs)
  /\ Goto(c, "missing")
  /\ UNCHANGED <<options, file, dirs, opened, calls, history>>

\* File system: writeFile and createWriteStream open the file that is at the path, whoever
\* else has it open, and truncate it, ...
OpenFile(c) ==
  /\ Local /\ pc[c] = "made" /\ Is(c, "upload") /\ Above(call[c].path) \subseteq dirs
  /\ Change(c, [file EXCEPT ![call[c].path] = Partial(c)])
  /\ opened' = [opened EXCEPT ![c] = call[c].path]
  /\ Goto(c, "writing")
  /\ UNCHANGED <<options, dirs, calls>>

\* ... write to it, wherever it was moved to, and where others wrote or truncated it ...
WriteSome(c) ==
  /\ pc[c] = "writing" /\ opened[c] # Nowhere /\ file[opened[c]] # Partial(c)
  /\ Change(c, [file EXCEPT ![opened[c]] = Mixed])
  /\ UNCHANGED <<options, dirs, opened, pc, calls>>

\* Faulty variant: the upload is over as soon as the file is open.
WrittenNothing(c) == {file}

\* (What there may be when all is written: what c wrote covers what others wrote, or not.)
Written(c) ==
  IF opened[c] = Nowhere THEN {file}
  ELSE LET alone == file[opened[c]] = Partial(c)
       IN  {[file EXCEPT ![opened[c]] = new] : new \in {Whole(c)} \cup IF alone THEN {} ELSE {Mixed}}

\* ... and close it.  This resolves uploadFile, and makes the stream that uploadStream
\* resolved with before it was open emit 'done', which is the end of that upload.
WriteFile(c) ==
  /\ pc[c] = "writing"
  /\ \E new \in Written(c) : Change(c, new)
  /\ opened' = [opened EXCEPT ![c] = Nowhere]
  /\ Goto(c, "done")
  /\ UNCHANGED <<options, dirs, calls>>

\* Object stores: an object appears when it is complete.
PutObject(c) ==
  /\ ~Local /\ pc[c] = "called" /\ Is(c, "upload")
  /\ Change(c, [file EXCEPT ![call[c].path] = Whole(c)])
  /\ Answered(c, "done")
  /\ UNCHANGED <<options, dirs, opened, calls>>

\* Where a file is after the rename of another, or of itself.
Renamed(p, old, new) == IF p = old THEN new ELSE IF p = new THEN Nowhere ELSE p

\* File system: rename replaces what is at the new path.
Rename(c) ==
  LET old == call[c].path
      new == call[c].to
  IN  /\ Local /\ pc[c] = "made" /\ Is(c, "move") /\ Exists(old) /\ Above(new) \subseteq dirs
      /\ Change(c, [file EXCEPT ![new] = file[old], ![old] = None])
      /\ opened' = [d \in Callers |-> Renamed(opened[d], old, new)]
      /\ Goto(c, "done")
      /\ UNCHANGED <<options, dirs, calls>>

\* Faulty variant: the old object goes before the new one is there.
CopiedAfterDelete(c) == [file EXCEPT ![call[c].path] = None]

\* Object stores: an object is moved by copying it ...
Copied(c) == [file EXCEPT ![call[c].to] = file[call[c].path]]

CopyObject(c) ==
  /\ ~Local /\ pc[c] = "called" /\ Is(c, "move") /\ Exists(call[c].path)
  /\ Change(c, Copied(c))
  /\ Answered(c, "copied")
  /\ UNCHANGED <<options, dirs, opened, calls>>

\* ... and deleting the old one, whatever it has become.
DeleteCopied(c) ==
  /\ pc[c] = "copied"
  /\ Unlink(c, {call[c].path})
  /\ Answered(c, "done")
  /\ UNCHANGED <<options, dirs, calls>>

\* deleteFile; S3 answers alike for an object that is not there.
DeleteFile(c) ==
  /\ pc[c] = "called" /\ Is(c, "deleteFile")
  /\ Unlink(c, {call[c].path})
  /\ IF options.backend = "s3" THEN Answered(c, "done") ELSE Goto(c, "done")
  /\ UNCHANGED <<options, dirs, calls>>

\* ... and when it fails: no message of unlink is ever the one looked for, and Google's
\* error is caught, so the call resolves with the file still there.
DeleteFileFails(c) ==
  /\ options.backend # "s3" /\ pc[c] = "called" /\ Is(c, "deleteFile")
  /\ Goto(c, "done")
  /\ UNCHANGED <<options, file, dirs, opened, calls, history>>

Removing(c) == Local /\ pc[c] \in {"called", "leaving"} /\ Is(c, "deleteDir")

\* File system: rm removes what it finds, one by one, ...
RemoveOne(c) ==
  /\ Removing(c)
  /\ \E p \in Found(c) : Unlink(c, {p})
  /\ UNCHANGED <<options, dirs, pc, calls>>

\* ... and each directory once it has found nothing more in it, the one to delete last,
\* unless something in it could not be removed.
RemoveDir(c) ==
  LET dir  == call[c].path
      rest == {d \in dirs : d = dir \/ Under(d, dir)}
  IN  /\ Removing(c)
      /\ \E e \in rest :
           /\ pc[c] = "leaving" => e # dir
           /\ \A x \in Found(c) \cup rest : ~Under(x, e)
           /\ dirs' = dirs \ {e}
      /\ UNCHANGED <<options, file, opened, pc, calls, history>>

\* Nothing is left, or nothing was there: rm is told to force.
DirRemoved(c) ==
  /\ Local /\ pc[c] = "called" /\ Is(c, "deleteDir") /\ Found(c) = {}
  /\ \A d \in dirs : d # call[c].path /\ ~Under(d, call[c].path)
  /\ Goto(c, "done")
  /\ UNCHANGED <<options, file, dirs, opened, calls, history>>

\* Google: deleteFiles lists everything.  S3: listObjects gives one page; an empty
\* one ends the call.
ListObjects(c) ==
  /\ ~Local /\ pc[c] = "called" /\ Is(c, "deleteDir")
  /\ \E listed \in IF options.backend = "s3" THEN FirstPage(Found(c)) ELSE {Found(c)} :
       /\ page' = [page EXCEPT ![c] = listed]
       /\ truncated' = [truncated EXCEPT ![c] = listed # Found(c)]
       /\ Goto(c, IF listed = {} THEN "done" ELSE "deleting")
  /\ UNCHANGED <<options, file, dirs, opened, call, onRequest, refused, history>>

\* Faulty variant: one page is all there is.
MoreIgnored(c) == FALSE

\* Whether deleteDir goes on with another listing.
More(c) == truncated[c]

\* S3: deleteObjects deletes the page, or what it can of it: it resolves with an error for
\* each object it refused, at which nobody looks.  deleteDir calls itself for the rest,
\* with the path alone.
DeletePage(c) ==
  /\ options.backend = "s3" /\ pc[c] = "deleting"
  /\ \E kept \in SUBSET page[c] :
       /\ Unlink(c, page[c] \ kept)
       /\ refused' = [refused EXCEPT ![c] = IF More(c) THEN {} ELSE kept]
  /\ page' = [page EXCEPT ![c] = {}]
  /\ truncated' = [truncated EXCEPT ![c] = FALSE]
  /\ onRequest' = [onRequest EXCEPT ![c] = @ /\ ~More(c)]
  /\ Answered(c, IF More(c) THEN "called" ELSE "done")
  /\ UNCHANGED <<options, dirs, call>>

\* Google: each listed file is deleted by a request of its own, which fails the
\* call when the file is gone.
DeleteListed(c) ==
  /\ options.backend = "google" /\ pc[c] \in {"deleting", "leaving"}
  /\ \E p \in page[c] :
       /\ Exists(p)
       /\ Unlink(c, {p})
       /\ page' = [page EXCEPT ![c] = @ \ {p}]
       /\ IF pc[c] = "deleting" /\ page[c] = {p} THEN Answered(c, "done") ELSE UNCHANGED pc
  /\ UNCHANGED <<options, dirs, call, truncated, onRequest, refused>>

Next ==
  \E c \in Callers :
    \/ Call(c) \/ Fail(c) \/ FailHalfway(c)
    \/ MakeDir(c) \/ DirMissing(c) \/ OpenFile(c) \/ WriteSome(c) \/ WriteFile(c)
    \/ PutObject(c)
    \/ Rename(c) \/ CopyObject(c) \/ DeleteCopied(c)
    \/ DeleteFile(c) \/ DeleteFileFails(c)
    \/ RemoveOne(c) \/ RemoveDir(c) \/ DirRemoved(c)
    \/ ListObjects(c) \/ DeletePage(c) \/ DeleteListed(c)

Spec == Init /\ [][Next]_vars

-----------------------------------------------------------------------------
(***************************************************************************)
(* Properties.                                                             *)
(***************************************************************************)

\* The type invariant; objects are never seen half written; and every file of the file system
\* lies in directories that exist.
TypeOK ==
  /\ options \in Options
  /\ file \in [Files -> Contents]
  /\ dirs \subseteq Dirs
  /\ call \in [Callers -> CallRecords \cup {NoCall}]
  /\ pc \in [Callers -> Underway \cup {"idle", "leaving", "done", "failed", "missing"}]
  /\ opened \in [Callers -> Files \cup {Nowhere}] /\ refused \in [Callers -> SUBSET Files]
  /\ page \in [Callers -> SUBSET Files]
  /\ truncated \in [Callers -> BOOLEAN] /\ onRequest \in [Callers -> BOOLEAN]
  /\ before \in [Callers -> Contents] /\ touched \in [Callers -> SUBSET Files]
  /\ \A p \in Files :
       Exists(p) => IF Local THEN Above(p) \subseteq dirs ELSE file[p].state = "whole"

\* An upload that succeeded left the caller's whole content at its path, unless
\* others changed that path meanwhile.
UploadsAreWhole ==
  \A c \in Callers :
    Is(c, "upload") /\ pc[c] = "done" /\ call[c].path \notin touched[c]
      => file[call[c].path] = Whole(c)

\* A file being moved is never lost, whichever step of the move fails: it is at the
\* old or the new path, and only at the new one once the move succeeded, as long as
\* nobody else changes these paths.
MovesKeepTheFile ==
  \A c \in Callers :
    LET old == call[c].path
        new == call[c].to
    IN  Is(c, "move") /\ before[c] # None /\ {old, new} \cap touched[c] = {}
          => /\ before[c] \in {file[old], file[new]}
             /\ pc[c] = "done" => file[new] = before[c] /\ ~Exists(old)

\* A directory that was deleted is empty but for what others changed in it since
\* deleteDir was called, and for what S3 refused to delete when it was last asked,
\* however many pages the listing took.
DeletedDirsAreEmpty ==
  \A c \in Callers :
    Is(c, "deleteDir") /\ pc[c] = "done"
      => \A p \in Files : Under(p, call[c].path) /\ Exists(p) => p \in touched[c] \cup refused[c]

\* A call that writes is told that the directory is missing only if somebody
\* deletes a directory above the path: the storage makes what is missing itself.
DirsAreMade ==
  \A c \in Callers :
    pc[c] = "missing"
      => \E d \in Callers : Is(d, "deleteDir") /\ Under(Target(c), call[d].path)

\* Names of the files and directories with files in them that lie in d.
Entries(d) == {p[Len(d) + 1] : p \in {p \in Files : Exists(p) /\ Under(p, d)}}

\* readDir names the same files and directories of files in the file system and in
\* S3, where no directories exist, but for S3's root and what is beyond its first page:
\* the file system adds empty directories only.  Google's names every file below the
\* directory by the rest of its path; what else it lists only has a name that starts like
\* the directory's.
ListingsAgree ==
  \A d \in Dirs \ {<<>>} :
    CASE Local -> /\ Entries(d) \subseteq ReadDirLocal(d)
                  /\ \A n \in ReadDirLocal(d) \ Entries(d) : Append(d, n) \in Dirs
      [] options.backend = "s3" ->
           \A names \in ReadDirS3(d) :
             /\ names \subseteq Entries(d)
             /\ names # Entries(d) => Cardinality(names) = PageSize
      [] OTHER -> LET below == {q \in ReadDirGoogle(d) : d \o q \in Files /\ Exists(d \o q)}
                  IN  /\ {q[1] : q \in below} = Entries(d)
                      /\ \A q \in ReadDirGoogle(d) \ below : StartsWith(q, d) /\ Exists(q)

\* The change of p is what some call was made for that has not ended; that of deleteDir
\* goes on when it was rejected halfway.  inside tells which paths deleteDir is made for;
\* in an object store it must have listed them.
Meant(p, inside(_, _)) ==
  \E c \in Callers :
    /\ Active(c) \/ pc[c] = "leaving"
    /\ \/ p = call[c].path /\ ~Is(c, "deleteDir")
       \/ p = call[c].to /\ Is(c, "move")
       \/ p = opened[c]
       \/ Is(c, "deleteDir") /\ inside(p, call[c].path) /\ (Local \/ p \in page[c])

\* A step changes only paths a call still under way was made for, or the file an upload
\* has open, wherever it is: nothing is stored after a call ended and nothing deleted
\* after it resolved, and deleteDir leaves the rest of the tree alone (in an object
\* store, keys its path is a prefix of count as its own).
OnlyNamedPathsChange ==
  [][\A p \in Files :
       file'[p] # file[p] => IF Local THEN Meant(p, Under) ELSE Meant(p, StartsWith)]_vars

\* What the storages' tests say of deleteDir on each of them ("deleteDir deletes a
\* directory"): only what lies in the directory is deleted.
DeleteDirIsLocal == [][\A p \in Files : file'[p] # file[p] => Meant(p, Under)]_vars
=============================================================================
