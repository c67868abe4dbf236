-------------------------- MODULE FileStorageProofs --------------------------
(***************************************************************************)
(* Theorems about FileStorage, for any number of callers, every tree of    *)
(* files, every configuration and every size of a page.                    *)
(***************************************************************************)
EXTENDS FileStorage, FiniteSetTheorems, SequenceTheorems, TLAPS

-----------------------------------------------------------------------------
(* Paths. *)

\* What lies above a directory of a path lies above the path.
LEMMA AboveTransitive ==
  ASSUME NEW p \in Seq(STRING), NEW e \in Above(p), NEW d \in Above(e)
  PROVE  d \in Above(p)
<1>1. PICK n \in 0..Len(p) - 1 : e = SubSeq(p, 1, n)
  BY DEF Above
<1>2. e \in Seq(STRING) /\ Len(e) = n /\ \A i \in 1..n : e[i] = p[i]
  BY <1>1
<1>3. PICK k \in 0..Len(e) - 1 : d = SubSeq(e, 1, k)
  BY DEF Above
<1>4. k \in 0..Len(p) - 1
  BY <1>2, <1>3
<1>5. SubSeq(e, 1, k) = SubSeq(p, 1, k)
  BY <1>1, <1>2, <1>3, <1>4
<1> QED
  BY <1>3, <1>4, <1>5 DEF Above

\* The directories of a file are directories.
LEMMA AboveIsDirs == \A p \in Files : Above(p) \subseteq Dirs
  BY DEF Above, Dirs

\* A page of a listing is part of it, and it is full unless it is all of it.
LEMMA FirstPageIsPart ==
  ASSUME NEW all, NEW some \in FirstPage(all)
  PROVE  some \subseteq all /\ (some # all => Cardinality(some) = PageSize)
  BY DEF FirstPage

-----------------------------------------------------------------------------
(* Types.                                                                            *)

\* A call that was made is one of Calls, and its label tells what it is; only the
\* calls to S3 lose their request.
Labelled(c) ==
  /\ pc[c] = "idle" => call[c] = NoCall
  /\ pc[c] # "idle" => call[c] \in Calls
  /\ pc[c] \in {"made", "missing"} => Local /\ (Is(c, "upload") \/ Is(c, "move"))
  /\ pc[c] = "writing" => Local /\ Is(c, "upload")
  /\ pc[c] = "copied" => ~Local /\ Is(c, "move")
  /\ pc[c] = "deleting" => ~Local /\ Is(c, "deleteDir")
  /\ pc[c] = "leaving" => options.backend # "s3" /\ Is(c, "deleteDir")
  /\ Local => onRequest[c]

\* Only a call that writes has a file open, and the file is where it is known to be.
HoldsOpen(c) == opened[c] # Nowhere => pc[c] = "writing" /\ Exists(opened[c])

Typed == TypeOK /\ \A c \in Callers : Labelled(c) /\ HoldsOpen(c)

LEMMA TypeInit == Init => Typed
<1> SUFFICES ASSUME Init PROVE Typed
  OBVIOUS
<1> USE StorageAssumption
<1>1. PICK stored \in Stored :
        /\ file = [p \in Files |-> IF p \in stored THEN Whole(Initially) ELSE None]
        /\ dirs = UNION {Above(p) : p \in stored}
  BY DEF Init
<1>2. None \in Contents /\ Whole(Initially) \in Contents
  BY DEF None, Whole, Contents
<1>3. file \in [Files -> Contents]
  BY <1>1, <1>2
<1>4. dirs \subseteq Dirs
  BY <1>1, AboveIsDirs
<1>5. \A p \in Files : Exists(p) => Above(p) \subseteq dirs /\ file[p].state = "whole"
  BY <1>1 DEF Exists, Whole, None
<1>6. NoCall \in CallRecords \cup {NoCall}
  OBVIOUS
<1>7. truncated \in [Callers -> BOOLEAN] /\ onRequest \in [Callers -> BOOLEAN]
  BY Zenon DEF Init
<1>8. TypeOK
  BY <1>2, <1>3, <1>4, <1>5, <1>6, <1>7 DEF Init, TypeOK, Underway
<1>9. \A c \in Callers : Labelled(c) /\ HoldsOpen(c)
  BY DEF Init, Labelled, HoldsOpen
<1> QED
  BY <1>8, <1>9 DEF Typed

\* Change keeps what is stored and its history well formed.
LEMMA TypeChange ==
  ASSUME Typed, NEW c \in Callers, NEW new \in [Files -> Contents], Change(c, new)
  PROVE  /\ file' \in [Files -> Contents]
         /\ before' \in [Callers -> Contents] /\ touched' \in [Callers -> SUBSET Files]
  BY DEF Change, Typed, TypeOK

\* Nothing that is deleted is open at a path.
LEMMA TypeUnlink ==
  ASSUME Typed, NEW c \in Callers, NEW paths, Unlink(c, paths)
  PROVE  /\ file' \in [Files -> Contents] /\ \A p \in Files : file'[p] \in {None, file[p]}
         /\ before' \in [Callers -> Contents] /\ touched' \in [Callers -> SUBSET Files]
         /\ opened' \in [Callers -> Files \cup {Nowhere}]
         /\ \A d \in Callers : opened'[d] # Nowhere =>
              opened'[d] = opened[d] /\ file'[opened[d]] = file[opened[d]]
<1> DEFINE new == [p \in Files |-> IF p \in paths THEN None ELSE file[p]]
<1>1. new \in [Files -> Contents] /\ \A p \in Files : new[p] \in {None, file[p]}
  BY DEF None, Contents, Typed, TypeOK
<1>2. Change(c, new)
  BY DEF Unlink
<1>3. file' = new
  BY <1>2 DEF Change
<1>4. /\ file' \in [Files -> Contents]
      /\ before' \in [Callers -> Contents] /\ touched' \in [Callers -> SUBSET Files]
  BY <1>1, <1>2, TypeChange
<1>5. /\ opened' \in [Callers -> Files \cup {Nowhere}]
      /\ \A d \in Callers : opened'[d] # Nowhere => opened'[d] = opened[d] /\ opened[d] \notin paths
  BY DEF Unlink, Typed, TypeOK
<1>6. ASSUME NEW d \in Callers, opened'[d] # Nowhere PROVE file'[opened[d]] = file[opened[d]]
  BY <1>3, <1>5, <1>6 DEF Typed, TypeOK
<1> QED
  BY <1>1, <1>3, <1>4, <1>5, <1>6

\* What an upload leaves: the file it has open is there and whole, or mixed with what others
\* wrote to it.
LEMMA WrittenIs ==
  ASSUME Typed, NEW c \in Callers, NEW new \in Written(c)
  PROVE  /\ new \in [Files -> Contents]
         /\ \A p \in Files : p # opened[c] => new[p] = file[p]
         /\ opened[c] # Nowhere =>
              /\ opened[c] \in Files /\ Exists(opened[c]) /\ new[opened[c]] \in {Whole(c), Mixed}
              /\ file[opened[c]] = Partial(c) => new[opened[c]] = Whole(c)
<1>1. opened[c] # Nowhere => opened[c] \in Files /\ Exists(opened[c])
  BY DEF Typed, TypeOK, HoldsOpen
<1>2. Whole(c) \in Contents /\ Mixed \in Contents
  BY DEF Whole, Mixed, Contents
<1>3. CASE opened[c] = Nowhere
  BY <1>3 DEF Written, Typed, TypeOK
<1>4. CASE opened[c] # Nowhere
  <2>1. PICK stored \in {Whole(c)} \cup IF file[opened[c]] = Partial(c) THEN {} ELSE {Mixed} :
          new = [file EXCEPT ![opened[c]] = stored]
    BY <1>4 DEF Written
  <2>2. stored \in {Whole(c), Mixed} /\ (file[opened[c]] = Partial(c) => stored = Whole(c))
    BY <2>1
  <2> QED
    BY <1>1, <1>2, <1>4, <2>1, <2>2 DEF Typed, TypeOK
<1> QED
  BY <1>3, <1>4

\* The steps that store or delete nothing.
LEMMA HoldsOpenQuietly ==
  ASSUME Typed, NEW c \in Callers, UNCHANGED <<file, opened>>, pc[c] # "writing",
         pc' = [pc EXCEPT ![c] = pc'[c]], NEW d \in Callers
  PROVE  HoldsOpen(d)'
  BY DEF HoldsOpen, Exists, Typed, TypeOK

\* The steps that delete.
LEMMA HoldsOpenUnlinking ==
  ASSUME Typed, NEW c \in Callers, NEW paths, Unlink(c, paths), pc[c] # "writing",
         pc' = [pc EXCEPT ![c] = pc'[c]], NEW d \in Callers
  PROVE  HoldsOpen(d)'
<1>1. opened'[d] # Nowhere => opened'[d] = opened[d] /\ file'[opened[d]] = file[opened[d]]
  BY TypeUnlink
<1>2. opened[d] # Nowhere => pc[d] = "writing" /\ Exists(opened[d])
  BY DEF Typed, HoldsOpen
<1>3. pc[d] = "writing" => pc'[d] = "writing"
  BY DEF Typed, TypeOK
<1> QED
  BY <1>1, <1>2, <1>3 DEF HoldsOpen, Exists

LEMMA TypeNext == Typed /\ [Next]_vars => Typed'
<1> SUFFICES ASSUME Typed, [Next]_vars PROVE Typed'
  OBVIOUS
<1> USE StorageAssumption DEF calls, history
<1>1. CASE UNCHANGED vars
  BY <1>1 DEF vars, Typed, TypeOK, Labelled, HoldsOpen, Exists, Local, Active, Underway, Is
<1>2. ASSUME NEW c \in Callers, Call(c) PROVE Typed'
  <2>1. TypeOK'
    <3>1. PICK k \in Calls :
            /\ call' = [call EXCEPT ![c] = k]
            /\ before' = [before EXCEPT ![c] = IF k.kind = "move" THEN file[k.path] ELSE None]
      BY <1>2 DEF Call
    <3>2. k.kind = "move" => file[k.path] \in Contents
      BY <3>1 DEF Typed, TypeOK, CallRecords
    <3>3. None \in Contents
      BY DEF None, Contents
    <3>4. k \in CallRecords /\ before' \in [Callers -> Contents]
      BY <3>1, <3>2, <3>3 DEF Typed, TypeOK
    <3> QED
      BY <1>2, <3>1, <3>4 DEF Call, Goto, Typed, TypeOK, Exists, Local, Active, Underway
  <2>2. \A d \in Callers : Labelled(d)'
    BY <1>2 DEF Call, Goto, Typed, TypeOK, Labelled, Local, Is, Underway
  <2>3. \A d \in Callers : HoldsOpen(d)'
    BY <1>2, HoldsOpenQuietly DEF Call, Goto, Typed, TypeOK, Labelled, Is
  <2> QED
    BY <2>1, <2>2, <2>3 DEF Typed
<1>3. ASSUME NEW c \in Callers, Fail(c) PROVE Typed'
  <2>1. TypeOK'
    BY <1>3 DEF Fail, Goto, Typed, TypeOK, Exists, Local, Underway
  <2>2. \A d \in Callers : Labelled(d)'
    BY <1>3 DEF Fail, Goto, Typed, TypeOK, Labelled, Local, Is, Underway, Active
  <2>3. \A d \in Callers : HoldsOpen(d)'
    BY <1>3 DEF Fail, Goto, HoldsOpen, Exists, Typed, TypeOK
  <2> QED
    BY <2>1, <2>2, <2>3 DEF Typed
<1>4. ASSUME NEW c \in Callers, FailHalfway(c) PROVE Typed'
  <2>1. TypeOK'
    BY <1>4 DEF FailHalfway, Goto, Typed, TypeOK, Exists, Local, Underway
  <2>2. \A d \in Callers : Labelled(d)'
    BY <1>4 DEF FailHalfway, Goto, Typed, TypeOK, Labelled, Local, Is, Underway
  <2>3. \A d \in Callers : HoldsOpen(d)'
    BY <1>4, HoldsOpenQuietly DEF FailHalfway, Goto, Typed, TypeOK, Labelled, Is
  <2> QED
    BY <2>1, <2>2, <2>3 DEF Typed
<1>5. ASSUME NEW c \in Callers, MakeDir(c) PROVE Typed'
  <2>1. TypeOK'
    BY <1>5, AboveIsDirs DEF MakeDir, Goto, Typed, TypeOK, Exists, Local, Underway,
      Labelled, Is, Target, Made
  <2>2. \A d \in Callers : Labelled(d)'
    BY <1>5 DEF MakeDir, Goto, Typed, TypeOK, Labelled, Local, Is, Underway
  <2>3. \A d \in Callers : HoldsOpen(d)'
    BY <1>5, HoldsOpenQuietly DEF MakeDir, Goto, Typed, TypeOK, Labelled, Is
  <2> QED
    BY <2>1, <2>2, <2>3 DEF Typed
<1>6. ASSUME NEW c \in Callers, DirMissing(c) PROVE Typed'
  <2>1. TypeOK'
    BY <1>6 DEF DirMissing, Goto, Typed, TypeOK, Exists, Local, Underway
  <2>2. \A d \in Callers : Labelled(d)'
    BY <1>6 DEF DirMissing, Goto, Typed, TypeOK, Labelled, Local, Is, Underway
  <2>3. \A d \in Callers : HoldsOpen(d)'
    BY <1>6, HoldsOpenQuietly DEF DirMissing, Goto, Typed, TypeOK, Labelled, Is
  <2> QED
    BY <2>1, <2>2, <2>3 DEF Typed
<1>7. ASSUME NEW c \in Callers, OpenFile(c) PROVE Typed'
  <2>1. TypeOK'
    BY <1>7 DEF OpenFile, Goto, Typed, TypeOK, Exists, Local, Underway,
      Change, Is, Labelled, None, Partial, Contents
  <2>2. \A d \in Callers : Labelled(d)'
    BY <1>7 DEF OpenFile, Goto, Typed, TypeOK, Labelled, Local, Is, Underway, Change
  <2>3. \A d \in Callers : HoldsOpen(d)'
    BY <1>7 DEF OpenFile, Goto, Change, HoldsOpen, Exists, Typed, TypeOK, Labelled, Is,
      None, Partial
  <2> QED
    BY <2>1, <2>2, <2>3 DEF Typed
<1>8. ASSUME NEW c \in Callers, WriteSome(c) PROVE Typed'
  <2>1. TypeOK'
    <3>1. opened[c] \in Files /\ Exists(opened[c]) /\ Local
      BY <1>8 DEF WriteSome, Typed, TypeOK, HoldsOpen, Labelled
    <3>2. Mixed \in Contents
      BY DEF Mixed, Contents
    <3> QED
      BY <1>8, <3>1, <3>2 DEF WriteSome, Change, Typed, TypeOK, Exists, Local
  <2>2. \A d \in Callers : Labelled(d)'
    BY <1>8 DEF WriteSome, Goto, Typed, TypeOK, Labelled, Local, Is, Underway, Change
  <2>3. \A d \in Callers : HoldsOpen(d)'
    BY <1>8 DEF WriteSome, Change, HoldsOpen, Exists, Typed, TypeOK, None, Mixed
  <2> QED
    BY <2>1, <2>2, <2>3 DEF Typed
<1>9. ASSUME NEW c \in Callers, WriteFile(c) PROVE Typed'
  <2>1. TypeOK'
    <3>1. PICK new \in Written(c) : Change(c, new)
      BY <1>9 DEF WriteFile
    <3>3. /\ new \in [Files -> Contents]
          /\ \A p \in Files : new[p] # None => Exists(p)
      BY WrittenIs DEF Exists, Nowhere
    <3>4. Local
      BY <1>9 DEF WriteFile, Typed, Labelled
    <3>5. file' = new /\ file' \in [Files -> Contents]
          /\ before' \in [Callers -> Contents] /\ touched' \in [Callers -> SUBSET Files]
      <4>1. file' = new
        BY <3>1 DEF Change
      <4> QED
        BY <3>1, <3>3, <4>1, TypeChange
    <3> QED
      BY <1>9, <3>3, <3>4, <3>5 DEF WriteFile, Goto, Typed, TypeOK, Exists, Local, Underway
  <2>2. \A d \in Callers : Labelled(d)'
    BY <1>9 DEF WriteFile, Goto, Typed, TypeOK, Labelled, Local, Is, Underway, Change
  <2>3. \A d \in Callers : HoldsOpen(d)'
    <3>1. PICK new \in Written(c) : Change(c, new)
      BY <1>9 DEF WriteFile
    <3>2. \A p \in Files : file[p] # None => file'[p] # None
      <4>1. file' = new
        BY <3>1 DEF Change
      <4>2. Whole(c) # None /\ Mixed # None
        BY DEF Whole, Mixed, None
      <4> QED
        BY <4>1, <4>2, WrittenIs DEF Nowhere
    <3> QED
      BY <1>9, <3>2 DEF WriteFile, Goto, HoldsOpen, Exists, Typed, TypeOK
  <2> QED
    BY <2>1, <2>2, <2>3 DEF Typed
<1>10. ASSUME NEW c \in Callers, PutObject(c) PROVE Typed'
  <2>1. TypeOK'
    BY <1>10 DEF PutObject, Goto, Typed, TypeOK, Exists, Local, Underway,
      Change, Answered, Is, Labelled, Whole, None, Contents
  <2>2. \A d \in Callers : Labelled(d)'
    BY <1>10 DEF PutObject, Goto, Typed, TypeOK, Labelled, Local, Is, Underway, Change, Answered
  <2>3. \A d \in Callers : HoldsOpen(d)'
    BY <1>10 DEF PutObject, HoldsOpen, Labelled, Answered, Goto, Typed, TypeOK, Local
  <2> QED
    BY <2>1, <2>2, <2>3 DEF Typed
<1>11. ASSUME NEW c \in Callers, Rename(c) PROVE Typed'
  <2>1. TypeOK'
    BY <1>11 DEF Rename, Goto, Typed, TypeOK, Exists, Local, Underway,
      Change, Renamed, Nowhere, None, Contents, Labelled, Is
  <2>2. \A d \in Callers : Labelled(d)'
    BY <1>11 DEF Rename, Goto, Typed, TypeOK, Labelled, Local, Is, Underway, Change
  <2>3. \A d \in Callers : HoldsOpen(d)'
    <3>1. call[c].path \in Files /\ call[c].to \in Files /\ call[c].path # call[c].to
      BY <1>11 DEF Rename, Typed, Labelled, Is
    <3>2. Nowhere \notin Files
      BY DEF Nowhere
    <3> QED
      BY <1>11, <3>1, <3>2 DEF Rename, Change, Renamed, Goto, HoldsOpen, Exists, Typed, TypeOK
  <2> QED
    BY <2>1, <2>2, <2>3 DEF Typed
<1>12. ASSUME NEW c \in Callers, CopyObject(c) PROVE Typed'
  <2>1. TypeOK'
    BY <1>12 DEF CopyObject, Goto, Typed, TypeOK, Exists, Local, Underway,
      Change, Copied, Answered, None, Contents, Labelled, Is
  <2>2. \A d \in Callers : Labelled(d)'
    BY <1>12 DEF CopyObject, Goto, Typed, TypeOK, Labelled, Local, Is, Underway, Change, Answered
  <2>3. \A d \in Callers : HoldsOpen(d)'
    BY <1>12 DEF CopyObject, HoldsOpen, Labelled, Answered, Goto, Typed, TypeOK, Local
  <2> QED
    BY <2>1, <2>2, <2>3 DEF Typed
<1>13. ASSUME NEW c \in Callers, DeleteCopied(c) PROVE Typed'
  <2>1. TypeOK'
    <3>1. PICK paths : Unlink(c, paths)
      BY <1>13 DEF DeleteCopied
    <3> QED
      BY <1>13, <3>1, TypeUnlink DEF DeleteCopied, Answered, Goto, Typed, TypeOK, Exists, Local, Underway
  <2>2. \A d \in Callers : Labelled(d)'
    BY <1>13 DEF DeleteCopied, Unlink, Change, Answered, Goto, Typed, TypeOK, Labelled, Local, Is, Underway
  <2>3. \A d \in Callers : HoldsOpen(d)'
    <3>1. PICK paths : Unlink(c, paths)
      BY <1>13 DEF DeleteCopied
    <3>2. pc' = [pc EXCEPT ![c] = pc'[c]] /\ pc[c] # "writing"
      BY <1>13 DEF DeleteCopied, Answered, Goto, Typed, TypeOK, Labelled
    <3> QED
      BY <3>1, <3>2, HoldsOpenUnlinking
  <2> QED
    BY <2>1, <2>2, <2>3 DEF Typed
<1>14. ASSUME NEW c \in Callers, DeleteFile(c) PROVE Typed'
  <2>1. TypeOK'
    <3>1. PICK paths : Unlink(c, paths)
      BY <1>14 DEF DeleteFile
    <3> QED
      BY <1>14, <3>1, TypeUnlink DEF DeleteFile, Answered, Goto, Typed, TypeOK, Exists, Local, Underway
  <2>2. \A d \in Callers : Labelled(d)'
    BY <1>14 DEF DeleteFile, Unlink, Change, Answered, Goto, Typed, TypeOK, Labelled, Local, Is, Underway
  <2>3. \A d \in Callers : HoldsOpen(d)'
    <3>1. PICK paths : Unlink(c, paths)
      BY <1>14 DEF DeleteFile
    <3>2. pc' = [pc EXCEPT ![c] = pc'[c]] /\ pc[c] # "writing"
      BY <1>14 DEF DeleteFile, Answered, Goto, Typed, TypeOK, Labelled
    <3> QED
      BY <3>1, <3>2, HoldsOpenUnlinking
  <2> QED
    BY <2>1, <2>2, <2>3 DEF Typed
<1>15. ASSUME NEW c \in Callers, DeleteFileFails(c) PROVE Typed'
  <2>1. TypeOK'
    BY <1>15 DEF DeleteFileFails, Goto, Typed, TypeOK, Exists, Local, Underway
  <2>2. \A d \in Callers : Labelled(d)'
    BY <1>15 DEF DeleteFileFails, Goto, Typed, TypeOK, Labelled, Local, Is, Underway
  <2>3. \A d \in Callers : HoldsOpen(d)'
    BY <1>15, HoldsOpenQuietly DEF DeleteFileFails, Goto, Typed, TypeOK, Labelled, Is
  <2> QED
    BY <2>1, <2>2, <2>3 DEF Typed
<1>16. ASSUME NEW c \in Callers, RemoveOne(c) PROVE Typed'
  <2>1. TypeOK'
    <3>1. PICK paths : Unlink(c, paths)
      BY <1>16 DEF RemoveOne
    <3> QED
      BY <1>16, <3>1, TypeUnlink DEF RemoveOne, Answered, Goto, Typed, TypeOK, Exists, Local, Underway, Removing
  <2>2. \A d \in Callers : Labelled(d)'
    BY <1>16 DEF RemoveOne, Unlink, Change, Answered, Goto, Typed, TypeOK, Labelled, Local, Is, Underway, Removing
  <2>3. \A d \in Callers : HoldsOpen(d)'
    <3>1. PICK paths : Unlink(c, paths)
      BY <1>16 DEF RemoveOne
    <3>2. pc' = [pc EXCEPT ![c] = pc'[c]] /\ pc[c] # "writing"
      BY <1>16 DEF RemoveOne, Answered, Goto, Typed, TypeOK, Labelled, Removing
    <3> QED
      BY <3>1, <3>2, HoldsOpenUnlinking
  <2> QED
    BY <2>1, <2>2, <2>3 DEF Typed
<1>17. ASSUME NEW c \in Callers, RemoveDir(c) PROVE Typed'
  <2>1. TypeOK'
    <3> DEFINE dir == call[c].path
               rest == {d \in dirs : d = dir \/ Under(d, dir)}
    <3>1. PICK e \in rest : /\ \A x \in Found(c) \cup rest : ~Under(x, e)
                            /\ dirs' = dirs \ {e}
      BY <1>17 DEF RemoveDir
    <3>2. ASSUME NEW p \in Files, Exists(p), e \in Above(p) PROVE FALSE
      <4>1. dir \in Above(p)
        BY <3>1, <3>2, AboveTransitive DEF Under
      <4>2. p \in Found(c)
        BY <1>17, <3>2, <4>1 DEF RemoveDir, Removing, Found, Under, Typed, Labelled
      <4> QED
        BY <3>1, <3>2, <4>2 DEF Under
    <3> QED
      BY <1>17, <3>1, <3>2 DEF RemoveDir, Removing, Typed, TypeOK, Exists, Local
  <2>2. \A d \in Callers : Labelled(d)'
    BY <1>17 DEF RemoveDir, Goto, Typed, TypeOK, Labelled, Local, Is, Underway, Removing
  <2>3. \A d \in Callers : HoldsOpen(d)'
    BY <1>17, HoldsOpenQuietly DEF RemoveDir, Removing, Typed, TypeOK
  <2> QED
    BY <2>1, <2>2, <2>3 DEF Typed
<1>18. ASSUME NEW c \in Callers, DirRemoved(c) PROVE Typed'
  <2>1. TypeOK'
    BY <1>18 DEF DirRemoved, Goto, Typed, TypeOK, Exists, Local, Underway
  <2>2. \A d \in Callers : Labelled(d)'
    BY <1>18 DEF DirRemoved, Goto, Typed, TypeOK, Labelled, Local, Is, Underway
  <2>3. \A d \in Callers : HoldsOpen(d)'
    BY <1>18, HoldsOpenQuietly DEF DirRemoved, Goto, Typed, TypeOK, Labelled, Is
  <2> QED
    BY <2>1, <2>2, <2>3 DEF Typed
<1>19. ASSUME NEW c \in Callers, ListObjects(c) PROVE Typed'
  <2>1. TypeOK'
    <3>1. PICK listed \in IF options.backend = "s3" THEN FirstPage(Found(c)) ELSE {Found(c)} :
            /\ page' = [page EXCEPT ![c] = listed]
            /\ truncated' = [truncated EXCEPT ![c] = listed # Found(c)]
            /\ Goto(c, IF listed = {} THEN "done" ELSE "deleting")
      BY <1>19 DEF ListObjects
    <3>2. listed \subseteq Files
      BY FirstPageIsPart DEF Found
    <3> QED
      BY <1>19, <3>1, <3>2 DEF ListObjects, Goto, Typed, TypeOK, Exists, Local, Underway
  <2>2. \A d \in Callers : Labelled(d)'
    <3>1. PICK listed \in IF options.backend = "s3" THEN FirstPage(Found(c)) ELSE {Found(c)} :
            /\ page' = [page EXCEPT ![c] = listed]
            /\ truncated' = [truncated EXCEPT ![c] = listed # Found(c)]
            /\ Goto(c, IF listed = {} THEN "done" ELSE "deleting")
      BY <1>19 DEF ListObjects
    <3>2. ~Local /\ Is(c, "deleteDir") /\ call[c] \in Calls
      BY <1>19 DEF ListObjects, Typed, Labelled
    <3>3. options' = options /\ call' = call /\ onRequest' = onRequest
      BY <1>19 DEF ListObjects
    <3>4. pc' = [pc EXCEPT ![c] = pc'[c]] /\ pc'[c] \in {"done", "deleting"}
      BY <3>1 DEF Goto, Typed, TypeOK
    <3> QED
      BY <3>2, <3>3, <3>4 DEF Typed, TypeOK, Labelled, Local, Is, Underway
  <2>3. \A d \in Callers : HoldsOpen(d)'
    <3>1. pc' = [pc EXCEPT ![c] = pc'[c]]
      BY <1>19 DEF ListObjects, Goto, Typed, TypeOK
    <3> QED
      BY <1>19, <3>1, HoldsOpenQuietly DEF ListObjects
  <2> QED
    BY <2>1, <2>2, <2>3 DEF Typed
<1>20. ASSUME NEW c \in Callers, DeletePage(c) PROVE Typed'
  <2>1. TypeOK'
    <3>1. PICK kept \in SUBSET page[c] :
            /\ Unlink(c, page[c] \ kept)
            /\ refused' = [refused EXCEPT ![c] = IF More(c) THEN {} ELSE kept]
      BY <1>20 DEF DeletePage
    <3>2. refused' \in [Callers -> SUBSET Files] /\ page' \in [Callers -> SUBSET Files]
      BY <1>20, <3>1 DEF DeletePage, Typed, TypeOK
    <3>3. truncated' \in [Callers -> BOOLEAN] /\ onRequest' \in [Callers -> BOOLEAN]
      BY <1>20, Zenon DEF DeletePage, Typed, TypeOK
    <3>4. pc' \in [Callers -> Underway \cup {"idle", "leaving", "done", "failed", "missing"}]
      BY <1>20 DEF DeletePage, Answered, Goto, Typed, TypeOK, Underway
    <3>5. /\ file' \in [Files -> Contents] /\ \A p \in Files : file'[p] \in {None, file[p]}
          /\ before' \in [Callers -> Contents] /\ touched' \in [Callers -> SUBSET Files]
          /\ opened' \in [Callers -> Files \cup {Nowhere}]
      BY <3>1, TypeUnlink
    <3>6. options' = options /\ dirs' = dirs /\ call' = call
      BY <1>20 DEF DeletePage
    <3> QED
      BY <3>2, <3>3, <3>4, <3>5, <3>6 DEF Typed, TypeOK, Exists, Local
  <2>2. \A d \in Callers : Labelled(d)'
    <3>1. /\ options.backend = "s3" /\ pc[c] = "deleting"
          /\ options' = options /\ call' = call
          /\ \A d \in Callers \ {c} : onRequest'[d] = onRequest[d]
      BY <1>20 DEF DeletePage, Typed, TypeOK
    <3>2. pc' = [pc EXCEPT ![c] = pc'[c]] /\ pc'[c] \in {"called", "done", "failed"}
      BY <1>20 DEF DeletePage, Answered, Goto, Typed, TypeOK
    <3> QED
      BY <3>1, <3>2 DEF Typed, TypeOK, Labelled, Local, Is
  <2>3. \A d \in Callers : HoldsOpen(d)'
    <3>1. PICK paths : Unlink(c, paths)
      BY <1>20 DEF DeletePage
    <3>2. pc' = [pc EXCEPT ![c] = pc'[c]] /\ pc[c] # "writing"
      BY <1>20 DEF DeletePage, Answered, Goto, Typed, TypeOK, Labelled
    <3> QED
      BY <3>1, <3>2, HoldsOpenUnlinking
  <2> QED
    BY <2>1, <2>2, <2>3 DEF Typed
<1>21. ASSUME NEW c \in Callers, DeleteListed(c) PROVE Typed'
  <2>1. TypeOK'
    <3>1. PICK paths : Unlink(c, paths)
      BY <1>21 DEF DeleteListed
    <3>2. pc' \in [Callers -> Underway \cup {"idle", "leaving", "done", "failed", "missing"}]
      <4>1. \/ pc' = pc
            \/ pc' = [pc EXCEPT ![c] = "done"]
            \/ pc' = [pc EXCEPT ![c] = "failed"]
        BY <1>21 DEF DeleteListed, Answered, Goto
      <4> QED
        BY <4>1 DEF Typed, TypeOK
    <3>3. page' \in [Callers -> SUBSET Files]
      <4>1. PICK p \in page[c] : page' = [page EXCEPT ![c] = @ \ {p}]
        BY <1>21 DEF DeleteListed
      <4> QED
        BY <4>1 DEF Typed, TypeOK
    <3>4. /\ file' \in [Files -> Contents] /\ \A p \in Files : file'[p] \in {None, file[p]}
          /\ before' \in [Callers -> Contents] /\ touched' \in [Callers -> SUBSET Files]
          /\ opened' \in [Callers -> Files \cup {Nowhere}]
      BY <3>1, TypeUnlink
    <3>5. /\ options' = options /\ dirs' = dirs /\ call' = call /\ refused' = refused
          /\ truncated' = truncated /\ onRequest' = onRequest
      BY <1>21 DEF DeleteListed
    <3>6. truncated' \in [Callers -> BOOLEAN] /\ onRequest' \in [Callers -> BOOLEAN]
      BY <3>5, Zenon DEF Typed, TypeOK
    <3>7. \A p \in Files : Exists(p)' =>
            IF Local' THEN Above(p) \subseteq dirs' ELSE file'[p].state = "whole"
      BY <3>4, <3>5 DEF Typed, TypeOK, Exists, Local
    <3>8. /\ options' \in Options /\ dirs' \subseteq Dirs /\ call' \in [Callers -> CallRecords \cup {NoCall}]
          /\ refused' \in [Callers -> SUBSET Files]
      BY <3>5 DEF Typed, TypeOK
    <3> QED
      BY <3>2, <3>3, <3>4, <3>6, <3>7, <3>8 DEF TypeOK
  <2>2. \A d \in Callers : Labelled(d)'
    BY <1>21 DEF DeleteListed, Unlink, Change, Answered, Goto, Typed, TypeOK, Labelled, Local, Is, Underway
  <2>3. \A d \in Callers : HoldsOpen(d)'
    <3>1. PICK paths : Unlink(c, paths)
      BY <1>21 DEF DeleteListed
    <3>2. pc' = [pc EXCEPT ![c] = pc'[c]] /\ pc[c] # "writing"
      BY <1>21 DEF DeleteListed, Answered, Goto, Typed, TypeOK, Labelled
    <3> QED
      BY <3>1, <3>2, HoldsOpenUnlinking
  <2> QED
    BY <2>1, <2>2, <2>3 DEF Typed
<1> QED
  BY <1>1, <1>2, <1>3, <1>4, <1>5, <1>6, <1>7, <1>8, <1>9, <1>10,
     <1>11, <1>12, <1>13, <1>14, <1>15, <1>16, <1>17, <1>18, <1>19, <1>20, <1>21 DEF Next

\* The types of the variables; an object is never stored half written, and in the file
\* system no directory above a file is removed (deleteDir, uploadFile, moveFile).
THEOREM TypeCorrect == Spec => []TypeOK
<1>1. Typed => TypeOK
  BY DEF Typed
<1> QED
  BY <1>1, TypeInit, TypeNext, PTL DEF Spec

-----------------------------------------------------------------------------
(* What a caller may rely on while others take their steps: every change of a file   *)
(* is entered in its touched.                                                        *)

Untouched(c, p) == p \in Files /\ p \notin touched[c]

\* d took no part in this step.
Bystander(d) ==
  /\ pc'[d] = pc[d] /\ call'[d] = call[d] /\ before'[d] = before[d]
  /\ touched[d] \subseteq touched'[d]
  /\ \A p \in Files : p \notin touched'[d] => file'[p] = file[p]

\* The steps of one caller.
Step(c) ==
  \/ Call(c) \/ Fail(c) \/ FailHalfway(c)
  \/ MakeDir(c) \/ DirMissing(c) \/ OpenFile(c) \/ WriteSome(c) \/ WriteFile(c)
  \/ PutObject(c)
  \/ Rename(c) \/ CopyObject(c) \/ DeleteCopied(c)
  \/ DeleteFile(c) \/ DeleteFileFails(c)
  \/ RemoveOne(c) \/ RemoveDir(c) \/ DirRemoved(c)
  \/ ListObjects(c) \/ DeletePage(c) \/ DeleteListed(c)

LEMMA StepOfOne == [Next]_vars => (\E c \in Callers : Step(c)) \/ UNCHANGED vars
  BY DEF Next, Step

\* What the steps of one have in common: they leave the calls of others where they are, and
\* what they store or delete they enter in the history.
LEMMA OneSteps ==
  ASSUME Typed, NEW c \in Callers, Step(c)
  PROVE  /\ options' = options
         /\ \A d \in Callers \ {c} :
              /\ pc'[d] = pc[d] /\ call'[d] = call[d] /\ before'[d] = before[d]
              /\ page'[d] = page[d] /\ truncated'[d] = truncated[d] /\ refused'[d] = refused[d]
         /\ pc'[c] # "idle" /\ (pc[c] # "idle" => call' = call)
         /\ UNCHANGED <<file, touched>> \/ \E new : Change(c, new)
<1> USE DEF Goto, calls, history, Typed, TypeOK
<1>1. CASE Call(c)
  BY <1>1 DEF Call
<1>2. CASE Fail(c)
  BY <1>2 DEF Fail, Active
<1>3. CASE FailHalfway(c)
  BY <1>3 DEF FailHalfway
<1>4. CASE MakeDir(c)
  BY <1>4 DEF MakeDir
<1>5. CASE DirMissing(c)
  BY <1>5 DEF DirMissing
<1>6. CASE OpenFile(c)
  <2>1. UNCHANGED <<file, touched>> \/ \E new : Change(c, new)
    BY <1>6 DEF OpenFile
  <2> QED
    BY <1>6, <2>1 DEF OpenFile, Change
<1>7. CASE WriteSome(c)
  <2>1. UNCHANGED <<file, touched>> \/ \E new : Change(c, new)
    BY <1>7 DEF WriteSome
  <2> QED
    BY <1>7, <2>1 DEF WriteSome, Change
<1>8. CASE WriteFile(c)
  <2>1. UNCHANGED <<file, touched>> \/ \E new : Change(c, new)
    BY <1>8 DEF WriteFile
  <2> QED
    BY <1>8, <2>1 DEF WriteFile, Change
<1>9. CASE PutObject(c)
  <2>1. UNCHANGED <<file, touched>> \/ \E new : Change(c, new)
    BY <1>9 DEF PutObject
  <2> QED
    BY <1>9, <2>1 DEF PutObject, Answered, Change
<1>10. CASE Rename(c)
  <2>1. UNCHANGED <<file, touched>> \/ \E new : Change(c, new)
    BY <1>10 DEF Rename
  <2> QED
    BY <1>10, <2>1 DEF Rename, Change
<1>11. CASE CopyObject(c)
  <2>1. UNCHANGED <<file, touched>> \/ \E new : Change(c, new)
    BY <1>11 DEF CopyObject
  <2> QED
    BY <1>11, <2>1 DEF CopyObject, Answered, Change
<1>12. CASE DeleteCopied(c)
  <2>1. UNCHANGED <<file, touched>> \/ \E new : Change(c, new)
    BY <1>12 DEF DeleteCopied, Unlink
  <2> QED
    BY <1>12, <2>1 DEF DeleteCopied, Answered, Unlink, Change
<1>13. CASE DeleteFile(c)
  <2>1. UNCHANGED <<file, touched>> \/ \E new : Change(c, new)
    BY <1>13 DEF DeleteFile, Unlink
  <2> QED
    BY <1>13, <2>1 DEF DeleteFile, Answered, Unlink, Change
<1>14. CASE DeleteFileFails(c)
  BY <1>14 DEF DeleteFileFails
<1>15. CASE RemoveOne(c)
  <2>1. UNCHANGED <<file, touched>> \/ \E new : Change(c, new)
    BY <1>15 DEF RemoveOne, Unlink
  <2>2. /\ options' = options /\ pc' = pc /\ call' = call /\ page' = page
        /\ truncated' = truncated /\ refused' = refused /\ pc[c] # "idle"
    BY <1>15 DEF RemoveOne, Removing
  <2>3. before' = before
    BY <1>15 DEF RemoveOne, Unlink, Change
  <2> QED
    BY <2>1, <2>2, <2>3
<1>16. CASE RemoveDir(c)
  BY <1>16 DEF RemoveDir, Removing
<1>17. CASE DirRemoved(c)
  BY <1>17 DEF DirRemoved
<1>18. CASE ListObjects(c)
  BY <1>18 DEF ListObjects
<1>19. CASE DeletePage(c)
  <2>1. UNCHANGED <<file, touched>> \/ \E new : Change(c, new)
    BY <1>19 DEF DeletePage, Unlink
  <2> QED
    BY <1>19, <2>1 DEF DeletePage, Answered, Unlink, Change
<1>20. CASE DeleteListed(c)
  <2>1. UNCHANGED <<file, touched>> \/ \E new : Change(c, new)
    BY <1>20 DEF DeleteListed, Unlink
  <2> QED
    BY <1>20, <2>1 DEF DeleteListed, Answered, Unlink, Change
<1> QED
  BY <1>1, <1>2, <1>3, <1>4, <1>5, <1>6, <1>7, <1>8, <1>9, <1>10,
     <1>11, <1>12, <1>13, <1>14, <1>15, <1>16, <1>17, <1>18, <1>19, <1>20 DEF Step

LEMMA Bystanders ==
  ASSUME Typed, NEW c \in Callers, Step(c), NEW d \in Callers \ {c}, pc[d] # "idle"
  PROVE  Bystander(d)
<1>1. CASE UNCHANGED <<file, touched>>
  BY <1>1, OneSteps DEF Bystander
<1>2. ASSUME NEW new, Change(c, new) PROVE Bystander(d)
  <2>1. file' = new /\ touched'[d] = touched[d] \cup {p \in Files : new[p] # file[p]}
    BY <1>2 DEF Change
  <2> QED
    BY <2>1, OneSteps DEF Bystander
<1> QED
  BY <1>1, <1>2, OneSteps

-----------------------------------------------------------------------------
(* Uploads.                                                                          *)

\* What only c has written to is the file c has open, as long as c writes.
OnePlace(c) ==
  \A p \in Files : file[p] = Partial(c) =>
    /\ Is(c, "upload") /\ pc[c] \notin {"idle", "called", "made"}
    /\ pc[c] = "writing" => p = opened[c]

\* An upload that has begun to write goes on from there.
LEMMA UploadGoesOn ==
  ASSUME Typed, NEW c \in Callers, Step(c), NEW d \in Callers, Is(d, "upload"),
         pc[d] \notin {"idle", "called", "made"}
  PROVE  Is(d, "upload")' /\ pc'[d] \notin {"idle", "called", "made"}
<1>1. call'[d] = call[d] /\ (c # d => pc'[d] = pc[d])
  BY OneSteps
<1>2. ASSUME c = d PROVE pc'[d] \notin {"idle", "called", "made"}
  <2> USE DEF Goto, Answered, Is, Typed, TypeOK, Labelled
  <2>1. ~(Call(d) \/ MakeDir(d) \/ DeletePage(d))
    BY DEF Call, MakeDir, DeletePage
  <2>2. CASE Fail(d) \/ FailHalfway(d) \/ DirMissing(d) \/ OpenFile(d) \/ WriteSome(d) \/ WriteFile(d)
    BY <2>2 DEF Fail, FailHalfway, DirMissing, OpenFile, WriteSome, WriteFile
  <2>3. CASE PutObject(d) \/ Rename(d) \/ CopyObject(d) \/ DeleteCopied(d)
    BY <2>3 DEF PutObject, Rename, CopyObject, DeleteCopied
  <2>4. CASE DeleteFile(d) \/ DeleteFileFails(d) \/ RemoveOne(d) \/ RemoveDir(d) \/ DirRemoved(d)
    BY <2>4 DEF DeleteFile, DeleteFileFails, RemoveOne, RemoveDir, DirRemoved
  <2>5. CASE ListObjects(d) \/ DeleteListed(d)
    BY <2>5 DEF ListObjects, DeleteListed
  <2> QED
    BY <1>2, <2>1, <2>2, <2>3, <2>4, <2>5 DEF Step
<1> QED
  BY <1>1, <1>2 DEF Is

\* Only opening it makes a file the caller's own; other steps leave such a file where it is,
\* or take it, open, to another path.
LEMMA PartialStays ==
  ASSUME Typed, NEW c \in Callers, Step(c), NEW d \in Callers, NEW p \in Files,
         file'[p] = Partial(d), ~(c = d /\ OpenFile(d))
  PROVE  \E q \in Files :
           /\ file[q] = Partial(d)
           /\ pc[d] = "writing" /\ pc'[d] = "writing" /\ q = opened[d] => p = opened'[d]
<1> USE StorageAssumption DEF Typed, TypeOK
<1>0. Partial(d) # None /\ Partial(d).state # "whole" /\ Partial(d) # Mixed
  BY DEF Partial, None, Mixed
<1>1. ASSUME NEW paths, Unlink(c, paths)
      PROVE  file[p] = Partial(d) /\ (p = opened[d] => p = opened'[d])
  <2>1. file'[p] = IF p \in paths THEN None ELSE file[p]
    BY <1>1 DEF Unlink, Change
  <2>2. p \notin paths /\ file[p] = Partial(d)
    BY <1>0, <2>1
  <2> QED
    BY <1>1, <2>2 DEF Unlink
<1>2. CASE Call(c) \/ FailHalfway(c) \/ MakeDir(c) \/ DirMissing(c) \/ DeleteFileFails(c)
             \/ RemoveDir(c) \/ DirRemoved(c) \/ ListObjects(c)
  BY <1>2 DEF Call, FailHalfway, MakeDir, DirMissing, DeleteFileFails, RemoveDir, DirRemoved, ListObjects
<1>3. CASE Fail(c)
  BY <1>3 DEF Fail, Goto
<1>4. CASE OpenFile(c)
  <2>1. c # d /\ Partial(c) # Partial(d)
    BY <1>4 DEF Partial
  <2>2. file'[p] = file[p] /\ opened'[d] = opened[d]
    BY <1>4, <2>1 DEF OpenFile, Change
  <2> QED
    BY <2>2
<1>5. CASE WriteSome(c)
  <2>1. opened[c] \in Files /\ opened' = opened /\ file' = [file EXCEPT ![opened[c]] = Mixed]
    BY <1>5 DEF WriteSome, Change
  <2> QED
    BY <1>0, <2>1
<1>6. CASE WriteFile(c)
  <2>1. PICK new \in Written(c) : file' = new
    BY <1>6 DEF WriteFile, Change
  <2>2. p # opened[c] /\ file[p] = Partial(d)
    <3>1. Whole(c) # Partial(d)
      BY DEF Whole, Partial
    <3> QED
      BY <1>0, <2>1, <3>1, WrittenIs DEF Nowhere
  <2>3. c # d => opened'[d] = opened[d]
    BY <1>6 DEF WriteFile
  <2>4. pc'[c] # "writing"
    BY <1>6 DEF WriteFile, Goto
  <2> QED
    BY <2>2, <2>3, <2>4
<1>7. CASE PutObject(c) \/ CopyObject(c)
  <2>1. Typed'
    BY TypeNext DEF Next, Step
  <2>2. ~Local'
    BY <1>7 DEF PutObject, CopyObject, Local
  <2>3. file'[p] # None => file'[p].state = "whole"
    BY <2>1, <2>2 DEF Exists
  <2> QED
    BY <1>0, <2>3
<1>8. CASE Rename(c)
  <2> DEFINE old == call[c].path
             new == call[c].to
  <2>1. /\ file' = [file EXCEPT ![new] = file[old], ![old] = None]
        /\ opened'[d] = Renamed(opened[d], old, new)
    BY <1>8 DEF Rename, Change
  <2>2. old \in Files /\ new \in Files /\ old # new
    BY <1>8 DEF Rename, Labelled, Is
  <2>3. p # old
    BY <1>0, <2>1, <2>2
  <2>4. CASE p = new
    BY <2>1, <2>2, <2>4 DEF Renamed
  <2>5. CASE p # new
    BY <2>1, <2>2, <2>3, <2>5 DEF Renamed
  <2> QED
    BY <2>4, <2>5
<1>9. CASE DeleteCopied(c) \/ DeleteFile(c) \/ RemoveOne(c) \/ DeletePage(c) \/ DeleteListed(c)
  <2>1. PICK paths : Unlink(c, paths)
    BY <1>9 DEF DeleteCopied, DeleteFile, RemoveOne, DeletePage, DeleteListed
  <2> QED
    BY <1>1, <2>1
<1> QED
  BY <1>2, <1>3, <1>4, <1>5, <1>6, <1>7, <1>8, <1>9 DEF Step

LEMMA OnePlaceNext ==
  ASSUME Typed, [Next]_vars, NEW d \in Callers, OnePlace(d)
  PROVE  OnePlace(d)'
<1>1. CASE UNCHANGED vars
  BY <1>1 DEF OnePlace, vars, calls, history, Is
<1>2. ASSUME NEW c \in Callers, Step(c), NEW p \in Files, file'[p] = Partial(d)
      PROVE  /\ Is(d, "upload")' /\ pc'[d] \notin {"idle", "called", "made"}
             /\ pc'[d] = "writing" => p = opened'[d]
  <2>1. CASE c = d /\ OpenFile(d)
    <3>1. /\ pc[d] = "made" /\ Is(d, "upload") /\ call' = call /\ pc'[d] = "writing"
          /\ file' = [file EXCEPT ![call[d].path] = Partial(d)] /\ opened'[d] = call[d].path
      BY <2>1 DEF OpenFile, Change, Goto, calls, Typed, TypeOK
    <3>2. p = call[d].path
      BY <1>2, <3>1 DEF OnePlace, Typed, TypeOK
    <3> QED
      BY <3>1, <3>2 DEF Is
  <2>2. CASE ~(c = d /\ OpenFile(d))
    <3>1. PICK q \in Files :
            /\ file[q] = Partial(d)
            /\ pc[d] = "writing" /\ pc'[d] = "writing" /\ q = opened[d] => p = opened'[d]
      BY <1>2, <2>2, PartialStays
    <3>2. /\ Is(d, "upload") /\ pc[d] \notin {"idle", "called", "made"}
          /\ pc[d] = "writing" => q = opened[d]
      BY <3>1 DEF OnePlace
    <3>3. Is(d, "upload")' /\ pc'[d] \notin {"idle", "called", "made"}
      BY <1>2, <3>2, UploadGoesOn
    <3>4. pc'[d] = "writing" => pc[d] = "writing"
      <4>1. CASE c # d
        BY <1>2, <4>1, OneSteps
      <4>2. CASE c = d
        BY <1>2, <2>2, <3>2, <4>2 DEF Step, Call, Fail, FailHalfway, MakeDir, DirMissing, WriteSome,
          WriteFile, PutObject, Rename, CopyObject, DeleteCopied, DeleteFile, DeleteFileFails, RemoveOne,
          RemoveDir, DirRemoved, ListObjects, DeletePage, DeleteListed, Goto, Answered, Typed, TypeOK
      <4> QED
        BY <4>1, <4>2
    <3> QED
      BY <3>1, <3>2, <3>3, <3>4
  <2> QED
    BY <2>1, <2>2
<1> QED
  BY <1>1, <1>2, StepOfOne DEF OnePlace

\* Unless others touch it, the path holds what the upload has written so far.
Uploading(c) ==
  Is(c, "upload") /\ Untouched(c, call[c].path)
    => /\ pc[c] = "writing" => file[call[c].path] = Partial(c)
       /\ pc[c] = "done" => file[call[c].path] = Whole(c)

LEMMA UploadingNext ==
  ASSUME Typed, [Next]_vars, NEW d \in Callers, OnePlace(d), Uploading(d)
  PROVE  Uploading(d)'
<1> USE StorageAssumption DEF Uploading, Untouched
<1>1. CASE UNCHANGED vars
  BY <1>1 DEF vars, calls, history, Is
<1>2. ASSUME NEW c \in Callers, Step(c), c # d PROVE Uploading(d)'
  <2>1. CASE pc[d] = "idle"
    BY <1>2, <2>1, OneSteps
  <2>2. CASE pc[d] # "idle"
    BY <1>2, <2>2, Bystanders DEF Bystander, Is
  <2> QED
    BY <2>1, <2>2
<1>3. CASE Step(d)
  <2> USE DEF Goto, Typed, TypeOK, Is, calls, history
  <2>1. CASE WriteFile(d)
    <3>1. PICK new \in Written(d) : file' = new /\ touched'[d] = touched[d]
      BY <2>1 DEF WriteFile, Change
    <3>2. ASSUME call[d].path \in Files, file[call[d].path] = Partial(d) PROVE new[call[d].path] = Whole(d)
      <4>1. call[d].path = opened[d]
        BY <2>1, <3>2 DEF OnePlace, WriteFile
      <4> QED
        BY <3>1, <3>2, <4>1, WrittenIs DEF Nowhere
    <3>3. pc[d] = "writing" /\ pc'[d] = "done" /\ call' = call
      BY <2>1 DEF WriteFile
    <3> QED
      BY <3>1, <3>2, <3>3
  <2>2. CASE WriteSome(d)
    <3>1. /\ pc[d] = "writing" /\ pc' = pc /\ call' = call /\ touched'[d] = touched[d]
          /\ file[opened[d]] # Partial(d)
      BY <2>2 DEF WriteSome, Change
    <3>2. Is(d, "upload") /\ Untouched(d, call[d].path) => FALSE
      BY <3>1 DEF OnePlace
    <3> QED
      BY <3>1, <3>2
  <2>3. CASE OpenFile(d)
    BY <2>3 DEF OpenFile, Change
  <2>4. CASE PutObject(d)
    BY <2>4 DEF PutObject, Change, Answered
  <2>5. CASE Call(d) \/ Fail(d) \/ FailHalfway(d) \/ MakeDir(d) \/ DirMissing(d)
    BY <2>5 DEF Call, Fail, FailHalfway, MakeDir, DirMissing
  <2>6. CASE Rename(d) \/ CopyObject(d) \/ DeleteFile(d) \/ DeleteFileFails(d)
    BY <2>6 DEF Rename, CopyObject, DeleteFile, DeleteFileFails
  <2>7. CASE DeleteCopied(d) \/ RemoveOne(d) \/ RemoveDir(d) \/ DirRemoved(d)
    BY <2>7 DEF DeleteCopied, RemoveOne, RemoveDir, Removing, DirRemoved, Labelled
  <2>8. CASE ListObjects(d) \/ DeletePage(d) \/ DeleteListed(d)
    BY <2>8 DEF ListObjects, DeletePage, DeleteListed, Labelled
  <2> QED
    BY <1>3, <2>1, <2>2, <2>3, <2>4, <2>5, <2>6, <2>7, <2>8 DEF Step
<1> QED
  BY <1>1, <1>2, <1>3, StepOfOne

\* An upload that succeeded left the caller's whole content at its path, unless others
\* changed that path meanwhile (uploadFile, uploadStream), for every tree and any
\* number of callers, several of which may have the same file open.
THEOREM UploadsCorrect == Spec => []UploadsAreWhole
<1> DEFINE UInv == Typed /\ \A c \in Callers : OnePlace(c) /\ Uploading(c)
<1>1. Init => UInv
  <2> SUFFICES ASSUME Init PROVE UInv
    OBVIOUS
  <2>1. ASSUME NEW c \in Callers PROVE OnePlace(c)
    BY DEF Init, OnePlace, Whole, Partial, None
  <2> QED
    BY <2>1, TypeInit DEF Init, Uploading, Is, NoCall
<1>2. UInv /\ [Next]_vars => UInv'
  BY TypeNext, OnePlaceNext, UploadingNext
<1>3. UInv => UploadsAreWhole
  <2> SUFFICES ASSUME UInv, NEW c \in Callers, Is(c, "upload"), pc[c] = "done",
                      call[c].path \notin touched[c]
               PROVE  file[call[c].path] = Whole(c)
    BY DEF UploadsAreWhole
  <2>1. call[c].path \in Files
    BY StorageAssumption DEF Typed, Labelled, Is
  <2> QED
    BY <2>1 DEF Uploading, Untouched
<1> QED
  BY <1>1, <1>2, <1>3, PTL DEF Spec

-----------------------------------------------------------------------------
(* Moves.                                                                            *)

\* Unless others touch its paths, what was to be moved is where the move has got to.
Moving(c) ==
  LET old == call[c].path
      new == call[c].to
  IN  Is(c, "move") /\ before[c] # None /\ Untouched(c, old) /\ Untouched(c, new)
        => /\ pc[c] \in {"called", "made", "missing"} => file[old] = before[c]
           /\ pc[c] = "copied" => file[old] = before[c] /\ file[new] = before[c]
           /\ pc[c] = "done" => ~Exists(old) /\ file[new] = before[c]
           /\ pc[c] = "failed" => before[c] \in {file[old], file[new]}

LEMMA MovingNext ==
  ASSUME Typed, [Next]_vars, NEW d \in Callers, Moving(d)
  PROVE  Moving(d)'
<1> USE StorageAssumption DEF Moving, Untouched, Exists
<1>1. CASE UNCHANGED vars
  BY <1>1 DEF vars, calls, history, Is
<1>2. ASSUME NEW c \in Callers, Step(c), c # d PROVE Moving(d)'
  <2>1. CASE pc[d] = "idle"
    BY <1>2, <2>1, OneSteps DEF Typed, Labelled, NoCall, Is
  <2>2. CASE pc[d] # "idle"
    BY <1>2, <2>2, Bystanders DEF Bystander, Is
  <2> QED
    BY <2>1, <2>2
<1>3. CASE Step(d)
  <2> USE DEF Goto, Typed, TypeOK, Labelled, Is, calls, history
  <2>1. CASE Call(d)
    BY <2>1 DEF Call
  <2>2. CASE Rename(d)
    BY <2>2 DEF Rename, Change
  <2>3. CASE CopyObject(d)
    BY <2>3 DEF CopyObject, Change, Copied, Answered
  <2>4. CASE DeleteCopied(d)
    <3>1. /\ pc[d] = "copied" /\ pc'[d] \in {"done", "failed"} /\ call' = call
          /\ file' = [p \in Files |-> IF p = call[d].path THEN None ELSE file[p]]
          /\ before' = before /\ touched'[d] = touched[d]
      BY <2>4 DEF DeleteCopied, Unlink, Change, Answered
    <3>2. call[d].path \in Files /\ call[d].to \in Files /\ call[d].path # call[d].to
      BY <3>1
    <3> QED
      BY <3>1, <3>2
  <2>5. CASE Fail(d) \/ FailHalfway(d)
    BY <2>5 DEF Fail, FailHalfway, Active, Underway
  <2>6. CASE MakeDir(d) \/ DirMissing(d)
    BY <2>6 DEF MakeDir, DirMissing
  <2>7. CASE OpenFile(d) \/ WriteSome(d) \/ WriteFile(d) \/ PutObject(d) \/ DeleteFile(d) \/ DeleteFileFails(d)
    BY <2>7 DEF OpenFile, WriteSome, WriteFile, PutObject, DeleteFile, DeleteFileFails
  <2>8. CASE RemoveOne(d) \/ RemoveDir(d) \/ DirRemoved(d)
    BY <2>8 DEF RemoveOne, RemoveDir, Removing, DirRemoved
  <2>9. CASE ListObjects(d) \/ DeletePage(d) \/ DeleteListed(d)
    BY <2>9 DEF ListObjects, DeletePage, DeleteListed
  <2> QED
    BY <1>3, <2>1, <2>2, <2>3, <2>4, <2>5, <2>6, <2>7, <2>8, <2>9 DEF Step
<1> QED
  BY <1>1, <1>2, <1>3, StepOfOne

\* A file being moved is never lost, whichever step of moveFile fails, and is at the new
\* path only once the move succeeded, as long as nobody else changes the two paths.
THEOREM MovesCorrect == Spec => []MovesKeepTheFile
<1> DEFINE MInv == Typed /\ \A c \in Callers : Moving(c)
<1>1. Init => MInv
  BY TypeInit DEF Init, Moving, Is, NoCall
<1>2. MInv /\ [Next]_vars => MInv'
  BY TypeNext, MovingNext
<1>3. MInv => MovesKeepTheFile
  <2> SUFFICES ASSUME MInv, NEW c \in Callers, Is(c, "move"), before[c] # None,
                      {call[c].path, call[c].to} \cap touched[c] = {}
               PROVE  /\ before[c] \in {file[call[c].path], file[call[c].to]}
                      /\ pc[c] = "done" => file[call[c].to] = before[c] /\ ~Exists(call[c].path)
    BY DEF MovesKeepTheFile
  <2>1. call[c] \in Calls /\ pc[c] \notin {"idle", "writing", "deleting", "leaving"}
    BY DEF Typed, Labelled, Is, NoCall
  <2>2. Untouched(c, call[c].path) /\ Untouched(c, call[c].to)
    BY <2>1, StorageAssumption DEF Untouched, Is
  <2> QED
    BY <2>1, <2>2 DEF Moving, Typed, TypeOK, Underway
<1> QED
  BY <1>1, <1>2, <1>3, PTL DEF Spec

-----------------------------------------------------------------------------
(* Directories.                                                                      *)

\* Somebody was told to delete a directory above the path c writes to.
DeletedAbove(c) == \E d \in Callers : Is(d, "deleteDir") /\ Under(Target(c), call[d].path)

\* Unless there is a deleteDir above, the directories made for a path are there.
DirsMade(c) == /\ pc[c] = "made" => Above(Target(c)) \subseteq dirs \/ DeletedAbove(c)
               /\ pc[c] = "missing" => DeletedAbove(c)

\* Nobody takes back a call.
LEMMA CallsStay ==
  ASSUME Typed, [Next]_vars, NEW d \in Callers, pc[d] # "idle"
  PROVE  call'[d] = call[d]
<1>1. ASSUME NEW c \in Callers, Step(c) PROVE call'[d] = call[d]
  BY <1>1, OneSteps
<1>2. CASE UNCHANGED vars
  BY <1>2 DEF vars, calls
<1> QED
  BY <1>1, <1>2, StepOfOne

\* Only deleteDir takes a directory away, and only one that it was told to delete or
\* one below.
LEMMA DirsStay ==
  ASSUME Typed, [Next]_vars, NEW p \in Files, Above(p) \subseteq dirs
  PROVE  \/ Above(p) \subseteq dirs'
         \/ \E c \in Callers : Is(c, "deleteDir") /\ Under(p, call[c].path)
<1>1. ASSUME NEW c \in Callers, RemoveDir(c), ~(Above(p) \subseteq dirs')
      PROVE  Is(c, "deleteDir") /\ Under(p, call[c].path)
  <2>1. PICK e \in Above(p) : e = call[c].path \/ Under(e, call[c].path)
    BY <1>1 DEF RemoveDir
  <2>2. call[c].path \in Above(p)
    BY <2>1, AboveTransitive, StorageAssumption DEF Under
  <2> QED
    BY <1>1, <2>2 DEF RemoveDir, Removing, Under
<1>2. ASSUME NEW c \in Callers, Step(c), ~RemoveDir(c) PROVE dirs \subseteq dirs'
  BY <1>2 DEF Step, Call, Fail, FailHalfway, MakeDir, DirMissing, OpenFile, WriteSome, WriteFile,
    PutObject, Rename, CopyObject, DeleteCopied, DeleteFile, DeleteFileFails, RemoveOne, DirRemoved,
    ListObjects, DeletePage, DeleteListed
<1>3. CASE UNCHANGED vars
  BY <1>3 DEF vars
<1> QED
  BY <1>1, <1>2, <1>3, StepOfOne

LEMMA DirsMadeNext ==
  ASSUME Typed, [Next]_vars, \A c \in Callers : DirsMade(c), NEW d \in Callers
  PROVE  DirsMade(d)'
<1>1. ASSUME pc[d] # "idle", DeletedAbove(d) PROVE DeletedAbove(d)'
  <2>1. PICK e \in Callers : Is(e, "deleteDir") /\ Under(Target(d), call[e].path)
    BY <1>1 DEF DeletedAbove
  <2>2. pc[e] # "idle"
    BY <2>1 DEF Typed, Labelled, Is, NoCall
  <2>3. call'[e] = call[e] /\ call'[d] = call[d]
    BY <1>1, <2>2, CallsStay
  <2> QED
    BY <2>1, <2>3 DEF DeletedAbove, Is, Target
<1>2. ASSUME pc[d] \in {"made", "missing"}, pc'[d] = pc[d] PROVE DirsMade(d)'
  <2>1. Target(d) \in Files /\ call'[d] = call[d]
    BY <1>2, CallsStay, StorageAssumption DEF Target, Typed, Labelled, Is
  <2>2. CASE DeletedAbove(d)
    BY <1>1, <1>2, <2>2 DEF DirsMade
  <2>3. CASE pc[d] = "made" /\ Above(Target(d)) \subseteq dirs
    <3>1. Above(Target(d)) \subseteq dirs' \/ DeletedAbove(d)
      BY <2>1, <2>3, DirsStay DEF DeletedAbove
    <3> QED
      BY <1>1, <1>2, <2>1, <3>1 DEF DirsMade, Target, Is
  <2> QED
    BY <1>2, <2>2, <2>3 DEF DirsMade
<1>3. ASSUME pc'[d] = pc[d], pc[d] \notin {"made", "missing"} PROVE DirsMade(d)'
  BY <1>3 DEF DirsMade
<1>4. CASE UNCHANGED vars
  BY <1>2, <1>3, <1>4 DEF vars
<1>5. ASSUME NEW c \in Callers, Step(c), c # d PROVE DirsMade(d)'
  BY <1>2, <1>3, <1>5, OneSteps
<1>6. CASE Step(d)
  <2> USE DEF Goto, Typed, TypeOK
  <2>1. CASE MakeDir(d)
    BY <2>1 DEF MakeDir, DirsMade, Target, Made, calls, Is
  <2>2. CASE DirMissing(d)
    BY <1>1, <2>2 DEF DirMissing, DirsMade
  <2>3. CASE ~(MakeDir(d) \/ DirMissing(d))
    <3>1. pc'[d] \notin {"made", "missing"}
      <4> USE DEF Answered, Labelled, Is
      <4>1. CASE Call(d) \/ Fail(d) \/ FailHalfway(d) \/ OpenFile(d) \/ WriteSome(d) \/ WriteFile(d)
        BY <4>1 DEF Call, Fail, FailHalfway, OpenFile, WriteSome, WriteFile
      <4>2. CASE PutObject(d) \/ Rename(d) \/ CopyObject(d) \/ DeleteCopied(d)
        BY <4>2 DEF PutObject, Rename, CopyObject, DeleteCopied
      <4>3. CASE DeleteFile(d) \/ DeleteFileFails(d) \/ RemoveOne(d) \/ RemoveDir(d) \/ DirRemoved(d)
        BY <4>3 DEF DeleteFile, DeleteFileFails, RemoveOne, RemoveDir, Removing, DirRemoved
      <4>4. CASE ListObjects(d) \/ DeletePage(d) \/ DeleteListed(d)
        BY <4>4 DEF ListObjects, DeletePage, DeleteListed
      <4> QED
        BY <1>6, <2>3, <4>1, <4>2, <4>3, <4>4 DEF Step
    <3> QED
      BY <3>1 DEF DirsMade
  <2> QED
    BY <2>1, <2>2, <2>3
<1> QED
  BY <1>4, <1>5, <1>6, StepOfOne

\* A call that writes finds its directory missing only if somebody deletes a directory
\* above it: no order of the steps of transformFilePath, open and rename of several
\* callers has that effect.
THEOREM DirsCorrect == Spec => []DirsAreMade
<1> DEFINE DInv == Typed /\ \A c \in Callers : DirsMade(c)
<1>1. Init => DInv
  BY TypeInit DEF Init, DirsMade
<1>2. DInv /\ [Next]_vars => DInv'
  BY TypeNext, DirsMadeNext
<1>3. DInv => DirsAreMade
  BY DEF DirsMade, DirsAreMade, DeletedAbove
<1> QED
  BY <1>1, <1>2, <1>3, PTL DEF Spec

-----------------------------------------------------------------------------
(* Deleted directories.                                                              *)

\* The key of a file starts with the key of each directory it lies in.
LEMMA UnderStarts ==
  ASSUME NEW p \in Files, NEW d, Under(p, d)
  PROVE  StartsWith(p, d)
<1>1. p \in Seq(STRING)
  BY StorageAssumption
<1>2. PICK n \in 0..Len(p) - 1 : d = SubSeq(p, 1, n)
  BY DEF Under, Above
<1>3. Len(d) = n /\ \A i \in 1..n : d[i] = p[i]
  BY <1>1, <1>2
<1>4. n = 0 => d = <<>>
  BY <1>1, <1>2
<1> QED
  BY <1>1, <1>2, <1>3, <1>4 DEF StartsWith

\* A call that deletes a directory finds all that lies in it.
LEMMA FoundIsAll ==
  ASSUME Typed, NEW c \in Callers, ~options.perRequest,
         NEW p \in Files, Under(p, call[c].path), Exists(p)
  PROVE  p \in Found(c)
  BY UnderStarts DEF Found

\* After the last listing, what lies in the directory is on the page to delete, or was
\* changed by others; in the end S3 refused what is still there.
Deleting(c) ==
  /\ options.backend = "google" => ~truncated[c]
  /\ Is(c, "deleteDir") /\ ~options.perRequest =>
       \A p \in Files : Under(p, call[c].path) /\ Exists(p) =>
         /\ pc[c] = "deleting" /\ ~truncated[c] => p \in page[c] \cup touched[c]
         /\ pc[c] = "done" => p \in touched[c] \cup refused[c]

LEMMA DeletingNext ==
  ASSUME Typed, [Next]_vars, NEW d \in Callers, Deleting(d)
  PROVE  Deleting(d)'
<1> USE DEF Deleting, Exists
<1>1. CASE UNCHANGED vars
  BY <1>1 DEF vars, calls, history, Is
<1>2. ASSUME NEW c \in Callers, Step(c), c # d PROVE Deleting(d)'
  <2>1. page'[d] = page[d] /\ truncated'[d] = truncated[d] /\ refused'[d] = refused[d] /\ options' = options
    BY <1>2, OneSteps
  <2>2. CASE pc[d] = "idle"
    BY <1>2, <2>1, <2>2, OneSteps
  <2>3. CASE pc[d] # "idle"
    BY <1>2, <2>1, <2>3, Bystanders DEF Bystander, Is
  <2> QED
    BY <2>2, <2>3
<1>3. CASE Step(d)
  <2> USE DEF Goto, Typed, TypeOK, Labelled, Is, calls, history
  <2>1. CASE DirRemoved(d)
    BY <2>1, FoundIsAll DEF DirRemoved, Local
  <2>2. CASE ListObjects(d)
    <3>1. PICK listed \in IF options.backend = "s3" THEN FirstPage(Found(d)) ELSE {Found(d)} :
            /\ page' = [page EXCEPT ![d] = listed]
            /\ truncated' = [truncated EXCEPT ![d] = listed # Found(d)]
            /\ Goto(d, IF listed = {} THEN "done" ELSE "deleting")
      BY <2>2 DEF ListObjects
    <3>2. listed = {} => listed = Found(d)
      <4>1. Cardinality({}) = 0
        BY FS_EmptySet
      <4> QED
        BY <3>1, <4>1, FirstPageIsPart, StorageAssumption
    <3>3. options.backend = "google" => listed = Found(d)
      BY <3>1
    <3>4. /\ page'[d] = listed /\ truncated'[d] = (listed # Found(d))
          /\ pc'[d] = IF listed = {} THEN "done" ELSE "deleting"
      BY <3>1
    <3>5. /\ options' = options /\ file' = file /\ call' = call /\ touched' = touched
          /\ refused' = refused
      BY <2>2 DEF ListObjects
    <3>6. ~options.perRequest =>
            \A p \in Files : Under(p, call[d].path) /\ Exists(p) => p \in Found(d)
      BY FoundIsAll
    <3> HIDE DEF Found
    <3>7. ~truncated'[d] => listed = Found(d)
      BY <3>4
    <3>8. pc'[d] = "done" => listed = Found(d) /\ listed = {}
      BY <3>2, <3>4
    <3> QED
      BY <3>3, <3>4, <3>5, <3>6, <3>7, <3>8
  <2>3. CASE DeletePage(d)
    <3>1. PICK kept \in SUBSET page[d] :
            /\ file' = [p \in Files |-> IF p \in page[d] \ kept THEN None ELSE file[p]]
            /\ touched'[d] = touched[d]
            /\ refused'[d] = IF truncated[d] THEN {} ELSE kept
      BY <2>3 DEF DeletePage, Unlink, Change, More
    <3>2. /\ options.backend = "s3" /\ options' = options /\ call' = call /\ pc[d] = "deleting"
          /\ pc'[d] \in {IF truncated[d] THEN "called" ELSE "done", "failed"}
      BY <2>3 DEF DeletePage, Answered, More
    <3>3. CASE truncated[d]
      BY <3>2, <3>3
    <3>4. CASE ~truncated[d]
      <4>1. ASSUME NEW p \in Files, file'[p] # None PROVE file[p] # None /\ (p \in page[d] => p \in kept)
        BY <3>1, <4>1
      <4> QED
        BY <3>1, <3>2, <3>4, <4>1
    <3> QED
      BY <3>3, <3>4
  <2>4. CASE DeleteListed(d)
    <3>1. PICK p \in page[d] :
            /\ Unlink(d, {p})
            /\ page' = [page EXCEPT ![d] = @ \ {p}]
            /\ IF pc[d] = "deleting" /\ page[d] = {p} THEN Answered(d, "done") ELSE UNCHANGED pc
      BY <2>4 DEF DeleteListed
    <3>2. touched'[d] = touched[d] /\ \A q \in Files : file'[q] # None => file[q] # None /\ q # p
      BY <3>1 DEF Unlink, Change
    <3>3. page'[d] = page[d] \ {p} /\ (pc'[d] = "done" => page[d] = {p})
      BY <2>4, <3>1 DEF DeleteListed, Answered
    <3>4. /\ options.backend = "google" /\ options' = options /\ call' = call
          /\ truncated' = truncated /\ refused' = refused /\ pc[d] \in {"deleting", "leaving"}
          /\ pc'[d] \in {pc[d], "done", "failed"}
      BY <2>4 DEF DeleteListed, Answered
    <3>5. pc'[d] = "done" => pc[d] = "deleting"
      BY <3>1, <3>4
    <3> QED
      BY <3>2, <3>3, <3>4, <3>5
  <2>5. CASE Call(d) \/ RemoveDir(d) \/ Fail(d) \/ FailHalfway(d)
    BY <2>5 DEF Call, RemoveDir, Removing, Fail, FailHalfway
  <2>6. CASE RemoveOne(d)
    <3>1. /\ pc' = pc /\ pc[d] \in {"called", "leaving"} /\ options' = options /\ truncated' = truncated
      BY <2>6 DEF RemoveOne, Removing
    <3> QED
      BY <3>1
  <2>7. CASE MakeDir(d) \/ DirMissing(d) \/ OpenFile(d) \/ WriteSome(d) \/ WriteFile(d) \/ PutObject(d)
    BY <2>7 DEF MakeDir, DirMissing, OpenFile, WriteSome, WriteFile, PutObject
  <2>8. CASE Rename(d) \/ CopyObject(d) \/ DeleteCopied(d) \/ DeleteFile(d) \/ DeleteFileFails(d)
    BY <2>8 DEF Rename, CopyObject, DeleteCopied, DeleteFile, DeleteFileFails
  <2> QED
    BY <1>3, <2>1, <2>2, <2>3, <2>4, <2>5, <2>6, <2>7, <2>8 DEF Step
<1> QED
  BY <1>1, <1>2, <1>3, StepOfOne

\* Unless keys depend on the request, a directory that was deleted is empty but for what
\* others changed in it and what S3 refused to delete of the last page, for every size of a
\* page and any number of pages (deleteDir).
THEOREM DeletedCorrect == Spec => [](~options.perRequest => DeletedDirsAreEmpty)
<1> DEFINE RInv == Typed /\ \A c \in Callers : Deleting(c)
<1>1. Init => RInv
  BY TypeInit DEF Init, Deleting, Is, NoCall
<1>2. RInv /\ [Next]_vars => RInv'
  BY TypeNext, DeletingNext
<1>3. RInv => (~options.perRequest => DeletedDirsAreEmpty)
  BY DEF Deleting, DeletedDirsAreEmpty
<1> QED
  BY <1>1, <1>2, <1>3, PTL DEF Spec

-----------------------------------------------------------------------------
(* Whose paths change.                                                               *)

\* What a call of deleteDir is still to delete is what it was made for.
Paged(c) == pc[c] # "idle" => \A p \in page[c] : StartsWith(p, call[c].path)

LEMMA PagedNext ==
  ASSUME Typed, [Next]_vars, NEW d \in Callers, Paged(d), pc[d] = "idle" => page[d] = {}
  PROVE  Paged(d)' /\ (pc'[d] = "idle" => page'[d] = {})
<1> USE DEF Paged
<1>1. CASE UNCHANGED vars
  BY <1>1 DEF vars, calls
<1>2. ASSUME NEW c \in Callers, Step(c), c # d
      PROVE  Paged(d)' /\ (pc'[d] = "idle" => page'[d] = {})
  BY <1>2, OneSteps
<1>3. CASE ListObjects(d)
  <2>1. PICK listed \in IF options.backend = "s3" THEN FirstPage(Found(d)) ELSE {Found(d)} :
          page' = [page EXCEPT ![d] = listed]
    BY <1>3 DEF ListObjects
  <2>2. page'[d] = listed /\ listed \subseteq Found(d)
    BY <2>1, FirstPageIsPart DEF Typed, TypeOK
  <2>3. ~Local /\ call' = call /\ pc'[d] # "idle"
    BY <1>3, OneSteps DEF ListObjects, Step
  <2> QED
    BY <2>2, <2>3 DEF Found
<1>4. CASE Step(d) /\ ~ListObjects(d)
  <2>1. page'[d] \subseteq page[d]
    <3> USE DEF Typed, TypeOK, calls
    <3>1. CASE DeletePage(d) \/ DeleteListed(d)
      BY <3>1 DEF DeletePage, DeleteListed
    <3>2. CASE ~(DeletePage(d) \/ DeleteListed(d))
      BY <1>4, <3>2 DEF Step, Call, Fail, FailHalfway, MakeDir, DirMissing, OpenFile, WriteSome, WriteFile,
        PutObject, Rename, CopyObject, DeleteCopied, DeleteFile, DeleteFileFails, RemoveOne, RemoveDir,
        DirRemoved
    <3> QED
      BY <3>1, <3>2
  <2>2. pc'[d] # "idle" /\ (pc[d] = "idle" \/ call'[d] = call[d])
    BY <1>4, OneSteps
  <2> QED
    BY <2>1, <2>2
<1> QED
  BY <1>1, <1>2, <1>3, <1>4, StepOfOne

\* What a call was made for, as OnlyNamedPathsChange has it.
Named(c, p) ==
  /\ Active(c) \/ pc[c] = "leaving"
  /\ \/ p = call[c].path /\ ~Is(c, "deleteDir")
     \/ p = call[c].to /\ Is(c, "move")
     \/ p = opened[c]
     \/ /\ Is(c, "deleteDir")
        /\ IF Local THEN Under(p, call[c].path) ELSE StartsWith(p, call[c].path) /\ p \in page[c]

LEMMA StepIsNamed ==
  ASSUME Typed, NEW c \in Callers, Step(c), Paged(c), NEW p \in Files, file'[p] # file[p]
  PROVE  Named(c, p)
<1> USE DEF Named, Active, Underway, Is, Change, Typed, TypeOK
<1>1. CASE OpenFile(c) \/ PutObject(c)
  BY <1>1 DEF OpenFile, PutObject
<1>2. CASE WriteFile(c)
  <2>1. PICK new \in Written(c) : file' = new
    BY <1>2 DEF WriteFile
  <2>2. p = opened[c]
    BY <2>1, WrittenIs
  <2> QED
    BY <1>2, <2>2 DEF WriteFile
<1>3. CASE WriteSome(c)
  BY <1>3 DEF WriteSome
<1>4. CASE Rename(c) \/ CopyObject(c)
  BY <1>4 DEF Rename, CopyObject, Copied
<1>5. ASSUME NEW paths, Unlink(c, paths) PROVE p \in paths
  BY <1>5 DEF Unlink
<1>6. CASE DeleteCopied(c) \/ DeleteFile(c)
  BY <1>5, <1>6 DEF DeleteCopied, DeleteFile, Labelled
<1>7. CASE RemoveOne(c)
  BY <1>5, <1>7 DEF RemoveOne, Removing, Found
<1>8. CASE DeletePage(c) \/ DeleteListed(c)
  <2>1. p \in page[c]
    BY <1>5, <1>8 DEF DeletePage, DeleteListed
  <2>2. /\ pc[c] \in {"deleting", "leaving"} /\ ~Local
    BY <1>8 DEF DeletePage, DeleteListed, Local
  <2> QED
    BY <2>1, <2>2 DEF Paged, Labelled
<1>9. CASE Call(c) \/ Fail(c) \/ FailHalfway(c) \/ MakeDir(c) \/ DirMissing(c) \/ DeleteFileFails(c)
             \/ RemoveDir(c) \/ DirRemoved(c) \/ ListObjects(c)
  BY <1>9 DEF Call, Fail, FailHalfway, MakeDir, DirMissing, DeleteFileFails, RemoveDir, DirRemoved, ListObjects
<1> QED
  BY <1>1, <1>2, <1>3, <1>4, <1>6, <1>7, <1>8, <1>9 DEF Step

\* A step changes only paths that a call under way was made for, or the file an upload under
\* way has open, wherever others moved it: nothing is stored after a call ended, nothing is
\* deleted after one resolved, and deleteDir leaves alone what it did not list as starting
\* with its path (in the file system: what does not lie in the directory).
THEOREM NamedCorrect == Spec => OnlyNamedPathsChange
<1> DEFINE PInv == Typed /\ \A c \in Callers : Paged(c) /\ (pc[c] = "idle" => page[c] = {})
           Step1 == \A p \in Files :
             file'[p] # file[p] => IF Local THEN Meant(p, Under) ELSE Meant(p, StartsWith)
<1>1. Init => PInv
  BY TypeInit DEF Init, Paged
<1>2. PInv /\ [Next]_vars => PInv'
  BY TypeNext, PagedNext
<1>3. PInv /\ [Next]_vars => [Step1]_vars
  <2> SUFFICES ASSUME PInv, [Next]_vars, vars' # vars, NEW p \in Files, file'[p] # file[p]
               PROVE  IF Local THEN Meant(p, Under) ELSE Meant(p, StartsWith)
    OBVIOUS
  <2>1. PICK c \in Callers : Named(c, p)
    BY StepOfOne, StepIsNamed
  <2> QED
    BY <2>1 DEF Named, Meant
<1> QED
  BY <1>1, <1>2, <1>3, PTL DEF Spec, OnlyNamedPathsChange

-----------------------------------------------------------------------------
(* Listings.                                                                         *)

\* A directory of a path is the beginning of it, and something is left.
LEMMA AboveBegins ==
  ASSUME NEW p \in Seq(STRING), NEW d, Under(p, d)
  PROVE  /\ d \in Seq(STRING) /\ Len(d) \in 0..Len(p) - 1 /\ \A i \in 1..Len(d) : d[i] = p[i]
         /\ SubSeq(p, Len(d) + 1, Len(p)) \in Seq(STRING) \ {<<>>}
         /\ SubSeq(p, Len(d) + 1, Len(p))[1] = p[Len(d) + 1]
         /\ d \o SubSeq(p, Len(d) + 1, Len(p)) = p
<1>1. PICK n \in 0..Len(p) - 1 : d = SubSeq(p, 1, n)
  BY DEF Under, Above
<1>2. d \in Seq(STRING) /\ Len(d) = n /\ \A i \in 1..n : d[i] = p[i]
  BY <1>1
<1> DEFINE q == SubSeq(p, n + 1, Len(p))
<1>3. q \in Seq(STRING) /\ Len(q) = Len(p) - n /\ \A i \in 1..Len(p) - n : q[i] = p[n + i]
  <2>1. n \in Int /\ Len(p) \in Int /\ n + 1 \in Int /\ n + 1 <= Len(p)
    BY <1>1
  <2>2. \A i \in n + 1..Len(p) : p[i] \in STRING
    BY <1>1
  <2>3. /\ q \in Seq(STRING) /\ Len(q) = Len(p) - (n + 1) + 1
        /\ \A i \in 1..Len(p) - (n + 1) + 1 : q[i] = p[(n + 1) + i - 1]
    BY <2>1, <2>2, SubSeqProperties
  <2>4. Len(p) - (n + 1) + 1 = Len(p) - n /\ \A i \in Int : (n + 1) + i - 1 = n + i
    BY <2>1
  <2> QED
    BY <2>3, <2>4
<1>4. q = SubSeq(p, Len(d) + 1, Len(p)) /\ q[1] = p[Len(d) + 1]
  BY <1>1, <1>2, <1>3
<1> HIDE DEF q
<1>5. q # <<>>
  <2>1. Len(q) # 0
    BY <1>1, <1>3
  <2>2. Len(<<>>) = 0
    BY EmptySeq
  <2> QED
    BY <2>1, <2>2
<1>6. d \o q = p
  <2>0. /\ d \o q \in Seq(STRING) /\ Len(d \o q) = Len(d) + Len(q)
        /\ \A i \in 1..Len(d) + Len(q) : (d \o q)[i] = IF i <= Len(d) THEN d[i] ELSE q[i - Len(d)]
    <3>1. d \in Seq(STRING) /\ q \in Seq(STRING)
      BY <1>2, <1>3
    <3> QED
      BY <3>1, ConcatProperties
  <2>1. d \o q \in Seq(STRING) /\ Len(d \o q) = Len(p)
    BY <1>1, <1>2, <1>3, <2>0
  <2>2. ASSUME NEW i \in 1..Len(p) PROVE (d \o q)[i] = p[i]
    <3>1. CASE i <= n
      <4>1. i \in 1..n /\ i <= Len(d) /\ i \in 1..Len(d) + Len(q)
        BY <1>1, <1>2, <1>3, <2>2, <3>1
      <4> QED
        BY <1>2, <2>0, <4>1
    <3>2. CASE i > n
      <4>1. i - n \in 1..Len(p) - n /\ n + (i - n) = i
        BY <1>1, <2>2, <3>2
      <4>2. (d \o q)[i] = q[i - n]
        BY <1>1, <1>2, <1>3, <2>0, <2>2, <3>2
      <4>3. q[i - n] = p[n + (i - n)]
        BY <1>3, <4>1
      <4> QED
        BY <4>1, <4>2, <4>3
    <3>3. i <= n \/ i > n
      BY <1>1, <2>2
    <3> QED
      BY <3>1, <3>2, <3>3
  <2> QED
    BY <2>1, <2>2, SeqEqual
<1>7. Len(d) \in 0..Len(p) - 1 /\ \A i \in 1..Len(d) : d[i] = p[i]
  BY <1>1, <1>2
<1> QED
  BY <1>2, <1>3, <1>4, <1>5, <1>6, <1>7

\* A beginning of a path that leaves something is a directory it lies in.
LEMMA BeginningIsAbove ==
  ASSUME NEW p, NEW d, NEW n \in 0..Len(p) - 1, d = SubSeq(p, 1, n)
  PROVE  Under(p, d)
  BY DEF Under, Above

\* What a path goes on with after a directory lies in the directory.
LEMMA RestIsUnder ==
  ASSUME NEW d \in Seq(STRING), NEW q \in Seq(STRING) \ {<<>>}
  PROVE  Under(d \o q, d) /\ (d \o q)[Len(d) + 1] = q[1]
<1>1. Len(q) \in Nat \ {0}
  BY EmptySeq
<1>2. d \o q \in Seq(STRING) /\ Len(d \o q) = Len(d) + Len(q) /\ \A i \in 1..Len(d) : (d \o q)[i] = d[i]
  OBVIOUS
<1>3. (d \o q)[Len(d) + 1] = q[1]
  BY <1>1
<1>4. SubSeq(d \o q, 1, Len(d)) = d
  <2> DEFINE e == SubSeq(d \o q, 1, Len(d))
  <2>1. e \in Seq(STRING) /\ Len(e) = Len(d) /\ \A i \in 1..Len(d) : e[i] = d[i]
    BY <1>2
  <2> QED
    BY <2>1, SeqEqual
<1>5. Len(d) \in 0..Len(d \o q) - 1
  BY <1>1, <1>2
<1>6. Under(d \o q, d)
  BY <1>4, <1>5, BeginningIsAbove
<1> QED
  BY <1>3, <1>6

\* The next name after d in a path below d leads to a directory of the path, or to itself.
LEMMA NextName ==
  ASSUME NEW p \in Seq(STRING), NEW d, Under(p, d)
  PROVE  LET e == SubSeq(p, 1, Len(d) + 1)
         IN  /\ e \in Above(p) \/ (e = p /\ Len(p) = Len(d) + 1)
             /\ Under(e, d) /\ Len(e) = Len(d) + 1 /\ e[Len(d) + 1] = p[Len(d) + 1]
             /\ e = Append(d, p[Len(d) + 1])
<1> DEFINE e == SubSeq(p, 1, Len(d) + 1)
<1>1. d \in Seq(STRING) /\ Len(d) \in 0..Len(p) - 1 /\ \A i \in 1..Len(d) : d[i] = p[i]
  BY AboveBegins
<1>2. e \in Seq(STRING) /\ Len(e) = Len(d) + 1 /\ \A i \in 1..Len(d) + 1 : e[i] = p[i]
  BY <1>1
<1>3. e = Append(d, p[Len(d) + 1])
  <2> DEFINE x == Append(d, p[Len(d) + 1])
  <2>1. p[Len(d) + 1] \in STRING
    BY <1>1
  <2>2. x \in Seq(STRING) /\ Len(x) = Len(d) + 1 /\ \A i \in 1..Len(d) + 1 : x[i] = p[i]
    BY <1>1, <2>1
  <2> QED
    BY <1>2, <2>2, SeqEqual
<1>4. Under(e, d)
  <2>1. SubSeq(e, 1, Len(d)) = d
    <3> DEFINE x == SubSeq(e, 1, Len(d))
    <3>1. x \in Seq(STRING) /\ Len(x) = Len(d) /\ \A i \in 1..Len(d) : x[i] = d[i]
      BY <1>1, <1>2
    <3> QED
      BY <1>1, <3>1, SeqEqual
  <2>2. Len(d) \in 0..Len(e) - 1
    BY <1>1, <1>2
  <2> QED
    BY <2>1, <2>2, BeginningIsAbove
<1>5. CASE Len(d) + 1 < Len(p)
  BY <1>1, <1>2, <1>3, <1>4, <1>5 DEF Above
<1>6. CASE Len(d) + 1 = Len(p)
  <2>1. e = p
    BY <1>1, <1>2, <1>6, SeqEqual
  <2> QED
    BY <1>1, <1>2, <1>3, <1>4, <1>6, <2>1
<1> QED
  BY <1>1, <1>5, <1>6

LEMMA DirsAreSeqs == \A d \in Dirs : d \in Seq(STRING)
<1>1. SUFFICES ASSUME NEW f \in Files, NEW n \in 0..Len(f) - 1 PROVE SubSeq(f, 1, n) \in Seq(STRING)
  BY DEF Dirs
<1>2. f \in Seq(STRING)
  BY StorageAssumption
<1> QED
  BY <1>2

LEMMA ListingLocal ==
  ASSUME TypeOK, Local, NEW d \in Dirs
  PROVE  /\ Entries(d) \subseteq ReadDirLocal(d)
         /\ \A n \in ReadDirLocal(d) \ Entries(d) : Append(d, n) \in Dirs
<1>1. ASSUME NEW p \in Files, Exists(p), Under(p, d) PROVE p[Len(d) + 1] \in ReadDirLocal(d)
  <2> DEFINE e == SubSeq(p, 1, Len(d) + 1)
  <2>1. p \in Seq(STRING)
    BY StorageAssumption
  <2>2. /\ e \in Above(p) \/ e = p
        /\ Under(e, d) /\ Len(e) = Len(d) + 1 /\ e[Len(d) + 1] = p[Len(d) + 1]
    BY <1>1, <2>1, NextName
  <2>3. Above(p) \subseteq dirs
    BY <1>1 DEF TypeOK
  <2> HIDE DEF e
  <2> QED
    BY <1>1, <2>2, <2>3 DEF ReadDirLocal
<1>2. ASSUME NEW n \in ReadDirLocal(d) \ Entries(d) PROVE Append(d, n) \in Dirs
  <2>1. PICK p \in {p \in Files : Exists(p)} \cup dirs :
          Under(p, d) /\ Len(p) = Len(d) + 1 /\ n = p[Len(d) + 1]
    BY <1>2 DEF ReadDirLocal
  <2>2. p \in dirs /\ p \in Dirs
    BY <1>2, <2>1 DEF Entries, TypeOK
  <2>3. p \in Seq(STRING)
    BY <2>2, DirsAreSeqs
  <2>4. SubSeq(p, 1, Len(d) + 1) = Append(d, n)
    BY <2>1, <2>3, NextName
  <2>5. SubSeq(p, 1, Len(p)) = p
    BY <2>3
  <2> QED
    BY <2>1, <2>2, <2>4, <2>5
<1> QED
  BY <1>1, <1>2 DEF Entries

LEMMA ListingS3 ==
  ASSUME NEW d \in Dirs \ {<<>>}, NEW names \in ReadDirS3(d)
  PROVE  names \subseteq Entries(d) /\ (names # Entries(d) => Cardinality(names) = PageSize)
<1> DEFINE listed   == {p \in Files : Exists(p) /\ Under(p, d)}
           prefixes == {p[Len(d) + 1] : p \in {p \in listed : Len(p) > Len(d) + 1}}
           contents == {p[Len(d) + 1] : p \in {p \in listed : Len(p) = Len(d) + 1}}
<1>1. names \in FirstPage(prefixes \cup contents)
  BY DEF ReadDirS3, WithSlash
<1>2. ASSUME NEW p \in listed PROVE Len(p) > Len(d) + 1 \/ Len(p) = Len(d) + 1
  <2>1. p \in Seq(STRING)
    BY StorageAssumption
  <2>2. Len(d) \in 0..Len(p) - 1
    BY <2>1, AboveBegins
  <2> QED
    BY <2>1, <2>2
<1>3. Entries(d) = {p[Len(d) + 1] : p \in listed}
  BY DEF Entries
<1>4. prefixes \cup contents = Entries(d)
  BY <1>2, <1>3
<1> QED
  BY <1>1, <1>4, FirstPageIsPart

LEMMA ListingGoogle ==
  ASSUME NEW d \in Dirs
  PROVE  LET below == {q \in ReadDirGoogle(d) : d \o q \in Files /\ Exists(d \o q)}
         IN  /\ {q[1] : q \in below} = Entries(d)
             /\ \A q \in ReadDirGoogle(d) \ below : StartsWith(q, d) /\ Exists(q)
<1> DEFINE below == {q \in ReadDirGoogle(d) : d \o q \in Files /\ Exists(d \o q)}
           Rest(p) == SubSeq(p, Len(d) + 1, Len(p))
<1>1. d \in Seq(STRING)
  BY DirsAreSeqs
<1>2. \A p \in Files : p \in Seq(STRING) \ {<<>>}
  BY StorageAssumption
<1>3. ASSUME NEW q \in ReadDirGoogle(d)
      PROVE  \E p \in Files : /\ Exists(p) /\ StartsWith(p, d)
                              /\ \/ Under(p, d) /\ q = Rest(p)
                                 \/ ~Under(p, d) /\ q = p
  BY <1>3 DEF ReadDirGoogle, WithSlash
<1>4. ASSUME NEW p \in Files, Under(p, d)
      PROVE  /\ Rest(p) \in Seq(STRING) \ {<<>>} /\ Rest(p)[1] = p[Len(d) + 1] /\ d \o Rest(p) = p
  BY <1>2, <1>4, AboveBegins
<1>5. ASSUME NEW p \in Files, Exists(p), Under(p, d)
      PROVE  Rest(p) \in below
  <2>1. StartsWith(p, d)
    BY <1>5, UnderStarts
  <2>2. Rest(p) \in ReadDirGoogle(d)
    BY <1>5, <2>1 DEF ReadDirGoogle, WithSlash
  <2> QED
    BY <1>4, <1>5, <2>2
<1>6. ASSUME NEW q \in below PROVE q[1] \in Entries(d)
  <2>1. q \in Seq(STRING) \ {<<>>}
    <3>1. PICK p \in Files : (Under(p, d) /\ q = Rest(p)) \/ q = p
      BY <1>3, <1>6
    <3>2. CASE Under(p, d) /\ q = Rest(p)
      BY <1>4, <3>2
    <3>3. CASE q = p
      BY <1>2, <3>3
    <3> QED
      BY <3>1, <3>2, <3>3
  <2>2. Under(d \o q, d) /\ (d \o q)[Len(d) + 1] = q[1]
    BY <1>1, <2>1, RestIsUnder
  <2> QED
    BY <1>6, <2>2 DEF Entries
<1>7. ASSUME NEW n \in Entries(d) PROVE \E q \in below : n = q[1]
  <2>1. PICK p \in Files : Exists(p) /\ Under(p, d) /\ n = p[Len(d) + 1]
    BY <1>7 DEF Entries
  <2> QED
    BY <1>4, <1>5, <2>1
<1>8. ASSUME NEW q \in ReadDirGoogle(d), q \notin below PROVE StartsWith(q, d) /\ Exists(q)
  BY <1>3, <1>5, <1>8
<1> HIDE DEF below
<1>9. {q[1] : q \in below} = Entries(d)
  BY <1>6, <1>7
<1> QED
  BY <1>8, <1>9 DEF below

\* The three storages list the same directory alike, whatever the tree: all that is in it,
\* but for what is beyond a full first page (S3), and besides only empty directories (file
\* system) or files whose path starts with the directory's (Google).
THEOREM ListingsCorrect == Spec => []ListingsAgree
<1>1. TypeOK => ListingsAgree
  <2>1. SUFFICES ASSUME TypeOK, NEW d \in Dirs \ {<<>>}
                 PROVE  CASE Local -> /\ Entries(d) \subseteq ReadDirLocal(d)
                                      /\ \A n \in ReadDirLocal(d) \ Entries(d) : Append(d, n) \in Dirs
                          [] options.backend = "s3" ->
                               \A names \in ReadDirS3(d) :
                                 /\ names \subseteq Entries(d)
                                 /\ names # Entries(d) => Cardinality(names) = PageSize
                          [] OTHER ->
                             LET below == {q \in ReadDirGoogle(d) : d \o q \in Files /\ Exists(d \o q)}
                             IN  /\ {q[1] : q \in below} = Entries(d)
                                 /\ \A q \in ReadDirGoogle(d) \ below : StartsWith(q, d) /\ Exists(q)
    BY DEF ListingsAgree
  <2>2. CASE Local
    <3>1. /\ Entries(d) \subseteq ReadDirLocal(d)
          /\ \A n \in ReadDirLocal(d) \ Entries(d) : Append(d, n) \in Dirs
      BY <2>1, <2>2, ListingLocal
    <3> QED
      BY <2>2, <3>1 DEF Local
  <2>3. CASE ~Local /\ options.backend = "s3"
    <3>1. ASSUME NEW names \in ReadDirS3(d)
          PROVE  names \subseteq Entries(d) /\ (names # Entries(d) => Cardinality(names) = PageSize)
      BY <2>1, <3>1, ListingS3
    <3> QED
      BY <2>3, <3>1
  <2>4. CASE ~Local /\ options.backend # "s3"
    BY <2>1, <2>4, ListingGoogle
  <2> QED
    BY <2>2, <2>3, <2>4
<1> QED
  BY <1>1, TypeCorrect, PTL
=============================================================================
