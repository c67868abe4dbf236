---------------------------- MODULE MCFileStorage ----------------------------
(***************************************************************************)
(* FileStorage for TLC: a tree with a nested directory, a sibling whose    *)
(* name extends another, and calls that meet on the same paths.            *)
(***************************************************************************)
EXTENDS FileStorage, TLC

MCFiles   == {<<"a", "x">>, <<"a", "b", "x">>, <<"ab", "x">>}
MCExtends == {<<"a", "ab">>}
MCStored  == {{}, {<<"a", "x">>}, MCFiles}

Calling(kind, path, to) == [kind |-> kind, path |-> path, to |-> to]

MCCalls ==
  {Calling("upload", <<"a", "b", "x">>, <<>>), Calling("upload", <<"a", "x">>, <<>>),
   Calling("move", <<"a", "x">>, <<"a", "b", "x">>), Calling("move", <<"a", "b", "x">>, <<"ab", "x">>),
   Calling("deleteFile", <<"a", "x">>, <<>>),
   Calling("deleteDir", <<"a">>, <<>>), Calling("deleteDir", <<"a", "b">>, <<>>)}

MCOptions    == [backend : {"fs", "s3", "google"}, perRequest : {FALSE}]
ObjectStores == [backend : {"s3", "google"}, perRequest : {FALSE}]
PerRequest   == [backend : {"s3"}, perRequest : {TRUE}]

Symmetry == Permutations(Callers)
=============================================================================
