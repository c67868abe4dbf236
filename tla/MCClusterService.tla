-------------------------- MODULE MCClusterService --------------------------
(***************************************************************************)
(* ClusterService for TLC: two workers with every combination of restarts, *)
(* lifetime and trapped signals, and a cluster of one.                     *)
(***************************************************************************)
EXTENDS ClusterService

MCOptions ==
  [count : {2}, restart : BOOLEAN, mortal : {FALSE}, stubborn : BOOLEAN]
    \cup [count : {0, 1}, restart : {TRUE}, mortal : {TRUE}, stubborn : {FALSE}]
=============================================================================
