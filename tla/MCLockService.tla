---------------------------- MODULE MCLockService ----------------------------
(* A small instance of LockService: two processes that compete for one key,  *)
(* with ids of finished locks left to be unlocked again.                     *)
EXTENDS LockService

CONSTANTS one, other, key

MCServices == {one, other}
MCKeys     == {key}
=============================================================================
