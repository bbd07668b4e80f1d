---------------------------- MODULE MCMutexOnSched ----------------------------
(* Instances of MutexOnSched for TLC. *)
EXTENDS MutexOnSched
=============================================================================
