-------------------------- MODULE MCConcurrentVector --------------------------
(***************************************************************************)
(* ConcurrentVector with enough pushes to fill the embedded table, replace *)
(* it, and wait for the replacement.                                       *)
(***************************************************************************)
EXTENDS ConcurrentVector

===============================================================================
