------------------------------ MODULE MCLQueue ------------------------------
(***************************************************************************)
(* Threads on one locked queue.  The names are not declared symmetric, for *)
(* the run also checks liveness.                                           *)
(***************************************************************************)
EXTENDS LQueue
=============================================================================
