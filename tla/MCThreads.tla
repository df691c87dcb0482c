------------------------------ MODULE MCThreads ------------------------------
(***************************************************************************)
(* A few threads and owners for TLC.                                       *)
(***************************************************************************)
EXTENDS ThreadsProps
==============================================================================
