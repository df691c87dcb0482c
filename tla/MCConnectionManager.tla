-------------------------- MODULE MCConnectionManager --------------------------
(***************************************************************************)
(* A small connection manager for TLC.                                     *)
(***************************************************************************)
EXTENDS ConnectionManagerProps, TLC

Symmetry == Permutations(Pool) \cup Permutations(Client)
==============================================================================
