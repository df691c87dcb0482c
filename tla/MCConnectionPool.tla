--------------------------- MODULE MCConnectionPool ---------------------------
(***************************************************************************)
(* The connection pool for TLC, and beside it what sessions make of their  *)
(* connections: statements and results.  The two share no state, so one of *)
(* them moves while the other is as it was in the beginning.               *)
(***************************************************************************)
EXTENDS ConnectionPoolProps, ResultsProps, TLC

CONSTANTS reader, other

(* One program has all the variables, the other a session only.            *)
Owners == [h \in StatementVar \cup ResultVar |-> reader]

Symmetry == Permutations(Connection) \cup Permutations(Client)

PoolInit == Init /\ ResultsInit

PoolNext ==
  \/ ResultsInit /\ Next /\ UNCHANGED resultVars
  \/ Init /\ ResultsNext /\ UNCHANGED vars

PoolSpec == PoolInit /\ [][PoolNext]_<<vars, resultVars>>
==============================================================================
