------------------------------ MODULE MCDatabase ------------------------------
(***************************************************************************)
(* The database layer for TLC: the connection manager, the statement cache *)
(* of a connection and the sessions side by side.  No state is shared, so  *)
(* one of them moves while the others are as they were in the beginning:   *)
(* every behaviour of each one is there, and none of their products.       *)
(***************************************************************************)
EXTENDS ConnectionManagerProps, StatementCacheProps, SessionProps, TLC

CONSTANTS select, update, delete, again    \* statements; `again` has select's query

SqlQueries == [x \in Statement |-> IF x = again THEN select ELSE x]

Symmetry == Permutations(Pool) \cup Permutations(User)

(* Where the cache stands still.                                           *)
CacheAtRest == CacheInit /\ max_size = 0

DatabaseInit == Init /\ CacheInit /\ SessionInit

DatabaseNext ==
  \/ /\ CacheAtRest /\ SessionInit
     /\ Next /\ UNCHANGED <<cacheVars, sessionVars>>
  \/ /\ Init /\ SessionInit
     /\ CacheNext /\ UNCHANGED <<vars, sessionVars>>
  \/ /\ Init /\ CacheAtRest
     /\ SessionNext /\ UNCHANGED <<vars, cacheVars>>

DatabaseSpec ==
  DatabaseInit /\ [][DatabaseNext]_<<vars, cacheVars, sessionVars>>
==============================================================================
