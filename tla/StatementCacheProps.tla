------------------------- MODULE StatementCacheProps -------------------------
(***************************************************************************)
(* What is asked of the statement cache, as modelled in StatementCache.    *)
(***************************************************************************)
EXTENDS StatementCache

CacheTypeOK ==
  /\ Keys \subseteq Query
  /\ db_statements \in [Keys -> Entry]
  /\ lru \in Seq(Place)
  /\ size \in Nat /\ max_size \in Sizes
  /\ fetched \in Statement \cup {NoStatement}

(* Every entry points to the place in the list that points to its key, no  *)
(* place is left over, and size counts them: erasing through a stale       *)
(* iterator, or evicting a key that the map has not, cannot happen.        *)
MapMatchesList ==
  /\ size = Len(lru)
  /\ \A i, j \in 1..Len(lru) : lru[i].node = lru[j].node => i = j
  /\ \A i \in 1..Len(lru) :
       /\ lru[i].query \in Keys
       /\ db_statements[lru[i].query].lru_ptr = lru[i].node
  /\ \A q \in Keys :
       /\ SqlQuery[db_statements[q].db_statement] = q
       /\ \E i \in 1..Len(lru) : lru[i].query = q

(* The statements of the entries, in the order of the list.                *)
Contents == [i \in 1..Len(lru) |-> db_statements[lru[i].query].db_statement]

Lru == INSTANCE LruCache WITH
  contents <- Contents, answer <- fetched, limit <- max_size

(* The cache holds what was put last, one statement for a query, within    *)
(* its limit, gives each statement back once, and forgets the oldest.      *)
CacheImplementsLru == Lru!LruSpec
==============================================================================
