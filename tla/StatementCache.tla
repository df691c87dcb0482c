---------------------------- MODULE StatementCache ----------------------------
(***************************************************************************)
(* DBStatementCache of db/backend/db_statement.cc: a map from a query to   *)
(* an entry and a list of the keys, the last one put in front.  An entry   *)
(* points to its place in the list, and a place in the list to its entry.  *)
(* Places are list nodes, which the allocator hands out and reuses.        *)
(*                                                                         *)
(* A program puts statements it is done with, and fetches by query.  Its   *)
(* calls on one cache do not overlap: a connection has one user at a time. *)
(* In this version of the code max_size is 0: SetSize leaves a cache that  *)
(* is active alone, and a cache is active from its constructor on.         *)
(***************************************************************************)
EXTENDS Integers, Sequences, FiniteSets

CONSTANTS
  Statement,
  SqlQuery,             \* the query each statement was prepared from
  Node,                 \* places in the list
  Sizes,                \* what max_size can be
  NoStatement

Query == {SqlQuery[x] : x \in Statement}

ASSUME CacheAssumption ==
  /\ Sizes \subseteq Nat
  /\ NoStatement \notin Statement

VARIABLES
  db_statements,        \* the map: a function of the queries it has
  lru,
  size, max_size,
  fetched               \* what the last Fetch returned

cacheVars == <<db_statements, lru, size, max_size, fetched>>

Entry == [db_statement : Statement, lru_ptr : Node]

Place == [node : Node, query : Query]

CacheInit ==
  /\ db_statements = <<>>
  /\ lru = <<>>
  /\ size = 0
  /\ max_size \in Sizes
  /\ fetched = NoStatement

Keys == DOMAIN db_statements

NodesOf(list) == {list[i].node : i \in 1..Len(list)}

Index(node) == CHOOSE i \in 1..Len(lru) : lru[i].node = node

Erased(i) == SubSeq(lru, 1, i - 1) \o SubSeq(lru, i + 1, Len(lru))

Without(q) == [k \in Keys \ {q} |-> db_statements[k]]

Front == SubSeq(lru, 1, Len(lru) - 1)

(* The end of Insert: x goes to the front of `list`, beside `others`.      *)
PushFront(x, list, others) ==
  \E n \in Node \ NodesOf(list) :
    LET q == SqlQuery[x] IN
    /\ lru' = <<[node |-> n, query |-> q]>> \o list
    /\ db_statements' =
         [k \in DOMAIN others \cup {q} |->
            IF k = q THEN [db_statement |-> x, lru_ptr |-> n] ELSE others[k]]

Cached == {db_statements[q].db_statement : q \in Keys}

Replace(x) ==
  /\ SqlQuery[x] \in Keys
  /\ PushFront(x, Erased(Index(db_statements[SqlQuery[x]].lru_ptr)), db_statements)
  /\ UNCHANGED size

Add(x) ==
  /\ SqlQuery[x] \notin Keys
  /\ ~(size > 0 /\ size >= max_size)
  /\ PushFront(x, lru, db_statements)
  /\ size' = size + 1

EvictX(x) ==
  /\ SqlQuery[x] \notin Keys
  /\ size > 0 /\ size >= max_size
  /\ PushFront(x, SubSeq(lru, 2, Len(lru)), Without(lru[1].query))
  /\ UNCHANGED size

Evict(x) ==
  /\ SqlQuery[x] \notin Keys
  /\ size > 0 /\ size >= max_size
  /\ PushFront(x, Front, Without(lru[Len(lru)].query))
  /\ UNCHANGED size

(* Put.  A statement that is in the cache is nobody's: none puts it again. *)
Insert(x) ==
  /\ x \notin Cached
  /\ Replace(x) \/ Add(x) \/ Evict(x)
  /\ UNCHANGED fetched

Hit(q) ==
  /\ q \in Keys
  /\ fetched' = db_statements[q].db_statement
  /\ lru' = Erased(Index(db_statements[q].lru_ptr))
  /\ db_statements' = Without(q)
  /\ size' = size - 1

Miss(q) ==
  /\ q \notin Keys
  /\ fetched' = NoStatement
  /\ UNCHANGED <<db_statements, lru, size>>

Clear ==
  /\ lru' = <<>>
  /\ db_statements' = <<>>
  /\ size' = 0
  /\ UNCHANGED fetched

CacheNext ==
  /\ \/ \E x \in Statement : Insert(x)
     \/ \E q \in Query : Hit(q) \/ Miss(q)
     \/ Clear
  /\ UNCHANGED max_size

CacheSpec == CacheInit /\ [][CacheNext]_cacheVars
==============================================================================
