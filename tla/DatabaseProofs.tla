--------------------------- MODULE DatabaseProofs ---------------------------
(***************************************************************************)
(* Proofs that the map and the list of the statement cache stay in step,   *)
(* for any statements and any limit, and that it is a least-recently-used  *)
(* cache; that the connection manager keeps one pool for each string, for  *)
(* any number of clients, strings and pools; that a transaction happens as *)
(* a whole or not at all and the pool hands on connections that are fit,   *)
(* for any number of sessions, connections and scopes; and that statements *)
(* and results keep their connection and their rows, for any number.       *)
(***************************************************************************)
EXTENDS StatementCacheProps, ConnectionManagerProps, SessionProps, ResultsProps, SequenceTheorems, TLAPS

USE CacheAssumption

(* A list and a map in step, as MapMatchesList has lru and db_statements.  *)
InStep(list, map) ==
  /\ list \in Seq(Place)
  /\ DOMAIN map \subseteq Query /\ map \in [DOMAIN map -> Entry]
  /\ \A i, j \in 1..Len(list) : list[i].node = list[j].node => i = j
  /\ \A i \in 1..Len(list) :
       /\ list[i].query \in DOMAIN map
       /\ map[list[i].query].lru_ptr = list[i].node
  /\ \A q \in DOMAIN map :
       /\ SqlQuery[map[q].db_statement] = q
       /\ \E i \in 1..Len(list) : list[i].query = q

CacheInv ==
  /\ InStep(lru, db_statements)
  /\ size = Len(lru)
  /\ max_size \in Sizes
  /\ fetched \in Statement \cup {NoStatement}

(* `list` is lru without its entry i.                                      *)
LacksEntry(list, i) ==
  /\ list \in Seq(Place)
  /\ Len(list) = Len(lru) - 1
  /\ \A j \in 1..Len(list) : list[j] = IF j < i THEN lru[j] ELSE lru[j + 1]

LEMMA ErasedLacks ==
  ASSUME lru \in Seq(Place), NEW i \in 1..Len(lru)
  PROVE  LacksEntry(Erased(i), i)
<1> DEFINE before == SubSeq(lru, 1, i - 1)
           after == SubSeq(lru, i + 1, Len(lru))
<1>1. Len(lru) \in Nat
  OBVIOUS
<1>2. /\ before \in Seq(Place) /\ Len(before) = i - 1
      /\ \A j \in 1..(i - 1) : before[j] = lru[j]
  BY <1>1
<1>3. /\ after \in Seq(Place) /\ Len(after) = Len(lru) - i
      /\ \A j \in 1..(Len(lru) - i) : after[j] = lru[i + j]
  BY <1>1
<1> HIDE DEF before, after
<1> DEFINE list == before \o after
<1>4. list \in Seq(Place) /\ Len(list) = Len(lru) - 1
  <2>1. list \in Seq(Place) /\ Len(list) = Len(before) + Len(after)
    BY <1>2, <1>3, ConcatProperties
  <2> QED BY <2>1, <1>1, <1>2, <1>3
<1>5. \A j \in 1..Len(list) : list[j] = IF j < i THEN lru[j] ELSE lru[j + 1]
  <2> TAKE j \in 1..Len(list)
  <2>1. CASE j < i
    <3>1. list[j] = before[j]
      BY <2>1, <1>1, <1>2, <1>3, <1>4
    <3> QED BY <3>1, <2>1, <1>1, <1>2, <1>4
  <2>2. CASE ~(j < i)
    <3>1. list[j] = after[j - (i - 1)] /\ j - (i - 1) \in 1..(Len(lru) - i)
      BY <2>2, <1>1, <1>2, <1>3, <1>4
    <3>2. after[j - (i - 1)] = lru[i + (j - (i - 1))] /\ i + (j - (i - 1)) = j + 1
      BY <3>1, <1>1, <1>3, <1>4
    <3> QED BY <3>1, <3>2, <2>2
  <2> QED BY <2>1, <2>2
<1> QED BY <1>4, <1>5 DEF LacksEntry, Erased, before, after

LEMMA FrontLacks ==
  ASSUME lru \in Seq(Place), lru # <<>>
  PROVE  LacksEntry(Front, Len(lru))
<1>1. Len(lru) \in Nat \ {0}
  OBVIOUS
<1>2. /\ Front \in Seq(Place) /\ Len(Front) = Len(lru) - 1
      /\ \A j \in 1..(Len(lru) - 1) : Front[j] = lru[j]
  BY <1>1 DEF Front
<1> QED BY <1>1, <1>2 DEF LacksEntry

(* An entry found through the iterator of a key is the entry of that key.  *)
LEMMA IndexOfKey ==
  ASSUME CacheInv, NEW q \in Keys
  PROVE  /\ Index(db_statements[q].lru_ptr) \in 1..Len(lru)
         /\ lru[Index(db_statements[q].lru_ptr)].query = q
<1>1. PICK i \in 1..Len(lru) : lru[i].query = q
  BY DEF CacheInv, InStep, Keys
<1>2. lru[i].node = db_statements[q].lru_ptr
  BY <1>1 DEF CacheInv, InStep
<1>3. \A j \in 1..Len(lru) : lru[j].node = lru[i].node => j = i
  BY DEF CacheInv, InStep
<1>4. Index(db_statements[q].lru_ptr) = i
  BY <1>2, <1>3 DEF Index
<1> QED BY <1>1, <1>4

LEMMA RemovalInStep ==
  ASSUME CacheInv, NEW i \in 1..Len(lru), NEW list, LacksEntry(list, i)
  PROVE  InStep(list, Without(lru[i].query))
<1> DEFINE q == lru[i].query
           map == Without(q)
<1>1. lru \in Seq(Place) /\ Len(lru) \in Nat /\ Len(list) \in Nat
  BY DEF CacheInv, InStep, LacksEntry
<1>2. DOMAIN map = Keys \ {q} /\ \A k \in Keys \ {q} : map[k] = db_statements[k]
  BY DEF Without
<1>3. DOMAIN map \subseteq Query /\ map \in [DOMAIN map -> Entry]
  BY <1>2 DEF CacheInv, InStep, Keys, Without
<1>4. \A j \in 1..Len(lru) : lru[j].query = q => j = i
  BY DEF CacheInv, InStep
<1>5. \A j \in 1..Len(list) : \E n \in 1..Len(lru) :
        n # i /\ list[j] = lru[n] /\ n = IF j < i THEN j ELSE j + 1
  BY <1>1 DEF LacksEntry
<1>6. \A n \in 1..Len(lru) : n # i => \E j \in 1..Len(list) : list[j] = lru[n]
  <2> TAKE n \in 1..Len(lru)
  <2> HAVE n # i
  <2>1. CASE n < i
    <3>1. n \in 1..Len(list) /\ list[n] = lru[n]
      BY <2>1, <1>1 DEF LacksEntry
    <3> QED BY <3>1
  <2>2. CASE n > i
    <3>1. n - 1 \in 1..Len(list) /\ list[n - 1] = lru[n - 1 + 1]
      BY <2>2, <1>1 DEF LacksEntry
    <3> QED BY <3>1, <1>1
  <2> QED BY <2>1, <2>2, <1>1
<1>7. \A j, m \in 1..Len(list) : list[j].node = list[m].node => j = m
  <2> TAKE j, m \in 1..Len(list)
  <2> HAVE list[j].node = list[m].node
  <2>1. PICK a \in 1..Len(lru) : list[j] = lru[a] /\ a = IF j < i THEN j ELSE j + 1
    BY <1>5
  <2>2. PICK b \in 1..Len(lru) : list[m] = lru[b] /\ b = IF m < i THEN m ELSE m + 1
    BY <1>5
  <2>3. a = b
    <3>1. lru[a].node = lru[b].node BY <2>1, <2>2
    <3> QED BY <3>1 DEF CacheInv, InStep
  <2> QED BY <2>1, <2>2, <2>3, <1>1
<1>8. \A j \in 1..Len(list) :
        list[j].query \in DOMAIN map /\ map[list[j].query].lru_ptr = list[j].node
  BY <1>2, <1>4, <1>5 DEF CacheInv, InStep, Keys
<1>9. \A k \in DOMAIN map :
        SqlQuery[map[k].db_statement] = k /\ \E j \in 1..Len(list) : list[j].query = k
  <2> TAKE k \in DOMAIN map
  <2>1. k \in Keys /\ k # q /\ map[k] = db_statements[k]
    BY <1>2
  <2>2. SqlQuery[db_statements[k].db_statement] = k
    BY <2>1 DEF CacheInv, InStep, Keys
  <2>3. PICK n \in 1..Len(lru) : lru[n].query = k
    BY <2>1 DEF CacheInv, InStep, Keys
  <2>4. \E j \in 1..Len(list) : list[j] = lru[n]
    BY <2>1, <2>3, <1>6
  <2> QED BY <2>1, <2>2, <2>3, <2>4
<1> QED BY <1>3, <1>7, <1>8, <1>9 DEF InStep, LacksEntry

(* What is put in front is in step if what it is put before was, without   *)
(* the key it replaces.                                                    *)
LEMMA PushInStep ==
  ASSUME NEW x \in Statement, NEW list, NEW others,
         DOMAIN others \subseteq Query, others \in [DOMAIN others -> Entry],
         InStep(list, [k \in DOMAIN others \ {SqlQuery[x]} |-> others[k]]),
         PushFront(x, list, others)
  PROVE  InStep(lru', db_statements') /\ Len(lru') = Len(list) + 1
<1> DEFINE q == SqlQuery[x]
           rest == [k \in DOMAIN others \ {q} |-> others[k]]
<1>1. PICK n \in Node \ NodesOf(list) :
        /\ lru' = <<[node |-> n, query |-> q]>> \o list
        /\ db_statements' =
             [k \in DOMAIN others \cup {q} |->
                IF k = q THEN [db_statement |-> x, lru_ptr |-> n] ELSE others[k]]
  BY DEF PushFront
<1>2. list \in Seq(Place) /\ Len(list) \in Nat
  BY DEF InStep
<1>3. q \in Query
  BY DEF Query
<1>4. /\ lru' \in Seq(Place) /\ Len(lru') = Len(list) + 1
      /\ lru'[1] = [node |-> n, query |-> q]
      /\ \A i \in 2..Len(lru') : lru'[i] = list[i - 1] /\ i - 1 \in 1..Len(list)
  BY <1>1, <1>2, <1>3 DEF Place
<1>5. /\ DOMAIN db_statements' = DOMAIN others \cup {q}
      /\ db_statements'[q] = [db_statement |-> x, lru_ptr |-> n]
      /\ \A k \in DOMAIN rest : db_statements'[k] = rest[k] /\ k # q
  BY <1>1
<1>6. DOMAIN db_statements' \subseteq Query
      /\ db_statements' \in [DOMAIN db_statements' -> Entry]
  BY <1>1, <1>3 DEF Entry
<1>7. \A i \in 1..Len(list) : list[i].node # n
  BY DEF NodesOf
<1>8. \A i, j \in 1..Len(lru') : lru'[i].node = lru'[j].node => i = j
  <2> TAKE i, j \in 1..Len(lru')
  <2> HAVE lru'[i].node = lru'[j].node
  <2>1. CASE i = 1 /\ j = 1
    BY <2>1
  <2>2. CASE i = 1 /\ j # 1
    <3>1. j \in 2..Len(lru') BY <2>2, <1>2, <1>4
    <3> QED BY <2>2, <3>1, <1>4, <1>7
  <2>3. CASE i # 1 /\ j = 1
    <3>1. i \in 2..Len(lru') BY <2>3, <1>2, <1>4
    <3> QED BY <2>3, <3>1, <1>4, <1>7
  <2>4. CASE i # 1 /\ j # 1
    <3>1. i \in 2..Len(lru') /\ j \in 2..Len(lru') BY <2>4, <1>2, <1>4
    <3>2. i - 1 = j - 1
      BY <3>1, <1>4 DEF InStep
    <3> QED BY <3>1, <3>2, <1>2, <1>4
  <2> QED BY <2>1, <2>2, <2>3, <2>4
<1>9. \A i \in 1..Len(lru') :
        /\ lru'[i].query \in DOMAIN db_statements'
        /\ db_statements'[lru'[i].query].lru_ptr = lru'[i].node
  <2> TAKE i \in 1..Len(lru')
  <2>1. CASE i = 1
    BY <2>1, <1>4, <1>5
  <2>2. CASE i # 1
    <3>1. i \in 2..Len(lru') BY <2>2, <1>2, <1>4
    <3>2. lru'[i] = list[i - 1] /\ i - 1 \in 1..Len(list)
      BY <3>1, <1>4
    <3>3. lru'[i].query \in DOMAIN rest /\ rest[lru'[i].query].lru_ptr = lru'[i].node
      <4> DEFINE m == i - 1
      <4>1. list[m].query \in DOMAIN rest /\ rest[list[m].query].lru_ptr = list[m].node
        BY <3>2 DEF InStep
      <4> QED BY <4>1, <3>2
    <3> QED BY <3>3, <1>5
  <2> QED BY <2>1, <2>2
<1>10. \A k \in DOMAIN db_statements' :
         /\ SqlQuery[db_statements'[k].db_statement] = k
         /\ \E i \in 1..Len(lru') : lru'[i].query = k
  <2> TAKE k \in DOMAIN db_statements'
  <2>1. CASE k = q
    BY <2>1, <1>2, <1>4, <1>5
  <2>2. CASE k # q
    <3>1. k \in DOMAIN rest
      BY <2>2, <1>5
    <3>2. PICK j \in 1..Len(list) : list[j].query = k
      BY <3>1 DEF InStep
    <3>3. j + 1 \in 2..Len(lru') /\ lru'[j + 1].query = k
      BY <3>2, <1>2, <1>4
    <3>4. SqlQuery[db_statements'[k].db_statement] = k
      BY <3>1, <1>5 DEF InStep
    <3> QED BY <3>3, <3>4
  <2> QED BY <2>1, <2>2
<1> QED BY <1>4, <1>6, <1>8, <1>9, <1>10 DEF InStep

LEMMA CacheInitInv == CacheInit => CacheInv
BY DEF CacheInit, CacheInv, InStep, Entry

LEMMA InsertKeeps ==
  ASSUME CacheInv, NEW x \in Statement, Insert(x), UNCHANGED max_size PROVE CacheInv'
<1> DEFINE q == SqlQuery[x]
<1>1. lru \in Seq(Place) /\ DOMAIN db_statements \subseteq Query
      /\ db_statements \in [DOMAIN db_statements -> Entry]
      /\ size = Len(lru) /\ Len(lru) \in Nat
  BY DEF CacheInv, InStep
<1>2. InStep(lru', db_statements') /\ size' = Len(lru')
  <2>1. CASE Replace(x)
    <3> DEFINE i == Index(db_statements[q].lru_ptr)
    <3>1. i \in 1..Len(lru) /\ lru[i].query = q
      BY <2>1, IndexOfKey DEF Replace
    <3>2. InStep(Erased(i), Without(q)) /\ Len(Erased(i)) = Len(lru) - 1
      <4> HIDE DEF i
      <4>1. LacksEntry(Erased(i), i) BY <3>1, <1>1, ErasedLacks
      <4> QED BY <4>1, <3>1, RemovalInStep DEF LacksEntry
    <3>3. InStep(Erased(i), [k \in DOMAIN db_statements \ {q} |-> db_statements[k]])
      BY <3>2 DEF Without, Keys
    <3>4. PushFront(x, Erased(i), db_statements) /\ size' = size
      BY <2>1 DEF Replace
    <3> HIDE DEF i
    <3>5. InStep(lru', db_statements') /\ Len(lru') = Len(Erased(i)) + 1
      BY <3>3, <3>4, <1>1, PushInStep
    <3> QED BY <3>2, <3>4, <3>5, <1>1
  <2>2. CASE Add(x)
    <3>1. [k \in DOMAIN db_statements \ {q} |-> db_statements[k]] = db_statements
      BY <2>2, <1>1 DEF Add, Keys
    <3>2. PushFront(x, lru, db_statements) /\ size' = size + 1
      BY <2>2 DEF Add
    <3>3. InStep(lru, [k \in DOMAIN db_statements \ {q} |-> db_statements[k]])
      BY <3>1 DEF CacheInv
    <3>4. InStep(lru', db_statements') /\ Len(lru') = Len(lru) + 1
      BY <3>2, <3>3, <1>1, PushInStep
    <3> QED BY <3>2, <3>4, <1>1
  <2>3. CASE Evict(x)
    <3>1. lru # <<>> /\ Len(lru) \in 1..Len(lru)
      BY <2>3, <1>1 DEF Evict
    <3> DEFINE rest == Without(lru[Len(lru)].query)
    <3>2. InStep(Front, rest) /\ Len(Front) = Len(lru) - 1
      BY <3>1, <1>1, FrontLacks, RemovalInStep DEF LacksEntry
    <3>3. [k \in DOMAIN rest \ {q} |-> rest[k]] = rest
      BY <2>3 DEF Evict, Without
    <3>4. DOMAIN rest \subseteq Query /\ rest \in [DOMAIN rest -> Entry]
      BY <3>2 DEF InStep
    <3> HIDE DEF rest
    <3>5. PushFront(x, Front, rest) /\ size' = size
      BY <2>3 DEF Evict, rest
    <3>6. InStep(Front, [k \in DOMAIN rest \ {q} |-> rest[k]])
      BY <3>2, <3>3
    <3>7. InStep(lru', db_statements') /\ Len(lru') = Len(Front) + 1
      BY <3>4, <3>5, <3>6, PushInStep
    <3> QED BY <3>2, <3>5, <3>7, <1>1
  <2> QED BY <2>1, <2>2, <2>3 DEF Insert
<1> QED BY <1>2 DEF CacheInv, Insert

LEMMA HitKeeps ==
  ASSUME CacheInv, NEW q \in Query, Hit(q), UNCHANGED max_size PROVE CacheInv'
<1> DEFINE i == Index(db_statements[q].lru_ptr)
<1>1. i \in 1..Len(lru) /\ lru[i].query = q
  BY IndexOfKey DEF Hit
<1>2. InStep(Erased(i), Without(q)) /\ Len(Erased(i)) = Len(lru) - 1
  <2> HIDE DEF i
  <2>1. LacksEntry(Erased(i), i)
    BY <1>1, ErasedLacks DEF CacheInv, InStep
  <2> QED BY <2>1, <1>1, RemovalInStep DEF LacksEntry
<1>3. fetched' \in Statement
  BY DEF Hit, Keys, CacheInv, InStep, Entry
<1> QED BY <1>2, <1>3 DEF Hit, CacheInv

LEMMA CacheStepInv == CacheInv /\ [CacheNext]_cacheVars => CacheInv'
<1> SUFFICES ASSUME CacheInv, [CacheNext]_cacheVars PROVE CacheInv'
  OBVIOUS
<1>1. ASSUME NEW x \in Statement, Insert(x), UNCHANGED max_size PROVE CacheInv'
  BY <1>1, InsertKeeps
<1>2. ASSUME NEW q \in Query, Hit(q), UNCHANGED max_size PROVE CacheInv'
  BY <1>2, HitKeeps
<1>3. ASSUME NEW q \in Query, Miss(q), UNCHANGED max_size PROVE CacheInv'
  BY <1>3 DEF Miss, CacheInv, InStep
<1>4. CASE Clear /\ UNCHANGED max_size
  BY <1>4 DEF Clear, CacheInv, InStep, Entry
<1>5. CASE UNCHANGED cacheVars
  BY <1>5 DEF cacheVars, CacheInv, InStep
<1> QED BY <1>1, <1>2, <1>3, <1>4, <1>5 DEF CacheNext

LEMMA CacheInvAlways == CacheSpec => []CacheInv
BY CacheInitInv, CacheStepInv, PTL DEF CacheSpec

(* Whatever is put, fetched and cleared: each entry of the map has its one *)
(* place in the list, each place its entry, and size_ counts them, so no   *)
(* erase goes through a stale iterator and no eviction misses its key.     *)
THEOREM CacheStaysInStep == CacheSpec => [](CacheTypeOK /\ MapMatchesList)
<1>1. CacheInv => CacheTypeOK /\ MapMatchesList
  BY DEF CacheInv, InStep, CacheTypeOK, MapMatchesList, Keys
<1> QED BY <1>1, CacheInvAlways, PTL

------------------------------------------------------------------------------
(* The refinement of LruCache.                                             *)

ContentsOf(list, map) == [i \in 1..Len(list) |-> map[list[i].query].db_statement]

LEMMA ContentsInOrder ==
  ASSUME NEW list, NEW map, InStep(list, map)
  PROVE  /\ ContentsOf(list, map) \in Seq(Statement)
         /\ Len(ContentsOf(list, map)) = Len(list)
         /\ \A i \in 1..Len(list) : SqlQuery[ContentsOf(list, map)[i]] = list[i].query
<1>1. Len(list) \in Nat
  BY DEF InStep
<1>2. \A i \in 1..Len(list) :
        map[list[i].query] \in Entry
        /\ SqlQuery[map[list[i].query].db_statement] = list[i].query
  BY DEF InStep
<1> QED BY <1>1, <1>2 DEF ContentsOf, Entry

(* What is left of the contents when an entry has gone.                    *)
LEMMA RemovedContents ==
  ASSUME CacheInv, NEW i \in 1..Len(lru), NEW list, LacksEntry(list, i)
  PROVE  LET c == ContentsOf(list, Without(lru[i].query)) IN
         /\ c \in Seq(Statement) /\ Len(c) = Len(lru) - 1
         /\ \A j \in 1..(Len(lru) - 1) : c[j] = IF j < i THEN Contents[j] ELSE Contents[j + 1]
<1> DEFINE q == lru[i].query
           c == ContentsOf(list, Without(q))
<1>1. InStep(list, Without(q)) /\ Len(list) = Len(lru) - 1 /\ Len(lru) \in Nat
  <2>1. InStep(list, Without(q)) BY RemovalInStep
  <2> QED BY <2>1 DEF LacksEntry, CacheInv, InStep
<1>2. c \in Seq(Statement) /\ Len(c) = Len(lru) - 1
  BY <1>1, ContentsInOrder
<1>3. ASSUME NEW j \in 1..(Len(lru) - 1)
      PROVE  c[j] = IF j < i THEN Contents[j] ELSE Contents[j + 1]
  <2> DEFINE n == IF j < i THEN j ELSE j + 1
  <2>1. list[j] = lru[n] /\ n \in 1..Len(lru)
    BY <1>1 DEF LacksEntry
  <2>2. list[j].query \in DOMAIN Without(q)
    BY <1>1 DEF InStep
  <2>3. c[j] = Without(q)[list[j].query].db_statement
    BY <1>1 DEF ContentsOf
  <2>4. c[j] = db_statements[lru[n].query].db_statement
    BY <2>1, <2>2, <2>3 DEF Without
  <2>5. c[j] = Contents[n]
    BY <2>1, <2>4 DEF Contents
  <2> QED BY <2>5
<1> QED BY <1>2, <1>3

LEMMA PushedContents ==
  ASSUME NEW x \in Statement, NEW list, NEW others, NEW rest,
         DOMAIN rest = DOMAIN others \ {SqlQuery[x]},
         \A k \in DOMAIN rest : rest[k] = others[k],
         InStep(list, rest),
         PushFront(x, list, others)
  PROVE  Contents' = <<x>> \o ContentsOf(list, rest)
<1> DEFINE q == SqlQuery[x]
           c == ContentsOf(list, rest)
<1>1. PICK n \in Node \ NodesOf(list) :
        /\ lru' = <<[node |-> n, query |-> q]>> \o list
        /\ db_statements' =
             [k \in DOMAIN others \cup {q} |->
                IF k = q THEN [db_statement |-> x, lru_ptr |-> n] ELSE others[k]]
  BY DEF PushFront
<1>2. list \in Seq(Place) /\ Len(list) \in Nat
  BY DEF InStep
<1>3. c \in Seq(Statement) /\ Len(c) = Len(list)
  BY ContentsInOrder
<1>4. /\ Len(lru') = Len(list) + 1
      /\ lru'[1] = [node |-> n, query |-> q]
      /\ \A i \in 2..Len(lru') : lru'[i] = list[i - 1] /\ i - 1 \in 1..Len(list)
  BY <1>1, <1>2
<1>5. Contents' = [i \in 1..(Len(list) + 1) |-> db_statements'[lru'[i].query].db_statement]
  BY <1>4 DEF Contents
<1> DEFINE d == <<x>> \o c
<1>6. /\ d = [i \in 1..(Len(list) + 1) |-> d[i]] /\ d[1] = x
      /\ \A i \in 2..(Len(list) + 1) : d[i] = c[i - 1]
  <2> HIDE DEF c
  <2>1. <<x>> \in Seq(Statement) /\ Len(<<x>>) = 1 /\ <<x>>[1] = x
    OBVIOUS
  <2>2. /\ d \in Seq(Statement) /\ Len(d) = Len(<<x>>) + Len(c)
        /\ \A i \in 1..(Len(<<x>>) + Len(c)) :
             d[i] = IF i <= Len(<<x>>) THEN <<x>>[i] ELSE c[i - Len(<<x>>)]
    BY <2>1, <1>3, ConcatProperties
  <2> HIDE DEF d
  <2> QED BY <2>1, <2>2, <1>2, <1>3
<1>7. \A i \in 1..(Len(list) + 1) : db_statements'[lru'[i].query].db_statement = d[i]
  <2> TAKE i \in 1..(Len(list) + 1)
  <2>1. CASE i = 1
    BY <2>1, <1>1, <1>4, <1>6
  <2>2. CASE i # 1
    <3> DEFINE m == i - 1
    <3>1. lru'[i] = list[m] /\ m \in 1..Len(list) /\ d[i] = c[m]
      BY <2>2, <1>2, <1>4, <1>6
    <3> HIDE DEF m
    <3>2. list[m].query \in DOMAIN rest
      BY <3>1 DEF InStep
    <3>3. c[m] = rest[list[m].query].db_statement
      BY <3>1 DEF ContentsOf
    <3> QED BY <3>1, <3>2, <3>3, <1>1
  <2> QED BY <2>1, <2>2
<1> QED BY <1>5, <1>6, <1>7

(* The cache has room for what it holds.                                   *)
WithinLimit == Len(lru) <= IF max_size > 1 THEN max_size ELSE 1

(* Which places of the contents hold a query.                              *)
LEMMA PlaceOfQuery ==
  ASSUME CacheInv
  PROVE  /\ \A i \in 1..Len(lru) : Lru!PlacesOf(Contents, lru[i].query) = {i}
         /\ \A q \in Query \ Keys : Lru!PlacesOf(Contents, q) = {}
<1>1. Contents = ContentsOf(lru, db_statements) /\ InStep(lru, db_statements)
  BY DEF Contents, ContentsOf, CacheInv
<1>2. Len(Contents) = Len(lru)
      /\ \A i \in 1..Len(lru) : SqlQuery[Contents[i]] = lru[i].query
  BY <1>1, ContentsInOrder
<1>3. \A i, j \in 1..Len(lru) : lru[i].query = lru[j].query => i = j
  BY DEF CacheInv, InStep
<1>4. \A i \in 1..Len(lru) : lru[i].query \in Keys
  BY DEF CacheInv, InStep, Keys
<1> QED BY <1>2, <1>3, <1>4 DEF Lru!PlacesOf

(* Erasing a key's entry leaves the other contents.                        *)
LEMMA ErasedContents ==
  ASSUME CacheInv, NEW i \in 1..Len(lru)
  PROVE  ContentsOf(Erased(i), Without(lru[i].query)) = Lru!Others(Contents, lru[i].query)
         /\ Len(Lru!Others(Contents, lru[i].query)) = Len(lru) - 1
<1> DEFINE q == lru[i].query
           c == ContentsOf(Erased(i), Without(q))
           before == SubSeq(Contents, 1, i - 1)
           after == SubSeq(Contents, i + 1, Len(Contents))
<1>1. lru \in Seq(Place) /\ Len(lru) \in Nat
  BY DEF CacheInv, InStep
<1>2. Contents \in Seq(Statement) /\ Len(Contents) = Len(lru)
  BY ContentsInOrder DEF Contents, ContentsOf, CacheInv
<1>3. /\ c \in Seq(Statement) /\ Len(c) = Len(lru) - 1
      /\ \A j \in 1..(Len(lru) - 1) : c[j] = IF j < i THEN Contents[j] ELSE Contents[j + 1]
  BY <1>1, ErasedLacks, RemovedContents
<1>4. Lru!Others(Contents, q) = before \o after
  BY PlaceOfQuery DEF Lru!Others
<1>5. /\ before \in Seq(Statement) /\ Len(before) = i - 1
      /\ \A j \in 1..(i - 1) : before[j] = Contents[j]
  BY <1>1, <1>2
<1>6. /\ after \in Seq(Statement) /\ Len(after) = Len(lru) - i
      /\ \A j \in 1..(Len(lru) - i) : after[j] = Contents[i + j]
  BY <1>1, <1>2
<1> HIDE DEF before, after, c
<1>7. before \o after \in Seq(Statement) /\ Len(before \o after) = Len(lru) - 1
      /\ \A j \in 1..(Len(lru) - 1) :
           (before \o after)[j] = IF j <= i - 1 THEN before[j] ELSE after[j - (i - 1)]
  <2>1. Len(before) + Len(after) = Len(lru) - 1
    BY <1>1, <1>5, <1>6
  <2>2. /\ before \o after \in Seq(Statement)
        /\ Len(before \o after) = Len(before) + Len(after)
        /\ \A j \in 1..(Len(before) + Len(after)) :
             (before \o after)[j] = IF j <= Len(before) THEN before[j]
                                   ELSE after[j - Len(before)]
    BY <1>5, <1>6, ConcatProperties
  <2> QED BY <2>1, <2>2, <1>5
<1>8. \A j \in 1..(Len(lru) - 1) : (before \o after)[j] = c[j]
  <2> TAKE j \in 1..(Len(lru) - 1)
  <2>1. CASE j < i
    BY <2>1, <1>1, <1>3, <1>5, <1>7
  <2>2. CASE ~(j < i)
    <3> DEFINE m == j - (i - 1)
    <3>1. m \in 1..(Len(lru) - i) /\ i + m = j + 1 /\ ~(j <= i - 1)
      BY <2>2, <1>1
    <3>2. (before \o after)[j] = after[m]
      BY <3>1, <1>7
    <3> HIDE DEF m
    <3> QED BY <3>1, <3>2, <2>2, <1>3, <1>6
  <2> QED BY <2>1, <2>2
<1>9. c = before \o after
  BY <1>3, <1>7, <1>8, SeqEqual
<1> QED BY <1>4, <1>7, <1>9 DEF c

(* A step of the cache is a step of the abstract one.                      *)
LEMMA InsertStores ==
  ASSUME CacheInv, WithinLimit, NEW x \in Statement, Insert(x), UNCHANGED max_size
  PROVE  WithinLimit' /\ Lru!Store(x)
<1> DEFINE q == SqlQuery[x]
           c == Contents
           room == IF max_size > 1 THEN max_size - 1 ELSE 0
           rest == Lru!Others(c, q)
<1>1. /\ lru \in Seq(Place) /\ Len(lru) \in Nat /\ size = Len(lru) /\ max_size \in Nat
      /\ InStep(lru, db_statements) /\ q \in Query
      /\ db_statements \in [DOMAIN db_statements -> Entry]
  BY DEF CacheInv, InStep, Query
<1>2. c \in Seq(Statement) /\ Len(c) = Len(lru)
  BY <1>1, ContentsInOrder DEF Contents, ContentsOf
<1>3. \E kept \in Seq(Statement) :
        /\ Contents' = <<x>> \o kept
        /\ kept = SubSeq(rest, 1, IF Len(rest) > room THEN room ELSE Len(rest))
        /\ Len(kept) <= room
  <2>1. CASE Replace(x)
    <3> DEFINE i == Index(db_statements[q].lru_ptr)
    <3>1. i \in 1..Len(lru) /\ lru[i].query = q
      BY <2>1, IndexOfKey DEF Replace
    <3>2. PushFront(x, Erased(i), db_statements)
      BY <2>1 DEF Replace
    <3> HIDE DEF i
    <3>3. InStep(Erased(i), Without(q))
      BY <3>1, <1>1, ErasedLacks, RemovalInStep
    <3>4. ContentsOf(Erased(i), Without(q)) = rest /\ Len(rest) = Len(lru) - 1
      BY <3>1, ErasedContents
    <3>5. Contents' = <<x>> \o rest
      BY <3>2, <3>3, <3>4, PushedContents DEF Without, Keys
    <3>6. rest \in Seq(Statement)
      BY <3>3, <3>4, ContentsInOrder
    <3>7. Len(rest) <= room
      BY <3>4, <1>1 DEF WithinLimit
    <3>8. rest = SubSeq(rest, 1, IF Len(rest) > room THEN room ELSE Len(rest))
      <4> HIDE DEF rest
      <4> QED BY <3>6, <3>7, <1>1
    <3> HIDE DEF rest, room, c
    <3> QED BY <3>5, <3>6, <3>7, <3>8
  <2>2. CASE Add(x)
    <3>1. rest = c
      BY <2>2, <1>1, PlaceOfQuery DEF Add, Lru!Others
    <3>2. DOMAIN db_statements = DOMAIN db_statements \ {q}
      BY <2>2 DEF Add, Keys
    <3>3. PushFront(x, lru, db_statements)
      BY <2>2 DEF Add
    <3>4. Contents' = <<x>> \o ContentsOf(lru, db_statements)
      BY <3>2, <3>3, <1>1, PushedContents
    <3>5. Contents' = <<x>> \o c
      BY <3>4 DEF ContentsOf, Contents
    <3>6. Len(c) <= room
      BY <2>2, <1>1, <1>2 DEF Add, WithinLimit
    <3>7. c = SubSeq(c, 1, IF Len(c) > room THEN room ELSE Len(c))
      <4> HIDE DEF c
      <4> QED BY <3>6, <1>1, <1>2
    <3> HIDE DEF rest, room, c
    <3> QED BY <3>1, <3>5, <3>6, <3>7, <1>2
  <2>3. CASE Evict(x)
    <3> DEFINE n == Len(lru)
               last == lru[n].query
    <3>1. lru # <<>> /\ n \in 1..n /\ n - 1 = room
      BY <2>3, <1>1 DEF Evict, WithinLimit
    <3>2. LacksEntry(Front, n)
      BY <3>1, <1>1, FrontLacks
    <3>3. InStep(Front, Without(last))
      BY <3>1, <3>2, RemovalInStep
    <3> DEFINE d == ContentsOf(Front, Without(last))
    <3>4. /\ d \in Seq(Statement) /\ Len(d) = n - 1
          /\ \A j \in 1..(n - 1) : d[j] = IF j < n THEN c[j] ELSE c[j + 1]
      BY <3>1, <3>2, RemovedContents
    <3>5. rest = c
      BY <2>3, <1>1, PlaceOfQuery DEF Evict, Lru!Others
    <3>6. PushFront(x, Front, Without(last)) /\ q \notin Keys
      BY <2>3 DEF Evict
    <3>7. Contents' = <<x>> \o d
      <4> DEFINE w == Without(last)
      <4>1. InStep(Front, w) /\ PushFront(x, Front, w)
            /\ DOMAIN w = DOMAIN w \ {q}
        BY <3>3, <3>6 DEF Without
      <4> HIDE DEF w
      <4>2. Contents' = <<x>> \o ContentsOf(Front, w)
        BY <4>1, PushedContents
      <4> QED BY <4>2 DEF w
    <3> HIDE DEF d
    <3>8. SubSeq(c, 1, room) \in Seq(Statement) /\ Len(SubSeq(c, 1, room)) = room
          /\ \A j \in 1..room : SubSeq(c, 1, room)[j] = c[j]
      BY <3>1, <1>1, <1>2
    <3>9. d = SubSeq(c, 1, room)
      <4>1. \A j \in 1..room : d[j] = SubSeq(c, 1, room)[j]
        BY <3>1, <3>4, <3>8, <1>1
      <4> QED BY <4>1, <3>1, <3>4, <3>8, SeqEqual
    <3>10. Len(c) > room /\ Len(d) <= room
      <4> HIDE DEF c
      <4> QED BY <3>1, <3>4, <1>1, <1>2
    <3> HIDE DEF rest, room, c
    <3> QED BY <3>4, <3>5, <3>7, <3>9, <3>10
  <2> QED BY <2>1, <2>2, <2>3 DEF Insert
<1> PICK kept \in Seq(Statement) :
        /\ Contents' = <<x>> \o kept
        /\ kept = SubSeq(rest, 1, IF Len(rest) > room THEN room ELSE Len(rest))
        /\ Len(kept) <= room
  BY <1>3
<1>4. CacheInv'
  BY InsertKeeps
<1>5. Len(Contents') = Len(lru')
  BY <1>4, ContentsInOrder DEF Contents, ContentsOf, CacheInv
<1>6. Len(Contents') = Len(kept) + 1
  <2>1. <<x>> \in Seq(Statement) /\ Len(<<x>>) = 1
    OBVIOUS
  <2> QED BY <2>1, ConcatProperties
<1>7. WithinLimit'
  BY <1>1, <1>5, <1>6 DEF WithinLimit
<1>8. Lru!Store(x)
  BY DEF Lru!Store, Insert
<1> QED BY <1>7, <1>8

LEMMA HitTakes ==
  ASSUME CacheInv, WithinLimit, NEW q \in Query, Hit(q), UNCHANGED max_size
  PROVE  WithinLimit' /\ Lru!Take(q)
<1> DEFINE i == Index(db_statements[q].lru_ptr)
<1>1. i \in 1..Len(lru) /\ lru[i].query = q
  BY IndexOfKey DEF Hit
<1>2. lru' = Erased(i) /\ db_statements' = Without(q)
      /\ fetched' = db_statements[q].db_statement
  BY DEF Hit
<1> HIDE DEF i
<1>3. /\ ContentsOf(Erased(i), Without(q)) = Lru!Others(Contents, q)
      /\ Len(Lru!Others(Contents, q)) = Len(lru) - 1
  BY <1>1, ErasedContents
<1>4. Contents' = Lru!Others(Contents, q)
  BY <1>2, <1>3 DEF Contents, ContentsOf
<1>5. Contents = ContentsOf(lru, db_statements) /\ InStep(lru, db_statements)
  BY DEF Contents, ContentsOf, CacheInv
<1>6. Len(Contents) = Len(lru) /\ SqlQuery[Contents[i]] = q
  BY <1>1, <1>5, ContentsInOrder
<1>7. fetched' = Contents[i]
  BY <1>1, <1>2 DEF Contents
<1>8. Len(lru') = Len(lru) - 1 /\ Len(lru) \in Nat /\ max_size \in Nat
  BY <1>1, <1>2, ErasedLacks DEF LacksEntry, CacheInv, InStep
<1>9. WithinLimit'
  BY <1>8 DEF WithinLimit
<1> QED BY <1>1, <1>4, <1>6, <1>7, <1>9 DEF Lru!Take

LEMMA MissTakes ==
  ASSUME CacheInv, WithinLimit, NEW q \in Query, Miss(q), UNCHANGED max_size
  PROVE  WithinLimit' /\ Lru!Take(q)
<1>1. Contents' = Contents /\ WithinLimit'
  BY DEF Miss, Contents, WithinLimit
<1>2. Lru!Others(Contents, q) = Contents
  BY PlaceOfQuery DEF Miss, Lru!Others
<1> QED BY <1>1, <1>2 DEF Miss, Lru!Take

LEMMA CacheStepRefines ==
  CacheInv /\ WithinLimit /\ [CacheNext]_cacheVars
    => WithinLimit' /\ [Lru!LruNext]_<<Contents, fetched, max_size>>
<1> SUFFICES ASSUME CacheInv, WithinLimit, [CacheNext]_cacheVars
             PROVE  WithinLimit' /\ [Lru!LruNext]_<<Contents, fetched, max_size>>
  OBVIOUS
<1>1. ASSUME NEW x \in Statement, Insert(x), UNCHANGED max_size
      PROVE  WithinLimit' /\ Lru!LruNext
  BY <1>1, InsertStores DEF Lru!LruNext
<1>2. ASSUME NEW q \in Query, Hit(q) \/ Miss(q), UNCHANGED max_size
      PROVE  WithinLimit' /\ Lru!LruNext
  <2>1. WithinLimit' /\ Lru!Take(q)
    BY <1>2, HitTakes, MissTakes
  <2>2. PICK x \in Statement : q = SqlQuery[x]
    BY DEF Query
  <2> QED BY <2>1, <2>2, <1>2 DEF Lru!LruNext
<1>3. ASSUME Clear, UNCHANGED max_size
      PROVE  WithinLimit' /\ Lru!LruNext
  <2>1. Contents' = <<>> /\ WithinLimit'
    BY <1>3 DEF Clear, Contents, WithinLimit, CacheInv
  <2> QED BY <2>1, <1>3 DEF Clear, Lru!LruNext, Lru!Forget
<1>4. ASSUME UNCHANGED cacheVars
      PROVE  WithinLimit' /\ UNCHANGED <<Contents, fetched, max_size>>
  BY <1>4 DEF cacheVars, Contents, WithinLimit
<1> QED BY <1>1, <1>2, <1>3, <1>4 DEF CacheNext

(* The cache is a bounded least-recently-used cache: it holds what was put *)
(* last, one statement for a query, and gives each back once.              *)
THEOREM CacheIsLru == CacheSpec => CacheImplementsLru
<1>1. CacheInit => WithinLimit /\ Lru!LruInit
  BY DEF CacheInit, WithinLimit, Contents, Lru!LruInit
<1>2. CacheSpec => []WithinLimit
  BY <1>1, CacheStepRefines, CacheInvAlways, PTL DEF CacheSpec
<1> QED BY <1>1, <1>2, CacheStepRefines, CacheInvAlways, PTL
      DEF CacheSpec, CacheImplementsLru, Lru!LruSpec

-----------------------------------------------------------------------------
(* The connection manager.                                                 *)

(* A pool not made is held by nobody, and the map has each pool under the  *)
(* string it was made for.                                                 *)
Filed ==
  /\ \A p \in Pool : made_for[p] = 0 => Holders(p) = {}
  /\ \A s \in Registered : made_for[connections[s]] = s

ManagerInv == TypeOK /\ Filed /\ UsedPoolsAreRegistered /\ ErasedPoolsEnd

LEMMA FollowingTyped ==
  ASSUME NEW s, NEW u \in Following(s)
  PROVE  u \in String \cup {End} /\ (u # End => u \in Registered)
  BY DEF Following, Registered

LEMMA EndIsNoString == End \notin String /\ 0 \notin String
  BY ManagerAssumption DEF End, String

(* What open, close, dispose and register do to the types. *)
LEMMA OpenTyped ==
  ASSUME TypeOK, NEW c \in Client, OpenStep(c) \/ Close(c) \/ Dispose(c)
  PROVE  TypeOK'
<1> USE ManagerAssumption DEF TypeOK, Goto, Label, locals
<1>1. ASSUME NEW s \in String, OpenString(c, s) \/ OpenInfo(c, s) PROVE TypeOK'
  BY <1>1 DEF OpenString, OpenInfo, Registered
<1>2. CASE OpenDirect(c) \/ OpenPool(c) \/ OpenFails(c) \/ Close(c) \/ Dispose(c)
  BY <1>2 DEF OpenDirect, OpenPool, OpenFails, Close, Dispose, Adopt, Registered
<1>3. CASE Register(c)
  <2>1. str[c] \in String
    BY <1>3 DEF Register
  <2> QED
    BY <1>3, <2>1 DEF Register, Registered
<1> QED
  BY <1>1, <1>2, <1>3 DEF OpenStep

LEMMA GCTyped ==
  ASSUME TypeOK, NEW c \in Client, GCStep(c)
  PROVE  TypeOK'
<1> USE ManagerAssumption DEF TypeOK, Goto, Label, locals
<1>1. CASE GCCollect(c) \/ GCDrop(c) \/ GCReturn(c)
  BY <1>1 DEF GCCollect, GCDrop, GCReturn, Registered, Free
<1>2. CASE GCBegin(c)
  <2>1. PICK u \in Following(0) : it' = [it EXCEPT ![c] = u] /\ Advance(c, u)
    BY <1>2 DEF GCBegin
  <2> QED
    BY <1>2, <2>1, FollowingTyped DEF GCBegin, Advance, Registered, Free
<1>3. CASE GCVisit(c)
  <2>1. lock = c /\ it[c] \in Registered /\ it[c] \in String
    BY <1>3 DEF GCVisit, Registered
  <2>2. /\ connections' \in [String -> Pool \cup {NoPool}]
        /\ pools' \in [Client -> SUBSET Pool]
        /\ \A u \in Registered : u # it[c] => u \in Registered'
    BY <1>3, <2>1 DEF GCVisit, Erase, Registered
  <2>3. \A d \in Client : pc[d] = "visit" => d = c
    BY <2>1
  <2>4. CASE Skip(c)
    <3>0. PICK u \in Following(it[c]) \ {End} :
            \E v \in Following(u) : it' = [it EXCEPT ![c] = v] /\ Advance(c, v)
      BY <2>4 DEF Skip
    <3>1. PICK v \in Following(u) : it' = [it EXCEPT ![c] = v] /\ Advance(c, v)
      BY <3>0
    <3>2. v \in String \cup {End} /\ (v # End => v \in Registered /\ v # it[c])
      <4>1. u > it[c] /\ v > u /\ u \in String \cup {End} /\ v \in String \cup {End}
        BY <3>0, <3>1, FollowingTyped DEF Following
      <4> QED
        BY <2>1, <3>1, <4>1, FollowingTyped DEF String, End
    <3> QED
      BY <1>3, <2>1, <2>2, <2>3, <3>1, <3>2 DEF GCVisit, Advance
  <2>5. CASE Overrun(c)
    <3>1. CASE pc' = [pc EXCEPT ![c] = "lost"] /\ UNCHANGED <<it, lock>>
      BY <1>3, <2>1, <2>2, <2>3, <3>1 DEF GCVisit
    <3>2. CASE /\ \E s \in String : connections'[s] # NoPool /\ it' = [it EXCEPT ![c] = s]
               /\ UNCHANGED <<pc, lock>>
      BY <1>3, <2>1, <2>2, <2>3, <3>2 DEF GCVisit, Registered
    <3> QED
      BY <2>5, <3>1, <3>2 DEF Overrun
  <2> QED
    BY <1>3, <2>4, <2>5 DEF GCVisit
<1> QED
  BY <1>1, <1>2, <1>3 DEF GCStep

(* Every field and local of the connection manager keeps its type, and the *)
(* iterator of GC stays valid, for any number of clients and strings.      *)
THEOREM ManagerTypeCorrect == Spec => []TypeOK
<1>1. Init => TypeOK
  BY ManagerAssumption DEF Init, TypeOK, Label, End, String
<1>2. TypeOK /\ [Next]_vars => TypeOK'
  <2> SUFFICES ASSUME TypeOK, [Next]_vars PROVE TypeOK'
    OBVIOUS
  <2>1. CASE UNCHANGED vars
    BY <2>1 DEF vars, locals, TypeOK, Registered
  <2>2. CASE Next
    BY <2>2, OpenTyped, GCTyped DEF Next
  <2> QED
    BY <2>1, <2>2
<1> QED
  BY <1>1, <1>2, PTL DEF Spec

------------------------------------------------------------------------------
(* Who holds which pool.                                                   *)

OnFile(p) == \E s \in Registered : connections[s] = p

(* A step that leaves the map alone, and by which a client gets hold of a  *)
(* pool only out of the map.                                               *)
Quiet ==
  /\ UNCHANGED <<connections, made_for>>
  /\ \A p \in Pool :
       /\ InUse(p)' => InUse(p) \/ OnFile(p)
       /\ Holders(p)' \subseteq Holders(p) \/ OnFile(p)

LEMMA QuietKeeps ==
  ASSUME ManagerInv, Quiet
  PROVE  Filed' /\ UsedPoolsAreRegistered' /\ ErasedPoolsEnd'
<1>1. Registered' = Registered
  BY DEF Quiet, Registered
<1>2. \A p \in Pool : OnFile(p) => made_for[p] \in String /\ connections[made_for[p]] = p
  BY DEF ManagerInv, Filed, OnFile, Registered
<1>3. Filed'
  BY <1>1, <1>2, EndIsNoString DEF ManagerInv, Filed, Quiet
<1>4. UsedPoolsAreRegistered'
  BY <1>2 DEF ManagerInv, UsedPoolsAreRegistered, Quiet
<1>5. ErasedPoolsEnd'
  <2> SUFFICES ASSUME NEW p \in Pool, \A s \in String : connections'[s] # p
               PROVE  \A c, d \in Holders(p)' : c = d
    BY DEF ErasedPoolsEnd
  <2>1. ~OnFile(p) /\ \A s \in String : connections[s] # p
    BY DEF Quiet, OnFile, Registered
  <2> QED
    BY <2>1 DEF Quiet, ManagerInv, ErasedPoolsEnd
<1> QED
  BY <1>3, <1>4, <1>5

LEMMA QuietSteps ==
  ASSUME TypeOK, NEW c \in Client,
         \/ \E s \in String : OpenString(c, s) \/ OpenInfo(c, s)
         \/ OpenDirect(c) \/ OpenPool(c) \/ OpenFails(c) \/ Close(c) \/ Dispose(c)
         \/ GCCollect(c) \/ GCDrop(c) \/ GCBegin(c) \/ GCReturn(c)
  PROVE  Quiet
<1> USE ManagerAssumption DEF TypeOK, Quiet, InUse, Holders, OnFile, locals
<1>1. ASSUME NEW s \in String, OpenString(c, s) \/ OpenInfo(c, s) PROVE Quiet
  BY <1>1 DEF OpenString, OpenInfo
<1>2. CASE OpenDirect(c) \/ OpenPool(c) \/ Close(c)
  BY <1>2 DEF OpenDirect, OpenPool, Close, Adopt
<1>3. CASE OpenFails(c) \/ Dispose(c)
  BY <1>3 DEF OpenFails, Dispose
<1>4. CASE GCCollect(c)
  BY <1>4 DEF GCCollect
<1>5. CASE GCDrop(c) \/ GCBegin(c) \/ GCReturn(c)
  BY <1>5 DEF GCDrop, GCBegin, GCReturn
<1> QED
  BY <1>1, <1>2, <1>3, <1>4, <1>5

LEMMA RegisterKeeps ==
  ASSUME ManagerInv, NEW c \in Client, Register(c)
  PROVE  Filed' /\ UsedPoolsAreRegistered' /\ ErasedPoolsEnd'
<1>1. CASE str[c] \in Registered
  <2>1. Quiet
    BY <1>1 DEF Register, Quiet, InUse, Holders
  <2> QED
    BY <2>1, QuietKeeps
<1>2. CASE str[c] \notin Registered
  <2>1. str[c] \in String /\ connections[str[c]] = NoPool
    BY <1>2 DEF Register, ManagerInv, TypeOK, Registered
  <2>2. PICK p \in Pool :
          /\ made_for[p] = 0
          /\ made_for' = [made_for EXCEPT ![p] = str[c]]
          /\ connections' = [connections EXCEPT ![str[c]] = p]
          /\ pool' = [pool EXCEPT ![c] = p]
    BY <1>2 DEF Register
  <2>3. UNCHANGED <<db_connection, pools>>
    BY DEF Register
  <2>4. /\ made_for'[p] = str[c] /\ connections'[str[c]] = p
        /\ \A q \in Pool \ {p} : made_for'[q] = made_for[q]
        /\ \A s \in String \ {str[c]} : connections'[s] = connections[s]
    BY <2>1, <2>2 DEF ManagerInv, TypeOK
  <2>5. Holders(p) = {} /\ \A s \in Registered : connections[s] # p
    BY <2>2, EndIsNoString DEF ManagerInv, Filed, Registered
  <2>6. /\ \A q \in Pool \ {p} : Holders(q)' \subseteq Holders(q) /\ (InUse(q)' => InUse(q))
        /\ Holders(p)' \subseteq {c}
    BY <2>2, <2>3, <2>5 DEF Holders, InUse, ManagerInv, TypeOK
  <2>7. Registered' = Registered \cup {str[c]}
    BY <2>1, <2>2, <2>4, ManagerAssumption DEF Registered
  <2>8. Filed'
    <3>1. ASSUME NEW q \in Pool, made_for'[q] = 0 PROVE Holders(q)' = {}
      BY <2>1, <2>4, <2>6, <3>1, EndIsNoString DEF ManagerInv, Filed
    <3>2. ASSUME NEW s \in Registered' PROVE made_for'[connections'[s]] = s
      BY <2>4, <2>5, <2>7, <3>2 DEF ManagerInv, Filed, TypeOK, Registered
    <3> QED
      BY <3>1, <3>2 DEF Filed
  <2>9. UsedPoolsAreRegistered'
    <3> SUFFICES ASSUME NEW q \in Pool, InUse(q)'
                 PROVE  made_for'[q] \in String /\ connections'[made_for'[q]] = q
      BY DEF UsedPoolsAreRegistered
    <3>1. CASE q = p
      BY <2>1, <2>4, <3>1
    <3>2. CASE q # p
      <4>1. made_for[q] \in String /\ connections[made_for[q]] = q /\ made_for[q] # str[c]
        BY <2>1, <2>6, <3>2, ManagerAssumption DEF ManagerInv, UsedPoolsAreRegistered
      <4> QED
        BY <2>4, <3>2, <4>1
    <3> QED
      BY <3>1, <3>2
  <2>10. ErasedPoolsEnd'
    <3> SUFFICES ASSUME NEW q \in Pool, \A s \in String : connections'[s] # q
                 PROVE  \A d, e \in Holders(q)' : d = e
      BY DEF ErasedPoolsEnd
    <3>1. q # p /\ \A s \in String : connections[s] # q
      BY <2>1, <2>4, ManagerAssumption
    <3> QED
      BY <2>6, <3>1 DEF ManagerInv, ErasedPoolsEnd
  <2> QED
    BY <2>8, <2>9, <2>10
<1> QED
  BY <1>1, <1>2

LEMMA VisitKeeps ==
  ASSUME ManagerInv, NEW c \in Client, GCVisit(c)
  PROVE  Filed' /\ UsedPoolsAreRegistered' /\ ErasedPoolsEnd'
<1>0. PICK s \in Registered, p \in Pool : s = it[c] /\ p = connections[s]
  BY DEF GCVisit, ManagerInv, TypeOK, Registered
<1>1. s \in String /\ connections[s] = p /\ made_for[p] = s
  BY <1>0 DEF ManagerInv, Registered, Filed
<1>2. UNCHANGED <<made_for, db_connection, pool>> /\ Erase(c)
  BY DEF GCVisit
<1>3. CASE ~HasOneRef(p)
  <2>1. Quiet
    BY <1>0, <1>2, <1>3 DEF Erase, Quiet, InUse, Holders
  <2> QED
    BY <2>1, QuietKeeps
<1>4. CASE HasOneRef(p)
  <2>1. /\ pools' = [pools EXCEPT ![c] = @ \cup {p}]
        /\ connections' = [connections EXCEPT ![s] = NoPool]
    BY <1>0, <1>2, <1>4 DEF Erase
  <2>2. Holders(p) = {} /\ ~InUse(p)
    BY <1>4 DEF HasOneRef, Holders, InUse
  <2>3. /\ \A q \in Pool : InUse(q)' <=> InUse(q)
        /\ \A q \in Pool \ {p} : Holders(q)' = Holders(q)
        /\ Holders(p)' \subseteq {c}
    <3>1. \A q \in Pool : InUse(q)' <=> InUse(q)
      BY <1>2 DEF InUse
    <3>2. /\ \A d \in Client \ {c} : pools'[d] = pools[d]
          /\ pools'[c] = pools[c] \cup {p}
      BY <2>1 DEF ManagerInv, TypeOK
    <3>3. \A q \in Pool \ {p} : Holders(q)' = Holders(q)
      BY <1>2, <3>2 DEF Holders
    <3>4. Holders(p)' \subseteq {c}
      BY <1>2, <2>2, <3>2 DEF Holders
    <3> QED
      BY <3>1, <3>3, <3>4
  <2>4. /\ connections'[s] = NoPool
        /\ \A u \in String \ {s} : connections'[u] = connections[u]
        /\ Registered' = Registered \ {s}
    BY <1>1, <2>1 DEF ManagerInv, TypeOK, Registered
  <2>5. Filed'
    BY <1>1, <1>2, <2>3, <2>4, EndIsNoString DEF ManagerInv, Filed, Registered
  <2>6. UsedPoolsAreRegistered'
    <3> SUFFICES ASSUME NEW q \in Pool, InUse(q)
                 PROVE  made_for[q] \in String /\ connections'[made_for[q]] = q
      BY <1>2, <2>3 DEF UsedPoolsAreRegistered
    <3>1. q # p /\ made_for[q] \in String /\ connections[made_for[q]] = q
      BY <2>2 DEF ManagerInv, UsedPoolsAreRegistered
    <3> QED
      BY <1>1, <2>4, <3>1
  <2>7. ErasedPoolsEnd'
    <3> SUFFICES ASSUME NEW q \in Pool, \A u \in String : connections'[u] # q
                 PROVE  \A d, e \in Holders(q)' : d = e
      BY DEF ErasedPoolsEnd
    <3>1. CASE q = p
      BY <2>3, <3>1
    <3>2. CASE q # p
      BY <1>1, <2>3, <2>4, <3>2 DEF ManagerInv, ErasedPoolsEnd
    <3> QED
      BY <3>1, <3>2
  <2> QED
    BY <2>5, <2>6, <2>7
<1> QED
  BY <1>3, <1>4

LEMMA ManagerInvHolds == Spec => []ManagerInv
<1>1. Init => ManagerInv
  BY ManagerAssumption, EndIsNoString
  DEF Init, ManagerInv, TypeOK, Label, End, String, Filed, Holders, Registered,
      UsedPoolsAreRegistered, InUse, ErasedPoolsEnd
<1>2. ManagerInv /\ TypeOK' /\ [Next]_vars => ManagerInv'
  <2> SUFFICES ASSUME ManagerInv, TypeOK', [Next]_vars PROVE ManagerInv'
    OBVIOUS
  <2>1. CASE UNCHANGED vars
    <3>1. Quiet
      BY <2>1 DEF vars, locals, Quiet, InUse, Holders
    <3> QED
      BY <3>1, QuietKeeps DEF ManagerInv
  <2>2. ASSUME NEW c \in Client, OpenStep(c) \/ Close(c) \/ Dispose(c) \/ GCStep(c) PROVE ManagerInv'
    BY <2>2, QuietSteps, QuietKeeps, RegisterKeeps, VisitKeeps DEF OpenStep, GCStep, ManagerInv
  <2> QED
    BY <2>1, <2>2 DEF Next
<1> QED
  BY <1>1, <1>2, ManagerTypeCorrect, PTL DEF Spec

(* Whoever holds a pool holds the one the map has for its string: two      *)
(* pools are never in use for one string.                                  *)
THEOREM OnePoolForEachString == Spec => []UsedPoolsAreRegistered
<1>1. ManagerInv => UsedPoolsAreRegistered
  BY DEF ManagerInv
<1> QED
  BY <1>1, ManagerInvHolds, PTL

(* A pool that has left the map has one holder at most, the GC that will   *)
(* delete it.                                                              *)
THEOREM ErasedPoolsAreNotShared == Spec => []ErasedPoolsEnd
<1>1. ManagerInv => ErasedPoolsEnd
  BY DEF ManagerInv
<1> QED
  BY <1>1, ManagerInvHolds, PTL

-----------------------------------------------------------------------------
(* Sessions and transactions.                                              *)

USE SessionAssumption

(* A connection is leased to one session at most, and not idle meanwhile.  *)
Leases ==
  /\ \A s \in User : leased[s] = NoConnection <=> doing[s] = "closed"
  /\ \A s \in User : leased[s] # NoConnection => leased[s] \in opened \ idle
  /\ \A s, r \in User : leased[s] = leased[r] /\ leased[s] # NoConnection => s = r

(* A running scope is the one scope of one session.                        *)
Scopes ==
  /\ \A s \in User : scope[s] # NoScope <=> doing[s] \in {"scope", "unwinding"}
  /\ \A s, r \in User : scope[s] = scope[r] /\ scope[s] # NoScope => s = r
  /\ \A s \in User : scope[s] # NoScope =>
       /\ outcome[scope[s]] # "none"
       /\ outcome[scope[s]] = "running" <=> s \notin commited
  /\ \A k \in Scope : outcome[k] = "running" => \E s \in User : scope[s] = k

InTransaction(s) == scope[s] # NoScope /\ s \notin commited

(* The server has a transaction open for a running scope only, and in it   *)
(* rows of that scope.  While a program is in the scope, what it has       *)
(* written and is not doubtful is in the transaction or in the database;   *)
(* if the transaction is no more, then all that is left to write is loose. *)
Pending ==
  /\ \A s \in User : InTransaction(s) => pending[leased[s]] \subseteq RowsIn(scope[s])
  /\ \A s \in User : InTransaction(s) /\ doing[s] = "scope" =>
       /\ RowsOf(scope[s]) \ doubtful \subseteq pending[leased[s]] \cup durable
       /\ leased[s] \notin in_transaction => ToWrite(s) \subseteq loose
  /\ \A c \in in_transaction : \E s \in User : InTransaction(s) /\ leased[s] = c
  /\ \A c \in Connection : c \notin in_transaction => pending[c] = {}
  /\ \A row \in written : outcome[row[1]] # "none"

(* Idle connections are recyclable, and those on which a call has thrown   *)
(* are not; once_called_ tells whether the functor has completed.          *)
Fit ==
  /\ idle \subseteq recyclable
  /\ thrown \cap recyclable = {}
  /\ \A c \in Connection : completed[c] = IF c \in once_called THEN 1 ELSE 0
  /\ \A s \in User : doing[s] = "once" => leased[s] \notin once_called

SessionInv ==
  SessionTypeOK /\ Leases /\ Scopes /\ Pending /\ AllOrNothing /\ Fit

LEMMA OpenKeeps ==
  ASSUME SessionInv, NEW s \in User, Open(s) PROVE SessionInv'
<1> USE DEF SessionInv, SessionTypeOK, Open, At, Goes, flags, server, scopes, handled, leases
<1>1. SessionTypeOK' BY SMTT(20) DEF SessionTypeOK, Leases, Scopes
<1>2. Leases' BY SMTT(20) DEF Leases
<1>3. Scopes' BY SMTT(20) DEF Scopes
<1>4. Pending' BY SMTT(20) DEF Pending, InTransaction, RowsOf, RowsIn, ToWrite, Row, Scopes, Leases
<1>5. AllOrNothing' BY SMTT(20) DEF AllOrNothing, RowsOf, RowsIn, ToWrite, Row, Pending, InTransaction, Leases, Scopes
<1>6. Fit' BY SMTT(20) DEF Fit, Leases
<1> QED BY <1>1, <1>2, <1>3, <1>4, <1>5, <1>6

LEMMA SetRecyclableKeeps ==
  ASSUME SessionInv, NEW s \in User, SetRecyclable(s) PROVE SessionInv'
<1> USE DEF SessionInv, SessionTypeOK, SetRecyclable, At, Goes, flags, server, scopes, handled, leases
<1>1. SessionTypeOK' BY SMTT(20) DEF SessionTypeOK, Leases, Scopes
<1>2. Leases' BY SMTT(20) DEF Leases
<1>3. Scopes' BY SMTT(20) DEF Scopes
<1>4. Pending' BY SMTT(20) DEF Pending, InTransaction, RowsOf, RowsIn, ToWrite, Row, Scopes, Leases
<1>5. AllOrNothing' BY SMTT(20) DEF AllOrNothing, RowsOf, RowsIn, ToWrite, Row, Pending, InTransaction, Leases, Scopes
<1>6. Fit' BY SMTT(20) DEF Fit, Leases
<1> QED BY <1>1, <1>2, <1>3, <1>4, <1>5, <1>6

LEMMA CloseSessionKeeps ==
  ASSUME SessionInv, NEW s \in User, CloseSession(s) PROVE SessionInv'
<1> USE DEF SessionInv, SessionTypeOK, CloseSession, At, Goes, flags, server, scopes, handled, leases
<1>1. SessionTypeOK' BY SMTT(20) DEF SessionTypeOK, Leases, Scopes
<1>2. Leases' BY SMTT(20) DEF Leases
<1>3. Scopes' BY SMTT(20) DEF Scopes
<1>4. Pending' BY SMTT(20) DEF Pending, InTransaction, RowsOf, RowsIn, ToWrite, Row, Scopes, Leases
<1>5. AllOrNothing' BY SMTT(20) DEF AllOrNothing, RowsOf, RowsIn, ToWrite, Row, Pending, InTransaction, Leases, Scopes
<1>6. Fit' BY SMTT(20) DEF Fit, Leases
<1> QED BY <1>1, <1>2, <1>3, <1>4, <1>5, <1>6

LEMMA OnceBeginsKeeps ==
  ASSUME SessionInv, NEW s \in User, OnceBegins(s) PROVE SessionInv'
<1> USE DEF SessionInv, SessionTypeOK, OnceBegins, At, Goes, flags, server, scopes, handled, leases
<1>1. SessionTypeOK' BY SMTT(20) DEF SessionTypeOK, Leases, Scopes
<1>2. Leases' BY SMTT(20) DEF Leases
<1>3. Scopes' BY SMTT(20) DEF Scopes
<1>4. Pending' BY SMTT(20) DEF Pending, InTransaction, RowsOf, RowsIn, ToWrite, Row, Scopes, Leases
<1>5. AllOrNothing' BY SMTT(20) DEF AllOrNothing, RowsOf, RowsIn, ToWrite, Row, Pending, InTransaction, Leases, Scopes
<1>6. Fit' BY SMTT(20) DEF Fit, Leases
<1> QED BY <1>1, <1>2, <1>3, <1>4, <1>5, <1>6

LEMMA OnceReturnsKeeps ==
  ASSUME SessionInv, NEW s \in User, OnceReturns(s) PROVE SessionInv'
<1> USE DEF SessionInv, SessionTypeOK, OnceReturns, At, Goes, flags, server, scopes, handled, leases
<1>1. SessionTypeOK' BY SMTT(20) DEF SessionTypeOK, Leases, Scopes
<1>2. Leases' BY SMTT(20) DEF Leases
<1>3. Scopes' BY SMTT(20) DEF Scopes
<1>4. Pending' BY SMTT(20) DEF Pending, InTransaction, RowsOf, RowsIn, ToWrite, Row, Scopes, Leases
<1>5. AllOrNothing' BY SMTT(20) DEF AllOrNothing, RowsOf, RowsIn, ToWrite, Row, Pending, InTransaction, Leases, Scopes
<1>6. Fit' BY SMTT(20) DEF Fit, Leases
<1> QED BY <1>1, <1>2, <1>3, <1>4, <1>5, <1>6

LEMMA OnceThrowsKeeps ==
  ASSUME SessionInv, NEW s \in User, OnceThrows(s) PROVE SessionInv'
<1> USE DEF SessionInv, SessionTypeOK, OnceThrows, Guard, At, Goes, flags, server, scopes, handled, leases
<1>1. SessionTypeOK' BY SMTT(20) DEF SessionTypeOK, Leases, Scopes
<1>2. Leases' BY SMTT(20) DEF Leases
<1>3. Scopes' BY SMTT(20) DEF Scopes
<1>4. Pending' BY SMTT(20) DEF Pending, InTransaction, RowsOf, RowsIn, ToWrite, Row, Scopes, Leases
<1>5. AllOrNothing' BY SMTT(20) DEF AllOrNothing, RowsOf, RowsIn, ToWrite, Row, Pending, InTransaction, Leases, Scopes
<1>6. Fit' BY SMTT(20) DEF Fit, Leases
<1> QED BY <1>1, <1>2, <1>3, <1>4, <1>5, <1>6

LEMMA BeginScopeKeeps ==
  ASSUME SessionInv, NEW s \in User, BeginScope(s) PROVE SessionInv'
<1> USE DEF SessionInv, SessionTypeOK, BeginScope, ServerBegin, At, Goes, flags, server, scopes, handled, leases
<1>1. SessionTypeOK' BY SMTT(20) DEF SessionTypeOK, Leases, Scopes
<1>2. Leases' BY SMTT(20) DEF Leases
<1>3. Scopes' BY SMTT(20) DEF Scopes
<1>4. Pending' BY SMTT(20) DEF Pending, InTransaction, RowsOf, RowsIn, ToWrite, Row, Scopes, Leases
<1>5. AllOrNothing' BY SMTT(20) DEF AllOrNothing, RowsOf, RowsIn, ToWrite, Row, Pending, InTransaction, Leases, Scopes
<1>6. Fit' BY SMTT(20) DEF Fit, Leases
<1> QED BY <1>1, <1>2, <1>3, <1>4, <1>5, <1>6

LEMMA ExecuteKeeps ==
  ASSUME SessionInv, NEW s \in User, Execute(s) PROVE SessionInv'
<1> USE DEF SessionInv, SessionTypeOK, Execute, ServerWrite, At, Goes, flags, server, scopes, handled, leases
<1>1. SessionTypeOK' BY SMTT(20) DEF SessionTypeOK, Leases, Scopes, ToWrite, RowsIn, Row
<1>2. Leases' BY SMTT(20) DEF Leases
<1>3. Scopes' BY SMTT(20) DEF Scopes
<1>4. Pending' BY SMTT(20) DEF Pending, InTransaction, RowsOf, RowsIn, ToWrite, Row, Scopes, Leases
<1>5. AllOrNothing' BY SMTT(20) DEF AllOrNothing, RowsOf, RowsIn, ToWrite, Row, Pending, InTransaction, Leases, Scopes
<1>6. Fit' BY SMTT(20) DEF Fit, Leases
<1> QED BY <1>1, <1>2, <1>3, <1>4, <1>5, <1>6

LEMMA ExecuteThrowsKeeps ==
  ASSUME SessionInv, NEW s \in User, ExecuteThrows(s) PROVE SessionInv'
<1> USE DEF SessionInv, SessionTypeOK, ExecuteThrows, ServerFails, ServerWrite, ServerEnd,
           Guard, At, Goes, flags, server, scopes, handled, leases
<1>1. SessionTypeOK' BY SMTT(20) DEF SessionTypeOK, Leases, Scopes, ToWrite, RowsIn, Row
<1>2. Leases' BY SMTT(20) DEF Leases
<1>3. Scopes' BY SMTT(20) DEF Scopes
<1>4. Pending' BY SMTT(20) DEF Pending, InTransaction, RowsOf, RowsIn, ToWrite, Row, Scopes, Leases
<1>5. AllOrNothing' BY SMTT(20) DEF AllOrNothing, RowsOf, RowsIn, ToWrite, Row, Pending, InTransaction, Leases, Scopes
<1>6. Fit' BY SMTT(20) DEF Fit, Leases
<1> QED BY <1>1, <1>2, <1>3, <1>4, <1>5, <1>6

LEMMA ThrowKeeps ==
  ASSUME SessionInv, NEW s \in User, Throw(s) PROVE SessionInv'
<1> USE DEF SessionInv, SessionTypeOK, Throw, At, Goes, flags, server, scopes, handled, leases
<1>1. SessionTypeOK' BY SMTT(20) DEF SessionTypeOK, Leases, Scopes
<1>2. Leases' BY SMTT(20) DEF Leases
<1>3. Scopes' BY SMTT(20) DEF Scopes
<1>4. Pending' BY SMTT(20) DEF Pending, InTransaction, RowsOf, RowsIn, ToWrite, Row, Scopes, Leases
<1>5. AllOrNothing' BY SMTT(20) DEF AllOrNothing, RowsOf, RowsIn, ToWrite, Row, Pending, InTransaction, Leases, Scopes
<1>6. Fit' BY SMTT(20) DEF Fit, Leases
<1> QED BY <1>1, <1>2, <1>3, <1>4, <1>5, <1>6

LEMMA CommitKeeps ==
  ASSUME SessionInv, NEW s \in User, Commit(s) PROVE SessionInv'
<1> USE DEF SessionInv, SessionTypeOK, Commit, ServerEnd, Ends, At, Goes, flags, server, scopes, handled, leases
<1>1. SessionTypeOK' BY SMTT(20) DEF SessionTypeOK, Leases, Scopes
<1>2. Leases' BY SMTT(20) DEF Leases
<1>3. Scopes' BY SMTT(20) DEF Scopes
<1>4. Pending' BY SMTT(20) DEF Pending, InTransaction, RowsOf, RowsIn, ToWrite, Row, Scopes, Leases
<1>5. AllOrNothing' BY SMTT(20) DEF AllOrNothing, RowsOf, RowsIn, ToWrite, Row, Pending, InTransaction, Leases, Scopes
<1>6. Fit' BY SMTT(20) DEF Fit, Leases
<1> QED BY <1>1, <1>2, <1>3, <1>4, <1>5, <1>6

LEMMA RollbackKeeps ==
  ASSUME SessionInv, NEW s \in User, Rollback(s) PROVE SessionInv'
<1> USE DEF SessionInv, SessionTypeOK, Rollback, ServerEnd, Ends, At, Goes, flags, server, scopes, handled, leases
<1>1. SessionTypeOK' BY SMTT(20) DEF SessionTypeOK, Leases, Scopes
<1>2. Leases' BY SMTT(20) DEF Leases
<1>3. Scopes' BY SMTT(20) DEF Scopes
<1>4. Pending' BY SMTT(20) DEF Pending, InTransaction, RowsOf, RowsIn, ToWrite, Row, Scopes, Leases
<1>5. AllOrNothing' BY SMTT(20) DEF AllOrNothing, RowsOf, RowsIn, ToWrite, Row, Pending, InTransaction, Leases, Scopes
<1>6. Fit' BY SMTT(20) DEF Fit, Leases
<1> QED BY <1>1, <1>2, <1>3, <1>4, <1>5, <1>6

LEMMA EndScopeKeeps ==
  ASSUME SessionInv, NEW s \in User, EndScope(s) PROVE SessionInv'
<1> USE DEF SessionInv, SessionTypeOK, EndScope, ServerEnd, Ends, At, Goes, flags, server, scopes, handled, leases
<1>1. SessionTypeOK' BY SMTT(20) DEF SessionTypeOK, Leases, Scopes
<1>2. Leases' BY SMTT(20) DEF Leases
<1>3. Scopes' BY SMTT(20) DEF Scopes
<1>4. Pending' BY SMTT(20) DEF Pending, InTransaction, RowsOf, RowsIn, ToWrite, Row, Scopes, Leases
<1>5. AllOrNothing' BY SMTT(20) DEF AllOrNothing, RowsOf, RowsIn, ToWrite, Row, Pending, InTransaction, Leases, Scopes
<1>6. Fit' BY SMTT(20) DEF Fit, Leases
<1> QED BY <1>1, <1>2, <1>3, <1>4, <1>5, <1>6

(* The process ends: everything but the database and the history is gone,  *)
(* and of the transactions under way those in `committing` were committed. *)
LEMMA CrashKeeps ==
  ASSUME SessionInv, NEW committing \in SUBSET User,
         \A s \in committing : InTransaction(s) /\ doing[s] = "scope",
         Crash(committing)
  PROVE  SessionInv'
<1> USE DEF SessionInv, SessionTypeOK, Crash, handled
<1> DEFINE kept == UNION {pending[leased[s]] : s \in committing}
<1>1. \A row \in kept : row \in Row /\ \E s \in committing : row[1] = scope[s]
  BY DEF Pending, RowsIn
<1>2. \A s \in committing : RowsOf(scope[s]) \ doubtful \subseteq kept \cup durable
  BY DEF Pending
<1>3. durable' = durable \cup kept
  OBVIOUS
<1> HIDE DEF kept
<1>4. SessionTypeOK' BY <1>1, <1>3
<1>5. Leases' BY DEF Leases
<1>6. Scopes' BY DEF Scopes
<1>7. Pending'
  <2>1. \A row \in written : row[1] \in Scope /\ outcome[row[1]] # "none"
    BY DEF Pending, Row
  <2>2. \A row \in written' : outcome'[row[1]] # "none"
    BY <2>1
  <2> QED BY <2>2 DEF Pending, InTransaction
<1>8. AllOrNothing'
  <2> SUFFICES ASSUME NEW k \in Scope
               PROVE  IF outcome'[k] = "committed"
                      THEN RowsOf(k) \ doubtful \subseteq durable'
                      ELSE (RowsIn(k) \ loose) \cap durable' = {}
    BY DEF AllOrNothing, RowsOf, RowsIn
  <2>1. outcome[k] = "committed" => RowsOf(k) \ doubtful \subseteq durable
    BY DEF AllOrNothing
  <2>2. outcome[k] # "committed" => (RowsIn(k) \ loose) \cap durable = {}
    BY DEF AllOrNothing
  <2>3. CASE \E s \in committing : scope[s] = k
    <3>1. outcome[k] = "running"
      BY <2>3 DEF Scopes, InTransaction
    <3>2. outcome'[k] = "committed"
      BY <2>3, <3>1
    <3> QED BY <2>3, <3>2, <1>2, <1>3
  <2>4. CASE ~\E s \in committing : scope[s] = k
    <3>1. RowsIn(k) \cap kept = {}
      BY <2>4, <1>1 DEF RowsIn
    <3>2. outcome'[k] = "committed" <=> outcome[k] = "committed"
      BY <2>4
    <3> QED BY <3>1, <3>2, <2>1, <2>2, <1>3
  <2> QED BY <2>3, <2>4
<1>9. Fit' BY DEF Fit
<1> QED BY <1>4, <1>5, <1>6, <1>7, <1>8, <1>9

LEMMA SessionInitInv == SessionInit => SessionInv
BY DEF SessionInit, SessionInv, SessionTypeOK, Leases, Scopes, Pending, InTransaction, RowsOf,
  RowsIn, AllOrNothing, Fit

LEMMA SessionStepInv == SessionInv /\ [SessionNext]_sessionVars => SessionInv'
<1> SUFFICES ASSUME SessionInv, [SessionNext]_sessionVars PROVE SessionInv'
  OBVIOUS
<1>1. CASE UNCHANGED sessionVars
  BY <1>1 DEF sessionVars, SessionInv, SessionTypeOK, Leases, Scopes, Pending, InTransaction,
    RowsOf, RowsIn, ToWrite, AllOrNothing, Fit
<1>2. CASE CrashAnywhere
  BY <1>2, CrashKeeps DEF CrashAnywhere
<1>3. ASSUME NEW s \in User, CrashInCommit(s) PROVE SessionInv'
  <2>1. InTransaction(s) /\ doing[s] = "scope"
    BY <1>3 DEF CrashInCommit, At, InTransaction, SessionInv, Scopes
  <2>2. Crash({s}) /\ {s} \in SUBSET User
    BY <1>3 DEF CrashInCommit
  <2> QED BY <2>1, <2>2, CrashKeeps
<1>4. ASSUME NEW s \in User,
             \/ Open(s) \/ SetRecyclable(s) \/ CloseSession(s)
             \/ OnceBegins(s) \/ OnceReturns(s) \/ OnceThrows(s)
      PROVE  SessionInv'
  BY <1>4, OpenKeeps, SetRecyclableKeeps, CloseSessionKeeps, OnceBeginsKeeps, OnceReturnsKeeps,
    OnceThrowsKeeps
<1>5. ASSUME NEW s \in User,
             \/ BeginScope(s) \/ Execute(s) \/ ExecuteThrows(s) \/ Throw(s)
             \/ Commit(s) \/ Rollback(s) \/ EndScope(s)
      PROVE  SessionInv'
  BY <1>5, BeginScopeKeeps, ExecuteKeeps, ExecuteThrowsKeeps, ThrowKeeps, CommitKeeps,
    RollbackKeeps, EndScopeKeeps
<1> QED BY <1>1, <1>2, <1>3, <1>4, <1>5 DEF SessionNext

LEMMA SessionInvAlways == SessionSpec => []SessionInv
BY SessionInitInv, SessionStepInv, PTL DEF SessionSpec

------------------------------------------------------------------------------
(* The fields of sessions, connections and the server keep their types.    *)
THEOREM SessionTypesHold == SessionSpec => []SessionTypeOK
<1>1. SessionInv => SessionTypeOK BY DEF SessionInv
<1> QED BY <1>1, SessionInvAlways, PTL

(* The rows of a committed scope are all in the database and those of any  *)
(* other are not, whatever the connection is used for next, wherever the   *)
(* process ends, and whatever leaves the scope.  Of a scope in which the   *)
(* program has handled an exception of Execute, which may have undone the  *)
(* transaction, this is said of what it wrote after the last of them, if   *)
(* it is committed, and of what it wrote before the first, if it is not.   *)
THEOREM TransactionsAreWhole == SessionSpec => []AllOrNothing
<1>1. SessionInv => AllOrNothing BY DEF SessionInv
<1> QED BY <1>1, SessionInvAlways, PTL

(* A connection in the pool has no transaction open, no failed call behind *)
(* it, and a once_called_ that tells whether the functor has completed.    *)
THEOREM IdleConnectionsAreFit == SessionSpec => []PooledIsFit
<1>1. SessionInv => PooledIsFit
  <2> SUFFICES ASSUME SessionInv, NEW c \in idle
               PROVE  /\ c \notin in_transaction /\ c \notin thrown
                      /\ completed[c] = IF c \in once_called THEN 1 ELSE 0
    BY DEF PooledIsFit
  <2>1. c \notin in_transaction
    BY DEF SessionInv, Pending, InTransaction, Leases, Scopes
  <2>2. c \notin thrown /\ completed[c] = IF c \in once_called THEN 1 ELSE 0
    BY DEF SessionInv, SessionTypeOK, Fit
  <2> QED BY <2>1, <2>2
<1> QED BY <1>1, SessionInvAlways, PTL
------------------------------------------------------------------------------
(* Statements and results.                                                 *)

USE ResultsAssumption

(* The rows taken from the driver result behind r are those its calls of   *)
(* Next asked for, as long as there were any.                              *)
Read(r) ==
  LET a == db_result[r]
      kept == stored[Keeper(statement[a], a)] IN
  a # NoAnswer =>
    /\ statement[a] \in Native
    /\ Whole(a) =>
         /\ kept.taken <= kept.total /\ kept.taken <= current_row[a]
         /\ kept.taken = kept.total \/ kept.taken = current_row[a]
         /\ r \in eof => kept.taken = kept.total
         /\ a \in single => kept.taken = kept.total /\ kept.total <= 1
         /\ a \in single /\ kept.total = 0 => r \in eof

Reading ==
  /\ \A r \in ResultVar : Read(r)
  /\ \A a \in single : \E r \in ResultVar : db_result[r] = a

ResultsInv == ResultsTypeOK /\ HeldTogether /\ Reading

(* What is behind a result that is still held is as the step left it.      *)
LEMMA DeletesOthers ==
  ASSUME NEW statements, NEW rows, NEW kept, NEW ones,
         Deletes(statements, rows, kept, ones),
         NEW r \in ResultVar, db_result'[r] \in Answer
  PROVE  LET a == db_result'[r] IN
         /\ statement'[a] = statements[a]
         /\ current_row'[a] = rows[a]
         /\ a \in single' <=> a \in ones
         /\ \A x \in Native \cup Answer : stored'[x].answer = a => stored'[x] = kept[x]
BY SMTT(20) DEF Deletes, NoRows, Rows

LEMMA DeletesTypes ==
  ASSUME NEW statements \in [Answer -> Native \cup {NoNative}],
         NEW rows \in [Answer -> Nat],
         NEW kept \in [Native \cup Answer ->
                        [total : Nat, taken : Nat, answer : Answer \cup {NoAnswer}]],
         NEW ones \in SUBSET Answer,
         Deletes(statements, rows, kept, ones)
  PROVE  /\ statement' \in [Answer -> Native \cup {NoNative}]
         /\ current_row' \in [Answer -> Nat]
         /\ stored' \in [Native \cup Answer ->
                          [total : Nat, taken : Nat, answer : Answer \cup {NoAnswer}]]
         /\ single' \subseteq Answer
         /\ \A a \in single' : \E r \in ResultVar : db_result'[r] = a
<1>1. NoRows \in [total : Nat, taken : Nat, answer : Answer \cup {NoAnswer}]
  BY DEF NoRows, Rows
<1> HIDE DEF NoRows
<1>2. statement' \in [Answer -> Native \cup {NoNative}] /\ current_row' \in [Answer -> Nat]
  BY DEF Deletes
<1>3. \A x \in Native \cup Answer :
        stored'[x] \in [total : Nat, taken : Nat, answer : Answer \cup {NoAnswer}]
  BY <1>1, SMTT(20) DEF Deletes
<1>4. stored' = [x \in Native \cup Answer |-> stored'[x]]  BY SMTT(20) DEF Deletes
<1> DEFINE R == [total : Nat, taken : Nat, answer : Answer \cup {NoAnswer}]
<1>5. stored' \in [Native \cup Answer -> R]
  <2> HIDE DEF R
  <2> QED BY <1>3, <1>4 DEF R
<1> QED BY <1>2, <1>5, SMTT(20) DEF Deletes

LEMMA TakesTypes ==
  ASSUME ResultsTypeOK, NEW h \in Holder, NEW c \in Link \cup {NoLink}, Takes(h, c)
  PROVE  held_connection' \in [Holder -> Link \cup {NoLink}] /\ available' \subseteq Link
BY SMTT(20) DEF ResultsTypeOK, Takes

(* Initially, and after each action.                                       *)
LEMMA ResultsInitInv == ResultsInit => ResultsInv
BY SMTT(20) DEF ResultsInit, ResultsInv, ResultsTypeOK, HeldTogether, Reading, Read,
  NoRows, Rows, Holder

LEMMA OpenSessionKeeps ==
  ASSUME ResultsInv, NEW p \in Program, OpenSession(p)
  PROVE  ResultsInv'
<1> USE DEF ResultsInv, ResultsTypeOK, OpenSession, handles, answers, Holder
<1>1. ResultsTypeOK'  BY SMTT(20) DEF Takes, NoRows, Rows, Native
<1>2. HeldTogether'  BY SMTT(20) DEF HeldTogether, ProgramOf, Takes
<1>3. Reading'  BY SMTT(20) DEF Reading, Read, Keeper, Whole, NoRows, Rows, Native
<1> QED BY <1>1, <1>2, <1>3

LEMMA EndSessionKeeps ==
  ASSUME ResultsInv, NEW p \in Program, EndSession(p)
  PROVE  ResultsInv'
<1> USE DEF ResultsInv, ResultsTypeOK, EndSession, handles, answers, Holder
<1>1. ResultsTypeOK'  BY SMTT(20) DEF Takes, NoRows, Rows, Native
<1>2. HeldTogether'  BY SMTT(20) DEF HeldTogether, ProgramOf, Takes
<1>3. Reading'  BY SMTT(20) DEF Reading, Read, Keeper, Whole, NoRows, Rows, Native
<1> QED BY <1>1, <1>2, <1>3

LEMMA PrepareKeeps ==
  ASSUME ResultsInv, NEW x \in StatementVar, Prepare(x)
  PROVE  ResultsInv'
<1> USE DEF ResultsInv, ResultsTypeOK, Prepare, handles, answers, Holder
<1>1. ResultsTypeOK'  BY SMTT(20) DEF Takes, NoRows, Rows, Native
<1>2. HeldTogether'  BY SMTT(20) DEF HeldTogether, ProgramOf, Takes
<1>3. Reading'  BY SMTT(20) DEF Reading, Read, Keeper, Whole, NoRows, Rows, Native
<1> QED BY <1>1, <1>2, <1>3

LEMMA CopyStatementKeeps ==
  ASSUME ResultsInv, NEW x \in StatementVar, NEW y \in StatementVar, CopyStatement(x, y)
  PROVE  ResultsInv'
<1> USE DEF ResultsInv, ResultsTypeOK, CopyStatement, handles, answers, Holder
<1>1. ResultsTypeOK'  BY SMTT(20) DEF Takes, NoRows, Rows, Native
<1>2. HeldTogether'  BY SMTT(20) DEF HeldTogether, ProgramOf, Takes
<1>3. Reading'  BY SMTT(20) DEF Reading, Read, Keeper, Whole, NoRows, Rows, Native
<1> QED BY <1>1, <1>2, <1>3

LEMMA ClearStatementKeeps ==
  ASSUME ResultsInv, NEW x \in StatementVar, ClearStatement(x)
  PROVE  ResultsInv'
<1> USE DEF ResultsInv, ResultsTypeOK, ClearStatement, handles, answers, Holder
<1>1. ResultsTypeOK'  BY SMTT(20) DEF Takes, NoRows, Rows, Native
<1>2. HeldTogether'  BY SMTT(20) DEF HeldTogether, ProgramOf, Takes
<1>3. Reading'  BY SMTT(20) DEF Reading, Read, Keeper, Whole, NoRows, Rows, Native
<1> QED BY <1>1, <1>2, <1>3

LEMMA RunKeeps ==
  ASSUME ResultsInv, NEW x \in StatementVar, Run(x)
  PROVE  ResultsInv'
<1> USE DEF ResultsInv, ResultsTypeOK, Run, handles, answers, Holder
<1>1. ResultsTypeOK'  BY SMTT(20) DEF Takes, NoRows, Rows, Native
<1>2. HeldTogether'  BY SMTT(20) DEF HeldTogether, ProgramOf, Takes
<1>3. Reading'  BY SMTT(20) DEF Reading, Read, Keeper, Whole, NoRows, Rows, Native
<1> QED BY <1>1, <1>2, <1>3

LEMMA CopyResultKeeps ==
  ASSUME ResultsInv, NEW r \in ResultVar, NEW s \in ResultVar, CopyResult(r, s)
  PROVE  ResultsInv'
<1> USE DEF ResultsInv, ResultsTypeOK, CopyResult, Holder
<1>1. ResultsTypeOK'
  <2>1. db_result' \in [ResultVar -> Answer \cup {NoAnswer}]
        /\ db_statement' \in [StatementVar \cup ResultVar -> Native \cup {NoNative}]
        /\ eof' \subseteq ResultVar
    BY DEF With
  <2>2. /\ statement' \in [Answer -> Native \cup {NoNative}]
        /\ current_row' \in [Answer -> Nat]
        /\ stored' \in [Native \cup Answer ->
                         [total : Nat, taken : Nat, answer : Answer \cup {NoAnswer}]]
        /\ single' \subseteq Answer
    BY DeletesTypes
  <2>3. held_connection' \in [Holder -> Link \cup {NoLink}] /\ available' \subseteq Link
    BY TakesTypes
  <2> QED BY <2>1, <2>2, <2>3
<1>2. HeldTogether'  BY SMTT(20) DEF HeldTogether, ProgramOf, Takes
<1>3. ASSUME NEW q \in ResultVar  PROVE Read(q)'
  <2> DEFINE a == db_result'[q]
  <2> SUFFICES ASSUME a # NoAnswer  PROVE Read(q)'  BY DEF Read
  <2>1. PICK o \in ResultVar : db_result[o] = a /\ (q \in eof' <=> o \in eof)
    BY DEF With
  <2>2. a \in Answer  BY <2>1
  <2>3. /\ statement'[a] = statement[a] /\ current_row'[a] = current_row[a]
        /\ a \in single' <=> a \in single
        /\ \A x \in Native \cup Answer : stored'[x].answer = a => stored'[x] = stored[x]
    BY <2>2, DeletesOthers
  <2>4. Read(o)  BY DEF Reading
  <2>5. Keeper(statement[a], a) \in Native \cup Answer
    BY <2>1, <2>2, <2>4 DEF Read, Keeper, Native
  <2> QED
    BY <2>1, <2>2, <2>3, <2>4, <2>5, SMTT(20) DEF Read, Whole
<1>4. \A a \in single' : \E q \in ResultVar : db_result'[q] = a
  BY DeletesTypes
<1> QED BY <1>1, <1>2, <1>3, <1>4 DEF Reading

LEMMA ClearResultKeeps ==
  ASSUME ResultsInv, NEW r \in ResultVar, ClearResult(r)
  PROVE  ResultsInv'
<1> USE DEF ResultsInv, ResultsTypeOK, ClearResult, Holder
<1>1. ResultsTypeOK'
  <2>1. db_result' \in [ResultVar -> Answer \cup {NoAnswer}]
        /\ db_statement' \in [StatementVar \cup ResultVar -> Native \cup {NoNative}]
        /\ eof' \subseteq ResultVar
    BY DEF With
  <2>2. /\ statement' \in [Answer -> Native \cup {NoNative}]
        /\ current_row' \in [Answer -> Nat]
        /\ stored' \in [Native \cup Answer ->
                         [total : Nat, taken : Nat, answer : Answer \cup {NoAnswer}]]
        /\ single' \subseteq Answer
    BY DeletesTypes
  <2>3. held_connection' \in [Holder -> Link \cup {NoLink}] /\ available' \subseteq Link
    BY TakesTypes
  <2> QED BY <2>1, <2>2, <2>3
<1>2. HeldTogether'  BY SMTT(20) DEF HeldTogether, ProgramOf, Takes
<1>3. ASSUME NEW q \in ResultVar  PROVE Read(q)'
  <2> DEFINE a == db_result'[q]
  <2> SUFFICES ASSUME a # NoAnswer  PROVE Read(q)'  BY DEF Read
  <2>1. PICK o \in ResultVar : db_result[o] = a /\ (q \in eof' <=> o \in eof)
    BY DEF With
  <2>2. a \in Answer  BY <2>1
  <2>3. /\ statement'[a] = statement[a] /\ current_row'[a] = current_row[a]
        /\ a \in single' <=> a \in single
        /\ \A x \in Native \cup Answer : stored'[x].answer = a => stored'[x] = stored[x]
    BY <2>2, DeletesOthers
  <2>4. Read(o)  BY DEF Reading
  <2>5. Keeper(statement[a], a) \in Native \cup Answer
    BY <2>1, <2>2, <2>4 DEF Read, Keeper, Native
  <2> QED
    BY <2>1, <2>2, <2>3, <2>4, <2>5, SMTT(20) DEF Read, Whole
<1>4. \A a \in single' : \E q \in ResultVar : db_result'[q] = a
  BY DeletesTypes
<1> QED BY <1>1, <1>2, <1>3, <1>4 DEF Reading

LEMMA AnswersKeeps ==
  ASSUME ResultsInv, NEW x \in StatementVar, NEW r \in ResultVar,
         db_statement[x] # NoNative, Owner[x] = Owner[r],
         NEW b \in Unused, NEW total \in Nat, NEW row \in {0, 1},
         row = 1 => total <= 1,
         Answers(x, r, b, total, row)
  PROVE  ResultsInv'
<1> USE DEF ResultsInv, ResultsTypeOK, Holder
<1> DEFINE n == db_statement[x]
           taken == IF row < total THEN row ELSE total
           statements == [statement EXCEPT ![b] = n]
           rows == [current_row EXCEPT ![b] = row]
           kept == [stored EXCEPT ![Keeper(n, b)] = Rows(total, taken, b)]
           ones == IF row > 0 THEN single \cup {b} ELSE single
<1>1. b \in Answer /\ n \in Native /\ taken \in Nat /\ (\A q \in ResultVar : db_result[q] # b)
  BY DEF Unused
<1>2. Keeper(n, b) \in Native \cup Answer  BY <1>1 DEF Keeper
<1>3. Deletes(statements, rows, kept, ones)  BY DEF Answers
<1>4. /\ statements \in [Answer -> Native \cup {NoNative}]
      /\ rows \in [Answer -> Nat]
      /\ kept \in [Native \cup Answer ->
                    [total : Nat, taken : Nat, answer : Answer \cup {NoAnswer}]]
      /\ ones \in SUBSET Answer
  <2>1. Rows(total, taken, b) \in [total : Nat, taken : Nat, answer : Answer \cup {NoAnswer}]
    BY <1>1 DEF Rows
  <2> QED BY <1>1, <1>2, <2>1
<1>5. ResultsTypeOK'
  <2>1. db_result' \in [ResultVar -> Answer \cup {NoAnswer}]
        /\ db_statement' \in [StatementVar \cup ResultVar -> Native \cup {NoNative}]
        /\ eof' \subseteq ResultVar
    BY <1>1 DEF Answers, With
  <2>2. /\ statement' \in [Answer -> Native \cup {NoNative}]
        /\ current_row' \in [Answer -> Nat]
        /\ stored' \in [Native \cup Answer ->
                         [total : Nat, taken : Nat, answer : Answer \cup {NoAnswer}]]
        /\ single' \subseteq Answer
    <3> HIDE DEF statements, rows, kept, ones
    <3> QED BY <1>3, <1>4, DeletesTypes
  <2>3. held_connection' \in [Holder -> Link \cup {NoLink}] /\ available' \subseteq Link
    <3>1. Takes(r, held_connection[x]) /\ held_connection[x] \in Link \cup {NoLink}
      BY DEF Answers
    <3> QED BY <3>1, TakesTypes
  <2>4. prepared_on' \in [Native -> Link \cup {NoLink}]  BY DEF Answers
  <2> QED BY <2>1, <2>2, <2>3, <2>4
<1>6. HeldTogether'  BY <1>1, SMTT(20) DEF HeldTogether, ProgramOf, Takes, Answers
<1>7. ASSUME NEW q \in ResultVar  PROVE Read(q)'
  <2> DEFINE a == db_result'[q]
  <2> SUFFICES ASSUME a # NoAnswer  PROVE Read(q)'  BY DEF Read
  <2>1. a \in Answer  BY <1>5
  <2>2. /\ statement'[a] = statements[a] /\ current_row'[a] = rows[a]
        /\ a \in single' <=> a \in ones
        /\ \A y \in Native \cup Answer : stored'[y].answer = a => stored'[y] = kept[y]
    <3> HIDE DEF statements, rows, kept, ones
    <3> QED BY <1>3, <2>1, DeletesOthers
  <2>3. CASE q = r
    <3>1. a = b /\ (q \in eof' <=> row > total)
      BY <2>3 DEF Answers, With
    <3>2. statements[b] = n /\ rows[b] = row /\ kept[Keeper(n, b)] = Rows(total, taken, b)
      BY <1>1, <1>2
    <3>3. b \in ones <=> row > 0
      <4>1. b \notin single  BY <1>1 DEF Reading
      <4> QED BY <4>1
    <3>4. Whole(b)' => stored'[Keeper(n, b)] = Rows(total, taken, b)
      BY <1>2, <2>2, <3>1, <3>2 DEF Whole
    <3> HIDE DEF statements, rows, kept, ones
    <3> QED BY <1>1, <1>2, <2>2, <3>1, <3>2, <3>3, <3>4, SMTT(20) DEF Read, Rows
  <2>4. CASE q # r
    <3>1. db_result[q] = a /\ a # b /\ (q \in eof' <=> q \in eof)
      BY <1>1, <2>4 DEF Answers, With
    <3>2. Read(q) /\ statement[a] \in Native  BY <3>1 DEF Reading, Read
    <3>3. statements[a] = statement[a] /\ rows[a] = current_row[a]
          /\ (a \in ones <=> a \in single)
      BY <2>1, <3>1
    <3>4. Keeper(statement[a], a) \in Native \cup Answer  BY <2>1, <3>2 DEF Keeper
    <3>5. ASSUME stored'[Keeper(statement[a], a)].answer = a
          PROVE  stored'[Keeper(statement[a], a)] = stored[Keeper(statement[a], a)]
      <4>2. stored'[Keeper(statement[a], a)] = kept[Keeper(statement[a], a)]
        BY <2>2, <3>4, <3>5
      <4>3. Keeper(statement[a], a) # Keeper(n, b)
        BY <1>2, <3>1, <3>4, <3>5, <4>2 DEF Rows
      <4> QED BY <3>4, <4>2, <4>3
    <3> HIDE DEF statements, rows, kept, ones
    <3> QED BY <2>2, <3>1, <3>2, <3>3, <3>4, <3>5, SMTT(20) DEF Read, Whole
  <2> QED BY <2>3, <2>4
<1>8. \A a \in single' : \E q \in ResultVar : db_result'[q] = a
  <2> HIDE DEF statements, rows, kept, ones
  <2> QED BY <1>3, <1>4, DeletesTypes
<1> QED BY <1>5, <1>6, <1>7, <1>8 DEF Reading

LEMMA QueryIntoKeeps ==
  ASSUME ResultsInv, NEW x \in StatementVar, NEW r \in ResultVar, QueryInto(x, r)
  PROVE  ResultsInv'
<1>1. PICK a \in Unused, total \in 0..MaxRows : Answers(x, r, a, total, 0)
  BY DEF QueryInto
<1>2. total \in Nat  OBVIOUS
<1> QED BY <1>1, <1>2, AnswersKeeps DEF QueryInto

LEMMA RowIntoKeeps ==
  ASSUME ResultsInv, NEW x \in StatementVar, NEW r \in ResultVar, RowInto(x, r)
  PROVE  ResultsInv'
<1>1. PICK a \in Unused, total \in 0..MaxRows :
        IF total > 0 /\ HasNext(1, total)
        THEN Run(x)
        ELSE Answers(x, r, a, total, 1)
  BY DEF RowInto, Run
<1>2. CASE total > 0 /\ HasNext(1, total)  BY <1>1, <1>2, RunKeeps
<1>3. CASE ~(total > 0 /\ HasNext(1, total))
  <2>1. total \in Nat /\ total <= 1  BY <1>3 DEF HasNext
  <2>2. Answers(x, r, a, total, 1)  BY <1>1, <1>3
  <2> QED BY <2>1, <2>2, AnswersKeeps DEF RowInto
<1> QED BY <1>2, <1>3

LEMMA NextRowKeeps ==
  ASSUME ResultsInv, NEW r \in ResultVar, NextRow(r)
  PROVE  ResultsInv'
<1> USE DEF ResultsInv, ResultsTypeOK, Holder
<1> DEFINE a == db_result[r]
           k == Keeper(statement[a], a)
<1>1. a \in Answer /\ statement[a] \in Native /\ Read(r) /\ stored[k].answer = a
  BY DEF NextRow, Reading, Read, Whole
<1>2. k \in Native \cup Answer  BY <1>1 DEF Keeper
<1>3. \/ /\ More(a) /\ eof' = eof
         /\ stored' = [stored EXCEPT ![k].taken = @ + 1]
      \/ ~More(a) /\ eof' = eof \cup {r} /\ stored' = stored
  BY DEF NextRow, Fetches
<1>4. current_row' = [current_row EXCEPT ![a] = @ + 1]
      /\ UNCHANGED <<held_connection, db_statement, db_result, available, prepared_on,
                     statement, single>>
  BY DEF NextRow, Fetches
<1>5. More(a) <=> stored[k].taken < stored[k].total  BY DEF More
<1> DEFINE R == [total : Nat, taken : Nat, answer : Answer \cup {NoAnswer}]
<1>6. stored' \in [Native \cup Answer -> R]
  <2>1. [stored[k] EXCEPT !.taken = @ + 1] \in R  BY <1>2
  <2>2. stored \in [Native \cup Answer -> R]  OBVIOUS
  <2> HIDE DEF R, k
  <2>3. CASE More(a)
    <3>1. stored' = [stored EXCEPT ![k] = [stored[k] EXCEPT !.taken = @ + 1]]
      BY <1>3, <2>3
    <3> QED BY <1>2, <2>1, <2>2, <3>1
  <2>4. CASE ~More(a)  BY <1>3, <2>2, <2>4
  <2> QED BY <2>3, <2>4
<1>7. ResultsTypeOK'
  <2>1. current_row' \in [Answer -> Nat] /\ eof' \subseteq ResultVar  BY <1>1, <1>3, <1>4
  <2> QED BY <2>1, <1>4, <1>6
<1>8. HeldTogether'  BY <1>4, SMTT(20) DEF HeldTogether, ProgramOf
<1>9. ASSUME NEW q \in ResultVar  PROVE Read(q)'
  <2> DEFINE b == db_result[q]
             j == Keeper(statement[b], b)
  <2> SUFFICES ASSUME b # NoAnswer  PROVE Read(q)'  BY <1>4 DEF Read
  <2>1. b \in Answer /\ statement[b] \in Native /\ Read(q)  BY DEF Reading, Read
  <2>2. j \in Native \cup Answer  BY <2>1 DEF Keeper
  <2>3. \A y \in Native \cup Answer :
          /\ stored'[y].answer = stored[y].answer /\ stored'[y].total = stored[y].total
          /\ stored'[y].taken = IF y = k /\ More(a) THEN stored[y].taken + 1 ELSE stored[y].taken
    BY <1>2, <1>3, SMTT(20)
  <2>4. CASE b = a
    <3> HIDE DEF a, k
    <3> QED
      BY <1>1, <1>2, <1>3, <1>4, <1>5, <2>1, <2>2, <2>3, <2>4, SMTT(20) DEF Read, Whole, k
  <2>5. CASE b # a
    <3>1. current_row'[b] = current_row[b]  BY <1>4, <2>1, <2>5
    <3>2. q \in eof' <=> q \in eof  BY <1>3, <2>5
    <3>3. stored[j].answer = b => j # k  BY <1>1, <2>5
    <3> HIDE DEF a, k
    <3> QED BY <1>4, <2>1, <2>2, <2>3, <3>1, <3>2, <3>3, SMTT(20) DEF Read, Whole
  <2> QED BY <2>4, <2>5
<1>10. \A c \in single' : \E q \in ResultVar : db_result'[q] = c  BY <1>4 DEF Reading
<1> QED BY <1>7, <1>8, <1>9, <1>10 DEF Reading

LEMMA ResultsStepInv == ResultsInv /\ [ResultsNext]_resultVars => ResultsInv'
<1> SUFFICES ASSUME ResultsInv, [ResultsNext]_resultVars  PROVE ResultsInv'  OBVIOUS
<1>1. CASE UNCHANGED resultVars
  BY <1>1 DEF ResultsInv, ResultsTypeOK, HeldTogether, Reading, Read, Whole, resultVars
<1>2. CASE ResultsNext
  BY <1>2, OpenSessionKeeps, EndSessionKeeps, PrepareKeeps, ClearStatementKeeps, RunKeeps,
     CopyStatementKeeps, QueryIntoKeeps, RowIntoKeeps, NextRowKeeps, ClearResultKeeps,
     CopyResultKeeps DEF ResultsNext
<1> QED BY <1>1, <1>2

(* The fields of statements and results keep their types.                  *)
THEOREM ResultsTypesHold == ResultsSpec => []ResultsTypeOK
<1>1. ResultsInv => ResultsTypeOK  BY DEF ResultsInv
<1> QED BY <1>1, ResultsInitInv, ResultsStepInv, PTL DEF ResultsSpec

(* A statement or result is on the connection it was prepared on, which    *)
(* its program alone can reach, whatever was closed, copied and cleared    *)
(* before; and until the statement is run again no copy of its result      *)
(* misses a row, reports one that is not there, or ends early.             *)
THEOREM ResultsStayWhole == ResultsSpec => []ResultsAreWhole
<1>1. ResultsInv => ResultsAreWhole
  <2> SUFFICES ASSUME ResultsInv  PROVE NothingMissed
    BY DEF ResultsInv, ResultsAreWhole
  <2> SUFFICES ASSUME NEW r \in ResultVar, db_result[r] # NoAnswer, Whole(db_result[r])
               PROVE  LET a == db_result[r]
                          kept == stored[Keeper(statement[a], a)] IN
                      /\ r \in eof => kept.taken = kept.total
                      /\ HasNext(current_row[a], kept.total) <=> kept.taken < kept.total
                      /\ a \in single => kept.taken = kept.total /\ kept.total <= 1
                      /\ a \in single /\ kept.total = 0 => r \in eof
    BY DEF NothingMissed
  <2> DEFINE a == db_result[r]
             k == Keeper(statement[a], a)
  <2>1. Read(r) /\ a \in Answer  BY DEF ResultsInv, ResultsTypeOK, Reading
  <2>2. k \in Native \cup Answer  BY <2>1 DEF Read, Keeper
  <2>3. stored[k].taken \in Nat /\ stored[k].total \in Nat /\ current_row[a] \in Nat
    BY <2>1, <2>2 DEF ResultsInv, ResultsTypeOK
  <2> QED BY <2>1, <2>3, SMTT(20) DEF Read, HasNext
<1> QED BY <1>1, ResultsInitInv, ResultsStepInv, PTL DEF ResultsSpec
=============================================================================
