------------------------- MODULE ConnectionPoolProofs -------------------------
(***************************************************************************)
(* Machine-checked proofs about the connection pool, for any number of     *)
(* clients and connections, any limit and any life time.                   *)
(***************************************************************************)
EXTENDS ConnectionPoolProps, FiniteSetTheorems, SequenceTheorems, TLAPS

USE PoolAssumption

(* The types, the counter, the limit, and where a local is in use. *)
Shape ==
  /\ FieldsOK
  /\ LocalsOK
  /\ ref_count \in [Connection -> Int]
  /\ size = Len(connection_pool)
  /\ Len(connection_pool) <= Limit
  /\ \A c \in Client :
       /\ pc[c] = "dispose" => subject[c] # NoConnection
       /\ connection[c] # NoConnection => pc[c] \in {"getSweep", "connect"}
       /\ garbage[c] # {} => pc[c] \in {"getSweep", "putSweep"}
       /\ subject[c] # NoConnection => pc[c] \in {"release", "dispose", "putLock"}

------------------------------------------------------------------------------
(* Lists of entries.                                                       *)

(* What a scan leaves is the list from its n-th entry on. *)
LEMMA AfterTyped ==
  ASSUME NEW s \in Seq(Entry), NEW n \in 0..Len(s)
  PROVE  /\ After(s, n) \in Seq(Entry)
         /\ Len(After(s, n)) = Len(s) - n
         /\ \A i \in 1..(Len(s) - n) : After(s, n)[i] = s[n + i]
<1>1. \A i \in (n + 1)..Len(s) : s[i] \in Entry
  OBVIOUS
<1>2. After(s, n) \in Seq(Entry)
  BY <1>1, SubSeqProperties DEF After
<1>3. Len(After(s, n)) = Len(s) - n
  BY <1>1, SubSeqProperties DEF After
<1>4. ASSUME NEW i \in 1..(Len(s) - n)
      PROVE  After(s, n)[i] = s[n + i]
  BY <1>1, <1>4, SubSeqProperties DEF After
<1> QED
  BY <1>2, <1>3, <1>4

(* pop_back() leaves all entries but the last. *)
LEMMA FrontTyped ==
  ASSUME NEW s \in Seq(Entry), s # <<>>
  PROVE  /\ Len(s) \in Nat \ {0}
         /\ SubSeq(s, 1, Len(s) - 1) \in Seq(Entry)
         /\ Len(SubSeq(s, 1, Len(s) - 1)) = Len(s) - 1
         /\ \A i \in 1..(Len(s) - 1) : SubSeq(s, 1, Len(s) - 1)[i] = s[i]
<1>1. Len(s) \in Nat \ {0}
  BY EmptySeq
<1>2. \A i \in 1..(Len(s) - 1) : s[i] \in Entry
  BY <1>1
<1>3. SubSeq(s, 1, Len(s) - 1) \in Seq(Entry)
  BY <1>1, <1>2, SubSeqProperties
<1>4. Len(SubSeq(s, 1, Len(s) - 1)) = Len(s) - 1
  <2> DEFINE k == Len(s) - 1
  <2>1. k \in Nat /\ \A i \in 1..k : s[i] \in Entry
    BY <1>1, <1>2
  <2> HIDE DEF k
  <2>2. Len(SubSeq(s, 1, k)) = IF 1 <= k THEN k - 1 + 1 ELSE 0
    BY <2>1, SubSeqProperties
  <2>3. Len(SubSeq(s, 1, k)) = k
    BY <2>1, <2>2
  <2> QED
    BY <2>3 DEF k
<1>5. ASSUME NEW i \in 1..(Len(s) - 1)
      PROVE  SubSeq(s, 1, Len(s) - 1)[i] = s[i]
  <2>1. i \in 1..((Len(s) - 1) - 1 + 1) /\ 1 + i - 1 = i /\ Len(s) - 1 \in Int
    BY <1>1
  <2>2. SubSeq(s, 1, Len(s) - 1)[i] = s[1 + i - 1]
    BY <1>1, <1>2, <2>1, SubSeqProperties
  <2> QED
    BY <2>1, <2>2
<1> QED
  BY <1>1, <1>3, <1>4, <1>5

Distinct(s) == \A i, j \in DOMAIN s : s[i].connection = s[j].connection => i = j

(* The entries the scan takes and those it leaves share no connection.     *)
LEMMA AfterSplits ==
  ASSUME NEW s \in Seq(Entry), NEW n \in 0..Len(s)
  PROVE  /\ Connections(s) = FirstConnections(s, n) \cup Connections(After(s, n))
         /\ Distinct(s) => FirstConnections(s, n) \cap Connections(After(s, n)) = {}
         /\ Distinct(s) => Distinct(After(s, n))
<1>1. DOMAIN s = 1..Len(s) /\ DOMAIN After(s, n) = 1..(Len(s) - n) /\ Len(s) \in Nat
  BY AfterTyped, LenProperties
<1>2. \A i \in 1..(Len(s) - n) : After(s, n)[i] = s[n + i] /\ n + i \in DOMAIN s
  <2>1. \A i \in 1..(Len(s) - n) : After(s, n)[i] = s[n + i]
    BY AfterTyped
  <2>2. n \in Nat /\ \A i \in 1..(Len(s) - n) : n + i \in 1..Len(s)
    BY <1>1
  <2> QED
    BY <1>1, <2>1, <2>2
<1>3. \A k \in DOMAIN s : k \notin 1..n => k - n \in 1..(Len(s) - n) /\ s[k] = After(s, n)[k - n]
  BY <1>1, <1>2
<1>4. Connections(s) = FirstConnections(s, n) \cup Connections(After(s, n))
  <2>1. ASSUME NEW x \in Connections(s)
        PROVE  x \in FirstConnections(s, n) \cup Connections(After(s, n))
    BY <1>1, <1>3 DEF Connections, FirstConnections
  <2>2. ASSUME NEW x \in FirstConnections(s, n) \cup Connections(After(s, n))
        PROVE  x \in Connections(s)
    <3>1. CASE x \in FirstConnections(s, n)
      <4>1. 1..n \subseteq DOMAIN s
        BY <1>1
      <4> QED
        BY <3>1, <4>1 DEF Connections, FirstConnections
    <3>2. CASE x \in Connections(After(s, n))
      <4>1. PICK i \in 1..(Len(s) - n) : x = After(s, n)[i].connection
        BY <1>1, <3>2 DEF Connections
      <4>2. n + i \in DOMAIN s /\ x = s[n + i].connection
        BY <1>2, <4>1
      <4> QED
        BY <4>2 DEF Connections
    <3> QED
      BY <2>2, <3>1, <3>2
  <2> QED
    BY <2>1, <2>2
<1>5. ASSUME Distinct(s), NEW x \in FirstConnections(s, n), x \in Connections(After(s, n))
      PROVE  FALSE
  <2>1. PICK i \in 1..n : x = s[i].connection
    BY DEF FirstConnections
  <2>2. PICK j \in 1..(Len(s) - n) : x = After(s, n)[j].connection
    BY <1>1, <1>5 DEF Connections
  <2>3. i \in DOMAIN s /\ n + j \in DOMAIN s /\ s[n + j].connection = s[i].connection /\ i # n + j
    BY <1>1, <1>2, <2>1, <2>2
  <2> QED
    BY <1>5, <2>3 DEF Distinct
<1>6. ASSUME Distinct(s) PROVE Distinct(After(s, n))
  <2>1. ASSUME NEW i \in 1..(Len(s) - n), NEW j \in 1..(Len(s) - n),
               s[n + i].connection = s[n + j].connection
        PROVE  i = j
    BY <1>2, <1>6, <2>1 DEF Distinct
  <2> QED
    BY <1>1, <1>2, <2>1 DEF Distinct
<1> QED
  BY <1>4, <1>5, <1>6

(* The entry get() takes and those it leaves share no connection. *)
LEMMA FrontSplits ==
  ASSUME NEW s \in Seq(Entry), s # <<>>
  PROVE  /\ Connections(s) =
              Connections(SubSeq(s, 1, Len(s) - 1)) \cup {s[Len(s)].connection}
         /\ Distinct(s) => s[Len(s)].connection \notin Connections(SubSeq(s, 1, Len(s) - 1))
         /\ Distinct(s) => Distinct(SubSeq(s, 1, Len(s) - 1))
<1> DEFINE f == SubSeq(s, 1, Len(s) - 1)
<1>1. /\ DOMAIN s = 1..Len(s) /\ DOMAIN f = 1..(Len(s) - 1) /\ Len(s) \in Nat \ {0}
      /\ \A i \in 1..(Len(s) - 1) : f[i] = s[i]
  <2>1. f \in Seq(Entry) /\ Len(f) = Len(s) - 1
    BY FrontTyped
  <2> QED
    BY <2>1, FrontTyped, LenProperties
<1> HIDE DEF f
<1>2. Connections(s) = Connections(f) \cup {s[Len(s)].connection}
  <2>1. \A k \in DOMAIN s : k = Len(s) \/ (k \in DOMAIN f /\ f[k] = s[k])
    BY <1>1
  <2>2. \A k \in DOMAIN f : k \in DOMAIN s /\ f[k] = s[k]
    BY <1>1
  <2>3. Len(s) \in DOMAIN s
    BY <1>1
  <2> QED
    BY <2>1, <2>2, <2>3 DEF Connections
<1>3. ASSUME Distinct(s), s[Len(s)].connection \in Connections(f)
      PROVE  FALSE
  <2>1. PICK j \in DOMAIN f : s[Len(s)].connection = f[j].connection
    BY <1>3 DEF Connections
  <2>2. j \in DOMAIN s /\ Len(s) \in DOMAIN s /\ j # Len(s) /\ f[j] = s[j]
    BY <1>1, <2>1
  <2> QED
    BY <1>3, <2>1, <2>2 DEF Distinct
<1>4. ASSUME Distinct(s) PROVE Distinct(f)
  BY <1>1, <1>4 DEF Distinct
<1> QED
  BY <1>2, <1>3, <1>4 DEF f

------------------------------------------------------------------------------
(* Shape is inductive.                                                     *)

(* The list Put scans is one longer when a connection comes back. *)
LEMMA WithSubjectTyped ==
  ASSUME Shape, NEW c \in Client
  PROVE  /\ WithSubject(c) \in Seq(Entry)
         /\ Len(WithSubject(c)) = Counted(c)
         /\ Counted(c) \in 0..(Limit + 1)
<1>1. connection_pool \in Seq(Entry) /\ Len(connection_pool) \in Nat /\ clock \in Nat /\ now[c] \in Nat
  BY LenProperties DEF Shape, FieldsOK, LocalsOK
<1>2. CASE subject[c] = NoConnection
  BY <1>1, <1>2 DEF WithSubject, Counted, Shape
<1>3. CASE subject[c] # NoConnection
  <2> DEFINE e == [connection |-> subject[c], last_used |-> now[c], entered |-> clock]
  <2>1. e \in Entry
    BY <1>1, <1>3 DEF Entry, Shape, LocalsOK
  <2>2. WithSubject(c) = Append(connection_pool, e)
    BY <1>3 DEF WithSubject
  <2> HIDE DEF e
  <2>3. WithSubject(c) \in Seq(Entry) /\ Len(WithSubject(c)) = Len(connection_pool) + 1
    BY <1>1, <2>1, <2>2, AppendProperties
  <2> QED
    BY <1>1, <1>3, <2>3 DEF Counted, Shape
<1> QED
  BY <1>2, <1>3

(* What Put removes leaves a list no longer than the limit. *)
LEMMA PutKeepsLimit ==
  ASSUME Shape, NEW c \in Client, NEW n \in 0..Len(WithSubject(c))
  PROVE  /\ n + Excess(Counted(c) - n) \in 0..Len(WithSubject(c))
         /\ Counted(c) - (n + Excess(Counted(c) - n)) \in 0..Limit
<1>1. Counted(c) \in 0..(Limit + 1) /\ Len(WithSubject(c)) = Counted(c) /\ Limit \in Nat
  BY WithSubjectTyped
<1>2. CASE Counted(c) - n > Limit
  <2>1. Excess(Counted(c) - n) = 1
    BY <1>2 DEF Excess
  <2> QED
    BY <1>1, <1>2, <2>1
<1>3. CASE ~(Counted(c) - n > Limit)
  <2>1. Excess(Counted(c) - n) = 0
    BY <1>3 DEF Excess
  <2> QED
    BY <1>1, <1>3, <2>1
<1> QED
  BY <1>2, <1>3

LEMMA ShapeInit == Init => Shape
<1> SUFFICES ASSUME Init PROVE Shape
  OBVIOUS
<1>1. connection_pool \in Seq(Entry) /\ Len(connection_pool) = 0
  BY EmptySeq DEF Init
<1>2. FieldsOK
  BY <1>1 DEF Init, FieldsOK
<1>3. LocalsOK
  BY DEF Init, LocalsOK, Label
<1> QED
  BY <1>1, <1>2, <1>3 DEF Init, Shape

(* Taking entries off the list keeps its type and the counter in step. *)
LEMMA GetTakes ==
  ASSUME Shape, NEW c \in Client, Get(c)
  PROVE  /\ connection_pool' \in Seq(Entry)
         /\ size' = Len(connection_pool')
         /\ Len(connection_pool') <= Limit
         /\ connection' \in [Client -> Connection \cup {NoConnection}]
         /\ garbage' \in [Client -> SUBSET Connection]
         /\ \A d \in Client \ {c} : connection'[d] = connection[d] /\ garbage'[d] = garbage[d]
<1>1. PICK n \in 0..Len(connection_pool) :
        LET rest == After(connection_pool, n)
        IN  /\ garbage' = [garbage EXCEPT ![c] = FirstConnections(connection_pool, n)]
            /\ IF rest = <<>>
               THEN /\ connection_pool' = <<>>
                    /\ size' = size - n
                    /\ UNCHANGED connection
               ELSE /\ Take(c, rest)
                    /\ size' = size - n - 1
  BY DEF Get
<1> DEFINE rest == After(connection_pool, n)
<1>2. connection_pool \in Seq(Entry) /\ Len(connection_pool) \in Nat /\ n \in Nat
  BY LenProperties DEF Shape, FieldsOK
<1>3. rest \in Seq(Entry) /\ Len(rest) = Len(connection_pool) - n
  BY <1>2, AfterTyped
<1>4. \A i \in 1..n : connection_pool[i] \in Entry
  BY <1>2
<1>5. FirstConnections(connection_pool, n) \subseteq Connection
  BY <1>4 DEF FirstConnections, Entry
<1>6. garbage' \in [Client -> SUBSET Connection] /\ \A d \in Client \ {c} : garbage'[d] = garbage[d]
  BY <1>1, <1>5 DEF Shape, LocalsOK
<1> HIDE DEF rest
<1>7. CASE rest = <<>>
  <2>1. connection_pool' = <<>> /\ size' = size - n /\ connection' = connection
    BY <1>1, <1>7 DEF rest
  <2>2. connection_pool' \in Seq(Entry) /\ Len(connection_pool') = 0 /\ Len(rest) = 0
    BY <1>7, <2>1, EmptySeq
  <2> QED
    BY <1>2, <1>3, <1>6, <2>1, <2>2 DEF Shape, LocalsOK
<1>8. CASE rest # <<>>
  <2>1. /\ connection_pool' = SubSeq(rest, 1, Len(rest) - 1)
        /\ connection' = [connection EXCEPT ![c] = rest[Len(rest)].connection]
        /\ size' = size - n - 1
    BY <1>1, <1>8 DEF rest, Take
  <2>2. Len(rest) \in Nat \ {0} /\ connection_pool' \in Seq(Entry) /\ Len(connection_pool') = Len(rest) - 1
    BY <1>3, <1>8, <2>1, FrontTyped
  <2>3. rest[Len(rest)] \in Entry
    BY <1>3, <2>2, ElementOfSeq
  <2>4. connection' \in [Client -> Connection \cup {NoConnection}]
    BY <2>1, <2>3 DEF Entry, Shape, LocalsOK
  <2> QED
    BY <1>2, <1>3, <1>6, <2>1, <2>2, <2>4 DEF Shape, LocalsOK
<1> QED
  BY <1>7, <1>8

LEMMA PutTakes ==
  ASSUME Shape, NEW c \in Client, Put(c)
  PROVE  /\ connection_pool' \in Seq(Entry)
         /\ size' = Len(connection_pool')
         /\ Len(connection_pool') <= Limit
         /\ garbage' \in [Client -> SUBSET Connection]
         /\ \A d \in Client \ {c} : garbage'[d] = garbage[d]
<1>1. PICK n \in 0..Len(WithSubject(c)) :
        LET gone == n + Excess(Counted(c) - n)
        IN  /\ connection_pool' = After(WithSubject(c), gone)
            /\ size' = Counted(c) - gone
            /\ garbage' = [garbage EXCEPT ![c] = FirstConnections(WithSubject(c), gone)]
  BY DEF Put
<1> DEFINE gone == n + Excess(Counted(c) - n)
<1>2. gone \in 0..Len(WithSubject(c)) /\ Counted(c) - gone \in 0..Limit
  BY PutKeepsLimit
<1>3. WithSubject(c) \in Seq(Entry) /\ Len(WithSubject(c)) = Counted(c) /\ Counted(c) \in Nat
  BY WithSubjectTyped
<1>4. connection_pool' \in Seq(Entry) /\ Len(connection_pool') = Counted(c) - gone
  BY <1>1, <1>2, <1>3, AfterTyped
<1>5. \A i \in 1..gone : WithSubject(c)[i] \in Entry
  BY <1>2, <1>3
<1>6. FirstConnections(WithSubject(c), gone) \subseteq Connection
  BY <1>5 DEF FirstConnections, Entry
<1> QED
  BY <1>1, <1>2, <1>4, <1>6 DEF Shape, LocalsOK

LEMMA ShapeNext == Shape /\ [Next]_vars => Shape'
<1> SUFFICES ASSUME Shape, [Next]_vars PROVE Shape'
  OBVIOUS
<1> USE DEF Shape, FieldsOK, LocalsOK, Label, objects, locals, Goto
<1>1. ASSUME NEW c \in Client, Open(c) PROVE Shape'
  <2>1. FieldsOK'
    BY <1>1 DEF Open
  <2>2. LocalsOK'
    <3>1. pc' \in [Client -> Label]
      BY <1>1 DEF Open
    <3>2. now' \in [Client -> Nat]
      BY <1>1 DEF Open
    <3>3. subject' \in [Client -> Connection \cup {NoConnection}]
      BY <1>1 DEF Open
    <3> QED
      BY <1>1, <3>1, <3>2, <3>3 DEF Open
  <2>3. /\ ref_count' \in [Connection -> Int]
        /\ size' = Len(connection_pool') /\ Len(connection_pool') <= Limit
    BY <1>1 DEF Open
  <2>4. \A d \in Client :
          /\ pc'[d] = "dispose" => subject'[d] # NoConnection
          /\ connection'[d] # NoConnection => pc'[d] \in {"getSweep", "connect"}
          /\ garbage'[d] # {} => pc'[d] \in {"getSweep", "putSweep"}
          /\ subject'[d] # NoConnection => pc'[d] \in {"release", "dispose", "putLock"}
    BY <1>1 DEF Open
  <2> QED
    BY <2>1, <2>2, <2>3, <2>4
<1>2. ASSUME NEW c \in Client, Reuse(c) PROVE Shape'
  BY <1>2 DEF Reuse, Adopt
<1>3. ASSUME NEW c \in Client, Connect(c) PROVE Shape'
  BY <1>3 DEF Connect, Adopt
<1>4. ASSUME NEW c \in Client, ConnectFails(c) PROVE Shape'
  BY <1>4 DEF ConnectFails
<1>5. ASSUME NEW c \in Client, NEW d \in Client, Copy(c, d) PROVE Shape'
  BY <1>5 DEF Copy, Adopt
<1>6. ASSUME NEW c \in Client, Close(c) PROVE Shape'
  BY <1>6 DEF Close, Adopt
<1>7. ASSUME NEW c \in Client, NEW v \in BOOLEAN, SetRecyclable(c, v) PROVE Shape'
  BY <1>7 DEF SetRecyclable
<1>8. ASSUME NEW c \in Client, Release(c) PROVE Shape'
  <2>1. FieldsOK'
    BY <1>8 DEF Release
  <2>2. LocalsOK'
    BY <1>8 DEF Release
  <2>3. /\ ref_count' \in [Connection -> Int]
        /\ size' = Len(connection_pool') /\ Len(connection_pool') <= Limit
    BY <1>8 DEF Release
  <2>4. \A d \in Client :
          /\ pc'[d] = "dispose" => subject'[d] # NoConnection
          /\ connection'[d] # NoConnection => pc'[d] \in {"getSweep", "connect"}
          /\ garbage'[d] # {} => pc'[d] \in {"getSweep", "putSweep"}
          /\ subject'[d] # NoConnection => pc'[d] \in {"release", "dispose", "putLock"}
    BY <1>8 DEF Release
  <2> QED
    BY <2>1, <2>2, <2>3, <2>4
<1>9. ASSUME NEW c \in Client, Dispose(c) PROVE Shape'
  <2>1. FieldsOK'
    BY <1>9 DEF Dispose, Detach
  <2>2. LocalsOK'
    <3>1. pc' \in [Client -> Label]
      BY <1>9 DEF Dispose
    <3>2. now' \in [Client -> Nat]
      BY <1>9 DEF Dispose
    <3>3. subject' \in [Client -> Connection \cup {NoConnection}]
      BY <1>9 DEF Dispose
    <3> QED
      BY <1>9, <3>1, <3>2, <3>3 DEF Dispose
  <2>3. /\ ref_count' \in [Connection -> Int]
        /\ size' = Len(connection_pool') /\ Len(connection_pool') <= Limit
    BY <1>9 DEF Dispose, Detach
  <2>4. \A d \in Client :
          /\ pc'[d] = "dispose" => subject'[d] # NoConnection
          /\ connection'[d] # NoConnection => pc'[d] \in {"getSweep", "connect"}
          /\ garbage'[d] # {} => pc'[d] \in {"getSweep", "putSweep"}
          /\ subject'[d] # NoConnection => pc'[d] \in {"release", "dispose", "putLock"}
    BY <1>9 DEF Dispose, Detach
  <2> QED
    BY <2>1, <2>2, <2>3, <2>4
<1>10. ASSUME NEW c \in Client, GC(c) PROVE Shape'
  BY <1>10 DEF GC
<1>11. ASSUME NEW c \in Client, Clear(c) PROVE Shape'
  <2>1. FieldsOK'
    BY <1>11, EmptySeq DEF Clear, Connections, Entry
  <2>2. LocalsOK'
    <3>1. \A i \in DOMAIN connection_pool : connection_pool[i] \in Entry
      OBVIOUS
    <3>2. Connections(connection_pool) \subseteq Connection
      BY <3>1 DEF Connections, Entry
    <3> QED
      BY <1>11, <3>2 DEF Clear
  <2>3. /\ ref_count' \in [Connection -> Int]
        /\ size' = Len(connection_pool') /\ Len(connection_pool') <= Limit
    BY <1>11, EmptySeq DEF Clear, Connections, Entry
  <2>4. \A d \in Client :
          /\ pc'[d] = "dispose" => subject'[d] # NoConnection
          /\ connection'[d] # NoConnection => pc'[d] \in {"getSweep", "connect"}
          /\ garbage'[d] # {} => pc'[d] \in {"getSweep", "putSweep"}
          /\ subject'[d] # NoConnection => pc'[d] \in {"release", "dispose", "putLock"}
    BY <1>11, EmptySeq DEF Clear, Connections, Entry
  <2> QED
    BY <2>1, <2>2, <2>3, <2>4
<1>12. ASSUME NEW c \in Client, Sweep(c) PROVE Shape'
  BY <1>12 DEF Sweep
<1>13. ASSUME NEW c \in Client, Get(c) PROVE Shape'
  BY <1>13, GetTakes DEF Get
<1>14. ASSUME NEW c \in Client, Put(c) PROVE Shape'
  <2>1. FieldsOK'
    BY <1>14, PutTakes DEF Put
  <2>2. LocalsOK'
    BY <1>14, PutTakes DEF Put
  <2>3. /\ ref_count' \in [Connection -> Int]
        /\ size' = Len(connection_pool') /\ Len(connection_pool') <= Limit
    <3>1. ref_count' \in [Connection -> Int]
      BY <1>14 DEF Put
    <3> QED
      BY <1>14, <3>1, PutTakes
  <2>4. \A d \in Client :
          /\ pc'[d] = "dispose" => subject'[d] # NoConnection
          /\ connection'[d] # NoConnection => pc'[d] \in {"getSweep", "connect"}
          /\ garbage'[d] # {} => pc'[d] \in {"getSweep", "putSweep"}
          /\ subject'[d] # NoConnection => pc'[d] \in {"release", "dispose", "putLock"}
    BY <1>14, PutTakes DEF Put
  <2> QED
    BY <2>1, <2>2, <2>3, <2>4
<1>15. ASSUME Tick PROVE Shape'
  BY <1>15 DEF Tick
<1>16. ASSUME UNCHANGED vars PROVE Shape'
  BY <1>16 DEF vars
<1> QED
  BY <1>1, <1>2, <1>3, <1>4, <1>5, <1>6, <1>7, <1>8, <1>9, <1>10, <1>11, <1>12, <1>13, <1>14, <1>15, <1>16 DEF Next, OpenStep, SessionStep, ReturnStep
------------------------------------------------------------------------------
(* What get() hands out is fresh.                                          *)

(* A list whose entries came in one after the other, until time t. *)
InOrder(s, t) ==
  /\ \A i \in 1..Len(s) : s[i].last_used <= s[i].entered /\ s[i].entered <= t
  /\ \A i, j \in 1..Len(s) : i <= j => s[i].entered <= s[j].entered

Dated == InOrder(connection_pool, clock) /\ \A c \in Client : now[c] <= clock

LEMMA AfterInOrder ==
  ASSUME NEW s \in Seq(Entry), NEW t, NEW n \in 0..Len(s), InOrder(s, t)
  PROVE  InOrder(After(s, n), t)
<1>1. Len(After(s, n)) = Len(s) - n /\ \A i \in 1..(Len(s) - n) : After(s, n)[i] = s[n + i]
  BY AfterTyped
<1>2. Len(s) \in Nat /\ n \in Nat /\ n <= Len(s)
  BY LenProperties
<1>3. \A i \in 1..(Len(s) - n) : n + i \in 1..Len(s)
  BY <1>2
<1>4. \A i, j \in 1..(Len(s) - n) : i <= j => n + i <= n + j
  BY <1>2
<1> QED
  BY <1>1, <1>3, <1>4 DEF InOrder

LEMMA FrontInOrder ==
  ASSUME NEW s \in Seq(Entry), NEW t, s # <<>>, InOrder(s, t)
  PROVE  InOrder(SubSeq(s, 1, Len(s) - 1), t)
<1> DEFINE f == SubSeq(s, 1, Len(s) - 1)
<1>1. Len(s) \in Nat \ {0} /\ Len(f) = Len(s) - 1 /\ \A i \in 1..(Len(s) - 1) : f[i] = s[i]
  BY FrontTyped
<1> HIDE DEF f
<1>2. InOrder(f, t)
  BY <1>1 DEF InOrder
<1> QED
  BY <1>2 DEF f

LEMMA WithSubjectInOrder ==
  ASSUME Shape, Dated, NEW c \in Client
  PROVE  InOrder(WithSubject(c), clock)
<1>1. CASE subject[c] = NoConnection
  BY <1>1 DEF WithSubject, Dated
<1>2. CASE subject[c] # NoConnection
  <2> DEFINE e == [connection |-> subject[c], last_used |-> now[c], entered |-> clock]
  <2>1. connection_pool \in Seq(Entry) /\ Len(connection_pool) \in Nat /\ clock \in Nat /\ now[c] \in Nat
    BY LenProperties DEF Shape, FieldsOK, LocalsOK
  <2>2. e \in Entry /\ e.last_used <= clock /\ e.entered = clock
    BY <1>2, <2>1 DEF Entry, Shape, LocalsOK, Dated
  <2>3. WithSubject(c) = Append(connection_pool, e)
    BY <1>2 DEF WithSubject
  <2> HIDE DEF e
  <2>4. /\ Len(WithSubject(c)) = Len(connection_pool) + 1
        /\ \A i \in 1..Len(connection_pool) : WithSubject(c)[i] = connection_pool[i]
        /\ WithSubject(c)[Len(connection_pool) + 1] = e
    BY <2>1, <2>2, <2>3, AppendProperties
  <2>5. \A i \in 1..(Len(connection_pool) + 1) :
          i = Len(connection_pool) + 1 \/ i \in 1..Len(connection_pool)
    BY <2>1
  <2>6. \A i \in 1..Len(WithSubject(c)) :
          /\ WithSubject(c)[i].last_used <= WithSubject(c)[i].entered
          /\ WithSubject(c)[i].entered <= clock
    BY <2>1, <2>2, <2>4, <2>5 DEF Dated, InOrder
  <2>7. ASSUME NEW i \in 1..Len(WithSubject(c)), NEW j \in 1..Len(WithSubject(c)), i <= j
        PROVE  WithSubject(c)[i].entered <= WithSubject(c)[j].entered
    <3>1. CASE j = Len(connection_pool) + 1
      BY <2>2, <2>4, <2>6, <3>1
    <3>2. CASE j \in 1..Len(connection_pool)
      <4>1. i \in 1..Len(connection_pool)
        BY <2>1, <2>7, <3>2
      <4> QED
        BY <2>4, <2>7, <3>2, <4>1 DEF Dated, InOrder
    <3> QED
      BY <2>4, <2>5, <3>1, <3>2
  <2> QED
    BY <2>6, <2>7 DEF InOrder
<1> QED
  BY <1>1, <1>2

LEMMA DatedInit == Init => Dated
  BY EmptySeq DEF Init, Dated, InOrder

LEMMA DatedNext == Shape /\ Dated /\ [Next]_vars => Dated'
<1> SUFFICES ASSUME Shape, Dated, [Next]_vars PROVE Dated'
  OBVIOUS
<1>0. connection_pool \in Seq(Entry) /\ clock \in Nat /\ now \in [Client -> Nat]
  BY DEF Shape, FieldsOK, LocalsOK
<1>1. ASSUME NEW c \in Client, Open(c) \/ GC(c) \/ Dispose(c)
      PROVE  Dated'
  BY <1>0, <1>1 DEF Open, GC, Dispose, Dated
<1>2. ASSUME NEW c \in Client, Get(c)
      PROVE  Dated'
  <2>1. PICK n \in 0..Len(connection_pool) :
          \/ connection_pool' = <<>>
          \/ After(connection_pool, n) # <<>> /\ Take(c, After(connection_pool, n))
    BY <1>2 DEF Get
  <2>2. After(connection_pool, n) \in Seq(Entry) /\ InOrder(After(connection_pool, n), clock)
    BY <1>0, AfterTyped, AfterInOrder DEF Dated
  <2>3. InOrder(connection_pool', clock)
    <3>1. CASE connection_pool' = <<>>
      BY <3>1, EmptySeq DEF InOrder
    <3>2. CASE After(connection_pool, n) # <<>> /\ Take(c, After(connection_pool, n))
      BY <2>2, <3>2, FrontInOrder DEF Take
    <3> QED
      BY <2>1, <3>1, <3>2
  <2> QED
    BY <1>2, <2>3 DEF Get, Dated
<1>3. ASSUME NEW c \in Client, Put(c)
      PROVE  Dated'
  <2>1. PICK n \in 0..Len(WithSubject(c)) :
          connection_pool' = After(WithSubject(c), n + Excess(Counted(c) - n))
    BY <1>3 DEF Put
  <2>2. InOrder(connection_pool', clock)
    BY <2>1, WithSubjectTyped, PutKeepsLimit, WithSubjectInOrder, AfterInOrder
  <2> QED
    BY <1>3, <2>2 DEF Put, Dated
<1>4. ASSUME NEW c \in Client, Clear(c)
      PROVE  Dated'
  BY <1>4, EmptySeq DEF Clear, Dated, InOrder
<1>5. ASSUME Tick
      PROVE  Dated'
  <2>1. \A i \in 1..Len(connection_pool) : connection_pool[i] \in Entry
    BY <1>0
  <2> QED
    BY <1>0, <1>5, <2>1 DEF Tick, Dated, InOrder, Entry, locals
<1>6. ASSUME NEW c \in Client,
             \/ Reuse(c) \/ Connect(c) \/ ConnectFails(c) \/ SessionStep(c)
             \/ Release(c) \/ Sweep(c)
      PROVE  Dated'
  <2>1. UNCHANGED <<connection_pool, clock, now>>
    BY <1>6 DEF Reuse, Connect, ConnectFails, SessionStep, Copy, Close, SetRecyclable, Release,
                Sweep, locals
  <2> QED
    BY <2>1 DEF Dated, InOrder
<1>7. ASSUME UNCHANGED vars
      PROVE  Dated'
  BY <1>7 DEF vars, locals, Dated, InOrder
<1> QED
  BY <1>1, <1>2, <1>3, <1>4, <1>5, <1>6, <1>7 DEF Next, OpenStep, ReturnStep

(* Among the entries that follow a fresh one, the last came in latest. *)
LEMMA GetIsFresh ==
  ASSUME Shape, Dated, NEW c \in Client, Get(c),
         connection[c] = NoConnection, connection'[c] # NoConnection
  PROVE  \E i \in DOMAIN connection_pool :
           /\ connection_pool[i].connection = connection'[c]
           /\ connection_pool[i].entered + LifeTime >= now[c]
<1>1. /\ connection_pool \in Seq(Entry) /\ Len(connection_pool) \in Nat
      /\ DOMAIN connection_pool = 1..Len(connection_pool)
      /\ connection \in [Client -> Connection \cup {NoConnection}]
      /\ now[c] \in Nat
  BY LenProperties DEF Shape, FieldsOK, LocalsOK
<1>2. PICK n \in 0..Len(connection_pool) :
        /\ Scans(connection_pool, n, now[c])
        /\ \/ connection' = connection
           \/ After(connection_pool, n) # <<>> /\ Take(c, After(connection_pool, n))
  BY DEF Get
<1> DEFINE rest == After(connection_pool, n)
           last == Len(connection_pool)
<1>3. rest # <<>> /\ connection'[c] = rest[Len(rest)].connection
  BY <1>1, <1>2 DEF Take
<1>4. /\ rest \in Seq(Entry) /\ Len(rest) = last - n
      /\ \A i \in 1..(last - n) : rest[i] = connection_pool[n + i]
  BY <1>1, AfterTyped
<1> HIDE DEF rest, last
<1>5. last \in Nat /\ n \in 0..last /\ Len(rest) \in Nat \ {0}
  BY <1>1, <1>3, <1>4, EmptySeq DEF last
<1>6. Len(rest) \in 1..(last - n) /\ n + Len(rest) = last
  BY <1>4, <1>5
<1>7. n < last /\ n + 1 \in 1..last /\ last \in 1..last /\ n + 1 <= last
  BY <1>5, <1>6
<1>8. rest[Len(rest)] = connection_pool[last]
  BY <1>4, <1>6
<1>9. ~(connection_pool[n + 1].last_used + LifeTime < now[c])
  BY <1>2, <1>7 DEF Scans, Stale, last
<1>10. /\ connection_pool[n + 1].last_used <= connection_pool[n + 1].entered
       /\ connection_pool[n + 1].entered <= connection_pool[last].entered
  BY <1>7 DEF Dated, InOrder, last
<1>11. connection_pool[n + 1] \in Entry /\ connection_pool[last] \in Entry
  BY <1>1, <1>7 DEF last
<1>12. connection_pool[last].entered + LifeTime >= now[c]
  <2>1. /\ connection_pool[n + 1].last_used \in Nat
        /\ connection_pool[n + 1].entered \in Nat
        /\ connection_pool[last].entered \in Nat
    BY <1>11 DEF Entry
  <2>2. now[c] \in Nat /\ LifeTime \in Nat
    BY <1>1
  <2>3. PICK used \in Nat : used = connection_pool[n + 1].last_used
    BY <2>1
  <2>4. PICK first \in Nat : first = connection_pool[n + 1].entered
    BY <2>1
  <2>5. PICK latest \in Nat : latest = connection_pool[last].entered
    BY <2>1
  <2>6. ~(used + LifeTime < now[c])
    BY <1>9, <2>3
  <2>7. used <= first /\ first <= latest
    BY <1>10, <2>3, <2>4, <2>5
  <2>8. latest + LifeTime >= now[c]
    BY <2>2, <2>6, <2>7
  <2> QED
    BY <2>5, <2>8
<1> QED
  BY <1>1, <1>3, <1>7, <1>8, <1>12 DEF last

(* Every way connection is set other than by get() clears it. *)
LEMMA OnlyGetHandsOut ==
  ASSUME Shape, [Next]_vars, NEW c \in Client,
         connection[c] = NoConnection, connection'[c] # NoConnection
  PROVE  Get(c)
<1>0. connection \in [Client -> Connection \cup {NoConnection}]
  BY DEF Shape, LocalsOK
<1>1. ASSUME NEW d \in Client, Get(d) PROVE d = c
  BY <1>1, GetTakes
<1>2. ASSUME NEW d \in Client, Reuse(d) PROVE FALSE
  BY <1>0, <1>2 DEF Reuse
<1>3. ASSUME \/ Tick \/ UNCHANGED vars
             \/ \E d \in Client : \/ Open(d) \/ Connect(d) \/ ConnectFails(d)
                                  \/ SessionStep(d) \/ ReturnStep(d)
      PROVE  FALSE
  BY <1>3 DEF Tick, vars, locals, Open, Connect, ConnectFails, SessionStep, Copy, Close,
              SetRecyclable, ReturnStep, Release, Dispose, GC, Put, Clear, Sweep
<1> QED
  BY <1>1, <1>2, <1>3 DEF Next, OpenStep

(* No connection that get() hands out had been in the pool for longer than *)
(* life_time_ at the time at which the thread read the clock.  How long it *)
(* then waited for the lock comes on top.                                  *)
THEOREM HandsOutFreshAtReading == Spec => FreshAtReading
<1>1. Init => Shape /\ Dated
  BY ShapeInit, DatedInit
<1>2. Shape /\ Dated /\ [Next]_vars => (Shape /\ Dated)'
  BY ShapeNext, DatedNext
<1>3. Shape /\ Dated /\ [Next]_vars =>
        [\A c \in Client :
          connection[c] = NoConnection /\ connection'[c] # NoConnection =>
            \E i \in DOMAIN connection_pool :
              /\ connection_pool[i].connection = connection'[c]
              /\ connection_pool[i].entered + LifeTime >= now[c]]_vars
  BY OnlyGetHandsOut, GetIsFresh
<1> QED
  BY <1>1, <1>2, <1>3, PTL DEF Spec, FreshAtReading

(* size_ is the length of the list whenever lock_ is free. *)
THEOREM SizeIsExact == Spec => []SizeExact
<1>1. Shape => SizeExact
  BY DEF Shape, SizeExact
<1> QED
  BY <1>1, ShapeInit, ShapeNext, PTL DEF Spec
------------------------------------------------------------------------------
(* Counting references.                                                    *)

Bit(b) == IF b THEN 1 ELSE 0

(* What of References(x) client c accounts for, what the pool does, and    *)
(* what the other clients do.                                              *)
Own(c, x) ==
  Bit(db_connection[c] = x) + Bit(connection[c] = x)
    + Bit(pc[c] = "release" /\ subject[c] = x) + Bit(x \in garbage[c])

Pooled(x) == Bit(x \in IdleConnections)

Elsewhere(c, x) ==
  Cardinality({d \in Client \ {c} : db_connection[d] = x})
    + Cardinality({d \in Client \ {c} : connection[d] = x})
    + Cardinality({d \in Client \ {c} : pc[d] = "release" /\ subject[d] = x})
    + Cardinality({d \in Client \ {c} : x \in garbage[d]})

(* A set of clients counts c once, or not at all, beside the others. *)
LEMMA CountApart ==
  ASSUME NEW S \in SUBSET Client, NEW c \in Client
  PROVE  /\ Cardinality(S \ {c}) \in Nat
         /\ Cardinality(S) = Cardinality(S \ {c}) + Bit(c \in S)
<1>1. IsFiniteSet(S)
  BY FS_Subset
<1>2. IsFiniteSet(S \ {c}) /\ Cardinality(S \ {c}) = IF c \in S THEN Cardinality(S) - 1 ELSE Cardinality(S)
  BY <1>1, FS_RemoveElement
<1>3. Cardinality(S) \in Nat /\ Cardinality(S \ {c}) \in Nat
  BY <1>1, <1>2, FS_CardinalityType
<1> QED
  BY <1>2, <1>3 DEF Bit

AddUp ==
  \A c \in Client, x \in Connection :
    /\ Elsewhere(c, x) \in Nat
    /\ References(x) = Elsewhere(c, x) + Own(c, x) + Pooled(x)

LEMMA ReferencesAddUp == Shape => AddUp
<1> SUFFICES ASSUME Shape, NEW c \in Client, NEW x \in Connection
             PROVE  /\ Elsewhere(c, x) \in Nat
                    /\ References(x) = Elsewhere(c, x) + Own(c, x) + Pooled(x)
  BY DEF AddUp
<1> DEFINE A == {d \in Client \ {c} : db_connection[d] = x}
           B == {d \in Client \ {c} : connection[d] = x}
           C == {d \in Client \ {c} : pc[d] = "release" /\ subject[d] = x}
           D == {d \in Client \ {c} : x \in garbage[d]}
<1>1. A = InSession(x) \ {c} /\ (c \in InSession(x) <=> db_connection[c] = x)
  BY DEF InSession
<1>2. B = Opening(x) \ {c} /\ (c \in Opening(x) <=> connection[c] = x)
  BY DEF Opening
<1>3. C = Releasing(x) \ {c} /\ (c \in Releasing(x) <=> pc[c] = "release" /\ subject[c] = x)
  BY DEF Releasing
<1>4. D = Sweeping(x) \ {c} /\ (c \in Sweeping(x) <=> x \in garbage[c])
  BY DEF Sweeping
<1> HIDE DEF A, B, C, D
<1>5. Cardinality(A) \in Nat /\ Cardinality(InSession(x)) = Cardinality(A) + Bit(db_connection[c] = x)
  BY <1>1, CountApart DEF InSession
<1>6. Cardinality(B) \in Nat /\ Cardinality(Opening(x)) = Cardinality(B) + Bit(connection[c] = x)
  BY <1>2, CountApart DEF Opening
<1>7. /\ Cardinality(C) \in Nat
      /\ Cardinality(Releasing(x)) = Cardinality(C) + Bit(pc[c] = "release" /\ subject[c] = x)
  BY <1>3, CountApart DEF Releasing
<1>8. Cardinality(D) \in Nat /\ Cardinality(Sweeping(x)) = Cardinality(D) + Bit(x \in garbage[c])
  BY <1>4, CountApart DEF Sweeping
<1>9. Elsewhere(c, x) = Cardinality(A) + Cardinality(B) + Cardinality(C) + Cardinality(D)
  BY DEF Elsewhere, A, B, C, D
<1> QED
  BY <1>5, <1>6, <1>7, <1>8, <1>9 DEF References, Own, Pooled, Bit

LEMMA ReferencesAddUpNext == Shape' => AddUp'
  BY ReferencesAddUp, PTL

Pointers(x) ==
  /\ References(x) \in Nat
  /\ x \in IdleConnections => References(x) >= 1
  /\ \A d \in Client :
       (\/ db_connection[d] = x
        \/ connection[d] = x
        \/ pc[d] = "release" /\ subject[d] = x
        \/ x \in garbage[d])
         => References(x) >= 1 + Pooled(x)
  /\ \A d, e \in Client :
       /\ x \in garbage[e]
       /\ \/ db_connection[d] = x
          \/ connection[d] = x
          \/ pc[d] = "release" /\ subject[d] = x
      => References(x) >= 2

PointersCount == \A x \in Connection : Pointers(x)

(* Each pointer to x is one reference more. *)
LEMMA EachPointerCounts == Shape => PointersCount
<1> SUFFICES ASSUME Shape, NEW x \in Connection PROVE Pointers(x)
  BY DEF PointersCount
<1>1. /\ IsFiniteSet(InSession(x)) /\ IsFiniteSet(Opening(x))
      /\ IsFiniteSet(Releasing(x)) /\ IsFiniteSet(Sweeping(x))
  BY FS_Subset DEF InSession, Opening, Releasing, Sweeping
<1>2. /\ Cardinality(InSession(x)) \in Nat /\ Cardinality(Opening(x)) \in Nat
      /\ Cardinality(Releasing(x)) \in Nat /\ Cardinality(Sweeping(x)) \in Nat
  BY <1>1, FS_CardinalityType
<1>3. /\ InSession(x) # {} => Cardinality(InSession(x)) # 0
      /\ Opening(x) # {} => Cardinality(Opening(x)) # 0
      /\ Releasing(x) # {} => Cardinality(Releasing(x)) # 0
      /\ Sweeping(x) # {} => Cardinality(Sweeping(x)) # 0
  BY <1>1, FS_EmptySet
<1>4. \A d \in Client :
        /\ db_connection[d] = x => InSession(x) # {}
        /\ connection[d] = x => Opening(x) # {}
        /\ pc[d] = "release" /\ subject[d] = x => Releasing(x) # {}
        /\ x \in garbage[d] => Sweeping(x) # {}
  BY DEF InSession, Opening, Releasing, Sweeping
<1>5. PICK i, o, r, g \in Nat :
        /\ i = Cardinality(InSession(x)) /\ o = Cardinality(Opening(x))
        /\ r = Cardinality(Releasing(x)) /\ g = Cardinality(Sweeping(x))
  BY <1>2
<1>6. References(x) = i + o + r + g + Pooled(x) /\ Pooled(x) \in {0, 1}
  BY <1>5 DEF References, Pooled, Bit
<1>7. x \in IdleConnections => Pooled(x) = 1
  BY DEF Pooled, Bit
<1>8. References(x) \in Nat /\ (x \in IdleConnections => References(x) >= 1)
  BY <1>6, <1>7
<1>9. ASSUME NEW d \in Client,
             \/ db_connection[d] = x \/ connection[d] = x
             \/ (pc[d] = "release" /\ subject[d] = x) \/ x \in garbage[d]
      PROVE  References(x) >= 1 + Pooled(x)
  <2>1. i # 0 \/ o # 0 \/ r # 0 \/ g # 0
    BY <1>3, <1>4, <1>5, <1>9
  <2> QED
    BY <1>6, <2>1
<1>10. ASSUME NEW d \in Client, NEW e \in Client, x \in garbage[e],
              \/ db_connection[d] = x \/ connection[d] = x
              \/ pc[d] = "release" /\ subject[d] = x
       PROVE  References(x) >= 2
  <2>1. g # 0 /\ (i # 0 \/ o # 0 \/ r # 0)
    BY <1>3, <1>4, <1>5, <1>10
  <2> QED
    BY <1>6, <2>1
<1> QED
  BY <1>8, <1>9, <1>10 DEF Pointers

LEMMA EachPointerCountsNext == Shape' => PointersCount'
  BY EachPointerCounts, PTL

------------------------------------------------------------------------------
(* Who holds a connection, and how its count, its status and its place in  *)
(* the pool agree.                                                         *)

Sound(x) ==
  /\ ref_count[x] = References(x)
  /\ status[x] = "live" <=> References(x) > 0 \/ Disposing(x) # {}
  /\ Disposing(x) # {} => References(x) = 0
  /\ \A c, d \in Disposing(x) : c = d
  /\ x \in IdleConnections => References(x) = 1 /\ x \notin attached
  /\ \A c \in Client : pc[c] = "putLock" /\ subject[c] = x => x \notin attached
  /\ \A c \in Client : x \in garbage[c] => References(x) = 1 /\ x \notin attached

Owned == Distinct(connection_pool) /\ \A x \in Connection : Sound(x)

(* A step of client c alone. *)
Alone(c) ==
  \A d \in Client \ {c} :
    /\ db_connection'[d] = db_connection[d]
    /\ connection'[d] = connection[d]
    /\ pc'[d] = pc[d]
    /\ subject'[d] = subject[d]
    /\ garbage'[d] = garbage[d]

LEMMA Frame ==
  ASSUME Shape, Shape', NEW c \in Client, Alone(c), NEW x \in Connection
  PROVE  \E n \in Nat : /\ References(x) = n + Own(c, x) + Pooled(x)
                        /\ References(x)' = n + Own(c, x)' + Pooled(x)'
<1>1. /\ Elsewhere(c, x) \in Nat
      /\ References(x) = Elsewhere(c, x) + Own(c, x) + Pooled(x)
  BY ReferencesAddUp DEF AddUp
<1>2. References(x)' = Elsewhere(c, x)' + Own(c, x)' + Pooled(x)'
  BY ReferencesAddUpNext DEF AddUp
<1>3. Elsewhere(c, x)' = Elsewhere(c, x)
  <2>1. {d \in Client \ {c} : db_connection'[d] = x} = {d \in Client \ {c} : db_connection[d] = x}
    BY DEF Alone
  <2>2. {d \in Client \ {c} : connection'[d] = x} = {d \in Client \ {c} : connection[d] = x}
    BY DEF Alone
  <2>3. {d \in Client \ {c} : pc'[d] = "release" /\ subject'[d] = x} =
          {d \in Client \ {c} : pc[d] = "release" /\ subject[d] = x}
    BY DEF Alone
  <2>4. {d \in Client \ {c} : x \in garbage'[d]} = {d \in Client \ {c} : x \in garbage[d]}
    BY DEF Alone
  <2> QED
    BY <2>1, <2>2, <2>3, <2>4 DEF Elsewhere
<1> QED
  BY <1>1, <1>2, <1>3

LEMMA DisposingFrame ==
  ASSUME NEW c \in Client, Alone(c), NEW x \in Connection
  PROVE  \A d \in Client \ {c} : d \in Disposing(x)' <=> d \in Disposing(x)
  BY DEF Alone, Disposing

(* What a step leaves alone stays sound. *)
LEMMA Untouched ==
  ASSUME Shape, Shape', NEW c \in Client, Alone(c), NEW x \in Connection, Sound(x),
         ref_count'[x] = ref_count[x],
         status'[x] = status[x],
         x \in attached' => x \in attached,
         x \in IdleConnections' <=> x \in IdleConnections,
         Own(c, x)' = Own(c, x),
         c \in Disposing(x)' <=> c \in Disposing(x),
         x \in garbage'[c] <=> x \in garbage[c],
         pc'[c] = "putLock" /\ subject'[c] = x => pc[c] = "putLock" /\ subject[c] = x
  PROVE  Sound(x)'
<1>1. References(x)' = References(x)
  <2>1. Pooled(x)' = Pooled(x)
    BY DEF Pooled, Bit
  <2> QED
    BY <2>1, Frame
<1>2. Disposing(x)' = Disposing(x)
  BY DisposingFrame DEF Disposing
<1>3. \A d \in Client : x \in garbage'[d] <=> x \in garbage[d]
  BY DEF Alone
<1>4. \A d \in Client : pc'[d] = "putLock" /\ subject'[d] = x => pc[d] = "putLock" /\ subject[d] = x
  BY DEF Alone
<1> QED
  BY <1>1, <1>2, <1>3, <1>4 DEF Sound

LEMMA IdleTyped ==
  ASSUME Shape
  PROVE  IdleConnections \subseteq Connection
<1>1. \A i \in DOMAIN connection_pool : connection_pool[i] \in Entry
  BY DEF Shape, FieldsOK
<1> QED
  BY <1>1 DEF IdleConnections, Connections, Entry

LEMMA OwnedInit == Init => Owned
<1> SUFFICES ASSUME Init PROVE Owned
  OBVIOUS
<1>1. Distinct(connection_pool) /\ IdleConnections = {}
  BY EmptySeq DEF Init, Distinct, IdleConnections, Connections
<1>2. ASSUME NEW x \in Connection PROVE Sound(x)
  <2>1. InSession(x) = {} /\ Opening(x) = {} /\ Releasing(x) = {} /\ Sweeping(x) = {} /\ Disposing(x) = {}
    BY DEF Init, InSession, Opening, Releasing, Sweeping, Disposing
  <2>2. References(x) = 0
    BY <1>1, <2>1, FS_EmptySet DEF References
  <2> QED
    BY <1>1, <2>1, <2>2 DEF Init, Sound
<1> QED
  BY <1>1, <1>2 DEF Owned

(* Steps after which every pointer is where it was. *)
LEMMA OwnedTick ==
  ASSUME Owned, UNCHANGED <<connection_pool, status, ref_count, attached, db_connection, pc,
                            connection, subject, garbage>>
  PROVE  Owned'
<1>1. IdleConnections' = IdleConnections
  BY DEF IdleConnections
<1>2. ASSUME NEW x \in Connection PROVE Sound(x)'
  <2>1. References(x)' = References(x) /\ Disposing(x)' = Disposing(x)
    BY <1>1 DEF References, InSession, Opening, Releasing, Sweeping, Disposing
  <2> QED
    BY <1>1, <2>1 DEF Owned, Sound
<1> QED
  BY <1>2 DEF Owned, Distinct

LEMMA OwnedQuiet ==
  ASSUME Shape, Shape', Owned, NEW c \in Client,
         Open(c) \/ GC(c) \/ ConnectFails(c) \/ \E v \in BOOLEAN : SetRecyclable(c, v)
  PROVE  Owned'
<1>1. /\ UNCHANGED <<connection_pool, status, ref_count, attached, db_connection, connection,
                     subject, garbage>>
      /\ pc[c] \in {"ready", "connect"} /\ subject[c] = NoConnection
      /\ pc'[c] \in {"ready", "connect", "getLock", "putLock"}
      /\ \A d \in Client \ {c} : pc'[d] = pc[d]
  BY DEF Open, GC, ConnectFails, SetRecyclable, Goto, objects, locals, Shape, LocalsOK
<1>2. Alone(c) /\ IdleConnections' = IdleConnections
  BY <1>1 DEF Alone, IdleConnections
<1>3. ASSUME NEW x \in Connection PROVE Sound(x)'
  <2>1. x # NoConnection
    OBVIOUS
  <2>2. Own(c, x)' = Own(c, x) /\ c \notin Disposing(x)' /\ c \notin Disposing(x)
    BY <1>1, <2>1 DEF Own, Bit, Disposing
  <2> QED
    BY <1>1, <1>2, <2>1, <2>2, Untouched DEF Owned
<1> QED
  BY <1>1, <1>3 DEF Owned, Distinct

(* The pointer the session held is the one the client releases next. *)
LEMMA OwnedClose ==
  ASSUME Shape, Shape', Owned, NEW c \in Client, Close(c)
  PROVE  Owned'
<1>1. /\ UNCHANGED <<connection_pool, status, ref_count, attached, connection, garbage>>
      /\ pc[c] = "ready" /\ subject[c] = NoConnection /\ connection[c] = NoConnection
      /\ pc'[c] = "release" /\ subject'[c] = db_connection[c] /\ db_connection'[c] = NoConnection
      /\ \A d \in Client \ {c} :
           pc'[d] = pc[d] /\ subject'[d] = subject[d] /\ db_connection'[d] = db_connection[d]
  <2>1. /\ pc[c] = "ready" /\ subject[c] = NoConnection /\ connection[c] = NoConnection
        /\ UNCHANGED <<connection_pool, status, ref_count, attached, connection, garbage>>
    BY DEF Close, objects, Shape
  <2> QED
    BY <2>1 DEF Close, Adopt, Goto, Shape, LocalsOK, FieldsOK
<1>2. Alone(c) /\ IdleConnections' = IdleConnections
  BY <1>1 DEF Alone, IdleConnections
<1>3. ASSUME NEW x \in Connection PROVE Sound(x)'
  <2>1. x # NoConnection
    OBVIOUS
  <2>2. Own(c, x)' = Own(c, x) /\ c \notin Disposing(x)' /\ c \notin Disposing(x)
    BY <1>1, <2>1 DEF Own, Bit, Disposing
  <2> QED
    BY <1>1, <1>2, <2>2, Untouched DEF Owned
<1> QED
  BY <1>1, <1>3 DEF Owned, Distinct

LEMMA OwnedReuse ==
  ASSUME Shape, Shape', Owned, NEW c \in Client, Reuse(c)
  PROVE  Owned'
<1>0. PICK y \in Connection : y = connection[c]
  BY DEF Reuse, Shape, LocalsOK
<1>1. /\ UNCHANGED <<connection_pool, status, ref_count, garbage>>
      /\ pc[c] = "connect" /\ subject[c] = NoConnection
      /\ pc'[c] = "release" /\ subject'[c] = db_connection[c]
      /\ db_connection'[c] = y /\ connection'[c] = NoConnection
      /\ attached' = attached \cup {y}
      /\ \A d \in Client \ {c} :
           /\ pc'[d] = pc[d] /\ subject'[d] = subject[d] /\ db_connection'[d] = db_connection[d]
           /\ connection'[d] = connection[d]
  <2>1. /\ pc[c] = "connect" /\ subject[c] = NoConnection
        /\ UNCHANGED <<connection_pool, status, ref_count, garbage>>
    BY DEF Reuse, Shape
  <2> QED
    BY <1>0, <2>1 DEF Reuse, Adopt, Goto, Shape, LocalsOK, FieldsOK
<1>2. Alone(c) /\ IdleConnections' = IdleConnections
  BY <1>1 DEF Alone, IdleConnections
<1>3. ASSUME NEW x \in Connection
      PROVE  Own(c, x)' = Own(c, x) /\ c \notin Disposing(x)' /\ c \notin Disposing(x)
  BY <1>0, <1>1 DEF Own, Bit, Disposing
<1>4. ASSUME NEW x \in Connection, x # y PROVE Sound(x)'
  BY <1>1, <1>2, <1>3, <1>4, Untouched DEF Owned
<1>5. Sound(y)'
  <2>1. References(y) \in Nat /\ References(y) >= 1 + Pooled(y)
        /\ \A e \in Client : y \in garbage[e] => References(y) >= 2
    BY <1>0, EachPointerCounts DEF PointersCount, Pointers
  <2>2. y \notin IdleConnections
    BY <1>1, <2>1 DEF Owned, Sound, Pooled, Bit
  <2>3. \A e \in Client : y \notin garbage[e]
    BY <1>1, <2>1 DEF Owned, Sound
  <2>4. Disposing(y) = {}
    BY <1>1, <2>1 DEF Owned, Sound, Pooled, Bit
  <2>5. References(y)' = References(y)
    <3>1. Pooled(y)' = Pooled(y)
      BY <1>2 DEF Pooled
    <3> QED
      BY <1>1, <1>2, <1>3, <3>1, Frame
  <2>6. Disposing(y)' = {}
    BY <1>1, <1>2, <1>3, <2>4, DisposingFrame DEF Disposing
  <2>7. \A e \in Client : ~(pc'[e] = "putLock" /\ subject'[e] = y)
    BY <2>6 DEF Disposing
  <2> QED
    BY <1>1, <1>2, <2>2, <2>3, <2>4, <2>5, <2>6, <2>7 DEF Owned, Sound
<1> QED
  BY <1>1, <1>4, <1>5 DEF Owned, Distinct

LEMMA OwnedConnect ==
  ASSUME Shape, Shape', Owned, NEW c \in Client, Connect(c)
  PROVE  Owned'
<1>0. PICK y \in Connection :
        /\ status[y] = "unborn"
        /\ status' = [status EXCEPT ![y] = "live"]
        /\ ref_count' = [ref_count EXCEPT ![y] = 1]
        /\ attached' = IF Limit = 0 THEN attached ELSE attached \cup {y}
        /\ Adopt(c, y)
  BY DEF Connect
<1>1. /\ UNCHANGED <<connection_pool, connection, garbage>>
      /\ pc[c] = "connect" /\ subject[c] = NoConnection /\ connection[c] = NoConnection
      /\ pc'[c] = "release" /\ subject'[c] = db_connection[c] /\ db_connection'[c] = y
      /\ \A d \in Client \ {c} :
           pc'[d] = pc[d] /\ subject'[d] = subject[d] /\ db_connection'[d] = db_connection[d]
  <2>1. /\ pc[c] = "connect" /\ subject[c] = NoConnection
        /\ UNCHANGED <<connection_pool, connection, garbage>>
    BY DEF Connect, Shape
  <2> QED
    BY <1>0, <2>1 DEF Connect, Adopt, Goto, Shape, LocalsOK, FieldsOK
<1>2. Alone(c) /\ IdleConnections' = IdleConnections
  BY <1>1 DEF Alone, IdleConnections
<1>3. ASSUME NEW x \in Connection
      PROVE  c \notin Disposing(x)' /\ c \notin Disposing(x)
  BY <1>1 DEF Disposing
<1>4. ASSUME NEW x \in Connection, x # y PROVE Sound(x)'
  <2>1. Own(c, x)' = Own(c, x)
    BY <1>1, <1>4 DEF Own, Bit
  <2>2. ref_count'[x] = ref_count[x] /\ status'[x] = status[x] /\ (x \in attached' => x \in attached)
    BY <1>0, <1>4 DEF Shape, FieldsOK
  <2> QED
    BY <1>1, <1>2, <1>3, <2>1, <2>2, Untouched DEF Owned
<1>5. Sound(y)'
  <2>1. Pointers(y) /\ Sound(y)
    BY EachPointerCounts DEF PointersCount, Owned
  <2>2. References(y) = 0 /\ Disposing(y) = {}
    BY <1>0, <2>1 DEF Sound, Pointers
  <2>3. y \notin IdleConnections /\ db_connection[c] # y /\ \A e \in Client : y \notin garbage[e]
    BY <2>1, <2>2 DEF Pointers, Pooled, Bit
  <2>4. Own(c, y) = 0 /\ Own(c, y)' = 1
    BY <1>1, <2>3 DEF Own, Bit
  <2>5. References(y)' = 1
    <3>1. Pooled(y) = 0 /\ Pooled(y)' = 0
      BY <1>2, <2>3 DEF Pooled, Bit
    <3> QED
      BY <1>2, <2>2, <2>4, <3>1, Frame
  <2>6. Disposing(y)' = {}
    BY <1>2, <1>3, <2>2, DisposingFrame DEF Disposing
  <2>7. \A e \in Client : ~(pc'[e] = "putLock" /\ subject'[e] = y)
    BY <2>6 DEF Disposing
  <2>8. ref_count'[y] = 1 /\ status'[y] = "live"
    BY <1>0 DEF Shape, FieldsOK
  <2> QED
    BY <1>1, <1>2, <2>3, <2>5, <2>6, <2>7, <2>8 DEF Sound
<1> QED
  BY <1>1, <1>4, <1>5 DEF Owned, Distinct

LEMMA OwnedCopy ==
  ASSUME Shape, Shape', Owned, NEW c \in Client, NEW d \in Client, Copy(c, d)
  PROVE  Owned'
<1>0. PICK y \in Connection : y = db_connection[d]
  BY DEF Copy, Shape, FieldsOK
<1>1. /\ UNCHANGED <<connection_pool, connection, garbage, status, attached>>
      /\ pc[c] = "ready" /\ subject[c] = NoConnection /\ connection[c] = NoConnection
      /\ pc'[c] = "release" /\ subject'[c] = db_connection[c] /\ db_connection'[c] = y
      /\ \A e \in Client \ {c} :
           pc'[e] = pc[e] /\ subject'[e] = subject[e] /\ db_connection'[e] = db_connection[e]
  <2>1. /\ pc[c] = "ready" /\ subject[c] = NoConnection /\ connection[c] = NoConnection
        /\ UNCHANGED <<connection_pool, connection, garbage, status, attached>>
    BY DEF Copy, Shape
  <2> QED
    BY <1>0, <2>1 DEF Copy, Adopt, Goto, Shape, LocalsOK, FieldsOK
<1>2. Alone(c) /\ IdleConnections' = IdleConnections
  BY <1>1 DEF Alone, IdleConnections
<1>3. ASSUME NEW x \in Connection
      PROVE  c \notin Disposing(x)' /\ c \notin Disposing(x)
  BY <1>1 DEF Disposing
<1>4. ASSUME NEW x \in Connection, x # y PROVE Sound(x)'
  <2>1. Own(c, x)' = Own(c, x)
    BY <1>1, <1>4 DEF Own, Bit
  <2>2. ref_count'[x] = ref_count[x]
    BY <1>0, <1>4 DEF Copy, Shape, FieldsOK
  <2> QED
    BY <1>1, <1>2, <1>3, <2>1, <2>2, Untouched DEF Owned
<1>5. Sound(y)'
  <2>1. Pointers(y) /\ Sound(y)
    BY EachPointerCounts DEF PointersCount, Owned
  <2>2. References(y) >= 1 + Pooled(y) /\ References(y) \in Nat
    BY <1>0, <2>1 DEF Pointers
  <2>3. y \notin IdleConnections /\ \A e \in Client : y \notin garbage[e]
    <3>1. y \notin IdleConnections
      BY <2>1, <2>2 DEF Sound, Pooled, Bit
    <3>2. \A e \in Client : y \in garbage[e] => References(y) >= 2
      BY <1>0, <2>1 DEF Pointers
    <3> QED
      BY <2>1, <3>1, <3>2 DEF Sound
  <2>4. Disposing(y) = {}
    BY <2>1, <2>2, <2>3 DEF Sound, Pooled, Bit
  <2>5. References(y)' = References(y) + 1
    <3>1. Pooled(y)' = Pooled(y) /\ Pooled(y) \in Nat
      BY <1>2 DEF Pooled, Bit
    <3>2. Own(c, y)' = Own(c, y) + 1 /\ Own(c, y) \in Nat
      BY <1>1 DEF Own, Bit
    <3> QED
      BY <1>2, <3>1, <3>2, Frame
  <2>6. Disposing(y)' = {}
    BY <1>2, <1>3, <2>4, DisposingFrame DEF Disposing
  <2>7. \A e \in Client : ~(pc'[e] = "putLock" /\ subject'[e] = y)
    BY <2>6 DEF Disposing
  <2>8. ref_count'[y] = ref_count[y] + 1
    BY <1>0 DEF Copy, Shape
  <2>9. References(y)' > 0 /\ status'[y] = "live"
    BY <1>1, <2>1, <2>2, <2>4, <2>5 DEF Sound, Pooled, Bit
  <2> QED
    BY <1>1, <1>2, <2>1, <2>3, <2>5, <2>6, <2>7, <2>8, <2>9 DEF Sound
<1> QED
  BY <1>1, <1>4, <1>5 DEF Owned, Distinct

LEMMA OwnedRelease ==
  ASSUME Shape, Shape', Owned, NEW c \in Client, Release(c)
  PROVE  Owned'
<1>1. /\ UNCHANGED <<connection_pool, connection, garbage, status, attached, db_connection>>
      /\ pc[c] = "release" /\ pc'[c] \in {"ready", "dispose"}
      /\ \A e \in Client \ {c} : pc'[e] = pc[e] /\ subject'[e] = subject[e]
  BY DEF Release, Goto, Shape, LocalsOK
<1>2. Alone(c) /\ IdleConnections' = IdleConnections
  BY <1>1 DEF Alone, IdleConnections
<1>3. CASE subject[c] = NoConnection
  <2>1. subject' = subject /\ ref_count' = ref_count /\ pc'[c] = "ready"
    BY <1>3 DEF Release, Goto, Shape, LocalsOK
  <2>2. ASSUME NEW x \in Connection PROVE Sound(x)'
    <3>1. Own(c, x)' = Own(c, x) /\ c \notin Disposing(x) /\ c \notin Disposing(x)'
      BY <1>1, <1>3, <2>1 DEF Own, Bit, Disposing
    <3> QED
      BY <1>1, <1>2, <2>1, <3>1, Untouched DEF Owned
  <2> QED
    BY <1>1, <2>2 DEF Owned, Distinct
<1>4. CASE subject[c] # NoConnection
  <2>0. PICK y \in Connection : y = subject[c]
    BY <1>4 DEF Shape, LocalsOK
  <2>1. /\ ref_count' = [ref_count EXCEPT ![y] = @ - 1]
        /\ IF ref_count[y] = 1
           THEN pc'[c] = "dispose" /\ subject'[c] = y
           ELSE pc'[c] = "ready" /\ subject'[c] = NoConnection
    BY <1>4, <2>0 DEF Release, Goto, Shape, LocalsOK
  <2>2. ASSUME NEW x \in Connection, x # y PROVE Sound(x)'
    <3>1. Own(c, x)' = Own(c, x)
      BY <1>1, <2>0, <2>1, <2>2 DEF Own, Bit
    <3>2. c \notin Disposing(x) /\ c \notin Disposing(x)'
      BY <1>1, <2>0, <2>1, <2>2 DEF Disposing
    <3>3. ref_count'[x] = ref_count[x]
      BY <2>1, <2>2 DEF Shape
    <3> QED
      BY <1>1, <1>2, <3>1, <3>2, <3>3, Untouched DEF Owned
  <2>3. Sound(y)'
    <3>1. Pointers(y) /\ Sound(y)
      BY EachPointerCounts DEF PointersCount, Owned
    <3>2. References(y) >= 1 + Pooled(y) /\ References(y) \in Nat
      BY <1>1, <2>0, <3>1 DEF Pointers
    <3>3. y \notin IdleConnections /\ \A e \in Client : y \notin garbage[e]
      <4>1. y \notin IdleConnections
        BY <3>1, <3>2 DEF Sound, Pooled, Bit
      <4>2. \A e \in Client : y \in garbage[e] => References(y) >= 2
        BY <1>1, <2>0, <3>1 DEF Pointers
      <4> QED
        BY <3>1, <4>1, <4>2 DEF Sound
    <3>4. Disposing(y) = {}
      BY <3>1, <3>2, <3>3 DEF Sound, Pooled, Bit
    <3>5. References(y)' = References(y) - 1
      <4>1. Pooled(y)' = Pooled(y) /\ Pooled(y) \in Nat
        BY <1>2 DEF Pooled, Bit
      <4>2. Own(c, y) = Own(c, y)' + 1 /\ Own(c, y)' \in Nat
        BY <1>1, <2>0, <2>1 DEF Own, Bit
      <4> QED
        BY <1>2, <4>1, <4>2, Frame
    <3>6. ref_count'[y] = ref_count[y] - 1
      BY <2>1 DEF Shape
    <3>7. CASE ref_count[y] = 1
      <4>1. References(y)' = 0 /\ pc'[c] = "dispose" /\ subject'[c] = y
        BY <2>1, <3>1, <3>5, <3>7 DEF Sound
      <4>2. Disposing(y)' = {c}
        BY <1>2, <3>4, <4>1, DisposingFrame DEF Disposing
      <4>3. \A e \in Client : ~(pc'[e] = "putLock" /\ subject'[e] = y)
        BY <4>1, <4>2 DEF Disposing
      <4>4. status'[y] = "live"
        BY <1>1, <3>1, <3>2 DEF Sound, Pooled, Bit
      <4> QED
        BY <1>1, <1>2, <3>1, <3>3, <3>5, <3>6, <4>1, <4>2, <4>3, <4>4 DEF Sound
    <3>8. CASE ref_count[y] # 1
      <4>1. References(y)' > 0 /\ pc'[c] = "ready"
        BY <2>1, <3>1, <3>2, <3>3, <3>5, <3>8 DEF Sound, Pooled, Bit
      <4>2. Disposing(y)' = {}
        BY <1>2, <3>4, <4>1, DisposingFrame DEF Disposing
      <4>3. \A e \in Client : ~(pc'[e] = "putLock" /\ subject'[e] = y)
        BY <4>2 DEF Disposing
      <4>4. status'[y] = "live"
        BY <1>1, <3>1, <3>2 DEF Sound, Pooled, Bit
      <4> QED
        BY <1>1, <1>2, <3>1, <3>3, <3>5, <3>6, <4>1, <4>2, <4>3, <4>4 DEF Sound
    <3> QED
      BY <3>7, <3>8
  <2> QED
    BY <1>1, <2>2, <2>3 DEF Owned, Distinct
<1> QED
  BY <1>3, <1>4

LEMMA OwnedDispose ==
  ASSUME Shape, Shape', Owned, NEW c \in Client, Dispose(c)
  PROVE  Owned'
<1>0. PICK y \in Connection : y = subject[c]
  BY DEF Dispose, Shape, LocalsOK
<1>1. /\ UNCHANGED <<connection_pool, connection, garbage, ref_count, db_connection>>
      /\ pc[c] = "dispose" /\ attached' = attached \ {y}
      /\ \/ /\ pc'[c] = "putLock" /\ subject'[c] = y /\ status' = status
         \/ /\ pc'[c] = "ready" /\ subject'[c] = NoConnection
            /\ status' = [status EXCEPT ![y] = "deleted"]
      /\ \A e \in Client \ {c} : pc'[e] = pc[e] /\ subject'[e] = subject[e]
  BY <1>0 DEF Dispose, Detach, Goto, Shape, LocalsOK
<1>2. Alone(c) /\ IdleConnections' = IdleConnections
  BY <1>1 DEF Alone, IdleConnections
<1>3. ASSUME NEW x \in Connection PROVE Own(c, x)' = Own(c, x)
  BY <1>0, <1>1 DEF Own, Bit
<1>4. ASSUME NEW x \in Connection, x # y PROVE Sound(x)'
  <2>1. c \notin Disposing(x) /\ c \notin Disposing(x)'
    BY <1>0, <1>1, <1>4 DEF Disposing
  <2>2. status'[x] = status[x] /\ ~(pc'[c] = "putLock" /\ subject'[c] = x)
    BY <1>1, <1>4 DEF Shape, FieldsOK
  <2> QED
    BY <1>1, <1>2, <1>3, <2>1, <2>2, Untouched DEF Owned
<1>5. Sound(y)'
  <2>1. Pointers(y) /\ Sound(y)
    BY EachPointerCounts DEF PointersCount, Owned
  <2>2. Disposing(y) = {c} /\ References(y) = 0
    BY <1>0, <1>1, <2>1 DEF Sound, Disposing
  <2>3. y \notin IdleConnections /\ \A e \in Client : y \notin garbage[e]
    BY <2>1, <2>2 DEF Sound
  <2>4. References(y)' = 0
    <3>1. Pooled(y)' = Pooled(y)
      BY <1>2 DEF Pooled
    <3> QED
      BY <1>2, <1>3, <2>2, <3>1, Frame
  <2>5. CASE pc'[c] = "putLock"
    <3>1. Disposing(y)' = {c} /\ status'[y] = "live"
      BY <1>1, <1>2, <2>1, <2>2, <2>5, DisposingFrame DEF Disposing, Sound
    <3> QED
      BY <1>1, <1>2, <2>1, <2>3, <2>4, <2>2, <3>1 DEF Sound
  <2>6. CASE pc'[c] = "ready"
    <3>1. c \notin Disposing(y)'
      BY <2>6 DEF Disposing
    <3>2. Disposing(y)' = {}
      BY <1>2, <2>2, <3>1, DisposingFrame DEF Disposing
    <3>3. status'[y] = "deleted"
      BY <1>1, <2>6 DEF Shape, FieldsOK
    <3> QED
      BY <1>1, <1>2, <2>1, <2>2, <2>3, <2>4, <3>2, <3>3 DEF Sound
  <2> QED
    BY <1>1, <2>5, <2>6
<1> QED
  BY <1>1, <1>4, <1>5 DEF Owned, Distinct

LEMMA OwnedSweep ==
  ASSUME Shape, Shape', Owned, NEW c \in Client, Sweep(c)
  PROVE  Owned'
<1>1. /\ UNCHANGED <<connection_pool, connection, attached, subject, db_connection>>
      /\ pc[c] \in {"getSweep", "putSweep"} /\ pc'[c] \in {"connect", "ready"}
      /\ garbage'[c] = {}
      /\ \A e \in Client \ {c} : pc'[e] = pc[e] /\ garbage'[e] = garbage[e]
      /\ \A x \in Connection :
           IF x \in garbage[c]
           THEN status'[x] = "deleted" /\ ref_count'[x] = ref_count[x] - 1
           ELSE status'[x] = status[x] /\ ref_count'[x] = ref_count[x]
  BY DEF Sweep, Goto, Shape, LocalsOK
<1>2. Alone(c) /\ IdleConnections' = IdleConnections
  BY <1>1 DEF Alone, IdleConnections
<1>3. ASSUME NEW x \in Connection
      PROVE  c \notin Disposing(x) /\ c \notin Disposing(x)'
  BY <1>1 DEF Disposing
<1>4. ASSUME NEW x \in Connection, x \notin garbage[c] PROVE Sound(x)'
  <2>1. Own(c, x)' = Own(c, x)
    BY <1>1, <1>4 DEF Own, Bit
  <2> QED
    BY <1>1, <1>2, <1>3, <1>4, <2>1, Untouched DEF Owned
<1>5. ASSUME NEW x \in Connection, x \in garbage[c] PROVE Sound(x)'
  <2>1. Pointers(x) /\ Pointers(x)' /\ Sound(x)
    BY EachPointerCounts, EachPointerCountsNext DEF PointersCount, Owned
  <2>2. References(x) = 1 /\ Pooled(x) = 0
    BY <1>5, <2>1 DEF Sound, Pointers, Pooled, Bit
  <2>3. References(x)' = 0
    <3>1. Own(c, x) = Own(c, x)' + 1 /\ Own(c, x)' \in Nat
      BY <1>1, <1>5 DEF Own, Bit
    <3>2. Pooled(x)' = 0
      BY <1>2, <2>2 DEF Pooled
    <3> QED
      BY <1>2, <2>2, <3>1, <3>2, Frame
  <2>4. Disposing(x) = {} /\ Disposing(x)' = {}
    <3>1. Disposing(x) = {}
      BY <2>1, <2>2 DEF Sound
    <3> QED
      BY <1>2, <1>3, <3>1, DisposingFrame DEF Disposing
  <2>5. x \notin IdleConnections' /\ \A e \in Client : x \notin garbage'[e]
    BY <2>1, <2>3 DEF Pointers, Pooled, Bit
  <2>6. \A e \in Client : ~(pc'[e] = "putLock" /\ subject'[e] = x)
    BY <2>4 DEF Disposing
  <2> QED
    BY <1>1, <1>5, <2>1, <2>2, <2>3, <2>4, <2>5, <2>6 DEF Sound
<1> QED
  BY <1>1, <1>4, <1>5 DEF Owned, Distinct

(* An idle connection that leaves the list has one reference still: from a *)
(* garbage list or from Open.                                              *)
LEMMA OwnedTaken ==
  ASSUME Shape, Shape', Owned, NEW c \in Client, Alone(c), NEW x \in Connection,
         x \in IdleConnections, x \notin IdleConnections',
         Own(c, x)' = Own(c, x) + 1,
         c \notin Disposing(x)', c \notin Disposing(x),
         ref_count'[x] = ref_count[x], status'[x] = status[x],
         x \in attached' => x \in attached
  PROVE  Sound(x)'
<1>1. Pointers(x) /\ Sound(x) /\ References(x) = 1
  BY EachPointerCounts DEF PointersCount, Owned, Sound
<1>2. Pooled(x) = 1 /\ Pooled(x)' = 0
  BY DEF Pooled, Bit
<1>3. References(x)' = 1
  <2>1. PICK n \in Nat : /\ References(x) = n + Own(c, x) + Pooled(x)
                        /\ References(x)' = n + Own(c, x)' + Pooled(x)'
    BY Frame
  <2>2. Own(c, x) \in Nat
    BY DEF Own, Bit
  <2> QED
    BY <1>1, <1>2, <2>1, <2>2
<1>4. Disposing(x) = {} /\ Disposing(x)' = {}
  <2>1. Disposing(x) = {}
    BY <1>1 DEF Sound
  <2> QED
    BY <2>1, DisposingFrame DEF Disposing
<1>5. \A e \in Client : ~(pc'[e] = "putLock" /\ subject'[e] = x)
  BY <1>4 DEF Disposing
<1> QED
  BY <1>1, <1>3, <1>4, <1>5 DEF Sound

LEMMA OwnedClear ==
  ASSUME Shape, Shape', Owned, NEW c \in Client, Clear(c)
  PROVE  Owned'
<1>1. /\ UNCHANGED <<status, ref_count, attached, connection, subject, db_connection>>
      /\ connection_pool' = <<>>
      /\ pc[c] = "ready" /\ pc'[c] = "putSweep"
      /\ garbage[c] = {} /\ garbage'[c] = IdleConnections
      /\ \A e \in Client \ {c} : pc'[e] = pc[e] /\ garbage'[e] = garbage[e]
  <2>1. /\ pc[c] = "ready" /\ garbage[c] = {} /\ connection_pool' = <<>>
        /\ UNCHANGED <<status, ref_count, attached, connection, subject, db_connection>>
    BY DEF Clear, objects, Shape
  <2> QED
    BY <2>1 DEF Clear, Goto, IdleConnections, Shape, LocalsOK
<1>2. Alone(c) /\ IdleConnections' = {} /\ Distinct(connection_pool')
  BY <1>1, EmptySeq DEF Alone, IdleConnections, Connections, Distinct
<1>3. ASSUME NEW x \in Connection PROVE Sound(x)'
  <2>1. c \notin Disposing(x) /\ c \notin Disposing(x)'
    BY <1>1 DEF Disposing
  <2>2. CASE x \in IdleConnections
    <3>1. Own(c, x)' = Own(c, x) + 1
      BY <1>1, <2>2 DEF Own, Bit
    <3> QED
      BY <1>1, <1>2, <2>1, <2>2, <3>1, OwnedTaken
  <2>3. CASE x \notin IdleConnections
    <3>1. Own(c, x)' = Own(c, x)
      BY <1>1, <2>3 DEF Own, Bit
    <3> QED
      BY <1>1, <1>2, <2>1, <2>3, <3>1, Untouched DEF Owned
  <2> QED
    BY <2>2, <2>3
<1> QED
  BY <1>2, <1>3 DEF Owned, Distinct

(* get() parts the list: what is stale, what it hands out, what stays. *)
LEMMA GetParts ==
  ASSUME Shape, Distinct(connection_pool), NEW c \in Client, Get(c)
  PROVE  /\ Distinct(connection_pool')
         /\ \E stale, chosen \in SUBSET Connection :
              /\ garbage'[c] = stale
              /\ IdleConnections = stale \cup chosen \cup IdleConnections'
              /\ stale \cap chosen = {}
              /\ IdleConnections' \cap (stale \cup chosen) = {}
              /\ \/ chosen = {} /\ connection' = connection
                 \/ \E y \in Connection :
                      chosen = {y} /\ connection' = [connection EXCEPT ![c] = y]
<1>1. connection_pool \in Seq(Entry)
  BY DEF Shape, FieldsOK
<1>2. PICK n \in 0..Len(connection_pool) :
        /\ garbage' = [garbage EXCEPT ![c] = FirstConnections(connection_pool, n)]
        /\ \/ After(connection_pool, n) = <<>> /\ connection_pool' = <<>> /\ UNCHANGED connection
           \/ After(connection_pool, n) # <<>> /\ Take(c, After(connection_pool, n))
  BY DEF Get
<1> DEFINE rest  == After(connection_pool, n)
           stale == FirstConnections(connection_pool, n)
<1>3. rest \in Seq(Entry)
  BY <1>1, AfterTyped
<1>4. /\ IdleConnections = stale \cup Connections(rest)
      /\ stale \cap Connections(rest) = {}
      /\ Distinct(rest)
  BY <1>1, AfterSplits DEF IdleConnections
<1>5. garbage'[c] = stale /\ stale \in SUBSET Connection
  <2>1. garbage'[c] = stale
    BY <1>2 DEF Shape, LocalsOK
  <2>2. garbage' \in [Client -> SUBSET Connection]
    BY GetTakes
  <2> QED
    BY <2>1, <2>2
<1> HIDE DEF rest, stale
<1>6. CASE rest = <<>> /\ connection_pool' = <<>> /\ UNCHANGED connection
  <2>1. Connections(rest) = {} /\ IdleConnections' = {} /\ Distinct(connection_pool')
    BY <1>6, EmptySeq DEF Connections, IdleConnections, Distinct
  <2> QED
    BY <1>4, <1>5, <1>6, <2>1
<1>7. CASE rest # <<>> /\ Take(c, rest)
  <2>1. /\ IdleConnections' = Connections(SubSeq(rest, 1, Len(rest) - 1))
        /\ connection' = [connection EXCEPT ![c] = rest[Len(rest)].connection]
        /\ connection_pool' = SubSeq(rest, 1, Len(rest) - 1)
    BY <1>7 DEF Take, IdleConnections
  <2>2. /\ Connections(rest) = IdleConnections' \cup {rest[Len(rest)].connection}
        /\ rest[Len(rest)].connection \notin IdleConnections'
        /\ Distinct(connection_pool')
    BY <1>3, <1>4, <1>7, <2>1, FrontSplits
  <2>3. rest[Len(rest)].connection \in Connection
    <3>1. rest[Len(rest)] \in Entry
      BY <1>3, <1>7, FrontTyped, ElementOfSeq
    <3> QED
      BY <3>1 DEF Entry
  <2>4. PICK y \in Connection : y = rest[Len(rest)].connection
    BY <2>3
  <2>5. /\ IdleConnections = stale \cup {y} \cup IdleConnections'
        /\ stale \cap {y} = {}
        /\ IdleConnections' \cap (stale \cup {y}) = {}
        /\ connection' = [connection EXCEPT ![c] = y]
    BY <1>4, <2>1, <2>2, <2>4
  <2> QED
    BY <1>5, <2>2, <2>5
<1> QED
  BY <1>2, <1>6, <1>7 DEF rest

LEMMA OwnedGet ==
  ASSUME Shape, Shape', Owned, NEW c \in Client, Get(c)
  PROVE  Owned'
<1>1. PICK stale \in SUBSET Connection, chosen \in SUBSET Connection :
        /\ garbage'[c] = stale
        /\ IdleConnections = stale \cup chosen \cup IdleConnections'
        /\ stale \cap chosen = {}
        /\ IdleConnections' \cap (stale \cup chosen) = {}
        /\ \/ chosen = {} /\ connection' = connection
           \/ \E y \in Connection : chosen = {y} /\ connection' = [connection EXCEPT ![c] = y]
  BY GetParts DEF Owned
<1>2. /\ UNCHANGED <<status, ref_count, attached, subject, db_connection>>
      /\ pc[c] = "getLock" /\ pc'[c] = "getSweep"
      /\ connection[c] = NoConnection /\ garbage[c] = {}
      /\ \A e \in Client \ {c} : pc'[e] = pc[e]
  BY DEF Get, Goto, objects, Shape, LocalsOK
<1>3. Alone(c)
  BY <1>2, GetTakes DEF Alone
<1>4. \A x \in Connection : connection'[c] = x <=> x \in chosen
  BY <1>1, <1>2 DEF Shape, LocalsOK
<1>5. ASSUME NEW x \in Connection PROVE Sound(x)'
  <2>1. c \notin Disposing(x) /\ c \notin Disposing(x)'
    BY <1>2 DEF Disposing
  <2>2. CASE x \in stale \cup chosen
    <3>1. Own(c, x)' = Own(c, x) + 1
      <4>1. Bit(connection'[c] = x) + Bit(x \in garbage'[c]) = 1
        BY <1>1, <1>4, <2>2 DEF Bit
      <4>2. Bit(connection[c] = x) = 0 /\ Bit(x \in garbage[c]) = 0
        BY <1>2 DEF Bit
      <4> QED
        BY <1>2, <4>1, <4>2 DEF Own, Bit
    <3>2. x \in IdleConnections /\ x \notin IdleConnections'
      BY <1>1, <2>2
    <3> QED
      BY <1>2, <1>3, <2>1, <3>1, <3>2, OwnedTaken
  <2>3. CASE x \notin stale \cup chosen
    <3>1. Own(c, x)' = Own(c, x)
      BY <1>1, <1>2, <1>4, <2>3 DEF Own, Bit
    <3>2. x \in IdleConnections' <=> x \in IdleConnections
      BY <1>1, <2>3
    <3>3. x \in garbage'[c] <=> x \in garbage[c]
      BY <1>1, <1>2, <2>3
    <3> QED
      BY <1>2, <1>3, <2>1, <3>1, <3>2, <3>3, Untouched DEF Owned
  <2> QED
    BY <2>2, <2>3
<1> QED
  BY <1>5, GetParts DEF Owned

(* Put parts the list, the connection put back among it, in two. *)
LEMMA PutParts ==
  ASSUME Shape, Owned, NEW c \in Client, Put(c)
  PROVE  /\ Distinct(connection_pool')
         /\ subject[c] \notin IdleConnections
         /\ garbage'[c] \subseteq Connection
         /\ garbage'[c] \cup IdleConnections' = IdleConnections \cup ({subject[c]} \ {NoConnection})
         /\ garbage'[c] \cap IdleConnections' = {}
<1> DEFINE s == WithSubject(c)
<1>1. connection_pool \in Seq(Entry) /\ s \in Seq(Entry) /\ Distinct(connection_pool)
  BY WithSubjectTyped DEF Shape, FieldsOK, Owned
<1>2. \A i \in DOMAIN connection_pool : connection_pool[i] \in Entry
  BY <1>1
<1>3. subject[c] \notin IdleConnections
  <2>1. CASE subject[c] = NoConnection
    BY <1>2, <2>1 DEF IdleConnections, Connections, Entry
  <2>2. CASE subject[c] # NoConnection
    <3>1. subject[c] \in Connection /\ c \in Disposing(subject[c])
      BY <2>2 DEF Put, Disposing, Shape, LocalsOK
    <3> QED
      BY <3>1 DEF Owned, Sound
  <2> QED
    BY <2>1, <2>2
<1>4. Distinct(s) /\ Connections(s) = IdleConnections \cup ({subject[c]} \ {NoConnection})
  <2>1. CASE subject[c] = NoConnection
    BY <1>1, <2>1 DEF WithSubject, IdleConnections
  <2>2. CASE subject[c] # NoConnection
    <3> DEFINE e == [connection |-> subject[c], last_used |-> now[c], entered |-> clock]
               l == Len(connection_pool)
    <3>1. e \in Entry /\ e.connection = subject[c] /\ s = Append(connection_pool, e)
      BY <2>2 DEF Entry, WithSubject, Shape, LocalsOK, FieldsOK
    <3> HIDE DEF e, s
    <3>2. /\ DOMAIN connection_pool = 1..l /\ DOMAIN s = 1..(l + 1) /\ l \in Nat
          /\ s[l + 1] = e /\ \A i \in 1..l : s[i] = connection_pool[i]
      BY <1>1, <3>1, AppendProperties, LenProperties
    <3> HIDE DEF l
    <3>3. \A i \in DOMAIN s : i = l + 1 \/ i \in DOMAIN connection_pool
      BY <3>2
    <3>4. Connections(s) = IdleConnections \cup {subject[c]}
      <4>1. \A i \in DOMAIN connection_pool : i \in DOMAIN s /\ s[i] = connection_pool[i]
        BY <3>2
      <4>2. l + 1 \in DOMAIN s /\ s[l + 1].connection = subject[c]
        BY <3>1, <3>2
      <4>3. \A x : x \in Connections(s) <=> x \in IdleConnections \cup {subject[c]}
        BY <3>3, <4>1, <4>2 DEF Connections, IdleConnections
      <4> QED
        BY <4>3
    <3>5. Distinct(s)
      <4>1. \A i \in DOMAIN connection_pool : s[i].connection # subject[c]
        BY <1>3, <3>2 DEF IdleConnections, Connections
      <4>2. ASSUME NEW i \in DOMAIN s, NEW j \in DOMAIN s, s[i].connection = s[j].connection
            PROVE  i = j
        <5>1. CASE i = l + 1 \/ j = l + 1
          BY <3>1, <3>2, <3>3, <4>1, <4>2, <5>1
        <5>2. CASE i \in DOMAIN connection_pool /\ j \in DOMAIN connection_pool
          BY <1>1, <3>2, <4>2, <5>2 DEF Distinct
        <5> QED
          BY <3>3, <5>1, <5>2
      <4> QED
        BY <4>2 DEF Distinct
    <3> QED
      BY <2>2, <3>4, <3>5
  <2> QED
    BY <2>1, <2>2
<1>5. PICK n \in 0..Len(s) :
        /\ connection_pool' = After(s, n + Excess(Counted(c) - n))
        /\ garbage' = [garbage EXCEPT ![c] = FirstConnections(s, n + Excess(Counted(c) - n))]
  BY DEF Put
<1>6. n + Excess(Counted(c) - n) \in 0..Len(s)
  BY PutKeepsLimit
<1>7. PICK gone \in 0..Len(s) :
        connection_pool' = After(s, gone) /\ garbage'[c] = FirstConnections(s, gone)
  BY <1>5, <1>6 DEF Shape, LocalsOK
<1>8. garbage'[c] \subseteq Connection
  BY PutTakes
<1> HIDE DEF s
<1>9. /\ Connections(s) = garbage'[c] \cup IdleConnections'
      /\ garbage'[c] \cap IdleConnections' = {}
      /\ Distinct(connection_pool')
  BY <1>1, <1>4, <1>7, AfterSplits DEF IdleConnections
<1> QED
  BY <1>3, <1>4, <1>8, <1>9

LEMMA OwnedPut ==
  ASSUME Shape, Shape', Owned, NEW c \in Client, Put(c)
  PROVE  Owned'
<1>1. /\ Distinct(connection_pool')
      /\ subject[c] \notin IdleConnections
      /\ garbage'[c] \cup IdleConnections' = IdleConnections \cup ({subject[c]} \ {NoConnection})
      /\ garbage'[c] \cap IdleConnections' = {}
  BY PutParts
<1>2. /\ UNCHANGED <<status, attached, connection, db_connection>>
      /\ pc[c] = "putLock" /\ pc'[c] = "putSweep"
      /\ garbage[c] = {} /\ subject'[c] = NoConnection
      /\ \A e \in Client \ {c} : pc'[e] = pc[e] /\ subject'[e] = subject[e]
      /\ \A x \in Connection : ref_count'[x] = IF x = subject[c] THEN 1 ELSE ref_count[x]
  BY DEF Put, Goto, Shape, LocalsOK
<1>3. Alone(c)
  BY <1>2, PutTakes DEF Alone
<1>4. ASSUME NEW x \in Connection, x # subject[c] PROVE Sound(x)'
  <2>1. c \notin Disposing(x) /\ c \notin Disposing(x)'
    BY <1>2, <1>4 DEF Disposing
  <2>2. CASE x \in garbage'[c]
    <3>1. Own(c, x)' = Own(c, x) + 1
      BY <1>2, <2>2 DEF Own, Bit
    <3>2. x \in IdleConnections /\ x \notin IdleConnections'
      BY <1>1, <1>4, <2>2
    <3> QED
      BY <1>2, <1>3, <1>4, <2>1, <3>1, <3>2, OwnedTaken
  <2>3. CASE x \notin garbage'[c]
    <3>1. Own(c, x)' = Own(c, x)
      BY <1>2, <2>3 DEF Own, Bit
    <3>2. x \in IdleConnections' <=> x \in IdleConnections
      BY <1>1, <1>4, <2>3
    <3> QED
      BY <1>2, <1>3, <1>4, <2>1, <2>3, <3>1, <3>2, Untouched DEF Owned
  <2> QED
    BY <2>2, <2>3
<1>5. ASSUME subject[c] # NoConnection, NEW y \in Connection, y = subject[c] PROVE Sound(y)'
  <2>1. Pointers(y) /\ Sound(y)
    BY EachPointerCounts DEF PointersCount, Owned
  <2>2. Disposing(y) = {c} /\ References(y) = 0
    BY <1>2, <1>5, <2>1 DEF Sound, Disposing
  <2>3. y \notin IdleConnections /\ \A e \in Client : y \notin garbage[e]
    BY <2>1, <2>2 DEF Sound
  <2>4. References(y)' = 1
    <3>1. PICK n \in Nat : /\ References(y) = n + Own(c, y) + Pooled(y)
                          /\ References(y)' = n + Own(c, y)' + Pooled(y)'
      BY <1>3, Frame
    <3>2. Own(c, y) \in Nat /\ Pooled(y) \in Nat
      BY DEF Own, Pooled, Bit
    <3>3. n = 0 /\ Own(c, y) = 0
      BY <2>2, <3>1, <3>2
    <3>4. Bit(y \in garbage'[c]) + Pooled(y)' = 1
      BY <1>1, <1>5 DEF Pooled, Bit
    <3>5. db_connection[c] # y /\ connection[c] # y
      BY <3>3 DEF Own, Bit
    <3>6. Own(c, y)' = Bit(y \in garbage'[c])
      BY <1>2, <3>5 DEF Own, Bit
    <3> QED
      BY <3>1, <3>3, <3>4, <3>6 DEF Pooled, Bit
  <2>5. Disposing(y)' = {}
    <3>1. c \notin Disposing(y)'
      BY <1>2 DEF Disposing
    <3> QED
      BY <1>3, <2>2, <3>1, DisposingFrame DEF Disposing
  <2>6. \A e \in Client : ~(pc'[e] = "putLock" /\ subject'[e] = y)
    BY <2>5 DEF Disposing
  <2>7. ref_count'[y] = 1 /\ status'[y] = "live" /\ y \notin attached'
    BY <1>2, <1>5, <2>1, <2>2 DEF Sound
  <2> QED
    BY <2>4, <2>5, <2>6, <2>7 DEF Sound
<1> QED
  BY <1>1, <1>4, <1>5 DEF Owned

LEMMA OwnedNext == Shape /\ Shape' /\ Owned /\ [Next]_vars => Owned'
<1> SUFFICES ASSUME Shape, Shape', Owned, [Next]_vars PROVE Owned'
  OBVIOUS
<1>1. ASSUME NEW c \in Client, OpenStep(c) PROVE Owned'
  BY <1>1, OwnedQuiet, OwnedGet, OwnedReuse, OwnedConnect DEF OpenStep
<1>2. ASSUME NEW c \in Client, SessionStep(c) PROVE Owned'
  BY <1>2, OwnedCopy, OwnedClose, OwnedQuiet DEF SessionStep
<1>3. ASSUME NEW c \in Client, ReturnStep(c) PROVE Owned'
  BY <1>3, OwnedRelease, OwnedDispose, OwnedQuiet, OwnedPut, OwnedClear, OwnedSweep DEF ReturnStep
<1>4. ASSUME Tick \/ UNCHANGED vars PROVE Owned'
  BY <1>4, OwnedTick DEF Tick, vars, objects, locals
<1> QED
  BY <1>1, <1>2, <1>3, <1>4 DEF Next

(* The invariant: types, and who holds what. *)
LEMMA Ownership == Spec => [](Shape /\ Owned)
<1>1. Init => Shape /\ Owned
  BY ShapeInit, OwnedInit
<1>2. Shape /\ Owned /\ [Next]_vars => (Shape /\ Owned)'
  BY ShapeNext, OwnedNext
<1> QED
  BY <1>1, <1>2, PTL DEF Spec

(* The reference count of a connection is the number of its references,    *)
(* in the pool's hands too.                                                *)
THEOREM RefCountIsExact == Spec => []RefCountExact
<1>1. Shape /\ Owned => RefCountExact
  BY DEF Owned, Sound, RefCountExact
<1> QED
  BY <1>1, Ownership, PTL

(* Every field keeps its type: no counter passes below zero. *)
THEOREM PoolTypeCorrect == Spec => []TypeOK
<1>1. Shape /\ Owned => TypeOK
  <2> SUFFICES ASSUME Shape, Owned PROVE TypeOK
    OBVIOUS
  <2>1. \A x \in Connection : ref_count[x] \in Nat
    BY EachPointerCounts DEF Owned, Sound, PointersCount, Pointers
  <2>2. size \in Nat
    BY LenProperties DEF Shape, FieldsOK
  <2> QED
    BY <2>1, <2>2 DEF Shape, TypeOK
<1> QED
  BY <1>1, Ownership, PTL

(* A connection lives exactly as long as it is held or being disposed of,  *)
(* by one thread at a time.                                                *)
THEOREM HeldConnectionsLive == Spec => []LiveWhileHeld
<1>1. Shape /\ Owned => LiveWhileHeld
  BY DEF Owned, Sound, LiveWhileHeld
<1> QED
  BY <1>1, Ownership, PTL

(* What is idle in the pool is in the list once and in use nowhere. *)
THEOREM IdleIsUnshared == Spec => []IdleUnshared
<1>1. Shape /\ Owned => IdleUnshared
  <2> SUFFICES ASSUME Shape, Owned PROVE IdleUnshared
    OBVIOUS
  <2>1. \A x \in IdleConnections : x \in Connection
    BY IdleTyped
  <2>2. \A x \in IdleConnections : References(x) = 1 /\ x \notin attached
    BY <2>1 DEF Owned, Sound
  <2> QED
    BY <2>2 DEF Owned, Distinct, IdleUnshared
<1> QED
  BY <1>1, Ownership, PTL

------------------------------------------------------------------------------
(* The pool implements the leases.                                         *)

(* The abstract module counts as this one does. *)
LEMMA SameCardinality == \A S : Leases!Cardinality(S) = Cardinality(S)
  BY DEF Leases!Cardinality, Cardinality

LEMMA OneAtMost ==
  ASSUME NEW S, NEW x, S = {} \/ S = {x}
  PROVE  Cardinality(S) <= 1
<1>1. CASE S = {}
  <2>1. Cardinality(S) = 0
    BY <1>1, FS_EmptySet
  <2> QED
    BY <2>1
<1>2. CASE S = {x}
  <2>1. Cardinality({x}) = 1
    BY FS_Singleton
  <2> QED
    BY <1>2, <2>1
<1> QED
  BY <1>1, <1>2

WithinLimit == Cardinality(IdleConnections) <= Limit

LEMMA LimitKept == Shape => WithinLimit
<1> SUFFICES ASSUME Shape PROVE WithinLimit
  OBVIOUS
<1> DEFINE l == Len(connection_pool)
           f == [i \in 1..l |-> connection_pool[i].connection]
<1>1. l \in Nat /\ l <= Limit /\ DOMAIN connection_pool = 1..l
  BY LenProperties DEF Shape, FieldsOK
<1>2. f \in Surjection(1..l, IdleConnections)
  <2>1. f \in [1..l -> IdleConnections]
    BY <1>1 DEF IdleConnections, Connections
  <2>2. \A x \in IdleConnections : \E i \in 1..l : f[i] = x
    BY <1>1 DEF IdleConnections, Connections
  <2> QED
    BY <2>1, <2>2 DEF Surjection
<1> HIDE DEF l, f
<1>3. IsFiniteSet(1..l) /\ Cardinality(1..l) = l
  BY <1>1, FS_Interval
<1>4. IsFiniteSet(IdleConnections) /\ Cardinality(IdleConnections) <= l
  BY <1>2, <1>3, FS_Surjection
<1>5. Cardinality(IdleConnections) \in Nat
  BY <1>4, FS_CardinalityType
<1> QED
  BY <1>1, <1>4, <1>5 DEF WithinLimit

LEMMA LimitKeptNext == Shape' => WithinLimit'
  BY LimitKept, PTL

(* Idle and garbage are apart, and both live. *)
LEMMA IdleLives ==
  ASSUME Shape, Owned
  PROVE  /\ IdleConnections \subseteq Connection
         /\ Garbage \subseteq Connection
         /\ IdleConnections \cap Garbage = {}
         /\ \A x \in IdleConnections \cup Garbage : status[x] = "live"
<1>1. IdleConnections \subseteq Connection
  BY IdleTyped
<1>2. Garbage \subseteq Connection
  BY DEF Garbage, Shape, LocalsOK
<1>3. ASSUME NEW x \in Connection, NEW c \in Client, x \in garbage[c]
      PROVE  x \notin IdleConnections /\ status[x] = "live"
  <2>1. Sound(x) /\ Pointers(x)
    BY EachPointerCounts DEF PointersCount, Owned
  <2> QED
    BY <1>3, <2>1 DEF Sound, Pointers, Pooled, Bit
<1>4. ASSUME NEW x \in IdleConnections PROVE status[x] = "live"
  BY <1>1, <1>4 DEF Owned, Sound
<1> QED
  BY <1>1, <1>2, <1>3, <1>4 DEF Garbage

LEMMA LeaseInitially == Init => Leases!LeaseInit
<1> SUFFICES ASSUME Init PROVE Leases!LeaseInit
  OBVIOUS
<1>1. IdleConnections = {} /\ Garbage = {}
  BY EmptySeq DEF Init, IdleConnections, Connections, Garbage
<1> QED
  BY <1>1 DEF Init, Leases!LeaseInit, LeasedConnections, ClosedConnections

LEMMA QuietLease ==
  ASSUME UNCHANGED <<connection_pool, status, garbage>>
  PROVE  UNCHANGED Leases!leaseVars
<1>1. IdleConnections' = IdleConnections /\ Garbage' = Garbage
  BY DEF IdleConnections, Garbage
<1> QED
  BY <1>1 DEF Leases!leaseVars, LeasedConnections, ClosedConnections

LEMMA ConnectEstablishes ==
  ASSUME Shape, Owned, NEW c \in Client, Connect(c)
  PROVE  Leases!LeaseNext
<1>1. PICK y \in Connection : status[y] = "unborn" /\ status' = [status EXCEPT ![y] = "live"]
  BY DEF Connect
<1>2. IdleConnections' = IdleConnections /\ Garbage' = Garbage
  BY DEF Connect, IdleConnections, Garbage
<1>3. y \notin IdleConnections \cup Garbage
  BY <1>1, IdleLives
<1>4. /\ y \notin LeasedConnections \cup ClosedConnections
      /\ LeasedConnections' = LeasedConnections \cup {y}
      /\ ClosedConnections' = ClosedConnections
  BY <1>1, <1>2, <1>3 DEF LeasedConnections, ClosedConnections, Shape, FieldsOK
<1>5. Leases!Establish(y)
  BY <1>2, <1>3, <1>4 DEF Leases!Establish
<1> QED
  BY <1>5 DEF Leases!LeaseNext

(* A step that turns stale and chosen out of the pool. *)
LEMMA TakingLeases ==
  ASSUME Shape, Owned, NEW c \in Client,
         garbage[c] = {}, status' = status,
         \A d \in Client \ {c} : garbage'[d] = garbage[d],
         NEW stale \in SUBSET Connection, NEW chosen \in SUBSET Connection,
         garbage'[c] = stale,
         IdleConnections = stale \cup chosen \cup IdleConnections',
         stale \cap chosen = {},
         IdleConnections' \cap (stale \cup chosen) = {},
         Cardinality(chosen) <= 1
  PROVE  Leases!LeaseNext
<1>1. \A x : x \in Garbage' <=> x \in Garbage \cup stale
  <2>1. \A x : /\ x \in Garbage' => x \in Garbage \/ x \in garbage'[c]
               /\ x \in garbage'[c] => x \in Garbage'
               /\ x \in Garbage => x \in Garbage' \/ x \in garbage[c]
    BY DEF Garbage
  <2> QED
    BY <2>1
<1>2. LeasedConnections' = LeasedConnections \cup chosen
  BY <1>1, IdleLives DEF LeasedConnections
<1>3. ClosedConnections' = ClosedConnections \cup stale
  BY <1>1 DEF ClosedConnections
<1>4. IdleConnections' = IdleConnections \ (stale \cup chosen)
  OBVIOUS
<1>5. Leases!Lease(stale, chosen)
  BY <1>2, <1>3, <1>4, SameCardinality DEF Leases!Lease
<1>6. stale \in SUBSET IdleConnections /\ chosen \in SUBSET IdleConnections
  OBVIOUS
<1> QED
  BY <1>5, <1>6 DEF Leases!LeaseNext

LEMMA GetLeases ==
  ASSUME Shape, Owned, NEW c \in Client, Get(c)
  PROVE  Leases!LeaseNext
<1>1. garbage[c] = {} /\ status' = status /\ \A d \in Client \ {c} : garbage'[d] = garbage[d]
  BY GetTakes DEF Get, objects, Shape
<1>2. PICK stale \in SUBSET Connection, chosen \in SUBSET Connection :
        /\ garbage'[c] = stale
        /\ IdleConnections = stale \cup chosen \cup IdleConnections'
        /\ stale \cap chosen = {}
        /\ IdleConnections' \cap (stale \cup chosen) = {}
        /\ chosen = {} \/ \E y \in Connection : chosen = {y}
  BY GetParts DEF Owned
<1>3. Cardinality(chosen) <= 1
  <2>1. PICK y : chosen = {} \/ chosen = {y}
    BY <1>2
  <2> QED
    BY <2>1, OneAtMost
<1> QED
  BY <1>1, <1>2, <1>3, TakingLeases

LEMMA ClearLeases ==
  ASSUME Shape, Owned, NEW c \in Client, Clear(c)
  PROVE  Leases!LeaseNext
<1>1. garbage[c] = {} /\ status' = status /\ connection_pool' = <<>>
  BY DEF Clear, objects, Shape
<1>2. garbage'[c] = IdleConnections /\ \A d \in Client \ {c} : garbage'[d] = garbage[d]
  BY DEF Clear, IdleConnections, Shape, LocalsOK
<1>3. IdleConnections' = {} /\ IdleConnections \in SUBSET Connection
  BY <1>1, IdleLives, EmptySeq DEF IdleConnections, Connections
<1>4. Cardinality({}) <= 1
  BY FS_EmptySet
<1> QED
  BY <1>1, <1>2, <1>3, <1>4, TakingLeases

LEMMA PutGivesBack ==
  ASSUME Shape, Shape', Owned, NEW c \in Client, Put(c)
  PROVE  Leases!LeaseNext
<1> DEFINE returned == {subject[c]} \ {NoConnection}
           evicted  == garbage'[c]
<1>1. /\ subject[c] \notin IdleConnections
      /\ evicted \cup IdleConnections' = IdleConnections \cup returned
      /\ evicted \cap IdleConnections' = {}
      /\ evicted \subseteq Connection
  BY PutParts
<1>2. garbage[c] = {} /\ status' = status /\ \A d \in Client \ {c} : garbage'[d] = garbage[d]
  BY PutTakes DEF Put, Shape
<1>3. returned \subseteq LeasedConnections
  <2>1. CASE subject[c] = NoConnection
    BY <2>1
  <2>2. CASE subject[c] # NoConnection
    <3>1. PICK y \in Connection : y = subject[c]
      BY <2>2 DEF Shape, LocalsOK
    <3>2. Sound(y) /\ c \in Disposing(y)
      BY <3>1 DEF Owned, Put, Disposing
    <3>3. status[y] = "live" /\ \A e \in Client : y \notin garbage[e]
      BY <3>2 DEF Sound
    <3> QED
      BY <1>1, <3>1, <3>3 DEF LeasedConnections, Garbage
  <2> QED
    BY <2>1, <2>2
<1>4. \A x : x \in Garbage' <=> x \in Garbage \cup evicted
  <2>1. \A x : /\ x \in Garbage' => x \in Garbage \/ x \in garbage'[c]
               /\ x \in garbage'[c] => x \in Garbage'
               /\ x \in Garbage => x \in Garbage' \/ x \in garbage[c]
    BY <1>2 DEF Garbage
  <2> QED
    BY <1>2, <2>1
<1>5. IdleConnections' = (IdleConnections \cup returned) \ evicted
  BY <1>1
<1>6. LeasedConnections' = LeasedConnections \ returned
  <2>1. \A x \in returned : x \in evicted \cup IdleConnections'
    BY <1>1
  <2>2. \A x \in Connection \ returned :
          x \in IdleConnections' \cup evicted <=> x \in IdleConnections
    BY <1>1
  <2> QED
    BY <1>2, <1>3, <1>4, <2>1, <2>2 DEF LeasedConnections
<1>7. ClosedConnections' = ClosedConnections \cup evicted
  BY <1>1, <1>2, <1>4 DEF ClosedConnections
<1>8. Cardinality(returned) <= 1 /\ Cardinality(IdleConnections') <= Limit
  <2>1. returned = {} \/ returned = {subject[c]}
    OBVIOUS
  <2>2. Cardinality(returned) <= 1
    BY <2>1, OneAtMost
  <2> QED
    BY <2>2, LimitKeptNext DEF WithinLimit
<1>9. Leases!GiveBack(returned, evicted)
  BY <1>5, <1>6, <1>7, <1>8, SameCardinality DEF Leases!GiveBack
<1>10. returned \in SUBSET LeasedConnections /\ evicted \in SUBSET (IdleConnections \cup returned)
  BY <1>1, <1>3
<1> QED
  BY <1>9, <1>10 DEF Leases!LeaseNext

LEMMA DisposeDiscards ==
  ASSUME Shape, Owned, NEW c \in Client, Dispose(c)
  PROVE  [Leases!LeaseNext]_(Leases!leaseVars)
<1>1. IdleConnections' = IdleConnections /\ Garbage' = Garbage
  BY DEF Dispose, IdleConnections, Garbage
<1>2. PICK y \in Connection : y = subject[c]
  BY DEF Dispose, Shape, LocalsOK
<1>3. CASE status' = status
  BY <1>3, QuietLease DEF Dispose
<1>4. CASE status' = [status EXCEPT ![y] = "deleted"]
  <2>1. Sound(y) /\ c \in Disposing(y)
    BY <1>2 DEF Owned, Dispose, Disposing
  <2>2. status[y] = "live" /\ y \notin IdleConnections /\ \A e \in Client : y \notin garbage[e]
    BY <2>1 DEF Sound
  <2>3. y \notin Garbage
    BY <2>2 DEF Garbage
  <2>4. /\ y \in LeasedConnections
        /\ LeasedConnections' = LeasedConnections \ {y}
        /\ ClosedConnections' = ClosedConnections \cup {y}
    BY <1>1, <1>4, <2>2, <2>3 DEF LeasedConnections, ClosedConnections, Shape, FieldsOK
  <2>5. Leases!Discard(y)
    BY <1>1, <2>4 DEF Leases!Discard
  <2> QED
    BY <2>5 DEF Leases!LeaseNext
<1> QED
  BY <1>2, <1>3, <1>4 DEF Dispose

LEMMA SweepIsQuiet ==
  ASSUME Shape, Owned, NEW c \in Client, Sweep(c)
  PROVE  UNCHANGED Leases!leaseVars
<1>1. IdleConnections' = IdleConnections
  BY DEF Sweep, IdleConnections
<1>2. garbage'[c] = {} /\ \A d \in Client \ {c} : garbage'[d] = garbage[d]
  BY DEF Sweep, Shape, LocalsOK
<1>3. \A x : /\ x \in Garbage' => x \in Garbage
             /\ x \in Garbage => x \in Garbage' \/ x \in garbage[c]
             /\ x \in garbage[c] => x \in Garbage
  BY <1>2 DEF Garbage
<1>4. \A x \in Connection : status'[x] = IF x \in garbage[c] THEN "deleted" ELSE status[x]
  BY DEF Sweep
<1>5. LeasedConnections' = LeasedConnections
  BY <1>1, <1>3, <1>4 DEF LeasedConnections
<1>6. ClosedConnections' = ClosedConnections
  BY <1>3, <1>4 DEF ClosedConnections
<1> QED
  BY <1>1, <1>5, <1>6 DEF Leases!leaseVars

LEMMA EveryStepLeases ==
  Shape /\ Shape' /\ Owned /\ [Next]_vars => [Leases!LeaseNext]_(Leases!leaseVars)
<1> SUFFICES ASSUME Shape, Shape', Owned, [Next]_vars
             PROVE  [Leases!LeaseNext]_(Leases!leaseVars)
  OBVIOUS
<1>1. ASSUME NEW c \in Client,
             \/ Open(c) \/ Reuse(c) \/ ConnectFails(c) \/ SessionStep(c) \/ Release(c) \/ GC(c)
      PROVE  UNCHANGED <<connection_pool, status, garbage>>
  BY <1>1 DEF Open, Reuse, ConnectFails, SessionStep, Copy, Close, SetRecyclable, Release, GC,
              objects, locals
<1>2. ASSUME Tick \/ UNCHANGED vars
      PROVE  UNCHANGED <<connection_pool, status, garbage>>
  BY <1>2 DEF Tick, vars, objects, locals
<1>3. ASSUME NEW c \in Client, Connect(c) \/ Get(c) \/ Put(c) \/ Clear(c)
      PROVE  Leases!LeaseNext
  BY <1>3, ConnectEstablishes, GetLeases, PutGivesBack, ClearLeases
<1> QED
  BY <1>1, <1>2, <1>3, QuietLease, DisposeDiscards, SweepIsQuiet
     DEF Next, OpenStep, ReturnStep

(* The pool implements what its header promises: a connection is leased or *)
(* idle, never both; at most limit_ are idle; a closed one never returns.  *)
THEOREM PoolImplementsLeases == Spec => ImplementsLeases
<1>1. Init => Leases!LeaseInit
  BY LeaseInitially
<1>2. Shape /\ Shape' /\ Owned /\ [Next]_vars => [Leases!LeaseNext]_(Leases!leaseVars)
  BY EveryStepLeases
<1> QED
  BY <1>1, <1>2, Ownership, PTL DEF Spec, ImplementsLeases, Leases!LeaseSpec
==============================================================================
