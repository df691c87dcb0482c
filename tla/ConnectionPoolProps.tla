------------------------- MODULE ConnectionPoolProps -------------------------
(***************************************************************************)
(* What is asked of the connection pool, as modelled in ConnectionPool.    *)
(***************************************************************************)
EXTENDS ConnectionPool

Label ==
  {"ready", "getLock", "getSweep", "connect", "release", "dispose", "putLock", "putSweep"}

FieldsOK ==
  /\ connection_pool \in Seq(Entry)
  /\ status \in [Connection -> {"unborn", "live", "deleted"}]
  /\ attached \subseteq Connection
  /\ recyclable \subseteq Connection
  /\ db_connection \in [Client -> Connection \cup {NoConnection}]
  /\ clock \in Nat

LocalsOK ==
  /\ pc \in [Client -> Label]
  /\ now \in [Client -> Nat]
  /\ connection \in [Client -> Connection \cup {NoConnection}]
  /\ subject \in [Client -> Connection \cup {NoConnection}]
  /\ garbage \in [Client -> SUBSET Connection]

(* Fields and locals keep their types; neither size_ nor a reference count *)
(* ever passes below zero.                                                 *)
TypeOK ==
  /\ FieldsOK
  /\ LocalsOK
  /\ size \in Nat
  /\ ref_count \in [Connection -> Nat]

IdleConnections == Connections(connection_pool)

(* The pointers to x: in sessions, in the local of Open, in assignments    *)
(* about to release what they replaced, in garbage lists, in the pool.     *)
InSession(x) == {c \in Client : db_connection[c] = x}
Opening(x)   == {c \in Client : connection[c] = x}
Releasing(x) == {c \in Client : pc[c] = "release" /\ subject[c] = x}
Sweeping(x)  == {c \in Client : x \in garbage[c]}

References(x) ==
  Cardinality(InSession(x)) + Cardinality(Opening(x)) + Cardinality(Releasing(x))
    + Cardinality(Sweeping(x)) + (IF x \in IdleConnections THEN 1 ELSE 0)

(* Between its last release and its return to the pool or its deletion.    *)
Disposing(x) == {c \in Client : pc[c] \in {"dispose", "putLock"} /\ subject[c] = x}

(* size_ is the length of the list whenever lock_ is free.                 *)
SizeExact == size = Len(connection_pool)

(* The reference count of a connection is the number of its references,    *)
(* although Put takes it out of Dispose at zero and counts it again.       *)
RefCountExact == \A x \in Connection : ref_count[x] = References(x)

(* A connection exists exactly as long as somebody holds it or one thread  *)
(* disposes of it: no reference dangles, none leaks, none is freed twice.  *)
LiveWhileHeld ==
  \A x \in Connection :
    /\ status[x] = "live" <=> References(x) > 0 \/ Disposing(x) # {}
    /\ Disposing(x) # {} => References(x) = 0
    /\ \A c, d \in Disposing(x) : c = d

(* An idle connection is in the list once, nobody uses it, and it has no   *)
(* pointer back to the pool: get() can give it to anyone.                  *)
IdleUnshared ==
  /\ \A i, j \in DOMAIN connection_pool :
       connection_pool[i].connection = connection_pool[j].connection => i = j
  /\ \A x \in IdleConnections : References(x) = 1 /\ x \notin attached

(* What get() hands out had been in the pool for no longer than life_time_ *)
(* when get() read the clock, or came in after that, although entries may  *)
(* stand out of order of last_used.  The reading is older than the lock:   *)
(* by the time the connection is handed out it can have been in the pool   *)
(* for longer, by as much as the thread has waited.                        *)
FreshAtReading ==
  [][\A c \in Client :
       connection[c] = NoConnection /\ connection'[c] # NoConnection =>
         \E i \in DOMAIN connection_pool :
           /\ connection_pool[i].connection = connection'[c]
           /\ connection_pool[i].entered + LifeTime >= now[c]]_vars

(* The pool behaves as its users see it: one lease at a time, no more than *)
(* limit_ idle, and what was closed does not come back.                    *)
Garbage == UNION {garbage[c] : c \in Client}

LeasedConnections ==
  {x \in Connection : status[x] = "live" /\ x \notin IdleConnections /\ x \notin Garbage}

ClosedConnections == {x \in Connection : status[x] = "deleted" \/ x \in Garbage}

Leases == INSTANCE ConnectionLeases WITH
  leased <- LeasedConnections, idle <- IdleConnections, closed <- ClosedConnections

ImplementsLeases == Leases!LeaseSpec
==============================================================================
