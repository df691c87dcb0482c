--------------------------- MODULE ConnectionManager ---------------------------
(***************************************************************************)
(* db/common/connection_manager.cc: the map from connection strings to     *)
(* pools, Open, which makes a pool when a string comes up for the first    *)
(* time, and GC, which erases the pools nobody uses.                       *)
(*                                                                         *)
(* A pool is seen from outside here: who holds a reference to it.  What it *)
(* does with its connections is in ConnectionPool.                         *)
(*                                                                         *)
(* A definition whose name ends in a capital X is a slip that the          *)
(* definition below it could have: TLC must find it out (see README.md).   *)
(***************************************************************************)
EXTENDS Naturals, FiniteSets

CONSTANTS
  Client,            \* threads, each with a Session of its own
  Strings,           \* number of connection strings that ask for a pool
  Pool,              \* ConnectionPool objects, none of them reused
  NoPool, NoClient

ASSUME ManagerAssumption ==
  /\ Strings \in Nat
  /\ NoPool \notin Pool
  /\ NoClient \notin Client

(* Strings matter only by their order in the map. *)
String == 1..Strings

End == Strings + 1

VARIABLES
  connections,   \* ConnectionManager::connections_; NoPool where there is no key
  made_for,      \* connection_info_ of each pool, 0 before it is made
  lock,          \* who holds lock_ between two actions, or NoClient
  db_connection, \* the pool that each Session's connection points to
  pc,            \* where each client is
  str,           \* the string it opens
  pool,          \* the local `pool` of Open, and of DBConnection::Dispose
  pools,         \* the local `pools` of GC
  it             \* the iterator of GC's second loop

locals == <<str, pool, pools, it>>
vars   == <<connections, made_for, lock, db_connection, pc, locals>>

------------------------------------------------------------------------------
Goto(c, label) == pc' = [pc EXCEPT ![c] = label]

Free == lock = NoClient

Registered == {s \in String : connections[s] # NoPool}

(* The map holds one reference to its pool, the rest are these clients'.   *)
Holders(p) == {c \in Client : db_connection[c] = p \/ pool[c] = p \/ p \in pools[c]}

(* The reference in hand is taken for the only one. *)
HasOneRefX(p) == TRUE

HasOneRef(p) == Holders(p) = {}

(* The key after s, or the end of the map: a set of one element.           *)
Following(s) ==
  {u \in Registered \cup {End} : u > s /\ \A v \in Registered : v > s => u <= v}

(* The session's connection is replaced by one of pool p (or by none) and  *)
(* disposed of, with its pointer to its pool moved to a local.             *)
Adopt(c, p) ==
  /\ db_connection' = [db_connection EXCEPT ![c] = p]
  /\ pool' = [pool EXCEPT ![c] = db_connection[c]]
  /\ Goto(c, "dispose")

------------------------------------------------------------------------------
(* Open(str) finds the pool or goes on to Open(info). *)
OpenString(c, s) ==
  /\ pc[c] = "ready"
  /\ Free
  /\ IF s \in Registered
     THEN pool' = [pool EXCEPT ![c] = connections[s]] /\ Goto(c, "open") /\ UNCHANGED str
     ELSE str' = [str EXCEPT ![c] = s] /\ Goto(c, "register") /\ UNCHANGED pool
  /\ UNCHANGED <<connections, made_for, lock, db_connection, pools, it>>

OpenInfo(c, s) ==
  /\ pc[c] = "ready"
  /\ str' = [str EXCEPT ![c] = s]
  /\ Goto(c, "register")
  /\ UNCHANGED <<connections, made_for, lock, db_connection, pool, pools, it>>

(* A connection string that asks for no pool: the manager is not involved. *)
OpenDirect(c) ==
  /\ pc[c] = "ready"
  /\ Adopt(c, NoPool)
  /\ UNCHANGED <<connections, made_for, lock, str, pools, it>>

(* `pool` is set only together with a new entry of the map.                *)
(* Bounded by Pool: an identity must be unused.                            *)
Register(c) ==
  /\ pc[c] = "register"
  /\ Free
  /\ IF str[c] \notin Registered
     THEN \E p \in Pool :
            /\ made_for[p] = 0
            /\ made_for' = [made_for EXCEPT ![p] = str[c]]
            /\ connections' = [connections EXCEPT ![str[c]] = p]
            /\ pool' = [pool EXCEPT ![c] = p]
     ELSE UNCHANGED <<made_for, connections, pool>>
  /\ str' = [str EXCEPT ![c] = 0]
  /\ Goto(c, "open")
  /\ UNCHANGED <<lock, db_connection, pools, it>>

(* pool->Open().  Without a pool the assertion in operator-> fails, and    *)
(* the client goes no further.                                             *)
OpenPool(c) ==
  /\ pc[c] = "open"
  /\ pool[c] # NoPool
  /\ Adopt(c, pool[c])
  /\ UNCHANGED <<connections, made_for, lock, str, pools, it>>

OpenFails(c) ==
  /\ pc[c] = "open"
  /\ pool[c] # NoPool
  /\ pool' = [pool EXCEPT ![c] = NoPool]
  /\ Goto(c, "ready")
  /\ UNCHANGED <<connections, made_for, lock, db_connection, str, pools, it>>

Close(c) ==
  /\ pc[c] = "ready"
  /\ Adopt(c, NoPool)
  /\ UNCHANGED <<connections, made_for, lock, str, pools, it>>

(* The old connection went back to its pool or was deleted; the local      *)
(* reference to the pool goes.                                             *)
Dispose(c) ==
  /\ pc[c] = "dispose"
  /\ pool' = [pool EXCEPT ![c] = NoPool]
  /\ Goto(c, "ready")
  /\ UNCHANGED <<connections, made_for, lock, db_connection, str, pools, it>>

------------------------------------------------------------------------------
(* GC's first loop.  The call of GC on each pool changes none of this.     *)
GCCollect(c) ==
  /\ pc[c] = "ready"
  /\ Free
  /\ pools' = [pools EXCEPT ![c] = {connections[s] : s \in Registered}]
  /\ Goto(c, "collected")
  /\ UNCHANGED <<connections, made_for, lock, db_connection, str, pool, it>>

(* pools.clear(), one reference at a time. *)
GCDrop(c) ==
  /\ pc[c] \in {"collected", "erased"}
  /\ \E p \in pools[c] : pools' = [pools EXCEPT ![c] = @ \ {p}]
  /\ UNCHANGED <<connections, made_for, lock, db_connection, pc, str, pool, it>>

(* The second loop is left, and the lock released, at the end of the map.  *)
AdvanceX(c, next) ==
  IF next = End THEN Goto(c, "erased") /\ UNCHANGED lock
  ELSE Goto(c, "visit") /\ lock' = c

Advance(c, next) ==
  IF next = End THEN Goto(c, "erased") /\ lock' = NoClient
  ELSE Goto(c, "visit") /\ lock' = c

GCBegin(c) ==
  /\ pc[c] = "collected" /\ pools[c] = {}
  /\ Free
  /\ \E first \in Following(0) :
       /\ it' = [it EXCEPT ![c] = first]
       /\ Advance(c, first)
  /\ UNCHANGED <<connections, made_for, db_connection, str, pool, pools>>

(* The pool at the iterator is erased if nobody else refers to it.         *)
Erase(c) ==
  IF HasOneRef(connections[it[c]])
  THEN /\ pools' = [pools EXCEPT ![c] = @ \cup {connections[it[c]]}]
       /\ connections' = [connections EXCEPT ![it[c]] = NoPool]
  ELSE UNCHANGED <<pools, connections>>

(* The iterator is advanced in the body and again by the for statement.    *)
Skip(c) ==
  \E skipped \in Following(it[c]) \ {End} :
    \E next \in Following(skipped) :
      /\ it' = [it EXCEPT ![c] = next]
      /\ Advance(c, next)

(* After the last element it is advanced past the end, which is undefined: *)
(* the client walks the tree for ever, with lock_ in its hands, or finds   *)
(* itself at some element again.                                           *)
Overrun(c) ==
  /\ End \in Following(it[c])
  /\ \/ Goto(c, "lost") /\ UNCHANGED <<it, lock>>
     \/ /\ \E s \in String : connections'[s] # NoPool /\ it' = [it EXCEPT ![c] = s]
        /\ UNCHANGED <<pc, lock>>

GCVisit(c) ==
  /\ pc[c] = "visit"
  /\ Erase(c)
  /\ Skip(c) \/ Overrun(c)
  /\ UNCHANGED <<made_for, db_connection, str, pool>>

GCReturn(c) ==
  /\ pc[c] = "erased" /\ pools[c] = {}
  /\ Goto(c, "ready")
  /\ UNCHANGED <<connections, made_for, lock, db_connection, locals>>

------------------------------------------------------------------------------
Init ==
  /\ connections = [s \in String |-> NoPool]
  /\ made_for = [p \in Pool |-> 0]
  /\ lock = NoClient
  /\ db_connection = [c \in Client |-> NoPool]
  /\ pc = [c \in Client |-> "ready"]
  /\ str = [c \in Client |-> 0]
  /\ pool = [c \in Client |-> NoPool]
  /\ pools = [c \in Client |-> {}]
  /\ it = [c \in Client |-> End]

OpenStep(c) ==
  \/ \E s \in String : OpenString(c, s) \/ OpenInfo(c, s)
  \/ OpenDirect(c) \/ Register(c) \/ OpenPool(c) \/ OpenFails(c)

GCStep(c) == GCCollect(c) \/ GCDrop(c) \/ GCBegin(c) \/ GCVisit(c) \/ GCReturn(c)

Next == \E c \in Client : OpenStep(c) \/ Close(c) \/ Dispose(c) \/ GCStep(c)

Spec == Init /\ [][Next]_vars
==============================================================================
