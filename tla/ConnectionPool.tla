---------------------------- MODULE ConnectionPool ----------------------------
(***************************************************************************)
(* The pool of database connections: db/common/connection_pool.cc, the     *)
(* part of db/backend/db_connection.cc that returns a connection to its    *)
(* pool, the reference counts of base/ref_counted.h between them, and the  *)
(* sessions of db/frontend/session.cc that hold the connections.           *)
(*                                                                         *)
(* A section executed under lock_ is one action.  Time::Now() is read      *)
(* before the lock is taken, so the reading can be old when it is used.    *)
(*                                                                         *)
(* A definition whose name ends in a capital X is a slip that the          *)
(* definition below it could have: TLC must find it out (see README.md).   *)
(***************************************************************************)
EXTENDS Integers, Sequences, FiniteSets

CONSTANTS
  Client,            \* threads, each with a Session of its own
  Connection,        \* DBConnection objects, none of them reused
  Limit,             \* limit_
  LifeTime,          \* life_time_
  MaxTime,           \* bound: the clock stops here
  NoConnection

ASSUME PoolAssumption ==
  /\ IsFiniteSet(Client)
  /\ NoConnection \notin Connection
  /\ Limit \in Nat
  /\ LifeTime \in Nat
  /\ MaxTime \in Nat

(* Entry; `entered` is history: the time at which it came into the list.   *)
Entry == [connection : Connection, last_used : Nat, entered : Nat]

VARIABLES
  connection_pool,   \* std::list<Entry>, oldest first
  size,              \* size_
  status,            \* of each connection: unborn, live or deleted
  ref_count,
  attached,          \* the connections whose connection_pool_ is set
  recyclable,        \* the connections whose recyclable_ is set
  db_connection,     \* each client's Session::db_connection_
  clock,
  pc,                \* where each client is
  now,               \* the client's reading of the clock
  connection,        \* the local of ConnectionPool::Open
  subject,           \* the connection a client releases, disposes of or puts
  garbage            \* the connections each client has taken off the list

objects == <<status, ref_count, attached, recyclable>>
locals  == <<now, connection, subject, garbage>>
vars    == <<connection_pool, size, objects, db_connection, clock, pc, locals>>

------------------------------------------------------------------------------
Goto(c, label) == pc' = [pc EXCEPT ![c] = label]

Connections(s) == {s[i].connection : i \in DOMAIN s}

FirstConnections(s, n) == {s[i].connection : i \in 1..n}

After(s, n) == SubSeq(s, n + 1, Len(s))

(* No entry is ever too old. *)
StaleX(entry, t) == FALSE

Stale(entry, t) == entry.last_used + LifeTime < t

(* The scan takes n entries off the front, up to the first that is fresh.  *)
Scans(s, n, t) ==
  /\ \A i \in 1..n : Stale(s[i], t)
  /\ n < Len(s) => ~Stale(s[n + 1], t)

(* A scoped_ref_ptr to x goes to client c's Session, and what the Session  *)
(* held until now is released next.                                        *)
Adopt(c, x) ==
  /\ db_connection' = [db_connection EXCEPT ![c] = x]
  /\ subject' = [subject EXCEPT ![c] = db_connection[c]]
  /\ Goto(c, "release")

------------------------------------------------------------------------------
(* Session::Open.                                                          *)

Open(c) ==
  /\ pc[c] = "ready"
  /\ IF Limit = 0
     THEN Goto(c, "connect") /\ UNCHANGED now
     ELSE Goto(c, "getLock") /\ now' = [now EXCEPT ![c] = clock]
  /\ UNCHANGED <<connection_pool, size, objects, db_connection, clock, connection, subject,
                 garbage>>

(* get(): the entry's reference passes to the local variable.              *)
Take(c, rest) ==
  /\ connection_pool' = SubSeq(rest, 1, Len(rest) - 1)
  /\ connection' = [connection EXCEPT ![c] = rest[Len(rest)].connection]

Get(c) ==
  /\ pc[c] = "getLock"
  /\ \E n \in 0..Len(connection_pool) :
       LET rest == After(connection_pool, n)
       IN  /\ Scans(connection_pool, n, now[c])
           /\ garbage' = [garbage EXCEPT ![c] = FirstConnections(connection_pool, n)]
           /\ IF rest = <<>>
              THEN /\ connection_pool' = <<>>
                   /\ size' = size - n
                   /\ UNCHANGED connection
              ELSE /\ Take(c, rest)
                   /\ size' = size - n - 1
  /\ Goto(c, "getSweep")
  /\ UNCHANGED <<objects, db_connection, clock, now, subject>>

(* Open goes on with what get() returned.                                  *)
Reuse(c) ==
  /\ pc[c] = "connect"
  /\ connection[c] # NoConnection
  /\ attached' = attached \cup {connection[c]}
  /\ connection' = [connection EXCEPT ![c] = NoConnection]
  /\ Adopt(c, connection[c])
  /\ UNCHANGED <<connection_pool, size, status, ref_count, recyclable, clock, now, garbage>>

(* Bounded by Connection: an identity must be unused. *)
Connect(c) ==
  /\ pc[c] = "connect"
  /\ connection[c] = NoConnection
  /\ \E x \in Connection :
       /\ status[x] = "unborn"
       /\ status' = [status EXCEPT ![x] = "live"]
       /\ ref_count' = [ref_count EXCEPT ![x] = 1]
       /\ attached' = IF Limit = 0 THEN attached ELSE attached \cup {x}
       /\ Adopt(c, x)
  /\ UNCHANGED <<connection_pool, size, recyclable, clock, now, connection, garbage>>

(* The connector throws; the Session keeps what it had.                    *)
ConnectFails(c) ==
  /\ pc[c] = "connect"
  /\ connection[c] = NoConnection
  /\ Goto(c, "ready")
  /\ UNCHANGED <<connection_pool, size, objects, db_connection, clock, locals>>

------------------------------------------------------------------------------
(* Sessions: copying, closing, and the recyclable flag.                    *)

(* The copied pointer adds no reference. *)
CopyX(c, d) ==
  /\ c # d
  /\ pc[c] = "ready" /\ pc[d] = "ready"
  /\ db_connection[d] # NoConnection
  /\ Adopt(c, db_connection[d])
  /\ UNCHANGED <<connection_pool, size, objects, clock, now, connection, garbage>>

Copy(c, d) ==
  /\ c # d
  /\ pc[c] = "ready" /\ pc[d] = "ready"
  /\ db_connection[d] # NoConnection
  /\ ref_count' = [ref_count EXCEPT ![db_connection[d]] = @ + 1]
  /\ Adopt(c, db_connection[d])
  /\ UNCHANGED <<connection_pool, size, status, attached, recyclable, clock, now, connection,
                 garbage>>

Close(c) ==
  /\ pc[c] = "ready"
  /\ Adopt(c, NoConnection)
  /\ UNCHANGED <<connection_pool, size, objects, clock, now, connection, garbage>>

(* Session::set_recyclable, and DBConnectionThrowGuard when a call throws. *)
SetRecyclable(c, v) ==
  /\ pc[c] = "ready"
  /\ db_connection[c] # NoConnection
  /\ recyclable' = IF v THEN recyclable \cup {db_connection[c]}
                   ELSE recyclable \ {db_connection[c]}
  /\ UNCHANGED <<connection_pool, size, status, ref_count, attached, db_connection, clock, pc,
                 locals>>

(* Every release disposes. *)
ReleaseX(c) ==
  /\ pc[c] = "release"
  /\ IF subject[c] = NoConnection
     THEN Goto(c, "ready") /\ UNCHANGED ref_count
     ELSE /\ ref_count' = [ref_count EXCEPT ![subject[c]] = @ - 1]
          /\ Goto(c, "dispose")
  /\ UNCHANGED <<connection_pool, size, status, attached, recyclable, db_connection, clock, locals>>

(* One atomic decrement; whoever brings the count to zero disposes.        *)
Release(c) ==
  /\ pc[c] = "release"
  /\ IF subject[c] = NoConnection
     THEN Goto(c, "ready") /\ UNCHANGED <<ref_count, subject>>
     ELSE /\ ref_count' = [ref_count EXCEPT ![subject[c]] = @ - 1]
          /\ IF ref_count[subject[c]] = 1
             THEN Goto(c, "dispose") /\ UNCHANGED subject
             ELSE Goto(c, "ready") /\ subject' = [subject EXCEPT ![c] = NoConnection]
  /\ UNCHANGED <<connection_pool, size, status, attached, recyclable, db_connection, clock, now,
                 connection, garbage>>

(* The connection keeps its pointer to the pool. *)
DetachX(x) == UNCHANGED attached

Detach(x) == attached' = attached \ {x}

(* DBConnection::Dispose, and Put as far as its reading of the clock.      *)
Dispose(c) ==
  /\ pc[c] = "dispose"
  /\ Detach(subject[c])
  /\ IF subject[c] \in attached \cap recyclable /\ Limit # 0
     THEN /\ now' = [now EXCEPT ![c] = clock]
          /\ Goto(c, "putLock")
          /\ UNCHANGED <<status, subject>>
     ELSE /\ status' = [status EXCEPT ![subject[c]] = "deleted"]
          /\ subject' = [subject EXCEPT ![c] = NoConnection]
          /\ Goto(c, "ready")
          /\ UNCHANGED now
  /\ UNCHANGED <<connection_pool, size, ref_count, recyclable, db_connection, clock, connection,
                 garbage>>

------------------------------------------------------------------------------
(* Put, GC and Clear.                                                      *)

(* GC() is Put(nullptr). *)
GC(c) ==
  /\ pc[c] = "ready"
  /\ Limit # 0
  /\ now' = [now EXCEPT ![c] = clock]
  /\ Goto(c, "putLock")
  /\ UNCHANGED <<connection_pool, size, objects, db_connection, clock, connection, subject,
                 garbage>>

(* The entries Put scans: those there and, last, the connection put back.  *)
WithSubject(c) ==
  IF subject[c] = NoConnection THEN connection_pool
  ELSE Append(connection_pool, [connection |-> subject[c],
                                last_used  |-> now[c],
                                entered    |-> clock])

(* The limit is off by one. *)
ExcessX(count) == IF count > Limit + 1 THEN 1 ELSE 0

(* One more entry goes when count are left after the scan.                 *)
Excess(count) == IF count > Limit THEN 1 ELSE 0

(* The connection put back is not counted. *)
CountedX(c) == size

Counted(c) == IF subject[c] = NoConnection THEN size ELSE size + 1

Put(c) ==
  /\ pc[c] = "putLock"
  /\ \E n \in 0..Len(WithSubject(c)) :
       LET gone == n + Excess(Counted(c) - n)
       IN  /\ Scans(WithSubject(c), n, now[c])
           /\ connection_pool' = After(WithSubject(c), gone)
           /\ size' = Counted(c) - gone
           /\ garbage' = [garbage EXCEPT ![c] = FirstConnections(WithSubject(c), gone)]
  /\ ref_count' = [x \in Connection |-> IF x = subject[c] THEN 1 ELSE ref_count[x]]
  /\ subject' = [subject EXCEPT ![c] = NoConnection]
  /\ Goto(c, "putSweep")
  /\ UNCHANGED <<status, attached, recyclable, db_connection, clock, now, connection>>

Clear(c) ==
  /\ pc[c] = "ready"
  /\ connection_pool' = <<>>
  /\ size' = 0
  /\ garbage' = [garbage EXCEPT ![c] = Connections(connection_pool)]
  /\ Goto(c, "putSweep")
  /\ UNCHANGED <<objects, db_connection, clock, now, connection, subject>>

(* The garbage list is destroyed after the lock is released.  Its entries  *)
(* held the last references, and Dispose finds no connection_pool_.        *)
Sweep(c) ==
  /\ pc[c] \in {"getSweep", "putSweep"}
  /\ status' = [x \in Connection |-> IF x \in garbage[c] THEN "deleted" ELSE status[x]]
  /\ ref_count' = [x \in Connection |-> IF x \in garbage[c] THEN ref_count[x] - 1 ELSE ref_count[x]]
  /\ garbage' = [garbage EXCEPT ![c] = {}]
  /\ Goto(c, IF pc[c] = "getSweep" THEN "connect" ELSE "ready")
  /\ UNCHANGED <<connection_pool, size, attached, recyclable, db_connection, clock, now, connection,
                 subject>>

Tick ==
  /\ clock < MaxTime
  /\ clock' = clock + 1
  /\ UNCHANGED <<connection_pool, size, objects, db_connection, pc, locals>>

------------------------------------------------------------------------------
Init ==
  /\ connection_pool = <<>>
  /\ size = 0
  /\ status = [x \in Connection |-> "unborn"]
  /\ ref_count = [x \in Connection |-> 0]
  /\ attached = {}
  /\ recyclable = {}
  /\ db_connection = [c \in Client |-> NoConnection]
  /\ clock = 0
  /\ pc = [c \in Client |-> "ready"]
  /\ now = [c \in Client |-> 0]
  /\ connection = [c \in Client |-> NoConnection]
  /\ subject = [c \in Client |-> NoConnection]
  /\ garbage = [c \in Client |-> {}]

OpenStep(c) == Open(c) \/ Get(c) \/ Reuse(c) \/ Connect(c) \/ ConnectFails(c)

SessionStep(c) ==
  \/ \E d \in Client : Copy(c, d)
  \/ Close(c)
  \/ \E v \in BOOLEAN : SetRecyclable(c, v)

ReturnStep(c) == Release(c) \/ Dispose(c) \/ GC(c) \/ Put(c) \/ Clear(c) \/ Sweep(c)

Next ==
  \/ \E c \in Client : OpenStep(c) \/ SessionStep(c) \/ ReturnStep(c)
  \/ Tick

Spec == Init /\ [][Next]_vars
==============================================================================
