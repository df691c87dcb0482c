--------------------------- MODULE ConnectionLeases ---------------------------
(***************************************************************************)
(* What db/common/connection_pool.h promises its users, with no threads,   *)
(* reference counts, clocks or lists: a connection is leased to somebody   *)
(* or idle, never both; at most Limit are idle; and one that is closed is  *)
(* never seen again.                                                       *)
(***************************************************************************)
EXTENDS Integers, FiniteSets

CONSTANTS Connection, Limit

VARIABLES leased, idle, closed

leaseVars == <<leased, idle, closed>>

LeaseInit == leased = {} /\ idle = {} /\ closed = {}

(* A new connection is made and leased. *)
Establish(x) ==
  /\ x \notin leased \cup idle \cup closed
  /\ leased' = leased \cup {x}
  /\ UNCHANGED <<idle, closed>>

(* Idle connections are closed, and one of the others may be leased.       *)
Lease(stale, chosen) ==
  /\ Cardinality(chosen) <= 1
  /\ stale \cap chosen = {}
  /\ idle' = idle \ (stale \cup chosen)
  /\ leased' = leased \cup chosen
  /\ closed' = closed \cup stale

(* A lease, or none, ends; what was leased becomes idle, and idle          *)
(* connections are closed so that no more than Limit stay.                 *)
GiveBack(returned, evicted) ==
  /\ Cardinality(returned) <= 1
  /\ leased' = leased \ returned
  /\ idle' = (idle \cup returned) \ evicted
  /\ closed' = closed \cup evicted
  /\ Cardinality(idle') <= Limit

(* A lease ends and its connection is closed. *)
Discard(x) ==
  /\ x \in leased
  /\ leased' = leased \ {x}
  /\ closed' = closed \cup {x}
  /\ UNCHANGED idle

LeaseNext ==
  \/ \E x \in Connection : Establish(x) \/ Discard(x)
  \/ \E stale, chosen \in SUBSET idle : Lease(stale, chosen)
  \/ \E returned \in SUBSET leased : \E evicted \in SUBSET (idle \cup returned) :
       GiveBack(returned, evicted)

LeaseSpec == LeaseInit /\ [][LeaseNext]_leaseVars
==============================================================================
