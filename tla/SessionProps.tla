----------------------------- MODULE SessionProps -----------------------------
(***************************************************************************)
(* What is asked of sessions and transactions, as modelled in Session.     *)
(***************************************************************************)
EXTENDS Session

SessionTypeOK ==
  /\ idle \subseteq opened /\ opened \subseteq Connection
  /\ recyclable \subseteq Connection /\ once_called \subseteq Connection
  /\ thrown \subseteq Connection
  /\ leased \in [User -> Connection \cup {NoConnection}]
  /\ commited \subseteq User
  /\ doing \in [User -> {"closed", "open", "once", "scope", "unwinding"}]
  /\ scope \in [User -> Scope \cup {NoScope}]
  /\ in_transaction \subseteq Connection
  /\ pending \in [Connection -> SUBSET Row]
  /\ durable \subseteq Row /\ written \subseteq Row
  /\ doubtful \subseteq Row /\ loose \subseteq Row
  /\ outcome \in [Scope -> {"none", "running", "committed", "undone"}]
  /\ completed \in [Connection -> Nat]

RowsOf(k) == RowsIn(k) \cap written

(* The rows of a scope that was committed are all in the database, those   *)
(* of any other scope are not: not while it runs, not after it was rolled  *)
(* back or left by an exception, not through the next BEGIN on its         *)
(* connection, not after a crash; nor is a row there whose Execute threw.  *)
(* A failed Execute may have undone the transaction.  In a program that    *)
(* handles its exception in the scope and goes on, a commit keeps what was *)
(* written after the last exception (the rest is doubtful), and any other  *)
(* end leaves nothing of what was written before the first (the rest is    *)
(* loose: it may have been committed row by row).                          *)
AllOrNothing ==
  \A k \in Scope :
    IF outcome[k] = "committed" THEN RowsOf(k) \ doubtful \subseteq durable
    ELSE (RowsIn(k) \ loose) \cap durable = {}

(* What the pool hands on is fit for the next session: no transaction is   *)
(* open on it, no driver call has failed on it, and once_called_ says      *)
(* truly whether the functor has completed, which it never does twice.     *)
PooledIsFit ==
  \A c \in idle :
    /\ c \notin in_transaction
    /\ c \notin thrown
    /\ completed[c] = IF c \in once_called THEN 1 ELSE 0
==============================================================================
