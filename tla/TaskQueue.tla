------------------------------ MODULE TaskQueue ------------------------------
(***************************************************************************)
(* What threading/thread_manager.h promises of the queue between Add and   *)
(* the workers, with no threads, locks or condition variables: tasks enter *)
(* at the back while there is room, leave at the front, each leaves once,  *)
(* and it is then either begun or dropped, never both.                     *)
(***************************************************************************)
EXTENDS Integers, Sequences

CONSTANT Bound          \* greatest number of pending tasks, 0: no maximum

VARIABLES pending,      \* ids of the tasks waiting, oldest first
          accepted,     \* number of tasks accepted so far: the newest id
          begun,        \* ids of the tasks handed to a worker
          dropped       \* ids of the tasks expired or taken back

queueVars == <<pending, accepted, begun, dropped>>

QueueInit ==
  /\ pending = <<>>
  /\ accepted = 0
  /\ begun = {}
  /\ dropped = {}

After(n) == SubSeq(pending, n + 1, Len(pending))
First(n) == {pending[i] : i \in 1..n}

(* Drop the n oldest tasks. *)
Drop(n) ==
  /\ pending' = After(n)
  /\ dropped' = dropped \cup First(n)
  /\ UNCHANGED <<accepted, begun>>

(* Drop the n oldest tasks and begin the next. *)
Begin(n) ==
  /\ n < Len(pending)
  /\ pending' = After(n + 1)
  /\ dropped' = dropped \cup First(n)
  /\ begun' = begun \cup {pending[n + 1]}
  /\ UNCHANGED accepted

(* Drop the n oldest tasks and accept a new one, if that leaves room.      *)
Accept(n) ==
  /\ Bound = 0 \/ Len(pending) - n < Bound
  /\ pending' = Append(After(n), accepted + 1)
  /\ accepted' = accepted + 1
  /\ dropped' = dropped \cup First(n)
  /\ UNCHANGED begun

QueueNext == \E n \in 0..Len(pending) : Drop(n) \/ Begin(n) \/ Accept(n)

QueueSpec == QueueInit /\ [][QueueNext]_queueVars
==============================================================================
