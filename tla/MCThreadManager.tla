---------------------------- MODULE MCThreadManager ----------------------------
(***************************************************************************)
(* Small programs over the thread manager for TLC.                         *)
(***************************************************************************)
EXTENDS ThreadManagerProps, TLC

CONSTANTS main, a, b,        \* clients
          plain, nesting     \* runnables: `nesting` adds a plain task as it runs

Start == [op |-> "Start"]
Stop == [op |-> "Stop"]
Join == [op |-> "Join"]
Grow == [op |-> "AddWorker", value |-> 1]
Shrink(n) == [op |-> "RemoveWorker", value |-> n]
TakeBack == [op |-> "RemoveNextPending"]
CountExpired == [op |-> "ExpiredTaskCount"]
After(c, n) == [op |-> "Await", client |-> c, calls |-> n]
Submit(r, t, e) == [op |-> "Add",
                    request |-> [runnable |-> r, timeout |-> t, expires |-> e]]

Bodies ==
  [r \in Runnable |->
     IF r = nesting THEN [runnable |-> plain, timeout |-> "forever", expires |-> FALSE]
     ELSE NoRequest]

(* The pool is joined while two other clients are still submitting.        *)
JoinScript ==
  [c \in Client |->
     IF c = main THEN <<Start, Join>>
     ELSE IF c = a
     THEN <<After(main, 1), Submit(nesting, "forever", FALSE), Submit(plain, "none", TRUE)>>
     ELSE <<After(main, 1), Submit(plain, "forever", FALSE)>>]

(* The program of run tm_join is one that the theorems about a manager     *)
(* with an owner are about.                                                *)
ASSUME JoinScriptIsOwned ==
  Script = JoinScript =>
    /\ OwnedBy(main)
    /\ AddersDoNotSleep
    /\ InitialWorkers > 0
    /\ Cardinality(Worker) <= SizeMax

(* More tasks than the queue has room for; adders sleep, time out or are   *)
(* refused, and one task adds another from its worker.                     *)
BoundedScript ==
  [c \in Client |->
     IF c = main THEN <<Start, CountExpired>>
     ELSE IF c = a
     THEN <<After(main, 1), Submit(nesting, "forever", TRUE), Submit(plain, "timed", FALSE)>>
     ELSE <<After(main, 1), Submit(plain, "forever", FALSE), Submit(plain, "none", TRUE)>>]

(* Every call races every other, from before Start to after Stop.          *)
ResizeScript ==
  [c \in Client |->
     IF c = main THEN <<Start, Shrink(1), Stop>>
     ELSE IF c = a THEN <<Grow, Submit(plain, "forever", FALSE), TakeBack>>
     ELSE <<Submit(plain, "forever", TRUE), Stop>>]

(* One worker of two is removed while nothing else happens.                *)
ShrinkScript ==
  [c \in Client |-> IF c = main THEN <<Start, Shrink(1)>>
                    ELSE <<After(main, 1), Submit(plain, "forever", FALSE)>>]

(* Two clients end the manager's life at the same time.                    *)
StoppersScript ==
  [c \in Client |-> IF c = main THEN <<Start, Submit(plain, "forever", FALSE), Join>>
                    ELSE <<After(main, 2), Stop>>]

(* Join with two adders on a queue of one.                                 *)
LateAddScript ==
  [c \in Client |-> IF c = main THEN <<Start, Join>>
                    ELSE <<After(main, 1), Submit(plain, "forever", FALSE)>>]

(* No script names a worker. *)
WorkerSymmetry == Permutations(Worker)
==============================================================================
