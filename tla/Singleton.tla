------------------------------ MODULE Singleton ------------------------------
(***************************************************************************)
(* Singleton<T> of base/singleton.h over OnceInit of base/once.cc: callers *)
(* of GetInstance race to build the instance, ShutDown deletes it.  Every  *)
(* load, store and compare-and-swap of once_ is an action.  Instances are  *)
(* numbered in the order they are built; 0 is the null pointer.            *)
(***************************************************************************)
EXTENDS Naturals

CONSTANT Caller        \* threads, each of which calls GetInstance once

VARIABLES
  once,                \* once_
  instance,            \* instance_
  built,               \* how many instances Init has made
  at,                  \* where each caller is
  pointer              \* what its GetInstance returned

Null == 0

SingletonInit ==
  /\ once = "UNINITIALIZED"
  /\ instance = Null
  /\ built = 0
  /\ at = [c \in Caller |-> "outside"]
  /\ pointer = [c \in Caller |-> Null]

Step(c, from, to) == at[c] = from /\ at' = [at EXCEPT ![c] = to]

Either(test, to, other) == IF test THEN to ELSE other

(* OnceInit's load: the closure is made, and OnceInitImpl entered, only if *)
(* it does not see DONE.                                                   *)
EnterOnce(c) ==
  /\ Step(c, "outside", Either(once = "DONE", "read", "load"))
  /\ UNCHANGED <<once, instance, built, pointer>>

LoadOnce(c) ==
  /\ Step(c, "load", Either(once = "DONE", "read", "claim"))
  /\ UNCHANGED <<once, instance, built, pointer>>

(* The compare-and-swap.  Whoever finds UNINITIALIZED runs the closure.    *)
ClaimOnce(c) ==
  /\ UNCHANGED <<instance, built, pointer>>
  /\ \/ /\ once = "UNINITIALIZED"
        /\ Step(c, "claim", "build")
        /\ once' = "EXECUTING_CLOSURE"
     \/ /\ once # "UNINITIALIZED"
        /\ Step(c, "claim", Either(once = "EXECUTING_CLOSURE", "spin", "read"))
        /\ UNCHANGED once

(* The closure, Singleton::Init.                                           *)
BuildInstance(c) ==
  /\ Step(c, "build", "publish")
  /\ built' = built + 1
  /\ instance' = built'
  /\ UNCHANGED <<once, pointer>>

PublishOnce(c) ==
  /\ Step(c, "publish", "read")
  /\ once' = "DONE"
  /\ UNCHANGED <<instance, built, pointer>>

(* The turn of the waiting loop that no longer sees the closure running;   *)
(* the turns before it change nothing.                                     *)
SpinOnceX(c) ==
  /\ Step(c, "spin", "read")
  /\ UNCHANGED <<once, instance, built, pointer>>

SpinOnce(c) ==
  /\ once # "EXECUTING_CLOSURE"
  /\ Step(c, "spin", "read")
  /\ UNCHANGED <<once, instance, built, pointer>>

ReturnInstance(c) ==
  /\ Step(c, "read", "using")
  /\ pointer' = [pointer EXCEPT ![c] = instance]
  /\ UNCHANGED <<once, instance, built>>

(* The caller is done with the instance it got.                            *)
ForgetInstance(c) ==
  /\ Step(c, "using", "done")
  /\ UNCHANGED <<once, instance, built, pointer>>

GetInstance(c) ==
  \/ EnterOnce(c) \/ LoadOnce(c) \/ ClaimOnce(c) \/ BuildInstance(c)
  \/ PublishOnce(c) \/ SpinOnce(c) \/ ReturnInstance(c)

(* once_ stays as it is: nothing builds a second instance.                 *)
ShutDown ==
  /\ instance' = Null
  /\ UNCHANGED <<once, built, at, pointer>>
==============================================================================
