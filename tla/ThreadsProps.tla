---------------------------- MODULE ThreadsProps ----------------------------
(***************************************************************************)
(* What is asked of the threads and the singleton they share.              *)
(***************************************************************************)
EXTENDS Threads

OwnerLabel == {"ready", "create", "publish", "joining", "remove"}
ThreadLabel == {"absent", "enter", "running", "remove", "exit", "gone"}
CallerLabel ==
  {"outside", "load", "claim", "build", "publish", "spin", "read", "using", "done"}

(* The fields, the library's tables and the singleton keep their types;    *)
(* state_lock_ is held by the owner inside Start or Join, on every path.   *)
TypeOK ==
  /\ object \in [Thread -> {"unborn", "live", "dying", "freed"}]
  /\ state \in [Thread -> {"uninitialized", "starting"}]
  /\ detached \in [Thread -> BOOLEAN]
  /\ pthread \in [Thread -> Id \cup {NoId}]
  /\ state_lock \in [Thread -> Owner \cup {Nobody}]
  /\ \A t \in Thread, o \in Owner :
       state_lock[t] = o <=> pc[o] \in {"create", "publish", "joining"} /\ subject[o] = t
  /\ refs \in [Thread -> SUBSET Actor]
  /\ live_thread_ids \subseteq Id
  /\ host \in [Id -> Thread \cup {Nobody}]
  /\ exited \subseteq Id
  /\ created_detached \in [Thread -> BOOLEAN]
  /\ pc \in [Actor -> OwnerLabel \cup ThreadLabel]
  /\ \A o \in Owner : pc[o] \in OwnerLabel
  /\ \A t \in Thread : pc[t] \in ThreadLabel
  /\ subject \in [Owner -> Thread \cup {Nobody}]
  /\ failed \subseteq Thread /\ joined \subseteq Thread
  /\ once \in {"UNINITIALIZED", "EXECUTING_CLOSURE", "DONE"}
  /\ instance \in Nat /\ built \in Nat
  /\ at \in [Thread -> CallerLabel]
  /\ pointer \in [Thread -> Nat]
  /\ down \in BOOLEAN

(* Whoever is in pthread_join waits for the object's own pthread, which is *)
(* joinable, has not been joined and whose id therefore nobody else has.   *)
(* Not so if a join were repeated, or tried after a Start that failed.     *)
JoinsOwnThread ==
  \A o \in Owner :
    pc[o] = "joining" =>
      LET t == subject[o] IN
      /\ pthread[t] \in Id
      /\ host[pthread[t]] = t
      /\ ~created_detached[t]
      /\ \A p \in Owner \ {o} : ~(pc[p] = "joining" /\ subject[p] = t)

(* An attached thread is destroyed without having been joined only by      *)
(* itself: whatever owner is about to free the object, whichever called    *)
(* Join before, the pthread has been reaped (or never was).                *)
PthreadReaped ==
  \A o \in Owner :
    pc[o] = "remove" =>
      \/ created_detached[subject[o]]
      \/ \A i \in Id : host[i] # subject[o]

(* The id an object adds to live_thread_ids goes before the object does,   *)
(* although Start adds it when the thread may have come to its end.        *)
LiveIdsOwned ==
  \A i \in live_thread_ids : \E t \in Thread : pthread[t] = i /\ object[t] # "freed"

(* What a destroyed object leaves behind: no pthread that an owner could   *)
(* have joined, and no id in live_thread_ids.                              *)
OwnersReap == PthreadReaped /\ LiveIdsOwned

(* The closure of OnceInit runs once, however many callers race.           *)
BuiltOnce == built <= 1

(* A thread that uses what GetInstance returned holds the only instance    *)
(* there ever was: it was built before the return, and ShutDown has not    *)
(* deleted it meanwhile, because Join has kept the owner until the thread  *)
(* had ended.                                                              *)
UsersHoldTheInstance ==
  \A t \in Thread :
    at[t] = "using" => pointer[t] # Null /\ pointer[t] = instance /\ BuiltOnce

(* Every pthread runs its runnable to the end, and every call comes back.  *)
EveryThreadEnds ==
  /\ \A t \in Thread : pc[t] = "enter" ~> pc[t] = "gone" /\ at[t] = "done"
  /\ \A o \in Owner : pc[o] # "ready" ~> pc[o] = "ready"
==============================================================================
