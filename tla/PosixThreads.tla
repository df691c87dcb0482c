---------------------------- MODULE PosixThreads ----------------------------
(***************************************************************************)
(* PthreadThread of threading/thread_factory.cc: thread objects behind     *)
(* shared pointers, the pthreads they start, and live_thread_ids.          *)
(*                                                                         *)
(* Owners are the threads of the program that hold and call the objects;   *)
(* object t's own pthread acts under the name t.  `refs` is the set of     *)
(* holders of a shared_ptr, where t stands for the reference Start makes   *)
(* (selfRef), which ThreadMain takes over.  The library's pthreads are     *)
(* `host` and `exited`: an id is free for reuse when nobody is its host.   *)
(* Sections under state_lock_ that do not call pthread_create or           *)
(* pthread_join are one action.                                            *)
(***************************************************************************)
EXTENDS FiniteSets

CONSTANTS Owner, Thread, Id, NoId, Nobody

ASSUME PosixAssumption ==
  /\ Owner \cap Thread = {}
  /\ Nobody \notin Owner \cup Thread
  /\ NoId \notin Id

Actor == Owner \cup Thread

VARIABLES
  object,               \* "unborn", "live", "dying" or "freed"
  state,                \* state_
  detached,             \* detached_
  pthread,              \* pthread_
  state_lock,           \* the holder of state_lock_, or Nobody
  refs,
  live_thread_ids,
  host,                 \* whose pthread has an id
  exited,               \* ids of joinable pthreads that have ended
  created_detached,     \* the attribute a pthread was created with
  pc, subject,          \* where an actor is; the object an owner is calling
  failed,               \* history: objects whose Start threw at pthread_create
  joined                \* history: attached ones for which a Join has returned

posixVars ==
  <<object, state, detached, pthread, state_lock, refs, live_thread_ids,
    host, exited, created_detached, pc, subject, failed, joined>>

PosixInit ==
  /\ object = [t \in Thread |-> "unborn"]
  /\ state = [t \in Thread |-> "uninitialized"]
  /\ detached = [t \in Thread |-> FALSE]
  /\ pthread = [t \in Thread |-> NoId]
  /\ state_lock = [t \in Thread |-> Nobody]
  /\ refs = [t \in Thread |-> {}]
  /\ live_thread_ids = {}
  /\ host = [i \in Id |-> Nobody]
  /\ exited = {}
  /\ created_detached = [t \in Thread |-> FALSE]
  /\ pc = [a \in Actor |-> IF a \in Owner THEN "ready" ELSE "absent"]
  /\ subject = [o \in Owner |-> Nobody]
  /\ failed = {}
  /\ joined = {}

system == <<host, exited, created_detached>>
fields == <<state, detached, pthread>>
history == <<failed, joined>>

Subject(a) == IF a \in Thread THEN a ELSE subject[a]

CanCall(o, t) == pc[o] = "ready" /\ o \in refs[t]

Enter(o, t, label) ==
  /\ pc' = [pc EXCEPT ![o] = label]
  /\ subject' = [subject EXCEPT ![o] = t]

Leave(o) == Enter(o, Nobody, "ready")

------------------------------------------------------------------------------
(* The factory and the shared pointers.                                    *)

NewThread(o, t, detach) ==
  /\ pc[o] = "ready"
  /\ object[t] = "unborn"
  /\ object' = [object EXCEPT ![t] = "live"]
  /\ detached' = [detached EXCEPT ![t] = detach]
  /\ refs' = [refs EXCEPT ![t] = {o}]
  /\ UNCHANGED <<state, pthread, state_lock, live_thread_ids, system, pc, subject, history>>

Share(o, p, t) ==
  /\ CanCall(o, t)
  /\ pc[p] = "ready"
  /\ p \notin refs[t]
  /\ refs' = [refs EXCEPT ![t] = @ \cup {p}]
  /\ UNCHANGED <<object, fields, state_lock, live_thread_ids, system, pc, subject, history>>

(* What Join, called by the object's user or by its destructor, waits for. *)
MustJoin(t) == ~detached[t] /\ state[t] # "uninitialized"

(* An owner lets go of its reference.  The last one to do so destroys the  *)
(* object, which begins with a Join unless detached_.                      *)
DropX(o, t) ==
  /\ CanCall(o, t)
  /\ refs' = [refs EXCEPT ![t] = @ \ {o}]
  /\ IF refs[t] # {o} THEN UNCHANGED <<object, pc, subject>>
     ELSE /\ object' = [object EXCEPT ![t] = "dying"]
          /\ Enter(o, t, "remove")
  /\ UNCHANGED <<fields, state_lock, live_thread_ids, system, history>>

Drop(o, t) ==
  /\ CanCall(o, t)
  /\ refs' = [refs EXCEPT ![t] = @ \ {o}]
  /\ IF refs[t] # {o} THEN UNCHANGED <<object, pc, subject, state_lock>>
     ELSE /\ object' = [object EXCEPT ![t] = "dying"]
          /\ Enter(o, t, IF MustJoin(t) THEN "joining" ELSE "remove")
          /\ state_lock' = [state_lock EXCEPT ![t] = IF MustJoin(t) THEN o ELSE Nobody]
  /\ UNCHANGED <<fields, live_thread_ids, system, history>>

(* The end of the destructor, in whichever thread it runs.                 *)
Remove(a) ==
  /\ pc[a] = "remove"
  /\ live_thread_ids' = live_thread_ids \ {pthread[Subject(a)]}
  /\ object' = [object EXCEPT ![Subject(a)] = "freed"]
  /\ pc' = [pc EXCEPT ![a] = IF a \in Thread THEN "exit" ELSE "ready"]
  /\ UNCHANGED <<fields, state_lock, refs, system, subject, history>>

------------------------------------------------------------------------------
(* Start.  Called again, or failing before selfRef is made, it changes     *)
(* nothing.                                                                *)

StartX(o, t) ==
  /\ CanCall(o, t)
  /\ state_lock[t] = Nobody
  /\ state[t] = "uninitialized"
  /\ state_lock' = [state_lock EXCEPT ![t] = o]
  /\ state' = [state EXCEPT ![t] = "starting"]
  /\ Enter(o, t, "create")
  /\ UNCHANGED <<object, detached, pthread, refs, live_thread_ids, system, history>>

Start(o, t) ==
  /\ CanCall(o, t)
  /\ state_lock[t] = Nobody
  /\ state[t] = "uninitialized"
  /\ state_lock' = [state_lock EXCEPT ![t] = o]
  /\ state' = [state EXCEPT ![t] = "starting"]
  /\ refs' = [refs EXCEPT ![t] = @ \cup {t}]
  /\ Enter(o, t, "create")
  /\ UNCHANGED <<object, detached, pthread, live_thread_ids, system, history>>

(* pthread_create stores the id before the new pthread runs.               *)
Create(o) ==
  LET t == subject[o] IN
  /\ pc[o] = "create"
  /\ \E i \in Id :
       /\ host[i] = Nobody
       /\ host' = [host EXCEPT ![i] = t]
       /\ pthread' = [pthread EXCEPT ![t] = i]
  /\ created_detached' = [created_detached EXCEPT ![t] = detached[t]]
  /\ pc' = [pc EXCEPT ![o] = "publish", ![t] = "enter"]
  /\ UNCHANGED <<object, state, detached, state_lock, refs, live_thread_ids, exited,
                 subject, history>>

(* pthread_create fails and Start throws: state_ stays starting, and the   *)
(* reference nobody will take over is never deleted.                       *)
CreateFailsX(o) ==
  LET t == subject[o] IN
  /\ pc[o] = "create"
  /\ failed' = failed \cup {t}
  /\ refs' = [refs EXCEPT ![t] = @ \ {t}]
  /\ state_lock' = [state_lock EXCEPT ![t] = Nobody]
  /\ Leave(o)
  /\ UNCHANGED <<object, fields, live_thread_ids, system, joined>>

CreateFails(o) ==
  LET t == subject[o] IN
  /\ pc[o] = "create"
  /\ failed' = failed \cup {t}
  /\ state_lock' = [state_lock EXCEPT ![t] = Nobody]
  /\ Leave(o)
  /\ UNCHANGED <<object, fields, refs, live_thread_ids, system, joined>>

PublishX(o) ==
  LET t == subject[o] IN
  /\ pc[o] = "publish"
  /\ live_thread_ids' = live_thread_ids \cup {pthread[t]}
  /\ Leave(o)
  /\ UNCHANGED <<object, fields, refs, state_lock, system, history>>

Publish(o) ==
  LET t == subject[o] IN
  /\ pc[o] = "publish"
  /\ live_thread_ids' = live_thread_ids \cup {pthread[t]}
  /\ state_lock' = [state_lock EXCEPT ![t] = Nobody]
  /\ Leave(o)
  /\ UNCHANGED <<object, fields, refs, system, history>>

------------------------------------------------------------------------------
(* Join.                                                                   *)

(* What a caller takes a returned Join for: the attached thread has ended. *)
Believes(t) == state[t] = "starting" /\ ~created_detached[t]

(* A program does not join a thread whose Start has thrown.                *)
Join(o, t) ==
  /\ CanCall(o, t)
  /\ state_lock[t] = Nobody
  /\ t \notin failed
  /\ IF MustJoin(t)
     THEN /\ state_lock' = [state_lock EXCEPT ![t] = o]
          /\ Enter(o, t, "joining")
          /\ UNCHANGED joined
     ELSE /\ joined' = IF Believes(t) THEN joined \cup {t} ELSE joined
          /\ UNCHANGED <<state_lock, pc, subject>>
  /\ UNCHANGED <<object, fields, refs, live_thread_ids, system, failed>>

(* pthread_join returns 0: the pthread is gone and detached_ becomes true. *)
JoinReturns(o) ==
  LET t == subject[o] IN
  /\ pc[o] = "joining"
  /\ pthread[t] \in exited
  /\ host' = [host EXCEPT ![pthread[t]] = Nobody]
  /\ exited' = exited \ {pthread[t]}
  /\ detached' = [detached EXCEPT ![t] = TRUE]
  /\ joined' = joined \cup {t}
  /\ state_lock' = [state_lock EXCEPT ![t] = Nobody]
  /\ IF refs[t] = {} THEN Enter(o, t, "remove") ELSE Leave(o)
  /\ UNCHANGED <<object, state, pthread, refs, live_thread_ids, created_detached, failed>>

------------------------------------------------------------------------------
(* ThreadMain, in the pthread of object t.                                 *)

Running(t) == pc[t] = "running"

(* The reference made by Start becomes ThreadMain's own; a null one ends   *)
(* the pthread at once.                                                    *)
EnterMain(t) ==
  /\ pc[t] = "enter"
  /\ pc' = [pc EXCEPT ![t] = IF t \in refs[t] THEN "running" ELSE "exit"]
  /\ UNCHANGED <<object, fields, state_lock, refs, live_thread_ids, system, subject, history>>

(* Run has returned and ThreadMain's reference goes.  If it was the last   *)
(* the destructor runs here; its Join gets EDEADLK, which changes nothing. *)
ReturnFromMain(t) ==
  /\ Running(t)
  /\ refs' = [refs EXCEPT ![t] = @ \ {t}]
  /\ IF refs[t] = {t}
     THEN /\ object' = [object EXCEPT ![t] = "dying"]
          /\ pc' = [pc EXCEPT ![t] = "remove"]
     ELSE /\ pc' = [pc EXCEPT ![t] = "exit"]
          /\ UNCHANGED object
  /\ UNCHANGED <<fields, state_lock, live_thread_ids, system, subject, history>>

(* The pthread ends: a detached one frees its id, another waits for a join. *)
Exit(t) ==
  /\ pc[t] = "exit"
  /\ pc' = [pc EXCEPT ![t] = "gone"]
  /\ \E i \in Id :
       /\ host[i] = t
       /\ IF created_detached[t]
          THEN host' = [host EXCEPT ![i] = Nobody] /\ UNCHANGED exited
          ELSE exited' = exited \cup {i} /\ UNCHANGED host
  /\ UNCHANGED <<object, fields, state_lock, refs, live_thread_ids, created_detached,
                 subject, history>>

------------------------------------------------------------------------------
(* Calls an owner can make, and the steps it takes within them.            *)
Calls(o) ==
  \E t \in Thread :
    \/ \E detach \in BOOLEAN : NewThread(o, t, detach)
    \/ \E p \in Owner \ {o} : Share(o, p, t)
    \/ Drop(o, t)
    \/ Join(o, t)

InCall(o) == Create(o) \/ CreateFails(o) \/ Publish(o) \/ JoinReturns(o) \/ Remove(o)

AroundRun(t) == EnterMain(t) \/ Remove(t) \/ Exit(t)
==============================================================================
