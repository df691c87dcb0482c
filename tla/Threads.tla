------------------------------- MODULE Threads -------------------------------
(***************************************************************************)
(* The threads of PosixThreads, whose runnables all use one Singleton: the *)
(* program of base/once_unittest.cc, with thread objects that are shared,  *)
(* joined and dropped in any order.  An owner shuts the singleton down     *)
(* when every thread it has started has been joined, and starts no more.   *)
(***************************************************************************)
EXTENDS PosixThreads, Naturals

VARIABLES once, instance, built, at, pointer, down

INSTANCE Singleton WITH Caller <- Thread

onceVars == <<once, instance, built, at, pointer>>
vars == <<posixVars, onceVars, down>>

Init == PosixInit /\ SingletonInit /\ down = FALSE

Quiescent == \A t \in Thread : state[t] = "starting" => t \in joined \cup failed

Call(o) ==
  /\ \/ Calls(o)
     \/ ~down /\ \E t \in Thread : Start(o, t)
     \/ InCall(o)
  /\ UNCHANGED <<onceVars, down>>

ShutDownAll(o) ==
  /\ pc[o] = "ready"
  /\ ~down
  /\ Quiescent
  /\ down' = TRUE
  /\ ShutDown
  /\ UNCHANGED posixVars

(* The runnable: GetInstance, and what is done with the instance.          *)
Run(t) ==
  /\ Running(t)
  /\ GetInstance(t) \/ ForgetInstance(t)
  /\ UNCHANGED <<posixVars, down>>

Main(t) ==
  /\ AroundRun(t) \/ (at[t] = "done" /\ ReturnFromMain(t))
  /\ UNCHANGED <<onceVars, down>>

Next ==
  \/ \E o \in Owner : Call(o) \/ ShutDownAll(o)
  \/ \E t \in Thread : Run(t) \/ Main(t)

Spec == Init /\ [][Next]_vars

(* Threads that can run do; what an owner calls, and when, is its own.     *)
FairSpec ==
  /\ Spec
  /\ \A o \in Owner : WF_vars(InCall(o) /\ UNCHANGED <<onceVars, down>>)
  /\ \A t \in Thread : WF_vars(Run(t) \/ Main(t))
==============================================================================
