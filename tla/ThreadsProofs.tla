---------------------------- MODULE ThreadsProofs ----------------------------
(***************************************************************************)
(* Proofs about the threads and the singleton they share, for any number   *)
(* of owners, threads and ids.                                             *)
(***************************************************************************)
EXTENDS ThreadsProps, TLAPS

USE PosixAssumption

Alive == {"enter", "running", "remove", "exit"}
InLock == {"create", "publish", "joining"}

(* The fields, tables and places of PosixThreads keep their types.         *)
PosixTypeOK ==
  /\ object \in [Thread -> {"unborn", "live", "dying", "freed"}]
  /\ state \in [Thread -> {"uninitialized", "starting"}]
  /\ detached \in [Thread -> BOOLEAN]
  /\ pthread \in [Thread -> Id \cup {NoId}]
  /\ state_lock \in [Thread -> Owner \cup {Nobody}]
  /\ refs \in [Thread -> SUBSET Actor]
  /\ live_thread_ids \subseteq Id
  /\ host \in [Id -> Thread \cup {Nobody}]
  /\ exited \subseteq Id
  /\ created_detached \in [Thread -> BOOLEAN]
  /\ pc \in [Actor -> OwnerLabel \cup ThreadLabel]
  /\ \A o \in Owner : pc[o] \in OwnerLabel
  /\ \A t \in Thread : pc[t] \in ThreadLabel
  /\ subject \in [Owner -> Thread \cup {Nobody}]
  /\ failed \subseteq Thread /\ joined \subseteq Thread

(* state_lock_ is held by the owner inside Start or Join, and only then.   *)
Locked ==
  \A t \in Thread, o \in Owner :
    state_lock[t] = o <=> pc[o] \in InLock /\ subject[o] = t

(* What an owner inside a call knows of its object.                        *)
CallsOK ==
  \A o \in Owner :
    LET t == subject[o] IN
    /\ pc[o] # "ready" => t \in Thread
    /\ pc[o] = "create" => pc[t] = "absent" /\ state[t] = "starting" /\ t \notin failed
    /\ pc[o] = "publish" => pc[t] # "absent"
    /\ pc[o] \in {"create", "publish"} => o \in refs[t]
    /\ pc[o] = "joining" =>
         pc[t] # "absent" /\ ~detached[t] /\ (o \in refs[t] \/ refs[t] = {})
    /\ pc[o] = "remove" =>
         /\ refs[t] = {} /\ object[t] # "unborn"
         /\ created_detached[t] \/ \A i \in Id : host[i] # t

(* An object that was not started has no pthread and no history.           *)
UnstartedOK ==
  \A t \in Thread :
    state[t] = "uninitialized" =>
      /\ pc[t] = "absent" /\ t \notin failed /\ t \notin joined
      /\ ~created_detached[t] /\ t \notin refs[t]

(* A started one without a pthread has failed, or is about to get one; its *)
(* own reference keeps it from being destroyed.                            *)
AbsentOK ==
  \A t \in Thread :
    /\ t \in failed => pc[t] = "absent" /\ state[t] = "starting"
    /\ state[t] = "starting" /\ pc[t] = "absent" =>
         /\ t \in refs[t]
         /\ t \in failed \/ state_lock[t] # Nobody

(* The references to an object that is there.                              *)
RefsOK ==
  \A t \in Thread :
    /\ refs[t] # {} => object[t] = "live"
    /\ object[t] = "unborn" => state[t] = "uninitialized"
    /\ pc[t] = "enter" => t \in refs[t]
    /\ pc[t] = "running" => t \in refs[t]
    /\ pc[t] = "remove" => refs[t] = {}

(* Ids and their hosts: a pthread has its object's id until it is reaped.  *)
HostsOK ==
  /\ \A t \in Thread : pthread[t] = NoId <=> pc[t] = "absent"
  /\ \A i \in Id :
       host[i] # Nobody =>
         /\ pthread[host[i]] = i /\ pc[host[i]] # "absent" /\ host[i] \notin joined
  /\ \A t \in Thread :
       \/ pc[t] \in Alive
       \/ pc[t] = "gone" /\ ~created_detached[t] /\ t \notin joined
       => pthread[t] \in Id /\ host[pthread[t]] = t
  /\ \A i \in exited :
       host[i] \in Thread /\ pc[host[i]] = "gone" /\ ~created_detached[host[i]]

(* detached_ is what the pthread was created with, or a join has returned. *)
DetachedOK ==
  \A t \in Thread :
    /\ created_detached[t] => detached[t]
    /\ pc[t] # "absent" /\ detached[t] => created_detached[t] \/ t \in joined
    /\ t \in joined => pc[t] = "gone" /\ detached[t]

PosixInv ==
  /\ PosixTypeOK /\ Locked /\ CallsOK /\ UnstartedOK /\ AbsentOK
  /\ RefsOK /\ HostsOK /\ DetachedOK /\ LiveIdsOwned

------------------------------------------------------------------------------
(* Each action of the threads, their owners and the factory keeps PosixInv. *)

LEMMA NewThreadKeeps ==
  ASSUME PosixInv, NEW o \in Owner, NEW t \in Thread, NEW detach \in BOOLEAN,
         NewThread(o, t, detach)
  PROVE  PosixInv'
<1> USE DEF PosixInv, NewThread, fields, system, history, Actor, OwnerLabel,
    ThreadLabel, Alive, InLock
<1>1. PosixTypeOK' BY SMTT(20) DEF PosixTypeOK
<1>2. Locked' BY SMTT(20) DEF Locked
<1>3. CallsOK' BY SMTT(20) DEF CallsOK, UnstartedOK, RefsOK
<1>4. UnstartedOK' BY SMTT(20) DEF UnstartedOK
<1>5. AbsentOK' BY SMTT(20) DEF AbsentOK, RefsOK
<1>6. RefsOK' BY SMTT(20) DEF PosixTypeOK, UnstartedOK, RefsOK
<1>7. HostsOK' BY SMTT(20) DEF HostsOK
<1>8. DetachedOK' BY SMTT(20) DEF UnstartedOK, RefsOK, DetachedOK
<1>9. LiveIdsOwned' BY SMTT(20) DEF LiveIdsOwned
<1> QED BY <1>1, <1>2, <1>3, <1>4, <1>5, <1>6, <1>7, <1>8, <1>9

LEMMA ShareKeeps ==
  ASSUME PosixInv, NEW o \in Owner, NEW p \in Owner, NEW t \in Thread,
         Share(o, p, t)
  PROVE  PosixInv'
<1> USE DEF PosixInv, Share, CanCall, fields, system, history, Actor,
    OwnerLabel, ThreadLabel, Alive, InLock
<1>1. PosixTypeOK' BY SMTT(20) DEF PosixTypeOK
<1>2. Locked' BY SMTT(20) DEF Locked
<1>3. CallsOK' BY SMTT(20) DEF CallsOK
<1>4. UnstartedOK' BY SMTT(20) DEF UnstartedOK
<1>5. AbsentOK' BY SMTT(20) DEF AbsentOK
<1>6. RefsOK' BY SMTT(20) DEF RefsOK
<1>7. HostsOK' BY SMTT(20) DEF HostsOK
<1>8. DetachedOK' BY SMTT(20) DEF DetachedOK
<1>9. LiveIdsOwned' BY SMTT(20) DEF LiveIdsOwned
<1> QED BY <1>1, <1>2, <1>3, <1>4, <1>5, <1>6, <1>7, <1>8, <1>9

LEMMA DropKeeps ==
  ASSUME PosixInv, NEW o \in Owner, NEW t \in Thread, Drop(o, t)
  PROVE  PosixInv'
<1> USE DEF PosixInv, Drop, CanCall, MustJoin, Enter, fields, system, history,
    Actor, OwnerLabel, ThreadLabel, Alive, InLock
<1>1. PosixTypeOK' BY SMTT(20) DEF PosixTypeOK
<1>2. Locked' BY SMTT(20) DEF PosixTypeOK, Locked, CallsOK
<1>3. CallsOK' BY SMTT(20) DEF PosixTypeOK, CallsOK, UnstartedOK, AbsentOK,
      HostsOK, DetachedOK
<1>4. UnstartedOK' BY SMTT(20) DEF PosixTypeOK, UnstartedOK
<1>5. AbsentOK' BY SMTT(20) DEF PosixTypeOK, AbsentOK
<1>6. RefsOK' BY SMTT(20) DEF PosixTypeOK, RefsOK
<1>7. HostsOK' BY SMTT(20) DEF PosixTypeOK, HostsOK
<1>8. DetachedOK' BY SMTT(20) DEF PosixTypeOK, DetachedOK
<1>9. LiveIdsOwned' BY SMTT(20) DEF PosixTypeOK, LiveIdsOwned
<1> QED BY <1>1, <1>2, <1>3, <1>4, <1>5, <1>6, <1>7, <1>8, <1>9

LEMMA StartKeeps ==
  ASSUME PosixInv, NEW o \in Owner, NEW t \in Thread, Start(o, t)
  PROVE  PosixInv'
<1> USE DEF PosixInv, Start, CanCall, Enter, fields, system, history, Actor,
    OwnerLabel, ThreadLabel, Alive, InLock
<1>1. PosixTypeOK' BY SMTT(20) DEF PosixTypeOK
<1>2. Locked' BY SMTT(20) DEF PosixTypeOK, Locked
<1>3. CallsOK' BY SMTT(20) DEF PosixTypeOK, CallsOK, UnstartedOK
<1>4. UnstartedOK' BY SMTT(20) DEF PosixTypeOK, UnstartedOK
<1>5. AbsentOK' BY SMTT(20) DEF PosixTypeOK, AbsentOK
<1>6. RefsOK' BY SMTT(20) DEF RefsOK
<1>7. HostsOK' BY SMTT(20) DEF HostsOK
<1>8. DetachedOK' BY SMTT(20) DEF DetachedOK
<1>9. LiveIdsOwned' BY SMTT(20) DEF LiveIdsOwned
<1> QED BY <1>1, <1>2, <1>3, <1>4, <1>5, <1>6, <1>7, <1>8, <1>9

LEMMA CreateKeeps ==
  ASSUME PosixInv, NEW o \in Owner, Create(o)
  PROVE  PosixInv'
<1> USE DEF PosixInv, Create, fields, system, history, Actor, OwnerLabel,
    ThreadLabel, Alive, InLock
<1>1. PosixTypeOK' BY SMTT(20) DEF PosixTypeOK, CallsOK
<1>2. Locked' BY SMTT(20) DEF PosixTypeOK, Locked
<1>3. CallsOK' BY SMTT(20) DEF PosixTypeOK, Locked, CallsOK
<1>4. UnstartedOK' BY SMTT(20) DEF PosixTypeOK, CallsOK, UnstartedOK
<1>5. AbsentOK' BY SMTT(20) DEF PosixTypeOK, CallsOK, AbsentOK
<1>6. RefsOK' BY SMTT(20) DEF PosixTypeOK, CallsOK, AbsentOK, RefsOK
<1>7. HostsOK' BY SMTT(20) DEF PosixTypeOK, CallsOK, HostsOK, DetachedOK
<1>8. DetachedOK' BY SMTT(20) DEF PosixTypeOK, CallsOK, DetachedOK
<1>9. LiveIdsOwned' BY SMTT(20) DEF PosixTypeOK, CallsOK, HostsOK, LiveIdsOwned
<1> QED BY <1>1, <1>2, <1>3, <1>4, <1>5, <1>6, <1>7, <1>8, <1>9

LEMMA CreateFailsKeeps ==
  ASSUME PosixInv, NEW o \in Owner, CreateFails(o)
  PROVE  PosixInv'
<1> USE DEF PosixInv, CreateFails, Leave, Enter, fields, system, history, Actor,
    OwnerLabel, ThreadLabel, Alive, InLock
<1>1. PosixTypeOK' BY SMTT(20) DEF PosixTypeOK, CallsOK
<1>2. Locked' BY SMTT(20) DEF PosixTypeOK, Locked
<1>3. CallsOK' BY SMTT(20) DEF PosixTypeOK, Locked, CallsOK
<1>4. UnstartedOK' BY SMTT(20) DEF CallsOK, UnstartedOK
<1>5. AbsentOK' BY SMTT(20) DEF CallsOK, AbsentOK
<1>6. RefsOK' BY SMTT(20) DEF RefsOK
<1>7. HostsOK' BY SMTT(20) DEF HostsOK
<1>8. DetachedOK' BY SMTT(20) DEF DetachedOK
<1>9. LiveIdsOwned' BY SMTT(20) DEF LiveIdsOwned
<1> QED BY <1>1, <1>2, <1>3, <1>4, <1>5, <1>6, <1>7, <1>8, <1>9

LEMMA PublishKeeps ==
  ASSUME PosixInv, NEW o \in Owner, Publish(o)
  PROVE  PosixInv'
<1> USE DEF PosixInv, Publish, Leave, Enter, fields, system, history, Actor,
    OwnerLabel, ThreadLabel, Alive, InLock
<1>1. PosixTypeOK' BY SMTT(20) DEF PosixTypeOK, CallsOK, HostsOK
<1>2. Locked' BY SMTT(20) DEF PosixTypeOK, Locked
<1>3. CallsOK' BY SMTT(20) DEF PosixTypeOK, CallsOK
<1>4. UnstartedOK' BY SMTT(20) DEF UnstartedOK
<1>5. AbsentOK' BY SMTT(20) DEF CallsOK, AbsentOK
<1>6. RefsOK' BY SMTT(20) DEF RefsOK
<1>7. HostsOK' BY SMTT(20) DEF HostsOK
<1>8. DetachedOK' BY SMTT(20) DEF DetachedOK
<1>9. LiveIdsOwned' BY SMTT(20) DEF CallsOK, RefsOK, LiveIdsOwned
<1> QED BY <1>1, <1>2, <1>3, <1>4, <1>5, <1>6, <1>7, <1>8, <1>9

LEMMA JoinKeeps ==
  ASSUME PosixInv, NEW o \in Owner, NEW t \in Thread, Join(o, t)
  PROVE  PosixInv'
<1> USE DEF PosixInv, Join, CanCall, MustJoin, Believes, Enter, fields, system,
    history, Actor, OwnerLabel, ThreadLabel, Alive, InLock
<1>1. PosixTypeOK' BY SMTT(20) DEF PosixTypeOK
<1>2. Locked' BY SMTT(20) DEF PosixTypeOK, Locked
<1>3. CallsOK' BY SMTT(20) DEF PosixTypeOK, CallsOK, AbsentOK
<1>4. UnstartedOK' BY SMTT(20) DEF PosixTypeOK, UnstartedOK
<1>5. AbsentOK' BY SMTT(20) DEF PosixTypeOK, AbsentOK
<1>6. RefsOK' BY SMTT(20) DEF PosixTypeOK, RefsOK
<1>7. HostsOK' BY SMTT(20) DEF PosixTypeOK, HostsOK, DetachedOK
<1>8. DetachedOK' BY SMTT(20) DEF PosixTypeOK, AbsentOK, DetachedOK
<1>9. LiveIdsOwned' BY SMTT(20) DEF LiveIdsOwned
<1> QED BY <1>1, <1>2, <1>3, <1>4, <1>5, <1>6, <1>7, <1>8, <1>9

LEMMA JoinReturnsKeeps ==
  ASSUME PosixInv, NEW o \in Owner, JoinReturns(o)
  PROVE  PosixInv'
<1> USE DEF PosixInv, JoinReturns, Leave, Enter, fields, system, history, Actor,
    OwnerLabel, ThreadLabel, Alive, InLock
<1>1. PosixTypeOK' BY SMTT(20) DEF PosixTypeOK, Locked, CallsOK
<1>2. Locked' BY SMTT(20) DEF PosixTypeOK, Locked
<1>3. CallsOK' BY SMTT(20) DEF PosixTypeOK, Locked, CallsOK, UnstartedOK,
      RefsOK, HostsOK
<1>4. UnstartedOK' BY SMTT(20) DEF PosixTypeOK, UnstartedOK, HostsOK
<1>5. AbsentOK' BY SMTT(20) DEF PosixTypeOK, AbsentOK, HostsOK
<1>6. RefsOK' BY SMTT(20) DEF PosixTypeOK, RefsOK
<1>7. HostsOK' BY SMTT(20) DEF PosixTypeOK, CallsOK, HostsOK, DetachedOK
<1>8. DetachedOK' BY SMTT(20) DEF PosixTypeOK, HostsOK, DetachedOK
<1>9. LiveIdsOwned' BY SMTT(20) DEF LiveIdsOwned
<1> QED BY <1>1, <1>2, <1>3, <1>4, <1>5, <1>6, <1>7, <1>8, <1>9

LEMMA RemoveKeeps ==
  ASSUME PosixInv, NEW a \in Actor, Remove(a)
  PROVE  PosixInv'
<1> USE DEF PosixInv, Remove, Subject, fields, system, history, Actor,
    OwnerLabel, ThreadLabel, Alive, InLock
<1>1. PosixTypeOK' BY SMTT(20) DEF PosixTypeOK, CallsOK
<1>2. Locked' BY SMTT(20) DEF Locked
<1>3. CallsOK' BY SMTT(20) DEF CallsOK
<1>4. UnstartedOK' BY SMTT(20) DEF UnstartedOK
<1>5. AbsentOK' BY SMTT(20) DEF AbsentOK
<1>6. RefsOK' BY SMTT(20) DEF CallsOK, RefsOK
<1>7. HostsOK' BY SMTT(20) DEF HostsOK
<1>8. DetachedOK' BY SMTT(20) DEF DetachedOK
<1>9. LiveIdsOwned' BY SMTT(20) DEF LiveIdsOwned
<1> QED BY <1>1, <1>2, <1>3, <1>4, <1>5, <1>6, <1>7, <1>8, <1>9

LEMMA EnterMainKeeps ==
  ASSUME PosixInv, NEW t \in Thread, EnterMain(t)
  PROVE  PosixInv'
<1> USE DEF PosixInv, EnterMain, fields, system, history, Actor, OwnerLabel,
    ThreadLabel, Alive, InLock
<1>1. PosixTypeOK' BY SMTT(20) DEF PosixTypeOK
<1>2. Locked' BY SMTT(20) DEF Locked
<1>3. CallsOK' BY SMTT(20) DEF CallsOK
<1>4. UnstartedOK' BY SMTT(20) DEF UnstartedOK
<1>5. AbsentOK' BY SMTT(20) DEF AbsentOK
<1>6. RefsOK' BY SMTT(20) DEF RefsOK
<1>7. HostsOK' BY SMTT(20) DEF HostsOK
<1>8. DetachedOK' BY SMTT(20) DEF DetachedOK
<1>9. LiveIdsOwned' BY SMTT(20) DEF LiveIdsOwned
<1> QED BY <1>1, <1>2, <1>3, <1>4, <1>5, <1>6, <1>7, <1>8, <1>9

LEMMA ReturnFromMainKeeps ==
  ASSUME PosixInv, NEW t \in Thread, ReturnFromMain(t)
  PROVE  PosixInv'
<1> USE DEF PosixInv, ReturnFromMain, Running, fields, system, history, Actor,
    OwnerLabel, ThreadLabel, Alive, InLock
<1>1. PosixTypeOK' BY SMTT(20) DEF PosixTypeOK
<1>2. Locked' BY SMTT(20) DEF PosixTypeOK, Locked
<1>3. CallsOK' BY SMTT(20) DEF PosixTypeOK, CallsOK
<1>4. UnstartedOK' BY SMTT(20) DEF PosixTypeOK, UnstartedOK
<1>5. AbsentOK' BY SMTT(20) DEF PosixTypeOK, AbsentOK
<1>6. RefsOK' BY SMTT(20) DEF PosixTypeOK, RefsOK
<1>7. HostsOK' BY SMTT(20) DEF PosixTypeOK, HostsOK
<1>8. DetachedOK' BY SMTT(20) DEF PosixTypeOK, DetachedOK
<1>9. LiveIdsOwned' BY SMTT(20) DEF PosixTypeOK, LiveIdsOwned
<1> QED BY <1>1, <1>2, <1>3, <1>4, <1>5, <1>6, <1>7, <1>8, <1>9

LEMMA ExitKeeps ==
  ASSUME PosixInv, NEW t \in Thread, Exit(t)
  PROVE  PosixInv'
<1> USE DEF PosixInv, Exit, fields, system, history, Actor, OwnerLabel,
    ThreadLabel, Alive, InLock
<1>1. PosixTypeOK' BY SMTT(20) DEF PosixTypeOK
<1>2. Locked' BY SMTT(20) DEF Locked
<1>3. CallsOK' BY SMTT(20) DEF PosixTypeOK, CallsOK
<1>4. UnstartedOK' BY SMTT(20) DEF UnstartedOK
<1>5. AbsentOK' BY SMTT(20) DEF AbsentOK
<1>6. RefsOK' BY SMTT(20) DEF RefsOK
<1>7. HostsOK' BY SMTT(20) DEF PosixTypeOK, HostsOK
<1>8. DetachedOK' BY SMTT(20) DEF DetachedOK
<1>9. LiveIdsOwned' BY SMTT(20) DEF LiveIdsOwned
<1> QED BY <1>1, <1>2, <1>3, <1>4, <1>5, <1>6, <1>7, <1>8, <1>9

------------------------------------------------------------------------------
(* Init, and every step of the composition.                                *)

(* The singleton: once_ says how far the one closure has come.             *)
SingletonInv ==
  /\ once \in {"UNINITIALIZED", "EXECUTING_CLOSURE", "DONE"}
  /\ instance \in Nat /\ built \in Nat /\ BuiltOnce
  /\ at \in [Thread -> CallerLabel]
  /\ pointer \in [Thread -> Nat]
  /\ once = "UNINITIALIZED" =>
       /\ built = 0
       /\ \A t \in Thread : at[t] \in {"outside", "load", "claim"}
  /\ once = "EXECUTING_CLOSURE" =>
       \E t \in Thread :
         /\ \/ at[t] = "build" /\ built = 0
            \/ at[t] = "publish" /\ built = 1
         /\ \A u \in Thread \ {t} : at[u] \in {"outside", "load", "claim", "spin"}
  /\ once = "DONE" =>
       built = 1 /\ \A t \in Thread : at[t] \notin {"build", "publish"}

(* A thread is in GetInstance, or uses what it got, only while it runs;    *)
(* after the shutdown, which comes after every join, none runs.            *)
UseInv ==
  /\ down \in BOOLEAN
  /\ \A t \in Thread : at[t] \in CallerLabel \ {"outside", "done"} => pc[t] = "running"
  /\ \A t \in Thread : at[t] = "using" => pointer[t] = 1
  /\ down => Quiescent
  /\ ~down => instance = built

Inv == PosixInv /\ SingletonInv /\ UseInv

LEMMA InitInv == Init => Inv
<1> SUFFICES ASSUME Init PROVE Inv
  OBVIOUS
<1> USE DEF Init, PosixInit, SingletonInit, Actor, OwnerLabel, ThreadLabel, CallerLabel
<1>1. PosixTypeOK /\ Locked BY DEF PosixTypeOK, Locked, InLock
<1>2. CallsOK BY DEF CallsOK
<1>3. UnstartedOK /\ AbsentOK BY DEF UnstartedOK, AbsentOK
<1>4. RefsOK /\ HostsOK BY DEF RefsOK, HostsOK, Alive
<1>5. DetachedOK /\ LiveIdsOwned BY DEF DetachedOK, LiveIdsOwned
<1>6. SingletonInv BY DEF SingletonInv, BuiltOnce, Null
<1>7. UseInv BY DEF UseInv, Null
<1> QED BY <1>1, <1>2, <1>3, <1>4, <1>5, <1>6, <1>7 DEF Inv, PosixInv

LEMMA UnchangedKeeps ==
  ASSUME PosixInv, UNCHANGED posixVars PROVE PosixInv'
BY DEF posixVars, PosixInv, PosixTypeOK, Locked, CallsOK, UnstartedOK, AbsentOK, RefsOK,
  HostsOK, DetachedOK, LiveIdsOwned

LEMMA CallsKeep ==
  ASSUME PosixInv, NEW o \in Owner, Calls(o) PROVE PosixInv'
BY NewThreadKeeps, ShareKeeps, DropKeeps, JoinKeeps DEF Calls

LEMMA InCallKeeps ==
  ASSUME PosixInv, NEW o \in Owner, InCall(o) PROVE PosixInv'
BY CreateKeeps, CreateFailsKeeps, PublishKeeps, JoinReturnsKeeps, RemoveKeeps DEF InCall, Actor

LEMMA AroundRunKeeps ==
  ASSUME PosixInv, NEW t \in Thread, AroundRun(t) PROVE PosixInv'
BY EnterMainKeeps, ExitKeeps, RemoveKeeps DEF AroundRun, Actor

(* A singleton step, by whichever caller, keeps once_ truthful.            *)
LEMMA RunKeeps ==
  ASSUME SingletonInv, NEW t \in Thread, GetInstance(t) \/ ForgetInstance(t)
  PROVE  SingletonInv'
<1> USE DEF SingletonInv, BuiltOnce, CallerLabel, Step, Either
<1>1. CASE EnterOnce(t) BY <1>1 DEF EnterOnce
<1>2. CASE LoadOnce(t) BY <1>2 DEF LoadOnce
<1>3. CASE ClaimOnce(t)
  <2>1. CASE once = "UNINITIALIZED"
    <3>1. /\ at[t] = "claim" /\ at' = [at EXCEPT ![t] = "build"]
          /\ once' = "EXECUTING_CLOSURE" /\ UNCHANGED <<instance, built, pointer>>
      BY <1>3, <2>1 DEF ClaimOnce
    <3>2. /\ at'[t] = "build" /\ built' = 0
          /\ \A u \in Thread \ {t} : at'[u] \in {"outside", "load", "claim", "spin"}
      BY <2>1, <3>1
    <3>3. at' \in [Thread -> CallerLabel]
      BY <3>1
    <3>4. once' = "EXECUTING_CLOSURE" /\ once' # "UNINITIALIZED" /\ once' # "DONE"
      BY <3>1
    <3>5. /\ instance' \in Nat /\ built' \in Nat /\ built' <= 1
          /\ pointer' \in [Thread -> Nat]
      BY <3>1
    <3> QED BY <3>2, <3>3, <3>4, <3>5
  <2>2. CASE once # "UNINITIALIZED"
    BY <1>3, <2>2 DEF ClaimOnce
  <2> QED BY <2>1, <2>2
<1>4. CASE BuildInstance(t) BY <1>4 DEF BuildInstance
<1>5. CASE PublishOnce(t) BY <1>5 DEF PublishOnce
<1>6. CASE SpinOnce(t) BY <1>6 DEF SpinOnce
<1>7. CASE ReturnInstance(t) BY <1>7 DEF ReturnInstance
<1>8. CASE ForgetInstance(t) BY <1>8 DEF ForgetInstance
<1> QED BY <1>1, <1>2, <1>3, <1>4, <1>5, <1>6, <1>7, <1>8 DEF GetInstance

(* Once everything started has been joined or has failed, no pthread runs. *)
LEMMA QuiescentIsStill ==
  ASSUME PosixInv, Quiescent, NEW t \in Thread PROVE pc[t] \in {"absent", "gone"}
BY DEF PosixInv, PosixTypeOK, Quiescent, UnstartedOK, AbsentOK, DetachedOK

(* The use of the instance, over the steps of the threads' own calls.      *)
LEMMA CallUseKeeps ==
  ASSUME Inv, NEW o \in Owner, Call(o) PROVE UseInv'
<1>1. /\ UNCHANGED <<once, instance, built, at, pointer, down>>
      /\ Calls(o) \/ InCall(o) \/ (~down /\ \E t \in Thread : Start(o, t))
  BY DEF Call, onceVars
<1>2. \A t \in Thread : pc[t] = "running" => pc'[t] = "running"
  <2> USE DEF Inv, PosixInv, PosixTypeOK, Actor, Enter, Leave, CanCall
  <2>1. CASE Calls(o)
    BY <2>1 DEF Calls, NewThread, Share, Drop, Join
  <2>2. CASE Create(o) \/ CreateFails(o) \/ Publish(o)
    BY <2>2 DEF Create, CreateFails, Publish, CallsOK
  <2>3. CASE JoinReturns(o) \/ Remove(o)
    BY <2>3 DEF JoinReturns, Remove
  <2>4. CASE \E t \in Thread : Start(o, t)
    BY <2>4 DEF Start
  <2> QED BY <1>1, <2>1, <2>2, <2>3, <2>4 DEF InCall
<1>3. down /\ Quiescent => Quiescent'
  <2> SUFFICES ASSUME down, Quiescent PROVE Quiescent'
    OBVIOUS
  <2>1. CASE Calls(o)
    BY <2>1 DEF Calls, NewThread, Share, Drop, Join, Quiescent, fields, history
  <2>2. CASE InCall(o)
    BY <2>2 DEF InCall, Create, CreateFails, Publish, JoinReturns, Remove, Quiescent,
      fields, history
  <2> QED BY <1>1, <2>1, <2>2
<1> QED BY <1>1, <1>2, <1>3 DEF Inv, UseInv

LEMMA StepInv == Inv /\ [Next]_vars => Inv'
<1> SUFFICES ASSUME Inv, [Next]_vars PROVE Inv'
  OBVIOUS
<1>1. ASSUME NEW o \in Owner, Call(o) PROVE Inv'
  <2>1. PosixInv'
    BY <1>1, CallsKeep, InCallKeeps, StartKeeps DEF Call, Inv
  <2>2. SingletonInv'
    BY <1>1 DEF Call, onceVars, Inv, SingletonInv, BuiltOnce
  <2> QED BY <1>1, <2>1, <2>2, CallUseKeeps DEF Inv
<1>2. ASSUME NEW o \in Owner, ShutDownAll(o) PROVE Inv'
  <2> USE <1>2 DEF ShutDownAll, ShutDown
  <2>1. PosixInv' BY UnchangedKeeps DEF Inv
  <2>2. SingletonInv' BY DEF Inv, SingletonInv, BuiltOnce, Null
  <2>3. UseInv' BY DEF Inv, UseInv, Quiescent, posixVars
  <2> QED BY <2>1, <2>2, <2>3 DEF Inv
<1>3. ASSUME NEW t \in Thread, Run(t) PROVE Inv'
  <2> USE <1>3 DEF Run
  <2>1. PosixInv' BY UnchangedKeeps DEF Inv
  <2>2. SingletonInv' BY RunKeeps DEF Inv
  <2>3. ~down
    BY QuiescentIsStill DEF Inv, UseInv, Running
  <2>4. instance' = built' /\ ~down'
    BY <2>3 DEF Inv, UseInv, GetInstance, EnterOnce, LoadOnce, ClaimOnce, BuildInstance,
      PublishOnce, SpinOnce, ReturnInstance, ForgetInstance
  <2>5. \A u \in Thread : at'[u] = "using" => pointer'[u] = 1
    <3>1. CASE ReturnInstance(t)
      BY <3>1, <2>3 DEF Inv, UseInv, SingletonInv, ReturnInstance, Step
    <3>2. CASE ForgetInstance(t) \/ EnterOnce(t) \/ LoadOnce(t) \/ ClaimOnce(t)
      BY <3>2 DEF Inv, UseInv, SingletonInv, ForgetInstance, EnterOnce, LoadOnce, ClaimOnce,
        Step, Either
    <3>3. CASE BuildInstance(t) \/ PublishOnce(t) \/ SpinOnce(t)
      BY <3>3 DEF Inv, UseInv, SingletonInv, BuildInstance, PublishOnce, SpinOnce, Step
    <3> QED BY <3>1, <3>2, <3>3 DEF GetInstance
  <2>6. \A u \in Thread : u # t => at'[u] = at[u]
    BY DEF Inv, SingletonInv, GetInstance, EnterOnce, LoadOnce, ClaimOnce, BuildInstance,
      PublishOnce, SpinOnce, ReturnInstance, ForgetInstance, Step
  <2>7. UseInv'
    BY <2>4, <2>5, <2>6 DEF Inv, UseInv, Running, posixVars
  <2> QED BY <2>1, <2>2, <2>7 DEF Inv
<1>4. ASSUME NEW t \in Thread, Main(t) PROVE Inv'
  <2>1. PosixInv'
    BY <1>4, AroundRunKeeps, ReturnFromMainKeeps DEF Main, Inv
  <2>2. SingletonInv'
    BY <1>4 DEF Main, onceVars, Inv, SingletonInv, BuiltOnce
  <2>3. UNCHANGED <<instance, built, at, pointer, down, state, failed, joined>>
    BY <1>4 DEF Main, onceVars, AroundRun, EnterMain, Remove, Exit, ReturnFromMain,
      fields, history
  <2>4. \A u \in Thread :
          at[u] \in CallerLabel \ {"outside", "done"} /\ pc[u] = "running" => pc'[u] = "running"
    BY <1>4 DEF Main, AroundRun, EnterMain, Remove, Exit, ReturnFromMain, Inv, PosixInv,
      PosixTypeOK, Actor
  <2>5. UseInv'
    BY <2>3, <2>4 DEF Inv, UseInv, Quiescent
  <2> QED BY <2>1, <2>2, <2>5 DEF Inv
<1>5. CASE UNCHANGED vars
  <2> USE <1>5 DEF vars, onceVars
  <2>1. PosixInv' BY UnchangedKeeps DEF Inv
  <2>2. SingletonInv' BY DEF Inv, SingletonInv, BuiltOnce
  <2>3. UseInv' BY DEF Inv, UseInv, Quiescent, posixVars
  <2> QED BY <2>1, <2>2, <2>3 DEF Inv
<1> QED BY <1>1, <1>2, <1>3, <1>4, <1>5 DEF Next

LEMMA InvAlways == Spec => []Inv
BY InitInv, StepInv, PTL DEF Spec

------------------------------------------------------------------------------
(* The properties.                                                         *)

(* For any owners, threads and ids the state keeps its types, and          *)
(* state_lock_ is held exactly by the owner inside Start or Join.          *)
THEOREM TypesHold == Spec => []TypeOK
<1>1. Inv => TypeOK
  BY DEF Inv, PosixInv, PosixTypeOK, Locked, InLock, SingletonInv, UseInv, TypeOK
<1> QED BY <1>1, InvAlways, PTL

(* Whoever is in pthread_join waits for its object's own, joinable and     *)
(* not yet joined pthread, and is alone in that.                           *)
THEOREM JoinsAreOfOwnThreads == Spec => []JoinsOwnThread
<1>1. Inv => JoinsOwnThread
  <2> SUFFICES ASSUME Inv, NEW o \in Owner, pc[o] = "joining" PROVE
        LET t == subject[o] IN
        /\ pthread[t] \in Id /\ host[pthread[t]] = t /\ ~created_detached[t]
        /\ \A p \in Owner \ {o} : ~(pc[p] = "joining" /\ subject[p] = t)
    BY DEF JoinsOwnThread
  <2> DEFINE t == subject[o]
  <2>1. t \in Thread /\ pc[t] # "absent" /\ ~detached[t]
    BY DEF Inv, PosixInv, CallsOK
  <2>2. ~created_detached[t] /\ t \notin joined
    BY <2>1 DEF Inv, PosixInv, DetachedOK
  <2>3. pthread[t] \in Id /\ host[pthread[t]] = t
    BY <2>1, <2>2 DEF Inv, PosixInv, PosixTypeOK, HostsOK, ThreadLabel, Alive
  <2>4. \A p \in Owner \ {o} : ~(pc[p] = "joining" /\ subject[p] = t)
    BY <2>1 DEF Inv, PosixInv, PosixTypeOK, Locked, InLock
  <2> QED BY <2>2, <2>3, <2>4
<1> QED BY <1>1, InvAlways, PTL

(* An owner that frees an object leaves no joinable pthread of its own     *)
(* behind, and no object that is gone leaves its id in live_thread_ids.    *)
THEOREM DestructorsReap == Spec => []OwnersReap
<1>1. Inv => OwnersReap
  BY DEF Inv, PosixInv, CallsOK, OwnersReap, PthreadReaped
<1> QED BY <1>1, InvAlways, PTL

(* However many threads race for it, the singleton is built once, and who  *)
(* uses it holds that instance, which no ShutDown has deleted meanwhile.   *)
THEOREM InstanceOutlivesUsers == Spec => []UsersHoldTheInstance
<1>1. Inv => UsersHoldTheInstance
  <2> SUFFICES ASSUME Inv, NEW t \in Thread, at[t] = "using"
               PROVE  pointer[t] # Null /\ pointer[t] = instance /\ BuiltOnce
    BY DEF UsersHoldTheInstance
  <2>1. pc[t] = "running" /\ pointer[t] = 1
    BY DEF Inv, UseInv, CallerLabel
  <2>2. ~down
    BY <2>1, QuiescentIsStill DEF Inv, UseInv
  <2>3. instance = built /\ built = 1
    BY <2>2 DEF Inv, UseInv, SingletonInv
  <2> QED BY <2>1, <2>3 DEF Inv, SingletonInv, Null
<1> QED BY <1>1, InvAlways, PTL
==============================================================================
