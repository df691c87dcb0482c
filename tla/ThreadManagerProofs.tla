------------------------- MODULE ThreadManagerProofs -------------------------
(***************************************************************************)
(* Machine-checked proofs about the thread manager, for every number of    *)
(* clients and workers, every program of calls and every queue bound.      *)
(***************************************************************************)
EXTENDS ThreadManagerProps, FiniteSetTheorems, SequenceTheorems, TLAPS

USE ThreadsAssumption, SizeAssumption

(* A notified condition variable only loses waiters. *)
LEMMA SignalledShrinks ==
  ASSUME NEW waiting, NEW k, NEW left \in Signalled(waiting, k)
  PROVE  left \subseteq waiting
  BY DEF Signalled

(* The request a thread inside Add submits is a request. *)
LEMMA RequestTyped ==
  ASSUME TypeOK, NEW t \in Thread, AtAdd(t) \/ pc[t] = "addWait"
  PROVE  RequestOf(t) \in Request
<1>1. CASE t \in Client
  <2>1. ip[t] <= Len(Script[t]) /\ Call(t).op = "Add"
    BY <1>1 DEF TypeOK, FieldsOK, PcOK, LocalsOK, AtAdd, Calling
  <2>2. Script[t] \in Seq(Operation) /\ ip[t] \in 1..Len(Script[t])
    BY <1>1, <2>1, ProgramAssumption DEF TypeOK, FieldsOK
  <2>3. Call(t) \in Operation
    BY <2>2 DEF Call
  <2> QED
    BY <1>1, <2>1, <2>3 DEF Operation, RequestOf
<1>2. CASE t \in Worker
  <2>1. held[t] \in Task /\ Body[held[t].runnable] # NoRequest
    BY <1>2, ThreadsAssumption DEF TypeOK, FieldsOK, PcOK, LocalsOK, AtAdd
  <2> QED
    BY <1>2, <2>1, ThreadsAssumption, ProgramAssumption DEF Task, RequestOf
<1> QED
  BY <1>1, <1>2 DEF Thread

(* What AddWorker and RemoveWorker add or take away is a size_t. *)
LEMMA AmountTyped ==
  ASSUME TypeOK, NEW c \in Client, AtAddWorker(c) \/ AtRemoveWorker(c)
  PROVE  Amount(c) \in 0..SizeMax
<1>1. CASE pc[c] \in {"create", "shrink"}
  BY <1>1 DEF Amount, TypeOK, FieldsOK
<1>2. CASE Calling(c, "AddWorker") \/ Calling(c, "RemoveWorker")
  <2>1. Script[c] \in Seq(Operation) /\ ip[c] \in 1..Len(Script[c])
    BY <1>2, ProgramAssumption DEF TypeOK, FieldsOK, Calling
  <2>2. Call(c) \in Operation /\ Call(c).op \in {"AddWorker", "RemoveWorker"}
    BY <1>2, <2>1 DEF Call, Calling
  <2> QED
    BY <1>2, <2>2 DEF Operation, Amount, Calling
<1> QED
  BY <1>1, <1>2 DEF AtAddWorker, AtRemoveWorker

(* Dropping from the front leaves the rest of the queue in order. *)
LEMMA WithoutTyped ==
  ASSUME tasks \in Seq(Task), NEW n \in 0..Len(tasks)
  PROVE  /\ Without(n) \in Seq(Task)
         /\ Len(Without(n)) = Len(tasks) - n
         /\ \A i \in 1..(Len(tasks) - n) : Without(n)[i] = tasks[n + i]
<1>1. \A i \in (n + 1)..Len(tasks) : tasks[i] \in Task
  OBVIOUS
<1>2. n + 1 \in Nat /\ Len(tasks) \in Nat
  OBVIOUS
<1> QED
  BY <1>1, <1>2, SubSeqProperties DEF Without

(* The ids of the first tasks of the queue are numbers. *)
LEMMA IdsTyped ==
  ASSUME tasks \in Seq(Task), NEW n \in 0..Len(tasks)
  PROVE  FirstIds(n) \subseteq Nat
<1>1. \A i \in 1..n : tasks[i] \in Task
  OBVIOUS
<1> QED
  BY <1>1 DEF Task, FirstIds

------------------------------------------------------------------------------
(* Type correctness, one lemma per kind of step.                           *)

(* A worker that moves to a label of Worker::Run leaves every thread well  *)
(* placed, provided it has a task when the label is one where it needs it. *)
LEMMA WorkerMoves ==
  ASSUME TypeOK, NEW w \in Worker, NEW label \in WorkerLabel, Goto(w, label),
         UNCHANGED ip, held' \in [Worker -> Task \cup {NoTask}],
         \A v \in Worker \ {w} : held'[v] = held[v],
         label \in {"body", "addWait"} => held'[w] \in Task,
         label = "addWait" => Body[held'[w].runnable] # NoRequest
  PROVE  PcOK' /\ LocalsOK'
<1>1. /\ pc' \in [Thread -> ClientLabel \cup WorkerLabel]
      /\ pc'[w] = label
      /\ \A t \in Thread \ {w} : pc'[t] = pc[t]
  BY DEF TypeOK, PcOK, Goto, Thread
<1>2. PcOK'
  BY <1>1 DEF TypeOK, PcOK, Thread
<1>3. LocalsOK'
  BY <1>1 DEF TypeOK, LocalsOK, Thread, Call
<1> QED
  BY <1>2, <1>3

(* The same for a client. *)
LEMMA ClientMoves ==
  ASSUME TypeOK, NEW c \in Client, NEW label \in ClientLabel, Goto(c, label),
         UNCHANGED held, ip' \in [Client -> Nat \ {0}],
         \A d \in Client \ {c} : ip'[d] = ip[d],
         label = "addWait" => ip'[c] <= Len(Script[c]) /\ Call(c)'.op = "Add"
  PROVE  PcOK' /\ LocalsOK'
<1>1. /\ pc' \in [Thread -> ClientLabel \cup WorkerLabel]
      /\ pc'[c] = label
      /\ \A t \in Thread \ {c} : pc'[t] = pc[t]
  BY DEF TypeOK, PcOK, Goto, Thread
<1>2. PcOK'
  BY <1>1 DEF TypeOK, PcOK, Thread
<1>3. LocalsOK'
  BY <1>1 DEF TypeOK, LocalsOK, Thread, Call
<1> QED
  BY <1>2, <1>3

LEMMA WorkerTyped ==
  ASSUME TypeOK, NEW w \in Worker, WorkerStep(w)
  PROVE  TypeOK'
<1> USE DEF fields, counts, locks, conds, queue, calls
<1> FieldsOK /\ held \in [Worker -> Task \cup {NoTask}]
  BY DEF TypeOK, FieldsOK
<1>1. CASE WorkerEnter(w)
  <2>1. CASE worker_count < worker_max_count
    <3>1. FieldsOK'
      BY <1>1, <2>1 DEF WorkerEnter, FieldsOK
    <3>2. PcOK' /\ LocalsOK'
      BY <1>1, <2>1, WorkerMoves DEF WorkerEnter, WorkerLabel
    <3> QED
      BY <3>1, <3>2 DEF TypeOK
  <2>2. CASE ~(worker_count < worker_max_count)
    <3>1. FieldsOK'
      BY <1>1, <2>2 DEF WorkerEnter, FieldsOK
    <3>2. PcOK' /\ LocalsOK'
      BY <1>1, <2>2, WorkerMoves DEF WorkerEnter, WorkerLabel
    <3> QED
      BY <3>1, <3>2 DEF TypeOK
  <2> QED
    BY <2>1, <2>2
<1>2. CASE WorkerCountIn(w)
  <2>1. FieldsOK'
    BY <1>2 DEF WorkerCountIn, Plus, FieldsOK
  <2>2. PcOK' /\ LocalsOK'
    BY <1>2, WorkerMoves DEF WorkerCountIn, WorkerLabel
  <2> QED
    BY <2>1, <2>2 DEF TypeOK
<1>3. CASE WorkerAnnounce(w)
  <2>1. FieldsOK'
    BY <1>3, SignalledShrinks DEF WorkerAnnounce, FieldsOK
  <2>2. PcOK' /\ LocalsOK'
    BY <1>3, WorkerMoves DEF WorkerAnnounce, WorkerLabel
  <2> QED
    BY <2>1, <2>2 DEF TypeOK
<1>4. CASE RunTask(w)
  <2>1. FieldsOK'
    BY <1>4 DEF RunTask, FieldsOK
  <2>2. PcOK' /\ LocalsOK'
    BY <1>4, WorkerMoves DEF RunTask, WorkerLabel
  <2> QED
    BY <2>1, <2>2 DEF TypeOK
<1>5. CASE WorkerExit(w)
  <2>1. FieldsOK'
    BY <1>5 DEF WorkerExit, FieldsOK
  <2>2. PcOK' /\ LocalsOK'
    BY <1>5, WorkerMoves DEF WorkerExit, WorkerLabel
  <2> QED
    BY <2>1, <2>2 DEF TypeOK
<1>6. CASE WorkerCountOut(w)
  <2>1. FieldsOK'
    BY <1>6, SignalledShrinks DEF WorkerCountOut, Decrement, FieldsOK
  <2>2. PcOK' /\ LocalsOK'
    BY <1>6, WorkerMoves DEF WorkerCountOut, WorkerLabel
  <2> QED
    BY <2>1, <2>2 DEF TypeOK
<1>7. ASSUME NEW was \in {0, 1}, WorkerTest(w, was)
      PROVE  TypeOK'
  <2>1. CASE Sleep(w, was)
    <3>1. FieldsOK'
      BY <1>7, <2>1 DEF WorkerTest, Sleep, FieldsOK
    <3>2. PcOK' /\ LocalsOK'
      BY <1>7, <2>1, WorkerMoves DEF WorkerTest, Sleep, WorkerLabel
    <3> QED
      BY <3>1, <3>2 DEF TypeOK
  <2>2. CASE GiveUp(w, was)
    <3>1. FieldsOK'
      BY <1>7, <2>2 DEF WorkerTest, GiveUp, FieldsOK
    <3>2. PcOK' /\ LocalsOK'
      BY <1>7, <2>2, WorkerMoves DEF WorkerTest, GiveUp, WorkerLabel
    <3> QED
      BY <3>1, <3>2 DEF TypeOK
  <2>3. CASE TakeTask(w, was)
    <3>1. tasks \in Seq(Task) /\ w \in Worker
      BY DEF FieldsOK
    <3>2. PICK n \in 0..Len(tasks) :
            /\ expired_count' = expired_count + n
            /\ dropped' = dropped \cup FirstIds(n)
            /\ \/ /\ n < Len(tasks)
                  /\ tasks' = Without(n + 1)
                  /\ held' = [held EXCEPT ![w] = tasks[n + 1]]
                  /\ begun' = begun \cup {tasks[n + 1].id}
                  /\ Goto(w, "body")
               \/ /\ tasks' = <<>>
                  /\ Goto(w, "loop")
                  /\ UNCHANGED <<held, begun>>
      BY <2>3 DEF TakeTask, Pop, DropExpired
    <3>3. dropped' \subseteq Nat /\ expired_count' \in Nat
      <4>1. FirstIds(n) \subseteq Nat
        BY <3>1, <3>2, IdsTyped
      <4>2. dropped \subseteq Nat /\ expired_count \in Nat /\ n \in Nat
        BY <3>1 DEF FieldsOK
      <4>3. dropped' = dropped \cup FirstIds(n) /\ expired_count' = expired_count + n
        BY <3>2
      <4>4. expired_count' \in Nat
        BY <4>2, <4>3
      <4>5. dropped' \subseteq Nat
        BY <4>1, <4>2, <4>3
      <4> QED
        BY <4>4, <4>5
    <3>4. max_monitor' \subseteq Thread /\ UNCHANGED monitor /\ idle_count' = idle_count - was
      BY <2>3, SignalledShrinks DEF TakeTask, FieldsOK
    <3>5. CASE /\ n < Len(tasks)
               /\ tasks' = Without(n + 1)
               /\ held' = [held EXCEPT ![w] = tasks[n + 1]]
               /\ begun' = begun \cup {tasks[n + 1].id}
               /\ Goto(w, "body")
      <4>1. tasks' \in Seq(Task) /\ tasks[n + 1] \in Task
        BY <3>1, <3>5, WithoutTyped
      <4>2. begun' \subseteq Nat
        BY <3>5, <4>1 DEF Task, FieldsOK
      <4>3. held' \in [Worker -> Task \cup {NoTask}]
        BY <3>5, <4>1
      <4>5. FieldsOK'
        <5>1. tasks' \in Seq(Task)
          BY <4>1
        <5> QED
          BY <1>7, <3>3, <3>4, <4>2, <4>3, <5>1 DEF WorkerTest, FieldsOK
      <4>4. PcOK' /\ LocalsOK'
        BY <1>7, <3>5, <4>1, WorkerMoves DEF WorkerTest, WorkerLabel
      <4> QED
        BY <4>5, <4>4 DEF TypeOK
    <3>6. CASE tasks' = <<>> /\ Goto(w, "loop") /\ UNCHANGED <<held, begun>>
      <4>1. FieldsOK'
        BY <1>7, <3>3, <3>4, <3>6 DEF WorkerTest, FieldsOK
      <4>2. PcOK' /\ LocalsOK'
        BY <1>7, <3>6, WorkerMoves DEF WorkerTest, WorkerLabel
      <4> QED
        BY <4>1, <4>2 DEF TypeOK
    <3> QED
      BY <3>2, <3>5, <3>6
  <2> QED
    BY <1>7, <2>1, <2>2, <2>3 DEF WorkerTest
<1> QED
  BY <1>1, <1>2, <1>3, <1>4, <1>5, <1>6, <1>7 DEF WorkerStep, WorkerLoop, WorkerWake

(* Returning from Add, or falling asleep in it, keeps threads well placed. *)
LEMMA LeaveAddTyped ==
  ASSUME TypeOK, NEW t \in Thread, LeaveAdd(t)
  PROVE  /\ PcOK' /\ LocalsOK'
         /\ ip' \in [Client -> Nat \ {0}]
         /\ held' \in [Worker -> Task \cup {NoTask}]
<1> FieldsOK
  BY DEF TypeOK
<1>1. CASE t \in Client
  <2>1. Goto(t, "ready") /\ UNCHANGED held /\ ip' = [ip EXCEPT ![t] = @ + 1]
    BY <1>1 DEF LeaveAdd, Return
  <2>2. ip' \in [Client -> Nat \ {0}] /\ \A d \in Client \ {t} : ip'[d] = ip[d]
    BY <1>1, <2>1 DEF FieldsOK
  <2>3. PcOK' /\ LocalsOK'
    BY <1>1, <2>1, <2>2, ClientMoves DEF ClientLabel
  <2> QED
    BY <2>1, <2>2, <2>3 DEF FieldsOK
<1>2. CASE t \in Worker
  <2>1. Goto(t, "loop") /\ held' = [held EXCEPT ![t] = NoTask] /\ UNCHANGED ip
    BY <1>2 DEF LeaveAdd
  <2>2. /\ held' \in [Worker -> Task \cup {NoTask}]
        /\ \A v \in Worker \ {t} : held'[v] = held[v]
    BY <1>2, <2>1 DEF FieldsOK
  <2>3. PcOK' /\ LocalsOK'
    BY <1>2, <2>1, <2>2, WorkerMoves DEF WorkerLabel
  <2> QED
    BY <2>1, <2>2, <2>3 DEF FieldsOK
<1> QED
  BY <1>1, <1>2 DEF Thread

LEMMA AddSleepTyped ==
  ASSUME TypeOK, NEW t \in Thread, AtAdd(t), Goto(t, "addWait"), UNCHANGED <<held, ip>>
  PROVE  PcOK' /\ LocalsOK'
<1> FieldsOK
  BY DEF TypeOK
<1>1. CASE t \in Client
  <2>1. ip[t] <= Len(Script[t]) /\ Call(t)'.op = "Add"
    BY <1>1 DEF AtAdd, Calling, Call
  <2> QED
    BY <1>1, <2>1, ClientMoves DEF ClientLabel, FieldsOK
<1>2. CASE t \in Worker
  <2>1. held[t] \in Task /\ Body[held[t].runnable] # NoRequest
    BY <1>2 DEF AtAdd, TypeOK, LocalsOK
  <2> QED
    BY <1>2, <2>1, WorkerMoves DEF WorkerLabel, FieldsOK
<1> QED
  BY <1>1, <1>2 DEF Thread

(* Pushing a request puts a task at the back and wakes at most workers. *)
LEMMA PushTyped ==
  ASSUME FieldsOK, NEW request \in Request, NEW rest \in Seq(Task), Push(request, rest)
  PROVE  tasks' \in Seq(Task) /\ accepted' \in Nat /\ monitor' \subseteq Worker
<1>1. accepted \in Nat /\ monitor \subseteq Worker
  BY DEF FieldsOK
<1>2. [id |-> accepted + 1, runnable |-> request.runnable, expires |-> request.expires] \in Task
  BY <1>1 DEF Task, Request
<1>3. tasks' \in Seq(Task)
  BY <1>2 DEF Push
<1>4. monitor' \subseteq Worker
  BY <1>1, SignalledShrinks DEF Push
<1> QED
  BY <1>1, <1>3, <1>4 DEF Push

LEMMA AddTyped ==
  ASSUME TypeOK, NEW t \in Thread, AddStep(t)
  PROVE  TypeOK'
<1> USE DEF fields, counts, locks, conds, queue, calls
<1> FieldsOK
  BY DEF TypeOK
<1>1. CASE AddLockFails(t)
  BY <1>1, LeaveAddTyped DEF AddLockFails, TypeOK, FieldsOK
<1>2. CASE AddRejected(t)
  BY <1>2, LeaveAddTyped DEF AddRejected, TypeOK, FieldsOK
<1>3. CASE AddTimesOut(t)
  BY <1>3, LeaveAddTyped DEF AddTimesOut, TypeOK, FieldsOK
<1>4. CASE AddResume(t)
  <2>1. CASE Full(tasks)
    <3>1. max_monitor' = max_monitor \cup {t} /\ UNCHANGED <<tasks, accepted, monitor, pc, held, ip>>
      BY <1>4, <2>1 DEF AddResume
    <3>2. FieldsOK'
      BY <1>4, <3>1 DEF AddResume, FieldsOK
    <3> QED
      BY <3>1, <3>2 DEF TypeOK, PcOK, LocalsOK, Call
  <2>2. CASE ~Full(tasks)
    <3>1. Push(RequestOf(t), tasks) /\ LeaveAdd(t) /\ UNCHANGED max_monitor
      BY <1>4, <2>2 DEF AddResume
    <3>2. RequestOf(t) \in Request /\ tasks \in Seq(Task)
      BY <1>4, RequestTyped DEF AddResume, FieldsOK
    <3>3. tasks' \in Seq(Task) /\ accepted' \in Nat /\ monitor' \subseteq Worker
      BY <3>1, <3>2, PushTyped
    <3> QED
      BY <1>4, <3>1, <3>3, LeaveAddTyped DEF AddResume, TypeOK, FieldsOK
  <2> QED
    BY <2>1, <2>2
<1>5. CASE Add(t)
  <2>1. PICK n \in 0..Len(tasks) : DropExpired(n) /\ (AddToFull(t, n) \/ AddToSpace(t, n))
    BY <1>5 DEF Add
  <2>2. tasks \in Seq(Task) /\ n \in Nat /\ dropped \subseteq Nat /\ expired_count \in Nat
    BY DEF FieldsOK
  <2>3. expired_count' \in Nat
    BY <2>1, <2>2 DEF DropExpired
  <2>4. dropped' \subseteq Nat
    <3>1. FirstIds(n) \subseteq Nat
      BY <2>2, IdsTyped
    <3> QED
      BY <2>1, <2>2, <3>1 DEF DropExpired
  <2>5. Without(n) \in Seq(Task)
    BY <2>2, WithoutTyped
  <2>6. CASE AddToFull(t, n)
    <3>1. tasks' \in Seq(Task) /\ UNCHANGED <<accepted, monitor>>
      BY <2>5, <2>6 DEF AddToFull
    <3>2. CASE CanSleep(t) /\ RequestOf(t).timeout # "none"
      <4>1. max_monitor' = max_monitor \cup {t} /\ Goto(t, "addWait") /\ UNCHANGED <<held, ip>>
        BY <2>6, <3>2 DEF AddToFull
      <4>2. PcOK' /\ LocalsOK'
        BY <1>5, <4>1, AddSleepTyped DEF Add
      <4> QED
        BY <1>5, <2>3, <2>4, <3>1, <4>1, <4>2 DEF Add, TypeOK, FieldsOK
    <3>3. CASE ~(CanSleep(t) /\ RequestOf(t).timeout # "none")
      <4>1. LeaveAdd(t) /\ UNCHANGED max_monitor
        BY <2>6, <3>3 DEF AddToFull
      <4> QED
        BY <1>5, <2>3, <2>4, <3>1, <4>1, LeaveAddTyped DEF Add, TypeOK, FieldsOK
    <3> QED
      BY <3>2, <3>3
  <2>7. CASE AddToSpace(t, n)
    <3>1. RequestOf(t) \in Request
      BY <1>5, RequestTyped DEF Add
    <3>2. tasks' \in Seq(Task) /\ accepted' \in Nat /\ monitor' \subseteq Worker
      BY <2>5, <2>7, <3>1, PushTyped DEF AddToSpace
    <3>3. LeaveAdd(t) /\ UNCHANGED max_monitor
      BY <2>7 DEF AddToSpace
    <3> QED
      BY <1>5, <2>3, <2>4, <3>2, <3>3, LeaveAddTyped DEF Add, TypeOK, FieldsOK
  <2> QED
    BY <2>1, <2>6, <2>7
<1> QED
  BY <1>1, <1>2, <1>3, <1>4, <1>5 DEF AddStep

(* A client whose call returns is ready for its next call. *)
LEMMA ReturnTyped ==
  ASSUME TypeOK, NEW c \in Client, Return(c), UNCHANGED held
  PROVE  /\ PcOK' /\ LocalsOK'
         /\ ip' \in [Client -> Nat \ {0}]
<1> FieldsOK
  BY DEF TypeOK
<1>1. Goto(c, "ready") /\ ip' = [ip EXCEPT ![c] = @ + 1]
  BY DEF Return
<1>2. ip' \in [Client -> Nat \ {0}] /\ \A d \in Client \ {c} : ip'[d] = ip[d]
  BY <1>1 DEF FieldsOK
<1> QED
  BY <1>1, <1>2, ClientMoves DEF ClientLabel

LEMMA ClientTyped ==
  ASSUME TypeOK, NEW c \in Client, ClientStep(c)
  PROVE  TypeOK'
<1> USE DEF fields, counts, locks, conds, queue, calls
<1> FieldsOK
  BY DEF TypeOK
<1>1. CASE StartConfigure(c)
  <2>1. FieldsOK'
    BY <1>1 DEF StartConfigure, FieldsOK
  <2>2. PcOK' /\ LocalsOK'
    BY <1>1, ClientMoves DEF StartConfigure, ClientLabel, FieldsOK
  <2> QED
    BY <2>1, <2>2 DEF TypeOK
<1>2. CASE StartTest(c)
  <2>1. FieldsOK'
    BY <1>2 DEF StartTest, FieldsOK
  <2>2. PcOK' /\ LocalsOK'
    BY <1>2, ClientMoves DEF StartTest, ClientLabel, FieldsOK
  <2> QED
    BY <2>1, <2>2 DEF TypeOK
<1>3. CASE StartSet(c)
  <2>1. FieldsOK'
    BY <1>3 DEF StartSet, FieldsOK
  <2>2. PcOK' /\ LocalsOK'
    BY <1>3, ClientMoves DEF StartSet, ClientLabel, FieldsOK
  <2> QED
    BY <2>1, <2>2 DEF TypeOK
<1>4. CASE AddWorkerWait(c)
  <2>1. FieldsOK'
    BY <1>4 DEF AddWorkerWait, FieldsOK
  <2>2. PcOK' /\ LocalsOK'
    BY <1>4, ClientMoves DEF AddWorkerWait, ClientLabel, FieldsOK
  <2> QED
    BY <2>1, <2>2 DEF TypeOK
<1>5. CASE RemoveWorkerWait(c)
  <2>1. FieldsOK'
    BY <1>5 DEF RemoveWorkerWait, FieldsOK
  <2>2. PcOK' /\ LocalsOK'
    BY <1>5, ClientMoves DEF RemoveWorkerWait, ClientLabel, FieldsOK
  <2> QED
    BY <2>1, <2>2 DEF TypeOK
<1>6. CASE StopBegin(c)
  <2>1. FieldsOK'
    BY <1>6 DEF StopBegin, FieldsOK
  <2>2. PcOK' /\ LocalsOK'
    BY <1>6, ClientMoves DEF StopBegin, ClientLabel, FieldsOK
  <2> QED
    BY <2>1, <2>2 DEF TypeOK
<1>7. CASE StopCount(c)
  <2>1. FieldsOK'
    BY <1>7 DEF StopCount, FieldsOK
  <2>2. PcOK' /\ LocalsOK'
    BY <1>7, ClientMoves DEF StopCount, ClientLabel, FieldsOK
  <2> QED
    BY <2>1, <2>2 DEF TypeOK
<1>8. CASE AddWorkerReturn(c)
  BY <1>8, ReturnTyped DEF AddWorkerReturn, TypeOK, FieldsOK
<1>9. CASE RemoveWorkerInvalid(c)
  BY <1>9, ReturnTyped DEF RemoveWorkerInvalid, TypeOK, FieldsOK
<1>10. CASE StopSet(c)
  BY <1>10, ReturnTyped DEF StopSet, TypeOK, FieldsOK
<1>11. CASE ExpiredTaskCount(c)
  BY <1>11, ReturnTyped DEF ExpiredTaskCount, TypeOK, FieldsOK
<1>12. CASE Await(c)
  BY <1>12, ReturnTyped DEF Await, TypeOK, FieldsOK
<1>13. CASE RemoveNextPending(c)
  <2>1. tasks' \in Seq(Task) /\ dropped' \subseteq Nat
    <3>1. CASE state = "STARTED" /\ tasks # <<>>
      <4>1. Tail(tasks) \in Seq(Task) /\ Head(tasks) \in Task
        BY <3>1 DEF FieldsOK
      <4> QED
        BY <1>13, <3>1, <4>1 DEF RemoveNextPending, Task, FieldsOK
    <3>2. CASE ~(state = "STARTED" /\ tasks # <<>>)
      BY <1>13, <3>2 DEF RemoveNextPending, FieldsOK
    <3> QED
      BY <3>1, <3>2
  <2> QED
    BY <1>13, <2>1, ReturnTyped DEF RemoveNextPending, TypeOK, FieldsOK
<1>14. CASE StopTest(c)
  <2>1. CASE state = "STOPPED"
    BY <1>14, <2>1, ReturnTyped DEF StopTest, TypeOK, FieldsOK
  <2>2. CASE state # "STOPPED"
    <3>1. PcOK' /\ LocalsOK'
      BY <1>14, <2>2, ClientMoves DEF StopTest, ClientLabel, FieldsOK
    <3> QED
      BY <1>14, <2>2, <3>1 DEF StopTest, TypeOK, FieldsOK
  <2> QED
    BY <2>1, <2>2
<1>15. CASE RemoveWorkerReap(c)
  <2>1. CASE Stopping(c)
    <3>1. PcOK' /\ LocalsOK'
      BY <1>15, <2>1, ClientMoves DEF RemoveWorkerReap, ClientLabel, FieldsOK
    <3> QED
      BY <1>15, <2>1, <3>1 DEF RemoveWorkerReap, TypeOK, FieldsOK
  <2>2. CASE ~Stopping(c)
    BY <1>15, <2>2, ReturnTyped DEF RemoveWorkerReap, TypeOK, FieldsOK
  <2> QED
    BY <2>1, <2>2
<1>16. CASE RemoveWorkerShrink(c)
  <2>1. monitor' \subseteq Worker
    BY <1>16, SignalledShrinks DEF RemoveWorkerShrink, Roused, FieldsOK
  <2>2. Amount(c) \in 0..SizeMax
    BY <1>16, AmountTyped DEF RemoveWorkerShrink, Enough
  <2>3. FieldsOK'
    <3>1. worker_max_count' \in 0..SizeMax
      <4>1. worker_max_count \in 0..SizeMax
        BY DEF TypeOK, FieldsOK
      <4>2. Amount(c) <= worker_max_count /\ worker_max_count' = worker_max_count - Amount(c)
        BY <1>16 DEF RemoveWorkerShrink, Enough
      <4> QED
        BY <2>2, <4>1, <4>2, SizeAssumption
    <3>2. UNCHANGED <<state, fields, worker_count, idle_count, locks, max_monitor, worker_monitor,
                      queue, calls, held, seen>>
      BY <1>16 DEF RemoveWorkerShrink
    <3> QED
      BY <2>1, <3>1, <3>2 DEF TypeOK, FieldsOK
  <2>4. PcOK' /\ LocalsOK'
    BY <1>16, ClientMoves DEF RemoveWorkerShrink, ClientLabel, FieldsOK
  <2> QED
    BY <2>3, <2>4 DEF TypeOK
<1>17. CASE AddWorkerCreate(c)
  <2>1. PICK S \in SUBSET {w \in Worker : pc[w] = "unborn"} :
          /\ workers' = workers \cup S
          /\ newThreads' = [newThreads EXCEPT ![c] = S]
          /\ pc' = [t \in Thread |-> IF t \in S THEN "created"
                                     ELSE IF t = c THEN "spawn" ELSE pc[t]]
    BY <1>17 DEF AddWorkerCreate
  <2>2. Amount(c) \in 0..SizeMax
    BY <1>17, AmountTyped DEF AddWorkerCreate
  <2>3. FieldsOK'
    <3>1. worker_max_count' \in 0..SizeMax
      BY <1>17, <2>2 DEF AddWorkerCreate, Plus, FieldsOK
    <3>2. workers' \subseteq Worker /\ newThreads' \in [Client -> SUBSET Worker]
      BY <2>1 DEF FieldsOK
    <3> QED
      BY <1>17, <3>1, <3>2 DEF AddWorkerCreate, FieldsOK
  <2>4. PcOK' /\ LocalsOK'
    <3>1. UNCHANGED <<ip, held>>
      BY <1>17 DEF AddWorkerCreate
    <3>2. /\ pc' \in [Thread -> ClientLabel \cup WorkerLabel]
          /\ \A d \in Client : pc'[d] = IF d = c THEN "spawn" ELSE pc[d]
          /\ \A w \in Worker : pc'[w] = IF w \in S THEN "created" ELSE pc[w]
      BY <2>1 DEF TypeOK, PcOK, Thread, ClientLabel, WorkerLabel
    <3>3. PcOK'
      BY <3>2 DEF TypeOK, PcOK, ClientLabel, WorkerLabel
    <3>4. LocalsOK'
      BY <3>1, <3>2 DEF TypeOK, LocalsOK, Call
    <3> QED
      BY <3>3, <3>4
  <2> QED
    BY <2>3, <2>4 DEF TypeOK
<1>18. ASSUME NEW w \in Worker, AddWorkerSpawn(c, w)
      PROVE  TypeOK'
  <2>1. FieldsOK'
    BY <1>18 DEF AddWorkerSpawn, FieldsOK
  <2>2. /\ pc' = [pc EXCEPT ![w] = "entry", ![c] = "register"]
        /\ UNCHANGED <<ip, held>>
    BY <1>18 DEF AddWorkerSpawn
  <2>3. /\ pc' \in [Thread -> ClientLabel \cup WorkerLabel]
        /\ \A d \in Client : pc'[d] = IF d = c THEN "register" ELSE pc[d]
        /\ \A v \in Worker : pc'[v] = IF v = w THEN "entry" ELSE pc[v]
    BY <2>2 DEF TypeOK, PcOK, Thread, ClientLabel, WorkerLabel
  <2>4. PcOK'
    BY <2>3 DEF TypeOK, PcOK, ClientLabel, WorkerLabel
  <2>5. LocalsOK'
    <3>1. UNCHANGED <<ip, held>>
      BY <2>2
    <3> QED
      BY <2>3, <3>1 DEF TypeOK, LocalsOK, Call
  <2> QED
    BY <2>1, <2>4, <2>5 DEF TypeOK
<1>19. ASSUME NEW w \in Worker, AddWorkerRegister(c, w)
      PROVE  TypeOK'
  <2>1. FieldsOK'
    BY <1>19 DEF AddWorkerRegister, FieldsOK
  <2>2. PcOK' /\ LocalsOK'
    BY <1>19, ClientMoves DEF AddWorkerRegister, ClientLabel, FieldsOK
  <2> QED
    BY <2>1, <2>2 DEF TypeOK
<1> QED
  BY <1>1, <1>2, <1>3, <1>4, <1>5, <1>6, <1>7, <1>8, <1>9, <1>10, <1>11, <1>12, <1>13, <1>14, <1>15, <1>16, <1>17, <1>18, <1>19
     DEF ClientStep, AddWorkerStep, RemoveWorkerStep

(* The fields and locals keep their types, whatever the programs do.       *)
THEOREM TypeCorrect == Spec => []TypeOK
<1>1. Init => TypeOK
  <2> SUFFICES ASSUME Init PROVE TypeOK
    OBVIOUS
  <2>1. FieldsOK
    BY DEF Init, FieldsOK
  <2>2. PcOK /\ LocalsOK
    BY DEF Init, PcOK, LocalsOK, ClientLabel, WorkerLabel, Thread
  <2> QED
    BY <2>1, <2>2 DEF TypeOK
<1>2. TypeOK /\ [Next]_vars => TypeOK'
  <2> SUFFICES ASSUME TypeOK, [Next]_vars PROVE TypeOK'
    OBVIOUS
  <2> USE DEF fields, counts, locks, conds, queue, calls
  <2>1. ASSUME NEW t \in Thread, ThreadStep(t) PROVE TypeOK'
    BY <2>1, AddTyped, WorkerTyped, ClientTyped DEF ThreadStep
  <2>2. ASSUME NEW t \in Thread, SpuriousWake(t) PROVE TypeOK'
    BY <2>2 DEF SpuriousWake, TypeOK, FieldsOK, PcOK, LocalsOK, Call
  <2>3. CASE Elapse
    <3>1. PICK i \in DOMAIN tasks : elapsed' = elapsed \cup {tasks[i].id}
      BY <2>3 DEF Elapse
    <3>2. tasks[i] \in Task
      BY <3>1 DEF TypeOK, FieldsOK
    <3>3. elapsed' \subseteq Nat
      BY <3>1, <3>2 DEF Task, TypeOK, FieldsOK
    <3> QED
      BY <2>3, <3>3 DEF Elapse, TypeOK, FieldsOK, PcOK, LocalsOK, Call
  <2>4. CASE UNCHANGED vars
    BY <2>4 DEF vars, TypeOK, FieldsOK, PcOK, LocalsOK, Call
  <2> QED
    BY <2>1, <2>2, <2>3, <2>4 DEF Next
<1> QED
  BY <1>1, <1>2, PTL DEF Spec

------------------------------------------------------------------------------
(* idle_count_ is exact.  The type invariant says where every thread is;   *)
(* only Worker::Run moves a worker to or from its wait.                    *)

LEMMA IdleWorkersFinite == IsFiniteSet(IdleWorkers) /\ Cardinality(IdleWorkers) \in Nat
<1>1. IsFiniteSet(IdleWorkers)
  BY FS_Subset DEF IdleWorkers
<1> QED
  BY <1>1, FS_CardinalityType

LEMMA SameIdle ==
  ASSUME IdleCountExact, UNCHANGED idle_count,
         \A w \in Worker : pc'[w] = "idle" <=> pc[w] = "idle"
  PROVE  IdleCountExact'
<1>1. IdleWorkers' = IdleWorkers
  BY DEF IdleWorkers
<1> QED
  BY <1>1 DEF IdleCountExact

(* A step of a thread that is not in the wait and does not enter it.       *)
LEMMA MoveElsewhere ==
  ASSUME TypeOK, IdleCountExact, UNCHANGED idle_count,
         NEW t \in Thread, pc[t] # "idle", NEW label, label # "idle", Goto(t, label)
  PROVE  IdleCountExact'
  BY SameIdle DEF TypeOK, PcOK, Goto, Thread

(* A step that takes worker w out of the wait, or into it.                 *)
LEMMA LeaveIdle ==
  ASSUME TypeOK, IdleCountExact, NEW w \in Worker, NEW label, label # "idle", Goto(w, label),
         pc[w] = "idle", idle_count' = idle_count - 1
  PROVE  IdleCountExact'
<1>1. IdleWorkers' = IdleWorkers \ {w} /\ w \in IdleWorkers
  BY DEF IdleWorkers, TypeOK, PcOK, Goto, Thread
<1>2. Cardinality(IdleWorkers') = Cardinality(IdleWorkers) - 1
  BY <1>1, IdleWorkersFinite, FS_RemoveElement
<1> QED
  BY <1>2 DEF IdleCountExact

LEMMA EnterIdle ==
  ASSUME TypeOK, IdleCountExact, NEW w \in Worker, Goto(w, "idle"),
         pc[w] # "idle", idle_count' = idle_count + 1
  PROVE  IdleCountExact'
<1>1. IdleWorkers' = IdleWorkers \cup {w} /\ w \notin IdleWorkers
  BY DEF IdleWorkers, TypeOK, PcOK, Goto, Thread
<1>2. Cardinality(IdleWorkers') = Cardinality(IdleWorkers) + 1
  BY <1>1, IdleWorkersFinite, FS_AddElement
<1> QED
  BY <1>2 DEF IdleCountExact

LEMMA TestKeepsIdle ==
  ASSUME TypeOK, IdleCountExact, NEW w \in Worker, NEW was \in {0, 1},
         was = 1 <=> pc[w] = "idle", WorkerTest(w, was)
  PROVE  IdleCountExact'
<1> idle_count \in Int
  BY DEF TypeOK, FieldsOK
<1>1. CASE Sleep(w, was)
  <2>1. idle_count' = (idle_count - was) + 1 /\ Goto(w, "idle")
    BY <1>1 DEF Sleep
  <2>2. CASE was = 0
    BY <2>1, <2>2, EnterIdle
  <2>3. CASE was = 1
    <3>1. UNCHANGED idle_count /\ \A v \in Worker : pc'[v] = "idle" <=> pc[v] = "idle"
      BY <2>1, <2>3 DEF TypeOK, PcOK, Goto, Thread
    <3> QED
      BY <3>1, SameIdle
  <2> QED
    BY <2>2, <2>3
<1>2. CASE GiveUp(w, was) \/ TakeTask(w, was)
  <2>1. PICK label \in {"exit", "body", "loop"} : Goto(w, label)
    BY <1>2 DEF GiveUp, TakeTask, Pop
  <2>2. idle_count' = idle_count - was
    BY <1>2 DEF GiveUp, TakeTask, Pop
  <2>3. CASE was = 0
    BY <2>1, <2>2, <2>3, MoveElsewhere DEF Thread
  <2>4. CASE was = 1
    BY <2>1, <2>2, <2>4, LeaveIdle
  <2> QED
    BY <2>3, <2>4
<1> QED
  BY <1>1, <1>2 DEF WorkerTest

THEOREM IdleCountCorrect == Spec => []IdleCountExact
<1>1. Init => IdleCountExact
  <2> SUFFICES ASSUME Init PROVE IdleCountExact
    OBVIOUS
  <2>1. IdleWorkers = {}
    BY DEF Init, IdleWorkers, Thread
  <2> QED
    BY <2>1, FS_EmptySet DEF Init, IdleCountExact
<1>2. TypeOK /\ IdleCountExact /\ [Next]_vars => IdleCountExact'
  <2> SUFFICES ASSUME TypeOK, IdleCountExact, [Next]_vars PROVE IdleCountExact'
    OBVIOUS
  <2> USE DEF counts
  <2>1. ASSUME NEW t \in Thread, AddStep(t) PROVE IdleCountExact'
    <3>1. pc[t] # "idle"
      BY <2>1 DEF AddStep, AddLockFails, AddRejected, Add, AddResume, AddTimesOut, AtAdd, Calling
    <3>2. UNCHANGED idle_count
      BY <2>1 DEF AddStep, AddLockFails, AddRejected, Add, AddResume, AddTimesOut
    <3>3. (\E label \in {"ready", "loop", "addWait"} : Goto(t, label)) \/ UNCHANGED pc
      BY <2>1 DEF AddStep, AddLockFails, AddRejected, Add, AddResume, AddTimesOut, AddToFull,
                  AddToSpace, LeaveAdd, Return
    <3> QED
      BY <3>1, <3>2, <3>3, MoveElsewhere, SameIdle
  <2>2. ASSUME NEW w \in Worker, WorkerStep(w) PROVE IdleCountExact'
    <3>1. CASE WorkerLoop(w)
      BY <3>1, TestKeepsIdle DEF WorkerLoop
    <3>2. CASE WorkerWake(w)
      BY <3>2, TestKeepsIdle DEF WorkerWake
    <3>3. CASE ~WorkerLoop(w) /\ ~WorkerWake(w)
      <4>1. /\ pc[w] # "idle" /\ UNCHANGED idle_count
            /\ \E label \in WorkerLabel \ {"idle"} : Goto(w, label)
        BY <2>2, <3>3 DEF WorkerStep, WorkerEnter, WorkerCountIn, WorkerAnnounce, RunTask,
                          WorkerExit, WorkerCountOut, WorkerLabel
      <4> QED
        BY <4>1, MoveElsewhere DEF Thread
    <3> QED
      BY <3>1, <3>2, <3>3
  <2>3. ASSUME NEW c \in Client, ClientStep(c) PROVE IdleCountExact'
    <3>1. UNCHANGED idle_count
      BY <2>3 DEF ClientStep, AddWorkerStep, RemoveWorkerStep, StartConfigure, StartTest, StartSet,
                  AddWorkerCreate, AddWorkerSpawn, AddWorkerRegister, AddWorkerWait,
                  AddWorkerReturn, RemoveWorkerInvalid, RemoveWorkerShrink, RemoveWorkerWait,
                  RemoveWorkerReap, StopTest, StopBegin, StopCount, StopSet, RemoveNextPending,
                  ExpiredTaskCount, Await
    <3>2. CASE AddWorkerCreate(c)
      <4>1. PICK S \in SUBSET {w \in Worker : pc[w] = "unborn"} :
              pc' = [t \in Thread |-> IF t \in S THEN "created"
                                     ELSE IF t = c THEN "spawn" ELSE pc[t]]
        BY <3>2 DEF AddWorkerCreate
      <4>2. \A w \in Worker : pc'[w] = "idle" <=> pc[w] = "idle"
        BY <4>1 DEF Thread
      <4> QED
        BY <3>1, <4>2, SameIdle
    <3>3. CASE \E w \in Worker : AddWorkerSpawn(c, w)
      <4>1. \A w \in Worker : pc'[w] = "idle" <=> pc[w] = "idle"
        BY <3>3 DEF AddWorkerSpawn, TypeOK, PcOK, Thread
      <4> QED
        BY <3>1, <4>1, SameIdle
    <3>4. CASE ~AddWorkerCreate(c) /\ ~(\E w \in Worker : AddWorkerSpawn(c, w))
      <4>1. \E label \in ClientLabel : Goto(c, label)
        BY <2>3, <3>4
           DEF ClientStep, AddWorkerStep, RemoveWorkerStep, StartConfigure, StartTest, StartSet,
               AddWorkerRegister, AddWorkerWait, AddWorkerReturn, RemoveWorkerInvalid,
               RemoveWorkerShrink, RemoveWorkerWait, RemoveWorkerReap, StopTest, StopBegin,
               StopCount, StopSet, RemoveNextPending, ExpiredTaskCount, Await, Return, ClientLabel
      <4> QED
        BY <3>1, <4>1, SameIdle DEF TypeOK, PcOK, Goto, Thread
    <3> QED
      BY <3>2, <3>3, <3>4
  <2>4. ASSUME NEW t \in Thread, SpuriousWake(t) PROVE IdleCountExact'
    BY <2>4, SameIdle DEF SpuriousWake
  <2>5. CASE Elapse
    BY <2>5, SameIdle DEF Elapse
  <2>6. CASE UNCHANGED vars
    BY <2>6, SameIdle DEF vars
  <2> QED
    BY <2>1, <2>2, <2>3, <2>4, <2>5, <2>6 DEF Next, ThreadStep
<1> QED
  BY <1>1, <1>2, TypeCorrect, PTL DEF Spec

------------------------------------------------------------------------------
(* The queue.  Every step drops some of the oldest tasks and then lets a   *)
(* worker begin the next, accepts a new one, or does neither.              *)

Drops(n) ==
  /\ dropped' = dropped \cup FirstIds(n)
  /\ tasks' = Without(n)
  /\ UNCHANGED <<accepted, begun>>

Begins(w, n) ==
  /\ n < Len(tasks)
  /\ dropped' = dropped \cup FirstIds(n)
  /\ tasks' = Without(n + 1)
  /\ begun' = begun \cup {tasks[n + 1].id}
  /\ held' = [held EXCEPT ![w] = tasks[n + 1]]
  /\ UNCHANGED <<accepted, pending_task_count_max>>

Accepts(n) ==
  /\ state = "STARTED" \/ \E t \in Thread : pc[t] = "addWait"
  /\ ~Full(Without(n))
  /\ dropped' = dropped \cup FirstIds(n)
  /\ \E task \in Task : task.id = accepted + 1 /\ tasks' = Append(Without(n), task)
  /\ accepted' = accepted + 1
  /\ UNCHANGED begun

KeepsQueue == UNCHANGED <<tasks, accepted, begun, dropped>>

(* Outside Begins, a worker's task is at most given up. *)
GivesUpOnly == \A w \in Worker : held'[w] \in {held[w], NoTask}

QueueStep ==
  \/ KeepsQueue /\ GivesUpOnly
  \/ \E n \in 0..Len(tasks) :
       \/ Drops(n) /\ GivesUpOnly /\ UNCHANGED pending_task_count_max
       \/ Accepts(n) /\ GivesUpOnly /\ UNCHANGED pending_task_count_max
       \/ \E w \in Worker : Begins(w, n)

LEMMA NothingDropped ==
  ASSUME TypeOK
  PROVE  FirstIds(0) = {} /\ Without(0) = tasks /\ Without(Len(tasks)) = <<>>
<1> tasks \in Seq(Task)
  BY DEF TypeOK, FieldsOK
<1>1. FirstIds(0) = {}
  BY DEF FirstIds
<1>2. Without(0) = tasks
  BY DEF Without
<1>3. Without(Len(tasks)) = <<>>
  BY SubSeqEmpty DEF Without
<1> QED
  BY <1>1, <1>2, <1>3

LEMMA LeaveAddGivesUp ==
  ASSUME TypeOK, NEW t \in Thread, LeaveAdd(t)
  PROVE  GivesUpOnly
  BY DEF LeaveAdd, GivesUpOnly, TypeOK, FieldsOK, Thread

LEMMA AddQueueStep ==
  ASSUME TypeOK, NEW t \in Thread, AddStep(t)
  PROVE  QueueStep
<1> USE DEF fields, queue
<1> tasks \in Seq(Task) /\ accepted \in Nat /\ 0 \in 0..Len(tasks)
  BY DEF TypeOK, FieldsOK
<1>1. ASSUME NEW rest \in Seq(Task), AtAdd(t) \/ pc[t] = "addWait", Push(RequestOf(t), rest)
      PROVE  \E task \in Task : task.id = accepted + 1 /\ tasks' = Append(rest, task)
  <2>1. RequestOf(t) \in Request
    BY <1>1, RequestTyped
  <2>2. [id |-> accepted + 1, runnable |-> RequestOf(t).runnable,
         expires |-> RequestOf(t).expires] \in Task
    BY <2>1 DEF Request, Task
  <2> QED
    BY <1>1, <2>2 DEF Push
<1>2. CASE AddLockFails(t) \/ AddRejected(t) \/ AddTimesOut(t)
  BY <1>2, LeaveAddGivesUp DEF AddLockFails, AddRejected, AddTimesOut, QueueStep, KeepsQueue
<1>3. CASE AddResume(t)
  <2>1. CASE Full(tasks)
    BY <1>3, <2>1 DEF AddResume, QueueStep, KeepsQueue, GivesUpOnly
  <2>2. CASE ~Full(tasks)
    <3>1. Push(RequestOf(t), tasks) /\ LeaveAdd(t)
      BY <1>3, <2>2 DEF AddResume
    <3>2. \E task \in Task : task.id = accepted + 1 /\ tasks' = Append(tasks, task)
      BY <1>1, <1>3, <3>1 DEF AddResume
    <3>3. Accepts(0)
      BY <1>3, <2>2, <3>1, <3>2, NothingDropped DEF AddResume, Accepts, Push
    <3>4. UNCHANGED pending_task_count_max
      BY <1>3 DEF AddResume
    <3> QED
      BY <3>1, <3>3, <3>4, LeaveAddGivesUp DEF QueueStep
  <2> QED
    BY <2>1, <2>2
<1>4. CASE Add(t)
  <2>1. PICK n \in 0..Len(tasks) : DropExpired(n) /\ (AddToFull(t, n) \/ AddToSpace(t, n))
    BY <1>4 DEF Add
  <2>2. UNCHANGED <<begun, pending_task_count_max>> /\ AtAdd(t)
    BY <1>4 DEF Add
  <2>3. CASE AddToFull(t, n)
    <3>1. Drops(n)
      BY <2>1, <2>2, <2>3 DEF Drops, AddToFull, DropExpired
    <3>2. GivesUpOnly
      BY <2>3, LeaveAddGivesUp DEF AddToFull, GivesUpOnly
    <3> QED
      BY <2>2, <3>1, <3>2 DEF QueueStep
  <2>4. CASE AddToSpace(t, n)
    <3>1. ~Full(Without(n)) /\ Push(RequestOf(t), Without(n)) /\ LeaveAdd(t)
      BY <2>4 DEF AddToSpace
    <3>2. Without(n) \in Seq(Task)
      BY WithoutTyped
    <3>3. \E task \in Task : task.id = accepted + 1 /\ tasks' = Append(Without(n), task)
      BY <1>1, <2>2, <3>1, <3>2
    <3>4. Accepts(n)
      <4>1. state = "STARTED"
        BY <1>4 DEF Add
      <4> QED
        BY <2>1, <2>2, <3>1, <3>3, <4>1 DEF Accepts, DropExpired, Push
    <3> QED
      BY <2>2, <3>1, <3>4, LeaveAddGivesUp DEF QueueStep
  <2> QED
    BY <2>1, <2>3, <2>4
<1> QED
  BY <1>2, <1>3, <1>4 DEF AddStep

LEMMA WorkerQueueStep ==
  ASSUME TypeOK, NEW w \in Worker, WorkerStep(w)
  PROVE  QueueStep
<1> USE DEF queue, fields
<1> tasks \in Seq(Task)
  BY DEF TypeOK, FieldsOK
<1>1. CASE WorkerEnter(w) \/ WorkerCountIn(w) \/ WorkerAnnounce(w) \/ RunTask(w)
           \/ WorkerExit(w) \/ WorkerCountOut(w)
  BY <1>1 DEF WorkerEnter, WorkerCountIn, WorkerAnnounce, RunTask, WorkerExit, WorkerCountOut,
              QueueStep, KeepsQueue, GivesUpOnly, TypeOK, FieldsOK
<1>2. ASSUME NEW was \in {0, 1}, WorkerTest(w, was)
      PROVE  QueueStep
  <2>1. UNCHANGED <<accepted, pending_task_count_max>>
    BY <1>2 DEF WorkerTest
  <2>2. CASE Sleep(w, was) \/ GiveUp(w, was)
    BY <2>1, <2>2 DEF Sleep, GiveUp, QueueStep, KeepsQueue, GivesUpOnly
  <2>3. CASE TakeTask(w, was)
    <3>1. PICK n \in 0..Len(tasks) :
            /\ DropExpired(n)
            /\ IF n < Len(tasks)
               THEN /\ tasks' = Without(n + 1)
                    /\ held' = [held EXCEPT ![w] = tasks[n + 1]]
                    /\ begun' = begun \cup {tasks[n + 1].id}
                    /\ Goto(w, "body")
               ELSE /\ tasks' = <<>>
                    /\ Goto(w, "loop")
                    /\ UNCHANGED <<held, begun>>
      BY <2>3 DEF TakeTask, Pop
    <3>2. CASE n < Len(tasks)
      <4>1. Begins(w, n)
        BY <2>1, <3>1, <3>2 DEF Begins, DropExpired
      <4> QED
        BY <4>1 DEF QueueStep
    <3>3. CASE ~(n < Len(tasks))
      <4>1. n = Len(tasks)
        BY <3>3
      <4>2. Drops(n)
        BY <2>1, <3>1, <3>3, <4>1, NothingDropped DEF Drops, DropExpired
      <4>3. GivesUpOnly
        BY <3>1, <3>3 DEF GivesUpOnly
      <4> QED
        BY <2>1, <4>2, <4>3 DEF QueueStep
    <3> QED
      BY <3>2, <3>3
  <2> QED
    BY <1>2, <2>2, <2>3 DEF WorkerTest
<1> QED
  BY <1>1, <1>2 DEF WorkerStep, WorkerLoop, WorkerWake

LEMMA ClientQueueStep ==
  ASSUME TypeOK, NEW c \in Client, ClientStep(c)
  PROVE  QueueStep
<1> USE DEF queue, fields
<1> tasks \in Seq(Task)
  BY DEF TypeOK, FieldsOK
<1>1. CASE RemoveNextPending(c)
  <2>1. GivesUpOnly /\ UNCHANGED <<accepted, begun, pending_task_count_max>>
    BY <1>1 DEF RemoveNextPending, GivesUpOnly
  <2>2. CASE state = "STARTED" /\ tasks # <<>>
    <3>1. tasks' = Tail(tasks) /\ dropped' = dropped \cup {Head(tasks).id}
      BY <1>1, <2>2 DEF RemoveNextPending
    <3>2. Tail(tasks) = Without(1) /\ 1 \in 0..Len(tasks)
      BY <2>2, TailIsSubSeq DEF Without
    <3>3. FirstIds(1) = {Head(tasks).id}
      BY <2>2 DEF FirstIds
    <3> QED
      BY <2>1, <3>1, <3>2, <3>3 DEF QueueStep, Drops
  <2>3. CASE ~(state = "STARTED" /\ tasks # <<>>)
    BY <1>1, <2>1, <2>3 DEF RemoveNextPending, QueueStep, KeepsQueue
  <2> QED
    BY <2>2, <2>3
<1>2. CASE ~RemoveNextPending(c)
  <2>1. UNCHANGED <<tasks, accepted, begun, dropped, held>>
    BY <1>2 DEF ClientStep, AddWorkerStep, RemoveWorkerStep, StartConfigure, StartTest, StartSet,
                AddWorkerCreate, AddWorkerSpawn, AddWorkerRegister, AddWorkerWait,
                AddWorkerReturn, RemoveWorkerInvalid, RemoveWorkerShrink, RemoveWorkerWait,
                RemoveWorkerReap, StopTest, StopBegin, StopCount, StopSet,
                ExpiredTaskCount, Await
  <2> QED
    BY <2>1 DEF QueueStep, KeepsQueue, GivesUpOnly
<1> QED
  BY <1>1, <1>2

LEMMA EveryStepIsAQueueStep ==
  ASSUME TypeOK, [Next]_vars
  PROVE  QueueStep
<1>1. ASSUME NEW t \in Thread, ThreadStep(t) PROVE QueueStep
  BY <1>1, AddQueueStep, WorkerQueueStep, ClientQueueStep DEF ThreadStep
<1>2. ASSUME NEW t \in Thread, SpuriousWake(t) PROVE QueueStep
  BY <1>2 DEF SpuriousWake, QueueStep, KeepsQueue, GivesUpOnly, queue
<1>3. CASE Elapse \/ UNCHANGED vars
  BY <1>3 DEF Elapse, vars, QueueStep, KeepsQueue, GivesUpOnly, queue
<1> QED
  BY <1>1, <1>2, <1>3 DEF Next

(* The tasks after the n oldest, one by one. *)
LEMMA WithoutIs ==
  ASSUME TypeOK, NEW n \in 0..Len(tasks)
  PROVE  /\ Without(n) \in Seq(Task)
         /\ Len(Without(n)) = Len(tasks) - n
         /\ \A i \in 1..(Len(tasks) - n) : Without(n)[i] = tasks[n + i]
<1> tasks \in Seq(Task)
  BY DEF TypeOK, FieldsOK
<1>1. Without(n) \in Seq(Task)
  BY WithoutTyped
<1>2. Len(Without(n)) = Len(tasks) - n
  BY DEF Without
<1>3. \A i \in 1..(Len(tasks) - n) : Without(n)[i] = tasks[n + i]
  BY DEF Without
<1> QED
  BY <1>1, <1>2, <1>3

(* In a queue in order, the n oldest ids follow those that have left it.   *)
LEMMA FirstIdsAre ==
  ASSUME TypeOK, QueueIsSuffix, NEW n \in 0..Len(tasks)
  PROVE  FirstIds(n) = (accepted - Len(tasks) + 1) .. (accepted - Len(tasks) + n)
<1> DEFINE base == accepted - Len(tasks)
<1>1. Len(tasks) \in Nat /\ base \in Int
  BY DEF TypeOK, FieldsOK
<1>2. \A i \in 1..n : tasks[i].id = base + i
  BY <1>1 DEF QueueIsSuffix
<1> HIDE DEF base
<1>3. ASSUME NEW k \in FirstIds(n) PROVE k \in (base + 1)..(base + n)
  <2>1. PICK i \in 1..n : k = base + i
    BY <1>2, <1>3 DEF FirstIds
  <2> QED
    BY <1>1, <2>1
<1>4. ASSUME NEW k \in (base + 1)..(base + n) PROVE k \in FirstIds(n)
  <2>1. k - base \in 1..n /\ base + (k - base) = k
    BY <1>1, <1>4
  <2>2. tasks[k - base].id = k
    BY <1>2, <2>1
  <2> QED
    BY <2>1, <2>2 DEF FirstIds
<1> QED
  BY <1>3, <1>4 DEF base

(* Two sets that split 1..base still split what is left of it when the     *)
(* next n numbers join one of them.                                        *)
LEMMA SplitGrows ==
  ASSUME NEW base \in Nat, NEW n \in Nat, NEW P, NEW Q, P \cap Q = {}, P \cup Q = 1..base
  PROVE  /\ P \cap (Q \cup (base + 1)..(base + n)) = {}
         /\ P \cup (Q \cup (base + 1)..(base + n)) = 1..(base + n)
<1>1. (1..base) \cap ((base + 1)..(base + n)) = {}
  OBVIOUS
<1>2. (1..base) \cup ((base + 1)..(base + n)) = 1..(base + n)
  OBVIOUS
<1>3. P \cap (Q \cup (base + 1)..(base + n)) = {}
  BY <1>1
<1>4. P \cup (Q \cup (base + 1)..(base + n)) = 1..(base + n)
  BY <1>2
<1> QED
  BY <1>3, <1>4

(* The queue holds a suffix of what was accepted, the rest was begun or    *)
(* dropped, and what workers hold was begun: the inductive invariant.      *)
QueueInv ==
  /\ Len(tasks) <= accepted
  /\ QueueIsSuffix
  /\ EachTaskOnce
  /\ NoTaskShared

LEMMA HeldStay ==
  ASSUME NoTaskShared, GivesUpOnly, begun \subseteq begun'
  PROVE  NoTaskShared'
  BY DEF NoTaskShared, GivesUpOnly

LEMMA DropsKeepsQueueInv ==
  ASSUME TypeOK, QueueInv, NEW n \in 0..Len(tasks), Drops(n), GivesUpOnly
  PROVE  QueueInv'
<1> DEFINE base == accepted - Len(tasks)
<1>1. /\ n \in Nat /\ Len(tasks) \in Nat /\ accepted \in Nat /\ base \in Nat
      /\ n <= Len(tasks)
  BY DEF TypeOK, FieldsOK, QueueInv
<1>2. Len(tasks') = Len(tasks) - n /\ \A i \in 1..(Len(tasks) - n) : tasks'[i] = tasks[n + i]
  BY WithoutIs DEF Drops
<1>3. accepted' = accepted /\ begun' = begun
  BY DEF Drops
<1>4. accepted' - Len(tasks') = base + n
  BY <1>1, <1>2, <1>3
<1>5. QueueIsSuffix'
  <2>1. ASSUME NEW i \in 1..(Len(tasks) - n)
        PROVE  tasks'[i].id = base + n + i
    <3>1. n + i \in 1..Len(tasks)
      BY <1>1
    <3>2. tasks[n + i].id = base + (n + i)
      BY <3>1 DEF QueueInv, QueueIsSuffix
    <3> QED
      BY <1>1, <1>2, <3>2
  <2> QED
    BY <1>2, <1>4, <2>1 DEF QueueIsSuffix
<1>6. dropped' = dropped \cup (base + 1)..(base + n)
  BY FirstIdsAre DEF Drops, QueueInv
<1>7. EachTaskOnce'
  <2>1. begun \cap dropped = {} /\ begun \cup dropped = 1..base
    BY DEF QueueInv, EachTaskOnce
  <2> HIDE DEF base
  <2> QED
    BY <1>1, <1>3, <1>4, <1>6, <2>1, SplitGrows DEF EachTaskOnce
<1>8. NoTaskShared'
  BY <1>3, HeldStay DEF QueueInv
<1> QED
  BY <1>1, <1>2, <1>3, <1>5, <1>7, <1>8 DEF QueueInv

LEMMA AcceptsKeepsQueueInv ==
  ASSUME TypeOK, QueueInv, NEW n \in 0..Len(tasks), Accepts(n), GivesUpOnly
  PROVE  QueueInv'
<1> DEFINE base == accepted - Len(tasks)
<1>1. /\ n \in Nat /\ Len(tasks) \in Nat /\ accepted \in Nat /\ base \in Nat
      /\ n <= Len(tasks)
  BY DEF TypeOK, FieldsOK, QueueInv
<1>2. PICK task \in Task : task.id = accepted + 1 /\ tasks' = Append(Without(n), task)
  BY DEF Accepts
<1>3. /\ Len(tasks') = Len(tasks) - n + 1
      /\ tasks'[Len(tasks) - n + 1] = task
      /\ \A i \in 1..(Len(tasks) - n) : tasks'[i] = tasks[n + i]
  <2>1. /\ Without(n) \in Seq(Task)
        /\ Len(Without(n)) = Len(tasks) - n
        /\ \A i \in 1..(Len(tasks) - n) : Without(n)[i] = tasks[n + i]
    BY WithoutIs
  <2> HIDE DEF base
  <2> QED
    BY <1>1, <1>2, <2>1
<1>4. accepted' = accepted + 1 /\ begun' = begun
  BY DEF Accepts
<1>5. accepted' - Len(tasks') = base + n
  BY <1>1, <1>3, <1>4
<1>6. QueueIsSuffix'
  <2>1. ASSUME NEW i \in 1..(Len(tasks) - n)
        PROVE  tasks'[i].id = base + n + i
    <3>1. n + i \in 1..Len(tasks)
      BY <1>1
    <3>2. tasks[n + i].id = base + (n + i)
      BY <3>1 DEF QueueInv, QueueIsSuffix
    <3> QED
      BY <1>1, <1>3, <3>2
  <2>2. tasks'[Len(tasks) - n + 1].id = base + n + (Len(tasks) - n + 1)
    BY <1>1, <1>2, <1>3
  <2>3. ASSUME NEW i \in 1..Len(tasks') PROVE tasks'[i].id = base + n + i
    <3>1. i \in 1..(Len(tasks) - n) \/ i = Len(tasks) - n + 1
      BY <1>1, <1>3
    <3> QED
      BY <2>1, <2>2, <3>1
  <2> QED
    BY <1>5, <2>3 DEF QueueIsSuffix
<1>7. dropped' = dropped \cup (base + 1)..(base + n)
  BY FirstIdsAre DEF Accepts, QueueInv
<1>8. EachTaskOnce'
  <2>1. begun \cap dropped = {} /\ begun \cup dropped = 1..base
    BY DEF QueueInv, EachTaskOnce
  <2> HIDE DEF base
  <2> QED
    BY <1>1, <1>4, <1>5, <1>7, <2>1, SplitGrows DEF EachTaskOnce
<1>9. NoTaskShared'
  BY <1>4, HeldStay DEF QueueInv
<1>10. Len(tasks') <= accepted'
  BY <1>1, <1>3, <1>4
<1> QED
  BY <1>6, <1>8, <1>9, <1>10 DEF QueueInv

LEMMA BeginsKeepsQueueInv ==
  ASSUME TypeOK, QueueInv, NEW n \in 0..Len(tasks), NEW w \in Worker, Begins(w, n)
  PROVE  QueueInv'
<1> DEFINE base == accepted - Len(tasks)
           next == base + n + 1
<1>1. /\ n \in Nat /\ Len(tasks) \in Nat /\ accepted \in Nat /\ base \in Nat
      /\ n + 1 <= Len(tasks) /\ n + 1 \in 0..Len(tasks) /\ n + 1 \in 1..Len(tasks)
  BY DEF TypeOK, FieldsOK, QueueInv, Begins
<1>2. /\ Len(tasks') = Len(tasks) - (n + 1)
      /\ \A i \in 1..(Len(tasks) - (n + 1)) : tasks'[i] = tasks[(n + 1) + i]
  BY <1>1, WithoutIs DEF Begins
<1>3. accepted' = accepted
  BY DEF Begins
<1>4. accepted' - Len(tasks') = next
  BY <1>1, <1>2, <1>3
<1>5. QueueIsSuffix'
  <2>1. ASSUME NEW i \in 1..(Len(tasks) - (n + 1))
        PROVE  tasks'[i].id = next + i
    <3>1. (n + 1) + i \in 1..Len(tasks)
      BY <1>1
    <3>2. tasks[(n + 1) + i].id = base + ((n + 1) + i)
      BY <3>1 DEF QueueInv, QueueIsSuffix
    <3> QED
      BY <1>1, <1>2, <3>2
  <2> QED
    BY <1>2, <1>4, <2>1 DEF QueueIsSuffix
<1>6. tasks[n + 1].id = next
  BY <1>1 DEF QueueInv, QueueIsSuffix
<1>7. dropped' = dropped \cup (base + 1)..(base + n) /\ begun' = begun \cup {next}
  BY <1>6, FirstIdsAre DEF Begins, QueueInv
<1>8. next \notin begun
  <2>1. begun \subseteq 1..base
    BY DEF QueueInv, EachTaskOnce
  <2> QED
    BY <1>1, <2>1
<1>9. EachTaskOnce'
  <2>1. begun \cap dropped = {} /\ begun \cup dropped = 1..base
    BY DEF QueueInv, EachTaskOnce
  <2> HIDE DEF base
  <2>2. begun \cap dropped' = {} /\ begun \cup dropped' = 1..(base + n)
    BY <1>1, <1>7, <2>1, SplitGrows
  <2>3. base + n \in Nat /\ (base + n + 1)..(base + n + 1) = {next}
    BY <1>1
  <2>4. dropped' \cap begun' = {} /\ dropped' \cup begun' = 1..next
    <3>1. dropped' \cap begun = {} /\ dropped' \cup begun = 1..(base + n)
      BY <2>2
    <3> QED
      BY <1>7, <2>3, <3>1, SplitGrows
  <2> QED
    BY <1>4, <2>4 DEF EachTaskOnce
<1>10. NoTaskShared'
  <2>1. held' = [held EXCEPT ![w] = tasks[n + 1]]
    BY DEF Begins
  <2>2. \A v \in Worker : held[v] # NoTask => held[v].id # next /\ held[v].id \in begun
    BY <1>8 DEF QueueInv, NoTaskShared
  <2>3. held \in [Worker -> Task \cup {NoTask}]
    BY DEF TypeOK, FieldsOK
  <2> HIDE DEF next
  <2>4. \A v \in Worker : held'[v] # NoTask => held'[v].id \in begun'
    BY <1>6, <1>7, <2>1, <2>2, <2>3
  <2>5. ASSUME NEW u \in Worker, NEW v \in Worker,
               u # v, held'[u] # NoTask, held'[v] # NoTask
        PROVE  held'[u].id # held'[v].id
    BY <1>6, <2>1, <2>2, <2>3, <2>5 DEF QueueInv, NoTaskShared
  <2> QED
    BY <2>4, <2>5 DEF NoTaskShared
<1>11. Len(tasks') <= accepted'
  BY <1>1, <1>2, <1>3
<1> QED
  BY <1>5, <1>9, <1>10, <1>11 DEF QueueInv

LEMMA QueueInvHolds == Spec => []QueueInv
<1>1. Init => QueueInv
  BY DEF Init, QueueInv, QueueIsSuffix, EachTaskOnce, NoTaskShared
<1>2. TypeOK /\ QueueInv /\ [Next]_vars => QueueInv'
  <2> SUFFICES ASSUME TypeOK, QueueInv, [Next]_vars PROVE QueueInv'
    OBVIOUS
  <2>1. QueueStep
    BY EveryStepIsAQueueStep
  <2>2. CASE KeepsQueue /\ GivesUpOnly
    <3>1. NoTaskShared'
      BY <2>2, HeldStay DEF QueueInv, KeepsQueue
    <3> QED
      BY <2>2, <3>1 DEF KeepsQueue, QueueInv, QueueIsSuffix, EachTaskOnce
  <2> QED
    BY <2>1, <2>2, DropsKeepsQueueInv, AcceptsKeepsQueueInv, BeginsKeepsQueueInv DEF QueueStep
<1> QED
  BY <1>1, <1>2, TypeCorrect, PTL DEF Spec

(* Tasks leave the queue in the order Add accepted them: RemoveExpiredTasks, *)
(* RemoveNextPending and the workers only ever take from its front.        *)
THEOREM QueueInOrder == Spec => []QueueIsSuffix
<1>1. QueueInv => QueueIsSuffix
  BY DEF QueueInv
<1> QED
  BY <1>1, QueueInvHolds, PTL

(* No task is lost by the queue: what left it was begun or dropped, once.  *)
THEOREM NoTaskLostOrRepeated == Spec => []EachTaskOnce
<1>1. QueueInv => EachTaskOnce
  BY DEF QueueInv
<1> QED
  BY <1>1, QueueInvHolds, PTL

(* No two workers ever run the same task.                                  *)
THEOREM TasksAreNotShared == Spec => []NoTaskShared
<1>1. QueueInv => NoTaskShared
  BY DEF QueueInv
<1> QED
  BY <1>1, QueueInvHolds, PTL

------------------------------------------------------------------------------
(* The bound of the queue.                                                 *)

(* Nobody gets a task into the queue before Start has set its bound.       *)
LEMMA BoundIsSetFirst == Spec => []BoundSetFirst
<1>1. Init => BoundSetFirst
  BY DEF Init, BoundSetFirst, Thread
<1>2. TypeOK /\ BoundSetFirst /\ [Next]_vars => BoundSetFirst'
  <2> SUFFICES ASSUME TypeOK, BoundSetFirst, [Next]_vars PROVE BoundSetFirst'
    OBVIOUS
  <2> USE DEF fields, queue, counts, locks, conds, calls
  <2>1. ASSUME NEW c \in Client, StartConfigure(c) PROVE BoundSetFirst'
    BY <2>1 DEF StartConfigure, BoundSetFirst
  <2>2. CASE UNCHANGED pending_task_count_max /\ pending_task_count_max = MaxPending
    BY <2>2 DEF BoundSetFirst
  <2> DEFINE Early == /\ state # "STARTED"
                      /\ tasks = <<>>
                      /\ \A t \in Thread : pc[t] \notin {"startTest", "startSet", "addWait"}
  <2>3. CASE Early
    <3>1. ASSUME NEW t \in Thread, AddStep(t) PROVE BoundSetFirst'
      <4>1. AddLockFails(t) \/ AddRejected(t)
        BY <2>3, <3>1 DEF AddStep, Add, AddResume, AddTimesOut
      <4>2. \E label \in {"ready", "loop"} : Goto(t, label)
        BY <4>1 DEF AddLockFails, AddRejected, LeaveAdd, Return
      <4>3. UNCHANGED <<state, tasks>>
        BY <4>1 DEF AddLockFails, AddRejected
      <4>4. \A u \in Thread : pc'[u] \notin {"startTest", "startSet", "addWait"}
        BY <2>3, <4>2 DEF Goto, TypeOK, PcOK
      <4> QED
        BY <2>3, <4>3, <4>4 DEF BoundSetFirst
    <3>2. ASSUME NEW w \in Worker, WorkerStep(w) PROVE BoundSetFirst'
      <4>1. UNCHANGED <<state, tasks>>
        BY <2>3, <3>2 DEF WorkerStep, WorkerEnter, WorkerCountIn, WorkerAnnounce, WorkerLoop,
                          WorkerWake, WorkerTest, Sleep, GiveUp, TakeTask, RunTask, WorkerExit,
                          WorkerCountOut
      <4>2. \E label \in WorkerLabel \ {"addWait"} : Goto(w, label)
        BY <2>3, <3>2 DEF WorkerStep, WorkerEnter, WorkerCountIn, WorkerAnnounce, WorkerLoop,
                          WorkerWake, WorkerTest, Sleep, GiveUp, TakeTask, RunTask, WorkerExit,
                          WorkerCountOut, WorkerLabel
      <4>3. \A u \in Thread : pc'[u] \notin {"startTest", "startSet", "addWait"}
        BY <2>3, <4>2 DEF Goto, TypeOK, PcOK, WorkerLabel
      <4> QED
        BY <2>3, <4>1, <4>3 DEF BoundSetFirst
    <3>3. ASSUME NEW c \in Client, ClientStep(c), ~StartConfigure(c) PROVE BoundSetFirst'
      <4>1. state' # "STARTED" /\ tasks' = <<>>
        BY <2>3, <3>3 DEF ClientStep, AddWorkerStep, RemoveWorkerStep, StartTest, StartSet,
                AddWorkerCreate, AddWorkerSpawn, AddWorkerRegister, AddWorkerWait,
                AddWorkerReturn, RemoveWorkerInvalid, RemoveWorkerShrink, RemoveWorkerWait,
                RemoveWorkerReap, StopTest, StopBegin, StopCount, StopSet, RemoveNextPending,
                ExpiredTaskCount, Await, Thread
      <4>2. \A u \in Thread : pc'[u] \notin {"startTest", "startSet", "addWait"}
        <5>1. CASE \E label \in ClientLabel \ {"startTest", "startSet", "addWait"} : Goto(c, label)
          BY <2>3, <5>1 DEF Goto, TypeOK, PcOK
        <5>2. CASE AddWorkerCreate(c)
          BY <2>3, <5>2 DEF AddWorkerCreate
        <5>3. CASE \E w \in Worker : AddWorkerSpawn(c, w)
          BY <2>3, <5>3 DEF AddWorkerSpawn, TypeOK, PcOK
        <5>4. CASE ~AddWorkerCreate(c) /\ ~\E w \in Worker : AddWorkerSpawn(c, w)
          <6>1. \E label \in ClientLabel \ {"startTest", "startSet", "addWait"} : Goto(c, label)
            BY <2>3, <3>3, <5>4 DEF ClientStep, AddWorkerStep, RemoveWorkerStep, StartTest,
                StartSet, AddWorkerRegister, AddWorkerWait, AddWorkerReturn,
                RemoveWorkerInvalid, RemoveWorkerShrink, RemoveWorkerWait, RemoveWorkerReap,
                StopTest, StopBegin, StopCount, StopSet, RemoveNextPending, ExpiredTaskCount,
                Await, Return, ClientLabel, Thread
          <6> QED
            BY <5>1, <6>1
        <5> QED
          BY <5>2, <5>3, <5>4
      <4> QED
        BY <4>1, <4>2 DEF BoundSetFirst
    <3>4. ASSUME NEW t \in Thread, SpuriousWake(t) PROVE BoundSetFirst'
      BY <2>3, <3>4 DEF SpuriousWake, BoundSetFirst
    <3>5. CASE Elapse \/ UNCHANGED vars
      BY <2>3, <3>5 DEF Elapse, vars, BoundSetFirst
    <3> QED
      BY <2>1, <3>1, <3>2, <3>3, <3>4, <3>5 DEF Next, ThreadStep
  <2>4. CASE ~\E c \in Client : StartConfigure(c)
    <3>1. UNCHANGED pending_task_count_max
      BY <2>4 DEF Next, ThreadStep, AddStep, AddLockFails, AddRejected, Add, AddResume,
            AddTimesOut, WorkerStep, WorkerEnter, WorkerCountIn, WorkerAnnounce, WorkerLoop,
            WorkerWake, WorkerTest, RunTask, WorkerExit, WorkerCountOut, ClientStep,
            AddWorkerStep, RemoveWorkerStep, StartTest, StartSet, AddWorkerCreate,
            AddWorkerSpawn, AddWorkerRegister, AddWorkerWait, AddWorkerReturn,
            RemoveWorkerInvalid, RemoveWorkerShrink, RemoveWorkerWait, RemoveWorkerReap,
            StopTest, StopBegin, StopCount, StopSet, RemoveNextPending, ExpiredTaskCount, Await,
            SpuriousWake, Elapse, vars
    <3> QED
      BY <2>2, <2>3, <3>1 DEF BoundSetFirst
  <2> QED
    BY <2>1, <2>4
<1> QED
  BY <1>1, <1>2, TypeCorrect, PTL DEF Spec

(* No interleaving of adders asleep, woken together or for nothing puts    *)
(* more tasks in the queue than its bound.                                 *)
THEOREM QueueStaysBounded == Spec => []QueueBounded
<1>1. Init => QueueBounded
  BY DEF Init, QueueBounded
<1>2. TypeOK /\ TypeOK' /\ BoundSetFirst /\ QueueBounded /\ [Next]_vars => QueueBounded'
  <2> SUFFICES ASSUME TypeOK, TypeOK', BoundSetFirst, QueueBounded, [Next]_vars
               PROVE  QueueBounded'
    OBVIOUS
  <2>1. QueueStep
    BY EveryStepIsAQueueStep
  <2>2. CASE KeepsQueue
    <3>1. pending_task_count_max' \in {0, MaxPending}
      BY DEF TypeOK, FieldsOK
    <3>2. pending_task_count_max = MaxPending \/ tasks = <<>>
      BY DEF BoundSetFirst
    <3> QED
      BY <2>2, <3>1, <3>2, SizeAssumption DEF KeepsQueue, QueueBounded
  <2>3. ASSUME NEW n \in 0..Len(tasks), UNCHANGED pending_task_count_max,
               Drops(n) \/ Accepts(n) \/ \E w \in Worker : Begins(w, n)
        PROVE  QueueBounded'
    <3>1. /\ n \in Nat /\ Len(tasks) \in Nat /\ n <= Len(tasks)
          /\ pending_task_count_max \in Nat
      BY SizeAssumption DEF TypeOK, FieldsOK
    <3>2. CASE Drops(n)
      <4>1. Len(tasks') = Len(tasks) - n
        BY <3>2, WithoutIs DEF Drops
      <4> QED
        BY <2>3, <3>1, <4>1 DEF QueueBounded
    <3>3. CASE Accepts(n)
      <4>1. Len(tasks') = Len(Without(n)) + 1 /\ Len(Without(n)) = Len(tasks) - n
        BY <3>3, WithoutIs DEF Accepts
      <4>2. pending_task_count_max > 0 => Len(Without(n)) < pending_task_count_max
        BY <3>1, <3>3, <4>1 DEF Accepts, Full
      <4> QED
        BY <2>3, <3>1, <4>1, <4>2 DEF QueueBounded
    <3>4. ASSUME NEW w \in Worker, Begins(w, n) PROVE QueueBounded'
      <4>1. n + 1 \in 0..Len(tasks)
        BY <3>1, <3>4 DEF Begins
      <4>2. Len(tasks') = Len(tasks) - (n + 1)
        BY <3>4, <4>1, WithoutIs DEF Begins
      <4> QED
        BY <2>3, <3>1, <4>2 DEF QueueBounded
    <3> QED
      BY <2>3, <3>2, <3>3, <3>4
  <2> QED
    BY <2>1, <2>2, <2>3 DEF QueueStep, Begins
<1> QED
  BY <1>1, <1>2, TypeCorrect, BoundIsSetFirst, PTL DEF Spec

------------------------------------------------------------------------------
(* The queue implements TaskQueue.                                         *)

Ids == [i \in 1..Len(tasks) |-> tasks[i].id]

LEMMA IdsOfWithout ==
  ASSUME TypeOK, NEW n \in 0..Len(tasks)
  PROVE  /\ Queue!After(n) = [i \in 1..(Len(tasks) - n) |-> tasks[n + i].id]
         /\ Queue!First(n) = FirstIds(n)
<1>1. Len(tasks) \in Nat /\ n \in Nat /\ n <= Len(tasks)
  BY DEF TypeOK, FieldsOK
<1>2. Len(Ids) = Len(tasks)
  BY <1>1 DEF Ids
<1>3. Queue!After(n) = SubSeq(Ids, n + 1, Len(Ids))
  BY DEF Queue!After, Ids
<1>4. SubSeq(Ids, n + 1, Len(Ids)) = [i \in 1..(Len(tasks) - n) |-> tasks[n + i].id]
  BY <1>1, <1>2 DEF Ids
<1>5. Queue!First(n) = FirstIds(n)
  <2>1. \A i \in 1..n : Ids[i] = tasks[i].id
    BY <1>1 DEF Ids
  <2>2. Queue!First(n) = {Ids[i] : i \in 1..n}
    BY DEF Queue!First, Ids
  <2> QED
    BY <2>1, <2>2 DEF FirstIds
<1> QED
  BY <1>3, <1>4, <1>5

(* Every step of the manager is a step of the abstract queue or none.      *)
LEMMA StepIsAbstractStep ==
  ASSUME TypeOK, QueueInv, BoundSetFirst, [Next]_vars
  PROVE  [Queue!QueueNext]_(Queue!queueVars)
<1>1. QueueStep
  BY EveryStepIsAQueueStep
<1>2. CASE KeepsQueue
  BY <1>2 DEF KeepsQueue, Queue!queueVars
<1>3. ASSUME NEW n \in 0..Len(tasks),
             Drops(n) \/ Accepts(n) \/ \E w \in Worker : Begins(w, n)
      PROVE  Queue!QueueNext
  <2>1. /\ Len(tasks) \in Nat /\ n \in Nat /\ n <= Len(tasks)
        /\ Len(Ids) = Len(tasks)
        /\ tasks \in Seq(Task)
    BY DEF TypeOK, FieldsOK, Ids
  <2>2. n \in 0..Len(Ids)
    BY <2>1
  <2>3. CASE Drops(n)
    <3>1. Len(tasks') = Len(tasks) - n /\ \A i \in 1..(Len(tasks) - n) : tasks'[i] = tasks[n + i]
      BY <2>3, WithoutIs DEF Drops
    <3>2. Ids' = [i \in 1..(Len(tasks) - n) |-> tasks[n + i].id]
      BY <2>1, <3>1 DEF Ids
    <3>3. Ids' = Queue!After(n) /\ dropped' = dropped \cup Queue!First(n)
      BY <2>3, <3>2, IdsOfWithout DEF Drops
    <3>4. Queue!Drop(n)
      BY <2>3, <3>3 DEF Drops, Queue!Drop, Ids
    <3> QED
      BY <2>2, <3>4 DEF Queue!QueueNext, Ids
  <2>4. ASSUME NEW w \in Worker, Begins(w, n) PROVE Queue!QueueNext
    <3>1. n < Len(tasks) /\ n + 1 \in 0..Len(tasks) /\ n + 1 \in 1..Len(tasks)
      BY <2>1, <2>4 DEF Begins
    <3>2. /\ Len(tasks') = Len(tasks) - (n + 1)
          /\ \A i \in 1..(Len(tasks) - (n + 1)) : tasks'[i] = tasks[(n + 1) + i]
      BY <2>4, <3>1, WithoutIs DEF Begins
    <3>3. Ids' = [i \in 1..(Len(tasks) - (n + 1)) |-> tasks[(n + 1) + i].id]
      BY <2>1, <3>2 DEF Ids
    <3>4. Ids' = Queue!After(n + 1)
      BY <3>1, <3>3, IdsOfWithout
    <3>5. dropped' = dropped \cup Queue!First(n)
      BY <2>4, IdsOfWithout DEF Begins
    <3>6. begun' = begun \cup {Ids[n + 1]}
      BY <2>4, <3>1 DEF Begins, Ids
    <3>7. Queue!Begin(n)
      BY <2>1, <2>4, <3>1, <3>4, <3>5, <3>6 DEF Begins, Queue!Begin, Ids
    <3> QED
      BY <2>2, <3>7 DEF Queue!QueueNext, Ids
  <2>5. CASE Accepts(n)
    <3>1. PICK task \in Task : task.id = accepted + 1 /\ tasks' = Append(Without(n), task)
      BY <2>5 DEF Accepts
    <3>2. /\ Len(tasks') = Len(tasks) - n + 1
          /\ tasks'[Len(tasks) - n + 1].id = accepted + 1
          /\ \A i \in 1..(Len(tasks) - n) : tasks'[i] = tasks[n + i]
      <4>1. /\ Without(n) \in Seq(Task)
            /\ Len(Without(n)) = Len(tasks) - n
            /\ \A i \in 1..(Len(tasks) - n) : Without(n)[i] = tasks[n + i]
        BY WithoutIs
      <4>2. Len(tasks') = Len(Without(n)) + 1
        BY <3>1, <4>1, AppendProperties
      <4>3. tasks'[Len(Without(n)) + 1] = task
        BY <3>1, <4>1, AppendProperties
      <4>4. ASSUME NEW i \in 1..(Len(tasks) - n) PROVE tasks'[i] = tasks[n + i]
        <5>1. tasks'[i] = Without(n)[i]
          BY <2>1, <3>1, <4>1, AppendProperties
        <5> QED
          BY <4>1, <5>1
      <4> QED
        BY <2>1, <3>1, <4>1, <4>2, <4>3, <4>4
    <3>3. Ids' = Append(Queue!After(n), accepted + 1)
      <4>1. Queue!After(n) = [i \in 1..(Len(tasks) - n) |-> tasks[n + i].id]
        BY IdsOfWithout
      <4>2. Append([i \in 1..(Len(tasks) - n) |-> tasks[n + i].id], accepted + 1)
              = [i \in 1..(Len(tasks) - n + 1) |->
                   IF i = Len(tasks) - n + 1 THEN accepted + 1 ELSE tasks[n + i].id]
        BY <2>1
      <4>3. Ids' = [i \in 1..(Len(tasks) - n + 1) |->
                      IF i = Len(tasks) - n + 1 THEN accepted + 1 ELSE tasks[n + i].id]
        <5>1. ASSUME NEW i \in 1..(Len(tasks) - n + 1)
              PROVE  tasks'[i].id = IF i = Len(tasks) - n + 1 THEN accepted + 1 ELSE tasks[n + i].id
          <6>1. i = Len(tasks) - n + 1 \/ i \in 1..(Len(tasks) - n)
            BY <2>1
          <6>2. i \in 1..(Len(tasks) - n) => i # Len(tasks) - n + 1
            BY <2>1
          <6> QED
            BY <3>2, <6>1, <6>2
        <5> QED
          BY <3>2, <5>1 DEF Ids
      <4> QED
        BY <4>1, <4>2, <4>3
    <3>4. dropped' = dropped \cup Queue!First(n)
      BY <2>5, IdsOfWithout DEF Accepts
    <3>5. pending_task_count_max = MaxPending
      BY <2>5 DEF Accepts, BoundSetFirst
    <3>6. MaxPending = 0 \/ Len(Ids) - n < MaxPending
      <4>1. Len(Without(n)) = Len(tasks) - n
        BY WithoutIs
      <4> QED
        BY <2>1, <2>5, <3>5, <4>1, SizeAssumption DEF Accepts, Full
    <3>7. Queue!Accept(n)
      BY <2>5, <3>3, <3>4, <3>6 DEF Accepts, Queue!Accept, Ids
    <3> QED
      BY <2>2, <3>7 DEF Queue!QueueNext, Ids
  <2> QED
    BY <1>3, <2>3, <2>4, <2>5
<1> QED
  BY <1>1, <1>2, <1>3 DEF QueueStep

(* The queue between Add and the workers, with every lock, wait and        *)
(* wake-up, implements the bounded first-in first-out queue of TaskQueue.  *)
THEOREM ManagerImplementsQueue == Spec => ImplementsTaskQueue
<1>1. Init => Queue!QueueInit
  BY DEF Init, Queue!QueueInit
<1>2. TypeOK /\ QueueInv /\ BoundSetFirst /\ [Next]_vars => [Queue!QueueNext]_(Queue!queueVars)
  BY StepIsAbstractStep
<1> QED
  BY <1>1, <1>2, TypeCorrect, QueueInvHolds, BoundIsSetFirst, PTL
     DEF Spec, ImplementsTaskQueue, Queue!QueueSpec

------------------------------------------------------------------------------
(* Start, Stop and Join race as they may: state_ never goes back, although *)
(* all three test it first without the mutex.                              *)
THEOREM LifecycleNeverGoesBack == Spec => LifecycleForward
<1>1. TypeOK /\ [Next]_vars => [Rank(state) < Rank(state')]_state
  <2> SUFFICES ASSUME TypeOK, [Next]_vars, state' # state
               PROVE  Rank(state) < Rank(state')
    OBVIOUS
  <2> USE DEF fields, queue, counts, locks, conds, calls
  <2>1. state \in {"UNINITIALIZED", "STARTED", "JOINING", "STOPPING", "STOPPED"}
    BY DEF TypeOK, FieldsOK
  <2>2. PICK c \in Client : StartSet(c) \/ StopBegin(c) \/ StopSet(c)
    BY DEF Next, ThreadStep, AddStep, AddLockFails, AddRejected, Add, AddResume,
            AddTimesOut, WorkerStep, WorkerEnter, WorkerCountIn, WorkerAnnounce, WorkerLoop,
            WorkerWake, WorkerTest, RunTask, WorkerExit, WorkerCountOut, ClientStep,
            AddWorkerStep, RemoveWorkerStep, StartConfigure, StartTest, AddWorkerCreate,
            AddWorkerSpawn, AddWorkerRegister, AddWorkerWait, AddWorkerReturn,
            RemoveWorkerInvalid, RemoveWorkerShrink, RemoveWorkerWait, RemoveWorkerReap,
            StopTest, StopCount, RemoveNextPending, ExpiredTaskCount, Await,
            SpuriousWake, Elapse, vars
  <2>3. CASE StartSet(c)
    BY <2>3 DEF StartSet, Rank
  <2>4. CASE StopBegin(c)
    BY <2>1, <2>4 DEF StopBegin, Rank
  <2>5. CASE StopSet(c)
    BY <2>1, <2>5 DEF StopSet, Rank
  <2> QED
    BY <2>2, <2>3, <2>4, <2>5
<1> QED
  BY <1>1, TypeCorrect, PTL DEF Spec, LifecycleForward

------------------------------------------------------------------------------
(* A manager one client owns (OwnedBy).  Until its Join shrinks the pool   *)
(* the maximum is the number of threads made, and worker_count_ comes up   *)
(* to it; afterwards the maximum is 0 and worker_count_ goes down to it.   *)

Born == {w \in Worker : pc[w] # "unborn"}

Counted ==
  {w \in Worker : pc[w] \in {"announce", "loop", "idle", "body", "addWait", "exit", "countOut"}}

Leaving == {w \in Worker : pc[w] \in {"exit", "countOut", "dead"}}

Outside == {"ready", "addWait"}

AddingWorkers == {"spawn", "register", "settleWait"}

(* The owner alone is ever inside Start, AddWorker or Join. *)
Places(owner) ==
  /\ \A c \in Client \ {owner} : pc[c] \in Outside
  /\ pc[owner] \notin Outside => ip[owner] \in DOMAIN Script[owner]
  /\ pc[owner] \in {"startTest", "startSet", "create"} => Call(owner).op = "Start"
  /\ pc[owner] \in AddingWorkers => Call(owner).op \in {"Start", "AddWorker"}
  /\ pc[owner] \in {"stopBegin", "stopCount", "shrink", "reap", "reapWait", "stopSet"}
       => Call(owner).op = "Join"

Shrunk(owner) == pc[owner] \in {"reap", "reapWait", "stopSet"} \/ state = "STOPPED"

Growing(owner) ==
  /\ worker_max_count = Cardinality(Born)
  /\ Leaving = {}
  /\ pc[owner] \notin AddingWorkers => Born = Counted
  /\ \A w \in Worker : pc[w] = "countIn" => mutex = w /\ seen[w] = worker_count
  /\ state = "JOINING" <=> pc[owner] \in {"stopCount", "shrink"}
  /\ state # "STOPPING"
  /\ pc[owner] = "shrink" => value[owner] = worker_count

Draining(owner) ==
  /\ worker_max_count = 0
  /\ monitor = {}
  /\ Born \subseteq Counted \cup Leaving
  /\ \A w \in Worker : pc[w] = "countOut" => worker_mutex = w /\ seen[w] = worker_count
  /\ \/ pc[owner] \in {"reap", "reapWait", "stopSet"} /\ state = "JOINING"
     \/ /\ pc[owner] \in Outside /\ state = "STOPPED"
        /\ \E i \in DOMAIN Script[owner] : i < ip[owner] /\ Script[owner][i].op = "Join"
  /\ pc[owner] = "stopSet" \/ state = "STOPPED" => Counted = {}

OwnedInv(owner) ==
  /\ Places(owner)
  /\ monitor \subseteq IdleWorkers
  /\ worker_count = Cardinality(Counted)
  /\ ~Shrunk(owner) => Growing(owner)
  /\ Shrunk(owner) => Draining(owner)

(* There are finitely many workers, and those counted in are born. *)
LEMMA PoolIsFinite ==
  /\ IsFiniteSet(Born) /\ Cardinality(Born) \in Nat
  /\ IsFiniteSet(Counted) /\ Cardinality(Counted) \in Nat
  /\ Cardinality(Counted) <= Cardinality(Born)
<1>1. IsFiniteSet(Born)
  BY FS_Subset DEF Born
<1>2. Counted \subseteq Born
  BY DEF Counted, Born
<1> QED
  BY <1>1, <1>2, FS_Subset, FS_CardinalityType

(* What steps have in common that neither move the pool's counters nor     *)
(* take a worker into or out of the loop.                                  *)
Quiet(owner) ==
  /\ UNCHANGED <<state, worker_count, worker_max_count, mutex, worker_mutex, seen, value>>
  /\ Born' = Born /\ Counted' = Counted /\ Leaving' = Leaving
  /\ \A w \in Worker : pc'[w] \in {"countIn", "countOut"} => pc'[w] = pc[w]
  /\ \A c \in Client \ {owner} : pc'[c] \in Outside
  /\ \/ pc[owner] \in Outside /\ pc'[owner] \in Outside
     \/ pc'[owner] = pc[owner] /\ ip'[owner] = ip[owner]
  /\ ip'[owner] >= ip[owner]

LEMMA QuietKeeps ==
  ASSUME NEW owner \in Client, TypeOK, TypeOK', OwnedInv(owner), Quiet(owner),
         monitor' \subseteq IdleWorkers', Shrunk(owner) => monitor' = {}
  PROVE  OwnedInv(owner)'
<1>1. Places(owner)'
  BY DEF OwnedInv, Places, Quiet, Call, AddingWorkers, Outside
<1>2. Shrunk(owner)' = Shrunk(owner)
  BY DEF Shrunk, Quiet, Outside
<1>3. worker_count' = Cardinality(Counted')
  BY DEF OwnedInv, Quiet
<1>4. ASSUME ~Shrunk(owner) PROVE Growing(owner)'
  <2>1. pc[owner] \in AddingWorkers <=> pc'[owner] \in AddingWorkers
    BY DEF Quiet, Outside, AddingWorkers
  <2>2. \A l \in {"stopCount", "shrink"} : pc'[owner] = l <=> pc[owner] = l
    BY DEF Quiet, Outside
  <2>3. worker_max_count' = Cardinality(Born') /\ Leaving' = {}
    BY <1>4 DEF OwnedInv, Growing, Quiet
  <2>4. \A w \in Worker : pc'[w] = "countIn" => mutex' = w /\ seen'[w] = worker_count'
    BY <1>4 DEF OwnedInv, Growing, Quiet
  <2> QED
    BY <1>4, <2>1, <2>2, <2>3, <2>4 DEF OwnedInv, Growing, Quiet
<1>5. ASSUME Shrunk(owner) PROVE Draining(owner)'
  <2>1. \A l \in {"reap", "reapWait", "stopSet"} : pc'[owner] = l <=> pc[owner] = l
    BY DEF Quiet, Outside
  <2>2. \A w \in Worker : pc'[w] = "countOut" => worker_mutex' = w /\ seen'[w] = worker_count'
    BY <1>5 DEF OwnedInv, Draining, Quiet
  <2>3. \/ pc'[owner] \in {"reap", "reapWait", "stopSet"} /\ state' = "JOINING"
        \/ /\ pc'[owner] \in Outside /\ state' = "STOPPED"
           /\ \E i \in DOMAIN Script[owner] : i < ip'[owner] /\ Script[owner][i].op = "Join"
    <3>1. CASE pc[owner] \in {"reap", "reapWait", "stopSet"} /\ state = "JOINING"
      BY <3>1, <2>1 DEF Quiet
    <3>2. CASE /\ pc[owner] \in Outside /\ state = "STOPPED"
               /\ \E i \in DOMAIN Script[owner] : i < ip[owner] /\ Script[owner][i].op = "Join"
      <4>1. PICK i \in DOMAIN Script[owner] : i < ip[owner] /\ Script[owner][i].op = "Join"
        BY <3>2
      <4>2. ip[owner] \in Nat /\ ip'[owner] \in Nat
        BY DEF TypeOK, FieldsOK
      <4>3. Script[owner] \in Seq(Operation)
        BY ProgramAssumption
      <4>4. i \in Nat
        BY <4>1, <4>3
      <4> QED
        BY <3>2, <4>1, <4>2, <4>4 DEF Quiet
    <3> QED
      BY <1>5, <3>1, <3>2 DEF OwnedInv, Draining
  <2> QED
    BY <1>5, <2>1, <2>2, <2>3 DEF OwnedInv, Draining, Quiet
<1> QED
  BY <1>1, <1>2, <1>3, <1>4, <1>5 DEF OwnedInv

(* A step that moves worker w inside the loop is quiet. *)
LEMMA LoopingIsQuiet ==
  ASSUME NEW owner \in Client, TypeOK, OwnedInv(owner), NEW w \in Worker,
         pc[w] \in {"announce", "loop", "idle", "body", "addWait"},
         NEW label \in {"loop", "idle", "body", "addWait"}, Goto(w, label) \/ UNCHANGED pc,
         UNCHANGED <<state, worker_count, worker_max_count, mutex, worker_mutex, seen, value, ip>>
  PROVE  Quiet(owner)
<1>1. \A t \in Thread \ {w} : pc'[t] = pc[t]
  BY DEF TypeOK, PcOK, Goto, Thread
<1>2. pc'[w] \in {"announce", "loop", "idle", "body", "addWait"}
  BY DEF TypeOK, PcOK, Goto, Thread
<1>3. Born' = Born /\ Counted' = Counted /\ Leaving' = Leaving
  BY <1>1, <1>2 DEF Born, Counted, Leaving, Thread
<1>4. \A v \in Worker : pc'[v] \in {"countIn", "countOut"} => pc'[v] = pc[v]
  BY <1>1, <1>2 DEF Thread
<1>5. \A c \in Client : pc'[c] = pc[c]
  BY <1>1 DEF Thread
<1>6. ip'[owner] >= ip[owner]
  BY DEF TypeOK, FieldsOK
<1> QED
  BY <1>3, <1>4, <1>5, <1>6 DEF Quiet, OwnedInv, Places

(* A step that moves client c from outside the calls that resize the pool  *)
(* to outside them is quiet.                                               *)
LEMMA OutsideIsQuiet ==
  ASSUME NEW owner \in Client, TypeOK, OwnedInv(owner), NEW c \in Client,
         pc[c] \in Outside, Return(c) \/ (Goto(c, "addWait") /\ UNCHANGED ip)
                            \/ UNCHANGED <<pc, ip>>,
         UNCHANGED <<state, worker_count, worker_max_count, mutex, worker_mutex, seen, value>>
  PROVE  /\ Quiet(owner)
         /\ IdleWorkers' = IdleWorkers
<1>1. \A t \in Thread \ {c} : pc'[t] = pc[t]
  BY DEF TypeOK, PcOK, Goto, Thread, Return
<1>2. pc'[c] \in Outside
  BY DEF TypeOK, PcOK, Goto, Thread, Return, Outside
<1>3. \A w \in Worker : pc'[w] = pc[w]
  BY <1>1 DEF Thread
<1>4. Born' = Born /\ Counted' = Counted /\ Leaving' = Leaving /\ IdleWorkers' = IdleWorkers
  BY <1>3 DEF Born, Counted, Leaving, IdleWorkers
<1>5. \A d \in Client : ip'[d] >= ip[d] /\ (d # c => ip'[d] = ip[d])
  BY DEF TypeOK, FieldsOK, Return
<1>6. \A d \in Client \ {owner} : pc'[d] \in Outside
  BY <1>1, <1>2 DEF OwnedInv, Places, Thread
<1>7. \/ pc[owner] \in Outside /\ pc'[owner] \in Outside
      \/ pc'[owner] = pc[owner] /\ ip'[owner] = ip[owner]
  BY <1>1, <1>2, <1>5 DEF Thread
<1> QED
  BY <1>3, <1>4, <1>5, <1>6, <1>7 DEF Quiet

(* The steps, one lemma for each group that moves the same things. *)
LEMMA AddKeepsOwned ==
  ASSUME NEW owner \in Client, TypeOK, TypeOK', OwnedInv(owner), NEW t \in Thread, AddStep(t)
  PROVE  OwnedInv(owner)'
<1> USE DEF counts, locks
<1>1. /\ UNCHANGED <<state, worker_count, worker_max_count, mutex, worker_mutex, seen, value>>
      /\ monitor' \subseteq monitor
  BY SignalledShrinks DEF AddStep, AddLockFails, AddRejected, Add, AddResume, AddTimesOut,
       AddToFull, AddToSpace, Push, conds
<1>2. LeaveAdd(t) \/ (Goto(t, "addWait") /\ UNCHANGED ip) \/ UNCHANGED <<pc, ip>>
  <2>1. CASE Add(t)
    <3>1. \E n \in 0..Len(tasks) : AddToFull(t, n) \/ AddToSpace(t, n)
      BY <2>1 DEF Add
    <3> QED
      BY <3>1 DEF AddToFull, AddToSpace
  <2>2. CASE AddResume(t)
    BY <2>2 DEF AddResume
  <2>3. CASE AddLockFails(t) \/ AddRejected(t) \/ AddTimesOut(t)
    BY <2>3 DEF AddLockFails, AddRejected, AddTimesOut
  <2> QED
    BY <2>1, <2>2, <2>3 DEF AddStep
<1>3. AtAdd(t) \/ pc[t] = "addWait"
  BY DEF AddStep, AddLockFails, AddRejected, Add, AddResume, AddTimesOut
<1>4. Quiet(owner) /\ IdleWorkers' = IdleWorkers
  <2>1. CASE t \in Client
    <3>1. pc[t] \in Outside
      BY <1>3, <2>1 DEF AtAdd, Calling, Outside
    <3> QED
      BY <1>1, <1>2, <2>1, <3>1, OutsideIsQuiet DEF LeaveAdd
  <2>2. CASE t \in Worker
    <3>1. pc[t] \in {"body", "addWait"} /\ t \notin Client
      BY <1>3, <2>2 DEF AtAdd
    <3>2. UNCHANGED ip /\ ((\E label \in {"loop", "addWait"} : Goto(t, label)) \/ UNCHANGED pc)
      BY <1>2, <3>1 DEF LeaveAdd
    <3>3. Quiet(owner)
      BY <1>1, <2>2, <3>1, <3>2, LoopingIsQuiet
    <3>4. \A w \in Worker : pc'[w] = "idle" <=> pc[w] = "idle"
      BY <3>1, <3>2 DEF TypeOK, PcOK, Goto, Thread
    <3> QED
      BY <3>3, <3>4 DEF IdleWorkers
  <2> QED
    BY <2>1, <2>2 DEF Thread
<1>5. monitor' \subseteq IdleWorkers' /\ (Shrunk(owner) => monitor' = {})
  BY <1>1, <1>4 DEF OwnedInv, Draining
<1> QED
  BY <1>4, <1>5, QuietKeeps

(* Where a step of worker w leaves everyone else. *)
LEMMA WorkerMovesAlone ==
  ASSUME NEW owner \in Client, TypeOK, OwnedInv(owner), NEW w \in Worker, NEW label,
         Goto(w, label), UNCHANGED ip
  PROVE  /\ pc'[w] = label
         /\ \A v \in Worker \ {w} : pc'[v] = pc[v]
         /\ \A c \in Client : pc'[c] = pc[c]
         /\ Places(owner)'
<1>1. pc'[w] = label /\ \A t \in Thread \ {w} : pc'[t] = pc[t]
  BY DEF TypeOK, PcOK, Goto, Thread
<1>2. (\A v \in Worker \ {w} : pc'[v] = pc[v]) /\ \A c \in Client : pc'[c] = pc[c]
  BY <1>1 DEF Thread
<1>3. Places(owner)'
  BY <1>2 DEF OwnedInv, Places, Call
<1> QED
  BY <1>1, <1>2, <1>3

LEMMA TestKeepsOwned ==
  ASSUME NEW owner \in Client, TypeOK, TypeOK', OwnedInv(owner), NEW w \in Worker,
         NEW was \in {0, 1}, pc[w] \in {"loop", "idle"}, w \notin monitor, WorkerTest(w, was)
  PROVE  OwnedInv(owner)'
<1> USE DEF locks, calls
<1>1. /\ UNCHANGED <<state, worker_count, worker_max_count, mutex, worker_mutex, seen, value, ip>>
      /\ worker_count \in Nat /\ worker_max_count \in Nat
  BY DEF WorkerTest, TypeOK, FieldsOK
<1>2. w \in Counted
  BY DEF Counted
<1>3. CASE Sleep(w, was)
  <2>1. Quiet(owner)
    BY <1>1, <1>3, LoopingIsQuiet DEF Sleep
  <2>2. monitor' \subseteq IdleWorkers'
    BY <1>3, WorkerMovesAlone DEF Sleep, OwnedInv, IdleWorkers, WorkerTest
  <2>3. ~Shrunk(owner)
    <3>1. worker_count <= worker_max_count
      BY <1>3 DEF Sleep, IsActive
    <3>2. Cardinality(Counted) # 0
      BY <1>2, PoolIsFinite, FS_EmptySet
    <3> QED
      BY <1>1, <3>1, <3>2 DEF OwnedInv, Draining
  <2> QED
    BY <2>1, <2>2, <2>3, QuietKeeps
<1>4. CASE TakeTask(w, was)
  <2>1. Goto(w, "body") \/ Goto(w, "loop")
    BY <1>4 DEF TakeTask
  <2>2. Quiet(owner)
    BY <1>1, <2>1, LoopingIsQuiet
  <2>3. UNCHANGED monitor
    BY <1>4 DEF TakeTask
  <2>4. monitor' \subseteq IdleWorkers'
    BY <1>1, <2>1, <2>3, WorkerMovesAlone DEF OwnedInv, IdleWorkers
  <2> QED
    BY <2>2, <2>3, <2>4, QuietKeeps DEF OwnedInv, Draining
<1>5. CASE GiveUp(w, was)
  <2>1. Goto(w, "exit") /\ UNCHANGED monitor /\ ~IsActive
    BY <1>5 DEF GiveUp
  <2>2. Shrunk(owner)
    <3>1. worker_max_count < worker_count
      BY <1>1, <2>1 DEF IsActive
    <3> QED
      BY <1>1, <3>1, PoolIsFinite DEF OwnedInv, Growing
  <2>3. pc'[w] = "exit" /\ \A v \in Worker \ {w} : pc'[v] = pc[v]
    BY <1>1, <2>1, WorkerMovesAlone
  <2>4. Born' = Born /\ Counted' = Counted /\ Leaving' = Leaving \cup {w}
    BY <2>3 DEF Born, Counted, Leaving
  <2>5. Shrunk(owner)' /\ Places(owner)'
    BY <1>1, <2>1, <2>2, WorkerMovesAlone DEF Shrunk
  <2>6. monitor' = {}
    BY <2>1, <2>2 DEF OwnedInv, Draining
  <2>7. Draining(owner)'
    <3>1. \A v \in Worker : pc'[v] = "countOut" => worker_mutex' = v /\ seen'[v] = worker_count'
      BY <1>1, <2>2, <2>3 DEF OwnedInv, Draining
    <3>2. pc'[owner] = pc[owner] /\ ip' = ip
      BY <1>1, <2>1, WorkerMovesAlone
    <3> QED
      BY <1>1, <2>2, <2>4, <2>6, <3>1, <3>2 DEF OwnedInv, Draining
  <2> QED
    BY <1>1, <2>4, <2>5, <2>6, <2>7 DEF OwnedInv
<1> QED
  BY <1>3, <1>4, <1>5 DEF WorkerTest

LEMMA EnterKeepsOwned ==
  ASSUME NEW owner \in Client, TypeOK, TypeOK', OwnedInv(owner), NEW w \in Worker, WorkerEnter(w)
  PROVE  OwnedInv(owner)'
<1> USE DEF locks, counts, calls, conds
<1>1. /\ UNCHANGED <<state, worker_count, worker_max_count, worker_mutex, value, ip, monitor>>
      /\ pc[w] = "entry" /\ mutex = NoThread
      /\ worker_count \in Nat /\ worker_max_count \in Nat
  BY DEF WorkerEnter, TypeOK, FieldsOK, MutexFree
<1>2. ~Shrunk(owner) /\ Growing(owner)
  BY <1>1 DEF OwnedInv, Draining, Born, Counted, Leaving
<1>3. worker_count < worker_max_count
  <2>1. Counted \subseteq Born /\ w \in Born /\ w \notin Counted
    BY <1>1 DEF Counted, Born
  <2>2. Cardinality(Counted) < Cardinality(Born)
    BY <2>1, PoolIsFinite, FS_Subset
  <2> QED
    BY <1>2, <2>2 DEF OwnedInv, Growing
<1>4. mutex' = w /\ seen' = [seen EXCEPT ![w] = worker_count] /\ Goto(w, "countIn")
  BY <1>3 DEF WorkerEnter
<1>5. /\ pc'[w] = "countIn" /\ \A v \in Worker \ {w} : pc'[v] = pc[v]
      /\ \A c \in Client : pc'[c] = pc[c]
      /\ Places(owner)'
  BY <1>1, <1>4, WorkerMovesAlone
<1>6. Born' = Born /\ Counted' = Counted /\ Leaving' = Leaving /\ IdleWorkers' = IdleWorkers
  BY <1>1, <1>5 DEF Born, Counted, Leaving, IdleWorkers
<1>7. ~Shrunk(owner)'
  BY <1>1, <1>2, <1>5 DEF Shrunk
<1>8. \A v \in Worker : pc'[v] = "countIn" => mutex' = v /\ seen'[v] = worker_count'
  <2>1. \A v \in Worker \ {w} : pc[v] # "countIn"
    BY <1>1, <1>2, ThreadsAssumption DEF Growing, Thread
  <2>2. seen'[w] = worker_count
    BY <1>4 DEF TypeOK, FieldsOK
  <2> QED
    BY <1>1, <1>4, <1>5, <2>1, <2>2
<1>9. Growing(owner)'
  BY <1>1, <1>2, <1>5, <1>6, <1>8 DEF Growing
<1> QED
  BY <1>1, <1>5, <1>6, <1>7, <1>9 DEF OwnedInv

LEMMA CountInKeepsOwned ==
  ASSUME NEW owner \in Client, TypeOK, TypeOK', OwnedInv(owner), NEW w \in Worker, WorkerCountIn(w)
  PROVE  OwnedInv(owner)'
<1> USE DEF locks, counts, calls, conds
<1>1. /\ UNCHANGED <<state, worker_max_count, worker_mutex, value, ip, monitor, seen>>
      /\ pc[w] = "countIn" /\ worker_count' = Plus(seen[w], 1)
      /\ worker_count \in Nat /\ worker_max_count \in 0..SizeMax
  BY DEF WorkerCountIn, TypeOK, FieldsOK
<1>2. ~Shrunk(owner) /\ Growing(owner)
  BY <1>1 DEF OwnedInv, Draining, Born, Counted, Leaving
<1>3. worker_count < worker_max_count
  <2>1. Counted \subseteq Born /\ w \in Born /\ w \notin Counted
    BY <1>1 DEF Counted, Born
  <2>2. Cardinality(Counted) < Cardinality(Born)
    BY <2>1, PoolIsFinite, FS_Subset
  <2> QED
    BY <1>2, <2>2 DEF OwnedInv, Growing
<1>4. worker_count' = worker_count + 1
  BY <1>1, <1>2, <1>3 DEF Growing, Plus
<1>5. PICK label \in {"announce", "loop"} : Goto(w, label)
  BY DEF WorkerCountIn
<1>6. /\ pc'[w] = label /\ \A v \in Worker \ {w} : pc'[v] = pc[v]
      /\ \A c \in Client : pc'[c] = pc[c]
      /\ Places(owner)'
  BY <1>1, <1>5, WorkerMovesAlone
<1>7. /\ Born' = Born /\ Counted' = Counted \cup {w} /\ w \notin Counted
      /\ Leaving' = Leaving /\ IdleWorkers' = IdleWorkers
  BY <1>1, <1>6 DEF Born, Counted, Leaving, IdleWorkers
<1>8. worker_count' = Cardinality(Counted')
  BY <1>4, <1>7, PoolIsFinite, FS_AddElement DEF OwnedInv
<1>9. ~Shrunk(owner)'
  BY <1>1, <1>2, <1>6 DEF Shrunk
<1>10. \A v \in Worker : pc'[v] = "countIn" => mutex' = v /\ seen'[v] = worker_count'
  <2>1. \A v \in Worker \ {w} : pc[v] # "countIn"
    BY <1>1, <1>2 DEF Growing
  <2> QED
    BY <1>6, <2>1
<1>11. pc'[owner] \notin AddingWorkers => Born' = Counted'
  BY <1>1, <1>2, <1>6, <1>7 DEF Growing, Born, Counted
<1>12. pc'[owner] \in AddingWorkers
  BY <1>1, <1>2, <1>6, <1>7 DEF Growing, Born
<1>13. Growing(owner)'
  BY <1>1, <1>2, <1>6, <1>7, <1>10, <1>11, <1>12 DEF Growing, AddingWorkers
<1> QED
  BY <1>1, <1>6, <1>7, <1>8, <1>9, <1>13 DEF OwnedInv

LEMMA ExitKeepsOwned ==
  ASSUME NEW owner \in Client, TypeOK, TypeOK', OwnedInv(owner), NEW w \in Worker, WorkerExit(w)
  PROVE  OwnedInv(owner)'
<1> USE DEF locks, counts, calls, conds
<1>1. /\ UNCHANGED <<state, worker_count, worker_max_count, mutex, value, ip, monitor>>
      /\ pc[w] = "exit" /\ worker_mutex = NoThread /\ worker_mutex' = w
      /\ seen' = [seen EXCEPT ![w] = worker_count]
  BY DEF WorkerExit, WorkerMutexFree
<1>2. Shrunk(owner) /\ Draining(owner)
  BY <1>1 DEF OwnedInv, Growing, Leaving
<1>3. /\ pc'[w] = "countOut" /\ \A v \in Worker \ {w} : pc'[v] = pc[v]
      /\ \A c \in Client : pc'[c] = pc[c]
      /\ Places(owner)'
  BY <1>1, WorkerMovesAlone DEF WorkerExit
<1>4. Born' = Born /\ Counted' = Counted /\ Leaving' = Leaving
  BY <1>1, <1>3 DEF Born, Counted, Leaving
<1>5. Shrunk(owner)'
  BY <1>1, <1>2, <1>3 DEF Shrunk
<1>6. \A v \in Worker : pc'[v] = "countOut" => worker_mutex' = v /\ seen'[v] = worker_count'
  <2>1. \A v \in Worker \ {w} : pc[v] # "countOut"
    BY <1>1, <1>2, ThreadsAssumption DEF Draining, Thread
  <2>2. seen'[w] = worker_count
    BY <1>1 DEF TypeOK, FieldsOK
  <2> QED
    BY <1>1, <1>3, <2>1, <2>2
<1>7. Draining(owner)'
  BY <1>1, <1>2, <1>3, <1>4, <1>6 DEF Draining
<1> QED
  BY <1>1, <1>2, <1>3, <1>4, <1>5, <1>7 DEF OwnedInv, Draining

LEMMA CountOutKeepsOwned ==
  ASSUME NEW owner \in Client, TypeOK, TypeOK', OwnedInv(owner), NEW w \in Worker, WorkerCountOut(w)
  PROVE  OwnedInv(owner)'
<1> USE DEF locks, counts, calls, conds
<1>1. /\ UNCHANGED <<state, worker_max_count, mutex, value, ip, monitor, seen>>
      /\ pc[w] = "countOut" /\ worker_count' = Decrement(seen[w])
  BY DEF WorkerCountOut
<1>2. Shrunk(owner) /\ Draining(owner)
  BY <1>1 DEF OwnedInv, Growing, Leaving
<1>3. /\ pc'[w] = "dead" /\ \A v \in Worker \ {w} : pc'[v] = pc[v]
      /\ \A c \in Client : pc'[c] = pc[c]
      /\ Places(owner)'
  BY <1>1, WorkerMovesAlone DEF WorkerCountOut
<1>4. Born' = Born /\ Counted' = Counted \ {w} /\ w \in Counted /\ Leaving' = Leaving
  BY <1>1, <1>3 DEF Born, Counted, Leaving
<1>5. worker_count' = Cardinality(Counted')
  <2>1. Cardinality(Counted') = Cardinality(Counted) - 1
    BY <1>4, PoolIsFinite, FS_RemoveElement
  <2>2. Cardinality(Counted) # 0
    BY <1>4, PoolIsFinite, FS_EmptySet
  <2>3. seen[w] = Cardinality(Counted)
    BY <1>1, <1>2 DEF OwnedInv, Draining
  <2> QED
    BY <1>1, <2>1, <2>2, <2>3 DEF Decrement
<1>6. Shrunk(owner)'
  BY <1>1, <1>2, <1>3 DEF Shrunk
<1>7. \A v \in Worker : pc'[v] = "countOut" => worker_mutex' = v /\ seen'[v] = worker_count'
  <2>1. \A v \in Worker \ {w} : pc[v] # "countOut"
    BY <1>1, <1>2 DEF Draining
  <2> QED
    BY <1>3, <2>1
<1>8. Born' \subseteq Counted' \cup Leaving'
  BY <1>1, <1>2, <1>4 DEF Draining, Leaving
<1>9. Draining(owner)'
  BY <1>1, <1>2, <1>3, <1>4, <1>7, <1>8 DEF Draining
<1> QED
  BY <1>1, <1>2, <1>3, <1>5, <1>6, <1>9 DEF OwnedInv, Draining

LEMMA WorkerKeepsOwned ==
  ASSUME NEW owner \in Client, TypeOK, TypeOK', OwnedInv(owner), NEW w \in Worker, WorkerStep(w)
  PROVE  OwnedInv(owner)'
<1>1. CASE WorkerLoop(w) \/ WorkerWake(w)
  BY <1>1, TestKeepsOwned DEF WorkerLoop, WorkerWake, OwnedInv, IdleWorkers
<1>2. CASE WorkerAnnounce(w) \/ RunTask(w)
  <2>1. /\ UNCHANGED <<state, worker_count, worker_max_count, mutex, worker_mutex, seen, value, ip>>
        /\ Goto(w, "loop") /\ UNCHANGED monitor /\ pc[w] \in {"announce", "body"}
    BY <1>2 DEF WorkerAnnounce, RunTask, counts, locks, calls, conds
  <2>2. Quiet(owner)
    BY <2>1, LoopingIsQuiet
  <2>3. monitor' \subseteq IdleWorkers'
    BY <2>1, WorkerMovesAlone DEF OwnedInv, IdleWorkers
  <2> QED
    BY <2>1, <2>2, <2>3, QuietKeeps DEF OwnedInv, Draining
<1> QED
  BY <1>1, <1>2, EnterKeepsOwned, CountInKeepsOwned, ExitKeepsOwned, CountOutKeepsOwned
     DEF WorkerStep

(* Where a step of the owner leaves everyone else. *)
LEMMA OwnerMovesAlone ==
  ASSUME NEW owner \in Client, TypeOK, OwnedInv(owner), NEW label, Goto(owner, label)
  PROVE  /\ pc'[owner] = label
         /\ \A c \in Client \ {owner} : pc'[c] \in Outside
         /\ \A w \in Worker : pc'[w] = pc[w]
         /\ Born' = Born /\ Counted' = Counted /\ Leaving' = Leaving /\ IdleWorkers' = IdleWorkers
<1>1. pc'[owner] = label /\ \A t \in Thread \ {owner} : pc'[t] = pc[t]
  BY DEF TypeOK, PcOK, Goto, Thread
<1>2. \A c \in Client \ {owner} : pc'[c] \in Outside
  BY <1>1 DEF OwnedInv, Places, Thread
<1>3. \A w \in Worker : pc'[w] = pc[w]
  BY <1>1 DEF Thread
<1> QED
  BY <1>1, <1>2, <1>3 DEF Born, Counted, Leaving, IdleWorkers

(* What the owner is about to call is in its script. *)
LEMMA OwnerCalls ==
  ASSUME NEW owner \in Client, OwnedBy(owner), TypeOK, NEW op, Calling(owner, op)
  PROVE  /\ ip[owner] \in DOMAIN Script[owner] /\ Call(owner).op = op
         /\ op \notin {"RemoveWorker", "Stop"}
         /\ op \in {"Start", "AddWorker"} =>
              ~ \E i \in DOMAIN Script[owner] : i < ip[owner] /\ Script[owner][i].op = "Join"
<1>1. Script[owner] \in Seq(Operation) /\ ip[owner] \in Nat \ {0} /\ ip[owner] <= Len(Script[owner])
  BY ProgramAssumption DEF TypeOK, FieldsOK, Calling
<1>2. ip[owner] \in DOMAIN Script[owner] /\ Script[owner][ip[owner]].op = op
  BY <1>1 DEF Calling, Call
<1> QED
  BY <1>2 DEF OwnedBy, CallsOf, Call

LEMMA StartKeepsOwned ==
  ASSUME NEW owner \in Client, OwnedBy(owner), TypeOK, TypeOK', OwnedInv(owner),
         StartConfigure(owner) \/ StartTest(owner) \/ StartSet(owner)
  PROVE  OwnedInv(owner)'
<1> USE DEF locks, counts, calls, conds
<1>1. UNCHANGED <<worker_count, worker_max_count, mutex, seen, value, ip>>
  BY DEF StartConfigure, StartTest, StartSet
<1>2. ~Shrunk(owner)
  <2>1. CASE StartConfigure(owner)
    BY <2>1, OwnerCalls DEF StartConfigure, Calling, OwnedInv, Shrunk, Draining
  <2>2. CASE StartTest(owner) \/ StartSet(owner)
    BY <2>2 DEF StartTest, StartSet, OwnedInv, Shrunk, Draining, Outside
  <2> QED
    BY <2>1, <2>2
<1>3. Growing(owner)
  BY <1>2 DEF OwnedInv
<1>4. PICK label \in {"startTest", "startSet", "create"} : Goto(owner, label)
  BY <1>2 DEF StartConfigure, StartTest, StartSet, Shrunk
<1>5. /\ state' \in {state, "STARTED"}
      /\ state' # state => state = "UNINITIALIZED"
      /\ monitor' \subseteq monitor
  BY DEF StartConfigure, StartTest, StartSet
<1>6. Born = Counted
  BY <1>3 DEF Growing, AddingWorkers, StartConfigure, Calling, StartTest, StartSet
<1>7. ip[owner] \in DOMAIN Script[owner] /\ Call(owner).op = "Start"
  BY OwnerCalls DEF StartConfigure, StartTest, StartSet, OwnedInv, Places, Outside
<1>8. /\ pc'[owner] = label
      /\ \A c \in Client \ {owner} : pc'[c] \in Outside
      /\ \A w \in Worker : pc'[w] = pc[w]
      /\ Born' = Born /\ Counted' = Counted /\ Leaving' = Leaving /\ IdleWorkers' = IdleWorkers
  BY <1>4, OwnerMovesAlone
<1>9. Places(owner)'
  BY <1>1, <1>7, <1>8 DEF Places, Call, AddingWorkers
<1>10. ~Shrunk(owner)'
  BY <1>2, <1>5, <1>8 DEF Shrunk
<1>11. state # "JOINING"
  BY <1>3 DEF Growing, StartConfigure, Calling, StartTest, StartSet
<1>12. Growing(owner)'
  BY <1>1, <1>3, <1>5, <1>6, <1>8, <1>11 DEF Growing
<1> QED
  BY <1>1, <1>5, <1>8, <1>9, <1>10, <1>12 DEF OwnedInv

LEMMA CreateKeepsOwned ==
  ASSUME NEW owner \in Client, OwnedBy(owner), Cardinality(Worker) <= SizeMax,
         TypeOK, TypeOK', OwnedInv(owner), AddWorkerCreate(owner)
  PROVE  OwnedInv(owner)'
<1> USE DEF locks, calls, conds
<1>1. UNCHANGED <<state, worker_count, mutex, seen, value, ip, monitor>>
  BY DEF AddWorkerCreate
<1>2. /\ ~Shrunk(owner)
      /\ ip[owner] \in DOMAIN Script[owner] /\ Call(owner).op \in {"Start", "AddWorker"}
      /\ pc[owner] \in {"create", "ready"}
  <2>1. CASE Calling(owner, "AddWorker")
    BY <2>1, OwnerCalls DEF Calling, OwnedInv, Shrunk, Draining
  <2>2. CASE pc[owner] = "create"
    BY <2>2 DEF OwnedInv, Shrunk, Draining, Outside, Places
  <2> QED
    BY <2>1, <2>2 DEF AddWorkerCreate, AtAddWorker
<1>3. Growing(owner) /\ Born = Counted /\ state # "JOINING"
  BY <1>2 DEF OwnedInv, Growing, AddingWorkers
<1>4. PICK S \in SUBSET {w \in Worker : pc[w] = "unborn"} :
        /\ Cardinality(S) = Amount(owner)
        /\ pc' = [t \in Thread |-> IF t \in S THEN "created"
                                   ELSE IF t = owner THEN "spawn" ELSE pc[t]]
  BY DEF AddWorkerCreate
<1>5. /\ pc'[owner] = "spawn"
      /\ \A c \in Client \ {owner} : pc'[c] = pc[c]
      /\ \A w \in Worker : pc'[w] = IF w \in S THEN "created" ELSE pc[w]
  BY <1>4 DEF Thread
<1>6. Counted' = Counted /\ Leaving' = Leaving /\ IdleWorkers' = IdleWorkers /\ Born' = Born \cup S
  BY <1>5 DEF Born, Counted, Leaving, IdleWorkers
<1>7. worker_max_count' = Cardinality(Born')
  <2>1. IsFiniteSet(S) /\ Born \cap S = {} /\ Cardinality(S) \in Nat
    BY FS_Subset, FS_CardinalityType DEF Born
  <2>2. Cardinality(Born') = Cardinality(Born) + Cardinality(S)
    <3>1. /\ IsFiniteSet(Born) /\ Cardinality(Born) \in Nat
          /\ Cardinality(Born \cap S) = 0
      BY <2>1, PoolIsFinite, FS_EmptySet
    <3>2. Cardinality(Born \cup S) = Cardinality(Born) + Cardinality(S) - Cardinality(Born \cap S)
      BY <2>1, <3>1, FS_Union
    <3> QED
      BY <1>6, <2>1, <3>1, <3>2
  <2>3. Cardinality(Born') <= Cardinality(Worker) /\ Cardinality(Worker) \in Nat
    BY FS_Subset, FS_CardinalityType DEF Born
  <2>4. worker_max_count' = Plus(Cardinality(Born), Cardinality(S))
    BY <1>3, <1>4 DEF Growing, AddWorkerCreate
  <2> QED
    BY <2>1, <2>2, <2>3, <2>4, PoolIsFinite DEF Plus
<1>8. Places(owner)'
  BY <1>1, <1>2, <1>5 DEF OwnedInv, Places, Call, AddingWorkers, Outside
<1>9. ~Shrunk(owner)'
  BY <1>1, <1>2, <1>5 DEF Shrunk
<1>10. \A w \in Worker : pc'[w] = "countIn" => mutex' = w /\ seen'[w] = worker_count'
  BY <1>1, <1>3, <1>5 DEF Growing
<1>11. Growing(owner)'
  BY <1>1, <1>3, <1>5, <1>6, <1>7, <1>10 DEF Growing, AddingWorkers
<1> QED
  BY <1>1, <1>6, <1>8, <1>9, <1>11 DEF OwnedInv

LEMMA SettleKeepsOwned ==
  ASSUME NEW owner \in Client, OwnedBy(owner), TypeOK, TypeOK', OwnedInv(owner),
         \/ \E w \in Worker : AddWorkerSpawn(owner, w) \/ AddWorkerRegister(owner, w)
         \/ AddWorkerWait(owner) \/ AddWorkerReturn(owner)
  PROVE  OwnedInv(owner)'
<1> USE DEF locks, counts, calls, conds
<1>1. /\ UNCHANGED <<state, worker_count, worker_max_count, mutex, seen, value, monitor>>
      /\ pc[owner] \in AddingWorkers
  BY DEF AddWorkerSpawn, AddWorkerRegister, AddWorkerWait, AddWorkerReturn, AtSettle, AddingWorkers
<1>2. ~Shrunk(owner) /\ Growing(owner) /\ state # "JOINING"
  BY <1>1 DEF OwnedInv, Shrunk, Draining, AddingWorkers, Outside, Growing
<1>3. ip[owner] \in DOMAIN Script[owner] /\ Call(owner).op \in {"Start", "AddWorker"}
  BY <1>1 DEF OwnedInv, Places, AddingWorkers, Outside
<1>4. CASE AddWorkerReturn(owner)
  <2>1. /\ Goto(owner, "ready") /\ ip'[owner] = ip[owner] + 1
        /\ worker_count = worker_max_count
    BY <1>4 DEF AddWorkerReturn, Return, TypeOK, FieldsOK
  <2>2. Born = Counted
    <3>1. Counted \subseteq Born /\ Cardinality(Counted) = Cardinality(Born)
      BY <1>2, <2>1 DEF Counted, Born, OwnedInv, Growing
    <3> QED
      BY <3>1, PoolIsFinite, FS_Subset
  <2>3. /\ pc'[owner] = "ready"
        /\ \A c \in Client \ {owner} : pc'[c] \in Outside
        /\ \A w \in Worker : pc'[w] = pc[w]
        /\ Born' = Born /\ Counted' = Counted /\ Leaving' = Leaving /\ IdleWorkers' = IdleWorkers
    BY <2>1, OwnerMovesAlone
  <2>4. Places(owner)' /\ ~Shrunk(owner)'
    BY <1>1, <1>2, <2>3 DEF Places, Outside, AddingWorkers, Shrunk
  <2>5. Growing(owner)'
    BY <1>1, <1>2, <2>2, <2>3 DEF Growing
  <2> QED
    BY <1>1, <2>3, <2>4, <2>5 DEF OwnedInv
<1>5. CASE \/ \E w \in Worker : AddWorkerRegister(owner, w)
           \/ AddWorkerWait(owner)
  <2>1. PICK label \in AddingWorkers : Goto(owner, label) /\ UNCHANGED ip
    BY <1>5 DEF AddWorkerRegister, AddWorkerWait, AddingWorkers
  <2>2. /\ pc'[owner] = label
        /\ \A c \in Client \ {owner} : pc'[c] \in Outside
        /\ \A w \in Worker : pc'[w] = pc[w]
        /\ Born' = Born /\ Counted' = Counted /\ Leaving' = Leaving /\ IdleWorkers' = IdleWorkers
    BY <2>1, OwnerMovesAlone
  <2>3. Places(owner)' /\ ~Shrunk(owner)'
    BY <1>1, <1>2, <1>3, <2>1, <2>2 DEF Places, Call, AddingWorkers, Shrunk
  <2>4. Growing(owner)'
    BY <1>1, <1>2, <2>2 DEF Growing, AddingWorkers
  <2> QED
    BY <1>1, <2>2, <2>3, <2>4 DEF OwnedInv
<1>6. ASSUME NEW w \in Worker, AddWorkerSpawn(owner, w) PROVE OwnedInv(owner)'
  <2>1. pc[w] = "created" /\ pc' = [pc EXCEPT ![w] = "entry", ![owner] = "register"] /\ UNCHANGED ip
    BY <1>6 DEF AddWorkerSpawn
  <2>2. /\ pc'[owner] = "register" /\ pc'[w] = "entry"
        /\ \A t \in Thread \ {owner, w} : pc'[t] = pc[t]
    BY <2>1, ThreadsAssumption DEF TypeOK, PcOK, Thread
  <2>3. /\ \A c \in Client \ {owner} : pc'[c] = pc[c]
        /\ \A v \in Worker \ {w} : pc'[v] = pc[v]
    BY <2>2, ThreadsAssumption DEF Thread
  <2>4. Born' = Born /\ Counted' = Counted /\ Leaving' = Leaving /\ IdleWorkers' = IdleWorkers
    BY <2>1, <2>2, <2>3 DEF Born, Counted, Leaving, IdleWorkers
  <2>5. Places(owner)' /\ ~Shrunk(owner)'
    BY <1>1, <1>2, <1>3, <2>1, <2>2, <2>3 DEF OwnedInv, Places, Call, AddingWorkers, Shrunk
  <2>6. \A v \in Worker : pc'[v] = "countIn" => mutex' = v /\ seen'[v] = worker_count'
    BY <1>1, <1>2, <2>2, <2>3 DEF Growing
  <2>7. Growing(owner)'
    BY <1>1, <1>2, <2>2, <2>4, <2>6 DEF Growing, AddingWorkers
  <2> QED
    BY <1>1, <2>4, <2>5, <2>7 DEF OwnedInv
<1> QED
  BY <1>4, <1>5, <1>6

LEMMA StopKeepsOwned ==
  ASSUME NEW owner \in Client, OwnedBy(owner), TypeOK, TypeOK', OwnedInv(owner),
         StopTest(owner) \/ StopBegin(owner) \/ StopCount(owner) \/ StopSet(owner)
  PROVE  OwnedInv(owner)'
<1> USE DEF locks, counts, calls, conds
<1>1. CASE StopTest(owner)
  <2>1. /\ UNCHANGED <<state, worker_count, worker_max_count, mutex, worker_mutex, seen, value, monitor>>
        /\ pc[owner] = "ready" /\ ip[owner] \in DOMAIN Script[owner] /\ Call(owner).op = "Join"
    BY <1>1, OwnerCalls DEF StopTest, AtStop, Calling
  <2>2. CASE state = "STOPPED"
    <3>1. Return(owner)
      BY <1>1, <2>2 DEF StopTest
    <3>2. Quiet(owner) /\ IdleWorkers' = IdleWorkers
      BY <2>1, <3>1, OutsideIsQuiet DEF Outside
    <3> QED
      BY <2>1, <3>2, QuietKeeps DEF OwnedInv, Draining
  <2>3. CASE state # "STOPPED"
    <3>1. Goto(owner, "stopBegin") /\ UNCHANGED ip
      BY <1>1, <2>3 DEF StopTest
    <3>2. /\ pc'[owner] = "stopBegin"
          /\ \A c \in Client \ {owner} : pc'[c] \in Outside
          /\ \A w \in Worker : pc'[w] = pc[w]
          /\ Born' = Born /\ Counted' = Counted /\ Leaving' = Leaving /\ IdleWorkers' = IdleWorkers
      BY <3>1, OwnerMovesAlone
    <3>3. ~Shrunk(owner) /\ Growing(owner) /\ Born = Counted /\ state # "JOINING"
      BY <2>1, <2>3 DEF OwnedInv, Shrunk, Growing, AddingWorkers
    <3>4. Places(owner)' /\ ~Shrunk(owner)'
      BY <2>1, <3>1, <3>2, <3>3 DEF Places, Call, AddingWorkers, Shrunk
    <3>5. Growing(owner)'
      BY <2>1, <3>2, <3>3 DEF Growing, AddingWorkers
    <3> QED
      BY <2>1, <3>2, <3>4, <3>5 DEF OwnedInv
  <2> QED
    BY <2>2, <2>3
<1>2. CASE StopBegin(owner) \/ StopCount(owner)
  <2>1. /\ UNCHANGED <<worker_count, worker_max_count, mutex, seen, monitor, ip>>
        /\ pc[owner] \in {"stopBegin", "stopCount"}
    BY <1>2 DEF StopBegin, StopCount
  <2>2. /\ ip[owner] \in DOMAIN Script[owner] /\ Call(owner).op = "Join"
        /\ ~Shrunk(owner) /\ Growing(owner) /\ Born = Counted
    BY <2>1 DEF OwnedInv, Places, Outside, Shrunk, Draining, Growing, AddingWorkers
  <2>3. /\ state' = "JOINING"
        /\ \/ Goto(owner, "stopCount")
           \/ Goto(owner, "shrink") /\ value' = [value EXCEPT ![owner] = worker_count]
    BY <1>2, <2>1, <2>2 DEF StopBegin, StopCount, Growing, Shrunk
  <2>4. PICK label \in {"stopCount", "shrink"} : Goto(owner, label)
    BY <2>3
  <2>5. /\ pc'[owner] = label
        /\ \A c \in Client \ {owner} : pc'[c] \in Outside
        /\ \A w \in Worker : pc'[w] = pc[w]
        /\ Born' = Born /\ Counted' = Counted /\ Leaving' = Leaving /\ IdleWorkers' = IdleWorkers
    BY <2>4, OwnerMovesAlone
  <2>6. Places(owner)' /\ ~Shrunk(owner)'
    BY <2>1, <2>2, <2>3, <2>5 DEF Places, Call, AddingWorkers, Shrunk
  <2>7. pc'[owner] = "shrink" => value'[owner] = worker_count
    BY <2>3, <2>5 DEF Goto, TypeOK, FieldsOK, PcOK, Thread
  <2>8. Growing(owner)'
    BY <2>1, <2>2, <2>3, <2>5, <2>7 DEF Growing, AddingWorkers
  <2> QED
    BY <2>1, <2>5, <2>6, <2>8 DEF OwnedInv
<1>3. CASE StopSet(owner)
  <2>1. /\ UNCHANGED <<worker_count, worker_max_count, worker_mutex, seen, monitor>>
        /\ pc[owner] = "stopSet" /\ state' = "STOPPED"
        /\ Goto(owner, "ready") /\ ip'[owner] = ip[owner] + 1
    BY <1>3 DEF StopSet, Return, TypeOK, FieldsOK
  <2>2. /\ ip[owner] \in DOMAIN Script[owner] /\ Call(owner).op = "Join"
        /\ Shrunk(owner) /\ Draining(owner)
    BY <2>1 DEF OwnedInv, Places, Outside, Shrunk
  <2>3. /\ pc'[owner] = "ready"
        /\ \A c \in Client \ {owner} : pc'[c] \in Outside
        /\ \A w \in Worker : pc'[w] = pc[w]
        /\ Born' = Born /\ Counted' = Counted /\ Leaving' = Leaving /\ IdleWorkers' = IdleWorkers
    BY <2>1, OwnerMovesAlone
  <2>4. Places(owner)' /\ Shrunk(owner)'
    BY <2>1, <2>3 DEF Places, Outside, AddingWorkers, Shrunk
  <2>5. \E i \in DOMAIN Script[owner] : i < ip'[owner] /\ Script[owner][i].op = "Join"
    <3>1. ip[owner] \in Nat
      BY DEF TypeOK, FieldsOK
    <3> QED
      BY <2>1, <2>2, <3>1 DEF Call
  <2>6. Draining(owner)'
    BY <2>1, <2>2, <2>3, <2>5 DEF Draining, Outside
  <2> QED
    BY <2>1, <2>3, <2>4, <2>6 DEF OwnedInv, Draining
<1> QED
  BY <1>1, <1>2, <1>3

(* RemoveWorker wakes every sleeper: idle_count_ is exact. *)
LEMMA RousedAreAll ==
  ASSUME TypeOK, IdleCountExact, monitor \subseteq IdleWorkers,
         NEW c \in Client, NEW left \in Roused(c)
  PROVE  left = {}
<1>1. CASE ~(idle_count < Amount(c))
  BY <1>1 DEF Roused
<1>2. CASE idle_count < Amount(c)
  <2>1. PICK S \in SUBSET monitor :
          /\ left = monitor \ S
          /\ Cardinality(S) = IF idle_count < Cardinality(monitor) THEN idle_count
                              ELSE Cardinality(monitor)
    BY <1>2 DEF Roused, Signalled
  <2>2. IsFiniteSet(monitor) /\ Cardinality(monitor) <= idle_count
    BY IdleWorkersFinite, FS_Subset DEF IdleCountExact
  <2>3. Cardinality(monitor) \in Nat /\ idle_count \in Int
    BY <2>2, FS_CardinalityType DEF TypeOK, FieldsOK
  <2>4. Cardinality(S) = Cardinality(monitor)
    BY <2>1, <2>2, <2>3
  <2> QED
    BY <2>1, <2>2, <2>4, FS_Subset
<1> QED
  BY <1>1, <1>2

LEMMA ShrinkKeepsOwned ==
  ASSUME NEW owner \in Client, OwnedBy(owner), TypeOK, TypeOK', IdleCountExact, OwnedInv(owner),
         RemoveWorkerStep(owner)
  PROVE  OwnedInv(owner)'
<1> USE DEF locks, counts, calls, conds
<1>1. CASE RemoveWorkerInvalid(owner) \/ RemoveWorkerShrink(owner)
  <2>1. pc[owner] = "shrink"
    BY <1>1, OwnerCalls DEF RemoveWorkerInvalid, RemoveWorkerShrink, AtRemoveWorker
  <2>2. /\ ip[owner] \in DOMAIN Script[owner] /\ Call(owner).op = "Join"
        /\ ~Shrunk(owner) /\ Growing(owner) /\ Born = Counted /\ state = "JOINING"
    BY <2>1 DEF OwnedInv, Places, Outside, Shrunk, Draining, Growing, AddingWorkers
  <2>3. Amount(owner) = worker_max_count /\ worker_max_count \in Nat
    BY <2>1, <2>2 DEF Amount, Growing, OwnedInv, TypeOK, FieldsOK
  <2>4. /\ worker_max_count' = 0 /\ monitor' \in Roused(owner)
        /\ Goto(owner, "reap") /\ UNCHANGED <<state, worker_count, worker_mutex, seen, ip>>
    BY <1>1, <2>3 DEF RemoveWorkerInvalid, RemoveWorkerShrink, Enough
  <2>5. monitor' = {}
    BY <2>4, RousedAreAll DEF OwnedInv
  <2>6. /\ pc'[owner] = "reap"
        /\ \A c \in Client \ {owner} : pc'[c] \in Outside
        /\ \A w \in Worker : pc'[w] = pc[w]
        /\ Born' = Born /\ Counted' = Counted /\ Leaving' = Leaving
    BY <2>4, OwnerMovesAlone
  <2>7. Places(owner)' /\ Shrunk(owner)'
    BY <2>2, <2>4, <2>6 DEF Places, Call, AddingWorkers, Shrunk
  <2>8. \A w \in Worker : pc'[w] # "countOut"
    BY <2>2, <2>6 DEF Growing, Leaving
  <2>9. Draining(owner)'
    BY <2>2, <2>4, <2>5, <2>6, <2>8 DEF Draining
  <2> QED
    BY <2>4, <2>5, <2>6, <2>7, <2>9 DEF OwnedInv
<1>2. CASE RemoveWorkerWait(owner) \/ RemoveWorkerReap(owner)
  <2>1. /\ UNCHANGED <<state, worker_count, worker_max_count, worker_mutex, seen, monitor>>
        /\ pc[owner] \in {"reap", "reapWait"}
    BY <1>2 DEF RemoveWorkerWait, RemoveWorkerReap, AtReap
  <2>2. /\ ip[owner] \in DOMAIN Script[owner] /\ Call(owner).op = "Join"
        /\ Shrunk(owner) /\ Draining(owner) /\ state = "JOINING"
    BY <2>1 DEF OwnedInv, Places, Outside, Shrunk, Draining
  <2>3. /\ UNCHANGED ip
        /\ \/ Goto(owner, "reapWait")
           \/ Goto(owner, "stopSet") /\ worker_count = worker_max_count
    BY <1>2, <2>2 DEF RemoveWorkerWait, RemoveWorkerReap, Stopping
  <2>4. PICK label \in {"reapWait", "stopSet"} :
          Goto(owner, label) /\ (label = "stopSet" => worker_count = worker_max_count)
    BY <2>3
  <2>5. /\ pc'[owner] = label
        /\ \A c \in Client \ {owner} : pc'[c] \in Outside
        /\ \A w \in Worker : pc'[w] = pc[w]
        /\ Born' = Born /\ Counted' = Counted /\ Leaving' = Leaving /\ IdleWorkers' = IdleWorkers
    BY <2>4, OwnerMovesAlone
  <2>6. Places(owner)' /\ Shrunk(owner)'
    BY <2>2, <2>3, <2>5 DEF Places, Call, AddingWorkers, Shrunk
  <2>7. label = "stopSet" => Counted = {}
    BY <2>2, <2>4, PoolIsFinite, FS_EmptySet DEF OwnedInv, Draining
  <2>8. Draining(owner)'
    BY <2>1, <2>2, <2>5, <2>7 DEF Draining
  <2> QED
    BY <2>1, <2>5, <2>6, <2>8 DEF OwnedInv, Draining
<1> QED
  BY <1>1, <1>2 DEF RemoveWorkerStep

(* The others submit and ask. *)
LEMMA AskKeepsOwned ==
  ASSUME NEW owner \in Client, TypeOK, TypeOK', OwnedInv(owner), NEW c \in Client,
         RemoveNextPending(c) \/ ExpiredTaskCount(c) \/ Await(c)
  PROVE  OwnedInv(owner)'
<1> USE DEF locks, counts, conds
<1>1. /\ UNCHANGED <<state, worker_count, worker_max_count, mutex, worker_mutex, seen, value, monitor>>
      /\ pc[c] \in Outside /\ Return(c)
  BY DEF RemoveNextPending, ExpiredTaskCount, Await, Calling, Outside
<1>2. Quiet(owner) /\ IdleWorkers' = IdleWorkers
  BY <1>1, OutsideIsQuiet
<1> QED
  BY <1>1, <1>2, QuietKeeps DEF OwnedInv, Draining

(* Nobody but the owner resizes or ends the pool. *)
LEMMA OthersOnlyAsk ==
  ASSUME NEW owner \in Client, OwnedBy(owner), TypeOK, Places(owner),
         NEW c \in Client \ {owner}, ClientStep(c)
  PROVE  RemoveNextPending(c) \/ ExpiredTaskCount(c) \/ Await(c)
<1>1. pc[c] \in Outside
  BY DEF Places
<1>2. ASSUME NEW op \in {"Start", "AddWorker", "RemoveWorker", "Stop", "Join"}, Calling(c, op)
      PROVE  FALSE
  <2>1. Script[c] \in Seq(Operation) /\ ip[c] \in 1..Len(Script[c])
    <3>1. Script[c] \in Seq(Operation)
      BY ProgramAssumption
    <3>2. ip[c] \in Nat \ {0} /\ ip[c] <= Len(Script[c])
      BY <1>2 DEF TypeOK, FieldsOK, Calling
    <3> QED
      BY <3>1, <3>2
  <2>2. op \in CallsOf(c)
    BY <1>2, <2>1 DEF CallsOf, Calling, Call
  <2> QED
    BY <2>2 DEF OwnedBy
<1> QED
  BY <1>1, <1>2 DEF ClientStep, AddWorkerStep, RemoveWorkerStep, StartConfigure, StartTest,
       StartSet, AddWorkerCreate, AtAddWorker, AddWorkerSpawn, AddWorkerRegister, AddWorkerWait,
       AddWorkerReturn, AtSettle, RemoveWorkerInvalid, RemoveWorkerShrink, AtRemoveWorker,
       RemoveWorkerWait, RemoveWorkerReap, AtReap, StopTest, AtStop, StopBegin, StopCount,
       StopSet, Outside

LEMMA ClientKeepsOwned ==
  ASSUME NEW owner \in Client, OwnedBy(owner), Cardinality(Worker) <= SizeMax,
         TypeOK, TypeOK', IdleCountExact, OwnedInv(owner), NEW c \in Client, ClientStep(c)
  PROVE  OwnedInv(owner)'
<1>1. CASE c = owner
  BY <1>1, StartKeepsOwned, CreateKeepsOwned, SettleKeepsOwned, ShrinkKeepsOwned, StopKeepsOwned,
     AskKeepsOwned DEF ClientStep, AddWorkerStep
<1>2. CASE c # owner
  BY <1>2, OthersOnlyAsk, AskKeepsOwned DEF OwnedInv
<1> QED
  BY <1>1, <1>2

LEMMA OwnedInvHolds ==
  ASSUME NEW owner \in Client, OwnedBy(owner), Cardinality(Worker) <= SizeMax
  PROVE  Spec => []OwnedInv(owner)
<1>1. Init => OwnedInv(owner)
  <2> SUFFICES ASSUME Init PROVE OwnedInv(owner)
    OBVIOUS
  <2>1. (\A c \in Client : pc[c] = "ready") /\ \A w \in Worker : pc[w] = "unborn"
    BY ThreadsAssumption DEF Init, Thread
  <2>2. Born = {} /\ Counted = {} /\ Leaving = {}
    BY <2>1 DEF Born, Counted, Leaving
  <2>3. ~Shrunk(owner) /\ Places(owner)
    BY <2>1 DEF Init, Shrunk, Places, Outside, AddingWorkers
  <2>4. Growing(owner)
    BY <2>1, <2>2, FS_EmptySet DEF Init, Growing
  <2> QED
    BY <2>2, <2>3, <2>4, FS_EmptySet DEF Init, OwnedInv
<1>2. TypeOK /\ TypeOK' /\ IdleCountExact /\ OwnedInv(owner) /\ [Next]_vars => OwnedInv(owner)'
  <2> SUFFICES ASSUME TypeOK, TypeOK', IdleCountExact, OwnedInv(owner), [Next]_vars
               PROVE  OwnedInv(owner)'
    OBVIOUS
  <2> USE DEF counts, locks, calls, conds
  <2>1. ASSUME NEW t \in Thread, ThreadStep(t) PROVE OwnedInv(owner)'
    BY <2>1, AddKeepsOwned, WorkerKeepsOwned, ClientKeepsOwned DEF ThreadStep
  <2>2. CASE Elapse \/ UNCHANGED vars \/ \E t \in Thread : SpuriousWake(t)
    <3>1. /\ UNCHANGED <<state, worker_count, worker_max_count, mutex, worker_mutex, seen, value, pc, ip>>
          /\ monitor' \subseteq monitor
      BY <2>2 DEF Elapse, vars, SpuriousWake
    <3>2. Quiet(owner) /\ IdleWorkers' = IdleWorkers
      <4>1. /\ Born' = Born /\ Counted' = Counted /\ Leaving' = Leaving
            /\ IdleWorkers' = IdleWorkers /\ ip'[owner] >= ip[owner]
        BY <3>1 DEF Born, Counted, Leaving, IdleWorkers, TypeOK, FieldsOK
      <4> QED
        BY <3>1, <4>1 DEF Quiet, OwnedInv, Places
    <3> QED
      BY <3>1, <3>2, QuietKeeps DEF OwnedInv, Draining
  <2> QED
    BY <2>1, <2>2 DEF Next
<1> QED
  BY <1>1, <1>2, TypeCorrect, IdleCountCorrect, PTL DEF Spec

(* RemoveWorker wakes everybody who should go, and whoever sleeps later    *)
(* finds the pool within its maximum.                                      *)
THEOREM NobodySleepsTooLong ==
  ASSUME NEW owner \in Client, OwnedBy(owner), Cardinality(Worker) <= SizeMax
  PROVE  Spec => []NoSurplusSleeper
<1>1. OwnedInv(owner) => NoSurplusSleeper
  BY PoolIsFinite DEF OwnedInv, Growing, Draining, NoSurplusSleeper
<1> QED
  BY <1>1, OwnedInvHolds, PTL

------------------------------------------------------------------------------
(* No wake-up is lost.                                                     *)

Awake == {"countIn", "announce", "loop", "body", "addWait"}

(* Nobody who is coming goes away, and nothing is accepted. *)
LEMMA NobodyTurnsAway ==
  ASSUME NoStrandedTask, monitor' \subseteq monitor, tasks = <<>> => tasks' = <<>>,
         \A w \in Worker : \/ pc[w] \in Awake /\ pc'[w] \in Awake
                           \/ pc[w] = "idle" /\ pc'[w] \in Awake \cup {"idle"}
                           \/ pc[w] \notin Awake \cup {"idle"}
  PROVE  NoStrandedTask'
<1> SUFFICES ASSUME tasks' # <<>>, monitor' # {} PROVE Coming' # {}
  BY DEF NoStrandedTask
<1>1. PICK w \in Worker : pc[w] \in Awake \/ (pc[w] = "idle" /\ w \notin monitor)
  BY DEF NoStrandedTask, Coming, Awake
<1>2. pc'[w] \in Awake \/ (pc'[w] = "idle" /\ w \notin monitor')
  BY <1>1 DEF Awake
<1> QED
  BY <1>2 DEF Coming, Awake

(* A task that is accepted wakes a worker, if one sleeps.                  *)
LEMMA PushWakes ==
  ASSUME TypeOK, IdleCountExact, monitor \subseteq IdleWorkers, NEW request, NEW rest,
         Push(request, rest), \A w \in IdleWorkers : pc'[w] = pc[w]
  PROVE  NoStrandedTask'
<1> SUFFICES ASSUME monitor' # {} PROVE Coming' # {}
  BY DEF NoStrandedTask
<1>1. monitor' \in Signalled(monitor, IF idle_count > 0 THEN 1 ELSE 0)
  BY DEF Push
<1>2. monitor # {} /\ IsFiniteSet(monitor) /\ Cardinality(monitor) \in Nat
  BY <1>1, SignalledShrinks, IdleWorkersFinite, FS_Subset, FS_CardinalityType
<1>3. Cardinality(monitor) >= 1
  BY <1>2, FS_EmptySet
<1>4. idle_count > 0
  BY <1>2, <1>3, IdleWorkersFinite, FS_Subset DEF IdleCountExact
<1>5. PICK S \in SUBSET monitor : monitor' = monitor \ S /\ Cardinality(S) = 1
  BY <1>1, <1>2, <1>3, <1>4 DEF Signalled
<1>6. PICK w \in S : TRUE
  BY <1>5, FS_EmptySet
<1>7. w \in Worker /\ pc'[w] = "idle" /\ w \notin monitor'
  BY <1>5, <1>6 DEF IdleWorkers
<1> QED
  BY <1>7 DEF Coming

LEMMA AddStrandsNothing ==
  ASSUME TypeOK, IdleCountExact, NoStrandedTask, monitor \subseteq IdleWorkers,
         NEW t \in Thread, AddStep(t)
  PROVE  NoStrandedTask'
<1>1. LeaveAdd(t) \/ Goto(t, "addWait") \/ UNCHANGED pc
  <2>1. CASE Add(t)
    BY <2>1 DEF Add, AddToFull, AddToSpace
  <2>2. CASE ~Add(t)
    BY <2>2 DEF AddStep, AddResume, AddLockFails, AddRejected, AddTimesOut
  <2> QED
    BY <2>1, <2>2
<1>2. AtAdd(t) \/ pc[t] = "addWait"
  BY DEF AddStep, AddLockFails, AddRejected, Add, AddResume, AddTimesOut
<1>3. \A w \in Worker : \/ pc'[w] = pc[w]
                        \/ pc[w] \in Awake /\ pc'[w] \in Awake
  <2>1. CASE t \in Client
    BY <1>1, <2>1 DEF LeaveAdd, Return, Goto, TypeOK, PcOK, Thread
  <2>2. CASE t \in Worker
    <3>1. t \notin Client /\ pc[t] \in Awake
      BY <1>2, <2>2 DEF AtAdd, Awake
    <3>2. \E label \in Awake : Goto(t, label) \/ UNCHANGED pc
      BY <1>1, <3>1 DEF LeaveAdd, Awake
    <3> QED
      BY <3>1, <3>2 DEF Goto, TypeOK, PcOK, Thread
  <2> QED
    BY <2>1, <2>2 DEF Thread
<1>4. CASE \E request, rest : Push(request, rest)
  <2>1. \A w \in IdleWorkers : pc'[w] = pc[w]
    BY <1>3 DEF IdleWorkers, Awake
  <2> QED
    BY <1>4, <2>1, PushWakes
<1>5. CASE UNCHANGED monitor /\ (tasks = <<>> => tasks' = <<>>)
  BY <1>3, <1>5, NobodyTurnsAway
<1>6. \/ \E request, rest : Push(request, rest)
      \/ UNCHANGED monitor /\ (tasks = <<>> => tasks' = <<>>)
  <2>1. CASE Add(t)
    <3>1. PICK n \in 0..Len(tasks) : AddToFull(t, n) \/ AddToSpace(t, n)
      BY <2>1 DEF Add
    <3>2. CASE AddToFull(t, n)
      <4>1. tasks' = Without(n) /\ UNCHANGED monitor
        BY <3>2 DEF AddToFull
      <4>2. tasks \in Seq(Task)
        BY DEF TypeOK, FieldsOK
      <4>3. tasks = <<>> => tasks' = <<>>
        BY <4>1, <4>2, EmptySeq, SubSeqProperties DEF Without
      <4> QED
        BY <4>1, <4>3
    <3> QED
      BY <3>1, <3>2 DEF AddToSpace
  <2>2. CASE AddResume(t)
    BY <2>2 DEF AddResume
  <2>3. CASE AddLockFails(t) \/ AddRejected(t) \/ AddTimesOut(t)
    BY <2>3 DEF AddLockFails, AddRejected, AddTimesOut, conds, queue
  <2> QED
    BY <2>1, <2>2, <2>3 DEF AddStep
<1> QED
  BY <1>4, <1>5, <1>6

LEMMA WorkerStrandsNothing ==
  ASSUME TypeOK, NoStrandedTask, NoSurplusSleeper, NEW w \in Worker, WorkerStep(w)
  PROVE  NoStrandedTask'
<1> USE DEF queue, conds
<1>1. ASSUME NEW was \in {0, 1}, WorkerTest(w, was) PROVE NoStrandedTask'
  <2>1. CASE Sleep(w, was)
    BY <2>1 DEF Sleep, NoStrandedTask
  <2>2. CASE GiveUp(w, was)
    <3>1. monitor = {} /\ monitor' = {}
      BY <2>2 DEF GiveUp, IsActive, NoSurplusSleeper, TypeOK, FieldsOK
    <3> QED
      BY <3>1 DEF NoStrandedTask
  <2>3. CASE TakeTask(w, was)
    <3>1. Goto(w, "body") \/ Goto(w, "loop")
      BY <2>3 DEF TakeTask
    <3>2. pc'[w] \in Awake
      BY <3>1 DEF Goto, TypeOK, PcOK, Thread, Awake
    <3> QED
      BY <3>2 DEF NoStrandedTask, Coming, Awake
  <2> QED
    BY <1>1, <2>1, <2>2, <2>3 DEF WorkerTest
<1>2. CASE WorkerLoop(w) \/ WorkerWake(w)
  BY <1>1, <1>2 DEF WorkerLoop, WorkerWake
<1>3. CASE ~(WorkerLoop(w) \/ WorkerWake(w))
  <2>1. UNCHANGED monitor /\ UNCHANGED tasks
    BY <1>3 DEF WorkerStep, WorkerEnter, WorkerCountIn, WorkerAnnounce, RunTask, WorkerExit,
         WorkerCountOut
  <2>2. \E label : /\ Goto(w, label)
                   /\ (pc[w] \in Awake /\ label \in Awake) \/ pc[w] \notin Awake \cup {"idle"}
    BY <1>3 DEF WorkerStep, WorkerEnter, WorkerCountIn, WorkerAnnounce, RunTask, WorkerExit,
         WorkerCountOut, Awake
  <2>3. \A v \in Worker \ {w} : pc'[v] = pc[v]
    BY <2>2 DEF Goto, TypeOK, PcOK, Thread
  <2>4. (pc[w] \in Awake /\ pc'[w] \in Awake) \/ pc[w] \notin Awake \cup {"idle"}
    BY <2>2 DEF Goto, TypeOK, PcOK, Thread
  <2> QED
    BY <2>1, <2>3, <2>4, NobodyTurnsAway
<1> QED
  BY <1>2, <1>3

LEMMA ClientStrandsNothing ==
  ASSUME TypeOK, NoStrandedTask, NEW c \in Client, ClientStep(c)
  PROVE  NoStrandedTask'
<1> USE DEF queue, conds
<1>1. monitor' \subseteq monitor
  <2>1. CASE RemoveWorkerShrink(c)
    BY <2>1 DEF RemoveWorkerShrink, Roused, Signalled
  <2>2. CASE ~RemoveWorkerShrink(c)
    BY <2>2
       DEF ClientStep, AddWorkerStep, RemoveWorkerStep, StartConfigure, StartTest, StartSet,
           AddWorkerCreate, AddWorkerSpawn, AddWorkerRegister, AddWorkerWait, AddWorkerReturn,
           RemoveWorkerInvalid, RemoveWorkerWait, RemoveWorkerReap, StopTest, StopBegin, StopCount,
           StopSet, RemoveNextPending, ExpiredTaskCount, Await
  <2> QED
    BY <2>1, <2>2
<1>2. tasks = <<>> => tasks' = <<>>
  BY DEF ClientStep, AddWorkerStep, RemoveWorkerStep, StartConfigure, StartTest, StartSet,
         AddWorkerCreate, AddWorkerSpawn, AddWorkerRegister, AddWorkerWait, AddWorkerReturn,
         RemoveWorkerInvalid, RemoveWorkerShrink, RemoveWorkerWait, RemoveWorkerReap, StopTest,
         StopBegin, StopCount, StopSet, RemoveNextPending, ExpiredTaskCount, Await
<1>3. \A w \in Worker : pc'[w] = pc[w] \/ pc[w] \in {"unborn", "created"}
  <2>1. CASE AddWorkerCreate(c)
    <3>1. PICK S \in SUBSET {w \in Worker : pc[w] = "unborn"} :
            pc' = [t \in Thread |-> IF t \in S THEN "created"
                                    ELSE IF t = c THEN "spawn" ELSE pc[t]]
      BY <2>1 DEF AddWorkerCreate
    <3> QED
      BY <3>1 DEF Thread
  <2>2. CASE \E w \in Worker : AddWorkerSpawn(c, w)
    BY <2>2 DEF AddWorkerSpawn, TypeOK, PcOK, Thread
  <2>3. CASE ~AddWorkerCreate(c) /\ ~(\E w \in Worker : AddWorkerSpawn(c, w))
    <3>1. \E label \in ClientLabel : Goto(c, label)
      BY <2>3
         DEF ClientStep, AddWorkerStep, RemoveWorkerStep, StartConfigure, StartTest, StartSet,
             AddWorkerRegister, AddWorkerWait, AddWorkerReturn, RemoveWorkerInvalid,
             RemoveWorkerShrink, RemoveWorkerWait, RemoveWorkerReap, StopTest, StopBegin,
             StopCount, StopSet, RemoveNextPending, ExpiredTaskCount, Await, Return, ClientLabel
    <3> QED
      BY <3>1 DEF TypeOK, PcOK, Goto, Thread
  <2> QED
    BY <2>1, <2>2, <2>3
<1> QED
  BY <1>1, <1>2, <1>3, NobodyTurnsAway DEF Awake

(* No wake-up is lost in a manager that one client owns: while a task      *)
(* waits and a worker sleeps, another worker is on its way to the queue.   *)
THEOREM NoWakeUpIsLost ==
  ASSUME NEW owner \in Client, OwnedBy(owner), Cardinality(Worker) <= SizeMax
  PROVE  Spec => []NoStrandedTask
<1>1. Init => NoStrandedTask
  BY DEF Init, NoStrandedTask
<1>2. /\ TypeOK /\ IdleCountExact /\ OwnedInv(owner) /\ NoSurplusSleeper
      /\ NoStrandedTask /\ [Next]_vars
      => NoStrandedTask'
  <2> SUFFICES ASSUME TypeOK, IdleCountExact, OwnedInv(owner), NoSurplusSleeper,
                      NoStrandedTask, [Next]_vars
               PROVE  NoStrandedTask'
    OBVIOUS
  <2>1. ASSUME NEW t \in Thread, ThreadStep(t) PROVE NoStrandedTask'
    BY <2>1, AddStrandsNothing, WorkerStrandsNothing, ClientStrandsNothing DEF ThreadStep, OwnedInv
  <2>2. CASE Elapse \/ UNCHANGED vars \/ \E t \in Thread : SpuriousWake(t)
    <3>1. UNCHANGED <<tasks, pc>> /\ monitor' \subseteq monitor
      BY <2>2 DEF Elapse, vars, conds, queue, SpuriousWake
    <3> QED
      BY <3>1, NobodyTurnsAway DEF Awake
  <2> QED
    BY <2>1, <2>2 DEF Next
<1> QED
  BY <1>1, <1>2, TypeCorrect, IdleCountCorrect, OwnedInvHolds, NobodySleepsTooLong, PTL DEF Spec

------------------------------------------------------------------------------
(* Join leaves nothing behind.                                             *)

(* Nobody waits for room.  There is a worker, or will be before Start      *)
(* returns, as soon as a task can come; none leaves before the queue is    *)
(* empty, and by then nothing is accepted.                                 *)
Drains(owner) ==
  /\ \A t \in Thread : pc[t] # "addWait"
  /\ state = "UNINITIALIZED" => tasks = <<>>
  /\ state = "STARTED" \/ tasks # <<>> => Born # {} \/ pc[owner] = "create"
  /\ Leaving # {} => tasks = <<>>

(* Where the queue is full, the adder does not wait. *)
LEMMA NothingIsFull ==
  ASSUME TypeOK, AddersDoNotSleep, NEW t \in Thread, AtAdd(t), NEW s, Full(s)
  PROVE  RequestOf(t).timeout = "none"
<1>1. MaxPending # 0
  BY DEF Full, TypeOK, FieldsOK
<1>2. CASE t \in Client
  <2>1. Script[t] \in Seq(Operation)
    BY <1>2, ProgramAssumption
  <2>2. ip[t] \in Nat \ {0} /\ ip[t] <= Len(Script[t]) /\ Call(t).op = "Add"
    BY <1>2 DEF AtAdd, Calling, TypeOK, FieldsOK
  <2>3. ip[t] \in DOMAIN Script[t]
    BY <2>1, <2>2
  <2> QED
    BY <1>1, <1>2, <2>2, <2>3 DEF AddersDoNotSleep, RequestOf, Call
<1>3. CASE t \in Worker
  <2>1. t \notin Client /\ pc[t] = "body" /\ Body[held[t].runnable] # NoRequest
    BY <1>3 DEF AtAdd
  <2>2. held[t].runnable \in Runnable
    BY <1>3, <2>1 DEF TypeOK, LocalsOK, Task
  <2> QED
    BY <1>1, <2>1, <2>2 DEF AddersDoNotSleep, RequestOf
<1> QED
  BY <1>2, <1>3 DEF Thread

LEMMA AddDrains ==
  ASSUME NEW owner \in Client, AddersDoNotSleep, TypeOK, OwnedInv(owner), Drains(owner),
         NEW t \in Thread, AddStep(t)
  PROVE  Drains(owner)'
<1>1. AtAdd(t) /\ (AddLockFails(t) \/ AddRejected(t) \/ Add(t))
  BY DEF Drains, AddStep, AddResume, AddTimesOut, AddLockFails, AddRejected, Add
<1>2. LeaveAdd(t) /\ UNCHANGED state
  <2>1. CASE Add(t)
    BY <1>1, <2>1, NothingIsFull DEF Add, AddToFull, AddToSpace
  <2> QED
    BY <1>1, <2>1 DEF AddLockFails, AddRejected
<1>3. /\ \A v \in Thread : pc'[v] # "addWait"
      /\ Born' = Born /\ Leaving' = Leaving
      /\ pc[owner] = "create" => pc'[owner] = "create"
  <2>1. CASE t \in Client
    <3>1. pc[t] = "ready" /\ Goto(t, "ready")
      BY <1>1, <1>2, <2>1 DEF AtAdd, Calling, LeaveAdd, Return
    <3>2. pc' = pc
      BY <3>1 DEF Goto, TypeOK, PcOK, Thread
    <3> QED
      BY <3>2 DEF Drains, Born, Leaving
  <2>2. CASE t \in Worker
    <3>1. pc[t] = "body" /\ Goto(t, "loop")
      BY <1>1, <1>2, <2>2 DEF AtAdd, LeaveAdd
    <3>2. pc'[t] = "loop" /\ \A v \in Thread \ {t} : pc'[v] = pc[v]
      BY <3>1 DEF Goto, TypeOK, PcOK, Thread
    <3> QED
      BY <2>2, <3>1, <3>2 DEF Drains, Born, Leaving, Thread
  <2> QED
    BY <2>1, <2>2 DEF Thread
<1>4. UNCHANGED tasks \/ state = "STARTED"
  BY <1>1 DEF AddLockFails, AddRejected, Add, queue
<1>5. Leaving # {} => state # "STARTED"
  BY DEF OwnedInv, Growing, Draining
<1> QED
  BY <1>2, <1>3, <1>4, <1>5 DEF Drains

LEMMA WorkerDrains ==
  ASSUME NEW owner \in Client, TypeOK, OwnedInv(owner), Drains(owner),
         NEW w \in Worker, WorkerStep(w)
  PROVE  Drains(owner)'
<1> USE DEF queue
<1>1. UNCHANGED state
  BY DEF WorkerStep, WorkerEnter, WorkerCountIn, WorkerAnnounce, RunTask, WorkerExit,
         WorkerCountOut, WorkerLoop, WorkerWake, WorkerTest
<1>2. tasks = <<>> => tasks' = <<>>
  <2>1. CASE WorkerLoop(w) \/ WorkerWake(w)
    <3>1. PICK was \in {0, 1} : Sleep(w, was) \/ GiveUp(w, was) \/ TakeTask(w, was)
      BY <2>1 DEF WorkerLoop, WorkerWake, WorkerTest
    <3> QED
      BY <3>1 DEF Sleep, GiveUp, TakeTask
  <2>2. CASE ~(WorkerLoop(w) \/ WorkerWake(w))
    BY <2>2 DEF WorkerStep, WorkerEnter, WorkerCountIn, WorkerAnnounce, RunTask, WorkerExit,
         WorkerCountOut
  <2> QED
    BY <2>1, <2>2
<1>3. PICK label \in WorkerLabel \ {"unborn", "addWait"} :
        /\ Goto(w, label)
        /\ label \in {"exit", "countOut", "dead"} /\ w \notin Leaving => tasks = <<>>
  <2>1. CASE WorkerLoop(w) \/ WorkerWake(w)
    <3>1. PICK was \in {0, 1} : Sleep(w, was) \/ GiveUp(w, was) \/ TakeTask(w, was)
      BY <2>1 DEF WorkerLoop, WorkerWake, WorkerTest
    <3>2. CASE GiveUp(w, was)
      <4>1. worker_max_count < worker_count /\ ~(state = "JOINING" /\ tasks # <<>>)
        BY <3>2 DEF GiveUp, IsActive, TypeOK, FieldsOK
      <4>2. Shrunk(owner)
        BY <4>1, PoolIsFinite DEF OwnedInv, Growing
      <4>3. w \in Counted
        BY <2>1 DEF WorkerLoop, WorkerWake, Counted
      <4>4. state = "JOINING"
        BY <4>2, <4>3 DEF OwnedInv, Draining
      <4> QED
        BY <3>2, <4>1, <4>4 DEF GiveUp, WorkerLabel
    <3> QED
      BY <3>1, <3>2 DEF Sleep, TakeTask, WorkerLabel
  <2>2. CASE WorkerEnter(w)
    <3>1. pc[w] = "entry"
      BY <2>2 DEF WorkerEnter
    <3>2. Growing(owner)
      BY <3>1 DEF OwnedInv, Draining, Born, Counted, Leaving
    <3>3. Counted \subseteq Born /\ w \in Born /\ w \notin Counted
      BY <3>1 DEF Counted, Born
    <3>4. Cardinality(Counted) < Cardinality(Born)
      BY <3>3, PoolIsFinite, FS_Subset
    <3> QED
      BY <2>2, <3>2, <3>4 DEF WorkerEnter, OwnedInv, Growing, WorkerLabel
  <2>3. CASE ~(WorkerLoop(w) \/ WorkerWake(w) \/ WorkerEnter(w))
    BY <2>3 DEF WorkerStep, WorkerCountIn, WorkerAnnounce, RunTask, WorkerExit, WorkerCountOut,
         Leaving, WorkerLabel
  <2> QED
    BY <2>1, <2>2, <2>3
<1>4. pc'[w] = label /\ \A t \in Thread \ {w} : pc'[t] = pc[t]
  BY <1>3 DEF Goto, TypeOK, PcOK, Thread
<1>5. /\ \A t \in Thread : pc'[t] # "addWait"
      /\ pc'[owner] = pc[owner]
      /\ Born \subseteq Born'
      /\ Leaving' # {} => tasks = <<>>
  BY <1>3, <1>4 DEF Drains, Born, Leaving, Thread
<1> QED
  BY <1>1, <1>2, <1>5 DEF Drains

LEMMA ClientDrains ==
  ASSUME NEW owner \in Client, OwnedBy(owner), InitialWorkers > 0,
         TypeOK, OwnedInv(owner), Drains(owner), NEW c \in Client, ClientStep(c)
  PROVE  Drains(owner)'
<1> USE DEF queue
<1>1. tasks = <<>> => tasks' = <<>>
  BY DEF ClientStep, AddWorkerStep, RemoveWorkerStep, StartConfigure, StartTest, StartSet,
         AddWorkerCreate, AddWorkerSpawn, AddWorkerRegister, AddWorkerWait, AddWorkerReturn,
         RemoveWorkerInvalid, RemoveWorkerShrink, RemoveWorkerWait, RemoveWorkerReap, StopTest,
         StopBegin, StopCount, StopSet, RemoveNextPending, ExpiredTaskCount, Await
<1>2. CASE AddWorkerCreate(c)
  <2>1. c = owner
    BY <1>2, OthersOnlyAsk
       DEF OwnedInv, AddWorkerCreate, AtAddWorker, Calling, RemoveNextPending, ExpiredTaskCount,
           Await
  <2>2. PICK S \in SUBSET {w \in Worker : pc[w] = "unborn"} :
          /\ Cardinality(S) = Amount(owner)
          /\ pc' = [t \in Thread |-> IF t \in S THEN "created"
                                     ELSE IF t = owner THEN "spawn" ELSE pc[t]]
    BY <1>2, <2>1 DEF AddWorkerCreate
  <2>3. pc[owner] = "create" => S # {}
    BY <2>2, FS_EmptySet DEF Amount
  <2>4. /\ pc'[owner] = "spawn" /\ \A t \in Thread : pc'[t] # "addWait"
        /\ \A w \in Worker : pc'[w] = IF w \in S THEN "created" ELSE pc[w]
    BY <2>2 DEF Drains, Thread
  <2>5. Leaving' = Leaving /\ Born' = Born \cup S
    BY <2>4 DEF Leaving, Born
  <2> QED
    BY <1>1, <1>2, <2>3, <2>4, <2>5 DEF Drains, AddWorkerCreate
<1>3. CASE \E w \in Worker : AddWorkerSpawn(c, w)
  <2>1. PICK w \in Worker : AddWorkerSpawn(c, w)
    BY <1>3
  <2>2. /\ pc[w] = "created" /\ pc'[w] = "entry" /\ pc[c] = "spawn" /\ pc'[c] = "register"
        /\ \A t \in Thread \ {c, w} : pc'[t] = pc[t]
    BY <2>1, ThreadsAssumption DEF AddWorkerSpawn, TypeOK, PcOK, Thread
  <2>3. Leaving' = Leaving /\ Born' = Born /\ \A t \in Thread : pc'[t] # "addWait"
    BY <2>2, ThreadsAssumption DEF Leaving, Born, Drains, Thread
  <2>4. pc[owner] = "create" => pc'[owner] = "create"
    BY <2>2, ThreadsAssumption DEF Thread
  <2> QED
    BY <1>1, <2>1, <2>3, <2>4 DEF Drains, AddWorkerSpawn
<1>4. CASE ~AddWorkerCreate(c) /\ ~(\E w \in Worker : AddWorkerSpawn(c, w))
  <2>1. PICK label \in ClientLabel \ {"addWait"} : Goto(c, label)
    BY <1>4
       DEF ClientStep, AddWorkerStep, RemoveWorkerStep, StartConfigure, StartTest, StartSet,
           AddWorkerRegister, AddWorkerWait, AddWorkerReturn, RemoveWorkerInvalid,
           RemoveWorkerShrink, RemoveWorkerWait, RemoveWorkerReap, StopTest, StopBegin,
           StopCount, StopSet, RemoveNextPending, ExpiredTaskCount, Await, Return, ClientLabel
  <2>2. pc'[c] = label /\ \A t \in Thread \ {c} : pc'[t] = pc[t]
    BY <2>1 DEF Goto, TypeOK, PcOK, Thread
  <2>3. Leaving' = Leaving /\ Born' = Born /\ \A t \in Thread : pc'[t] # "addWait"
    BY <2>1, <2>2 DEF Leaving, Born, Drains, Thread
  <2>4. /\ pc[owner] = "create" => pc'[owner] = "create"
        /\ state' = "UNINITIALIZED" => state = "UNINITIALIZED"
        /\ state' = "STARTED" => state = "STARTED" \/ pc'[owner] = "create"
    <3>1. CASE c = owner
      <4>1. pc[owner] # "create"
        BY <1>4, <3>1
           DEF ClientStep, AddWorkerStep, RemoveWorkerStep, StartConfigure, StartTest, StartSet,
               AddWorkerRegister, AddWorkerWait, AddWorkerReturn, AtSettle, RemoveWorkerInvalid,
               RemoveWorkerShrink, AtRemoveWorker, RemoveWorkerWait, RemoveWorkerReap, AtReap,
               StopTest, AtStop, StopBegin, StopCount, StopSet, RemoveNextPending,
               ExpiredTaskCount, Await, Calling
      <4>2. \/ UNCHANGED state
            \/ StartSet(c) /\ pc'[owner] = "create" /\ state' = "STARTED"
            \/ state' \notin {"UNINITIALIZED", "STARTED"}
        <5>1. CASE StartSet(c)
          <6>1. pc'[owner] = "create"
            BY <3>1, <5>1 DEF StartSet, Goto, TypeOK, PcOK, Thread
          <6> QED
            BY <5>1, <6>1 DEF StartSet
        <5>2. CASE ~StartSet(c)
          BY <1>4, <5>2
             DEF ClientStep, AddWorkerStep, RemoveWorkerStep, StartConfigure, StartTest,
                 AddWorkerRegister, AddWorkerWait, AddWorkerReturn, RemoveWorkerInvalid,
                 RemoveWorkerShrink, RemoveWorkerWait, RemoveWorkerReap, StopTest, StopBegin,
                 StopCount, StopSet, RemoveNextPending, ExpiredTaskCount, Await
        <5> QED
          BY <5>1, <5>2
      <4> QED
        BY <4>1, <4>2
    <3>2. CASE c # owner
      <4>1. UNCHANGED state
        BY <3>2, OthersOnlyAsk DEF OwnedInv, RemoveNextPending, ExpiredTaskCount, Await
      <4> QED
        BY <2>2, <3>2, <4>1 DEF Thread
    <3> QED
      BY <3>1, <3>2
  <2>5. (state = "STARTED" \/ tasks # <<>>) /\ pc'[owner] # "create" => Born # {}
    <3>1. pc[owner] # "create" \/ pc'[owner] = "create"
      BY <2>4
    <3> QED
      BY <3>1 DEF Drains
  <2> QED
    BY <1>1, <2>3, <2>4, <2>5 DEF Drains
<1> QED
  BY <1>2, <1>3, <1>4

(* Where one client owns the manager, a call of Add never waits and Start  *)
(* makes at least one worker, Join returns with every accepted task run or *)
(* dropped and every worker gone.                                          *)
THEOREM JoinLeavesNothing ==
  ASSUME NEW owner \in Client, OwnedBy(owner), Cardinality(Worker) <= SizeMax,
         AddersDoNotSleep, InitialWorkers > 0
  PROVE  Spec => []JoinDrains
<1>1. Init => Drains(owner)
  <2> SUFFICES ASSUME Init PROVE Drains(owner)
    OBVIOUS
  <2>1. (\A t \in Thread : pc[t] # "addWait") /\ \A w \in Worker : pc[w] = "unborn"
    BY ThreadsAssumption DEF Init, Thread
  <2> QED
    BY <2>1 DEF Init, Drains, Leaving
<1>2. TypeOK /\ OwnedInv(owner) /\ Drains(owner) /\ [Next]_vars => Drains(owner)'
  <2> SUFFICES ASSUME TypeOK, OwnedInv(owner), Drains(owner), [Next]_vars PROVE Drains(owner)'
    OBVIOUS
  <2>1. ASSUME NEW t \in Thread, ThreadStep(t) PROVE Drains(owner)'
    BY <2>1, AddDrains, WorkerDrains, ClientDrains DEF ThreadStep
  <2>2. CASE Elapse \/ UNCHANGED vars \/ \E t \in Thread : SpuriousWake(t)
    BY <2>2 DEF Elapse, vars, SpuriousWake, queue, Drains, Born, Leaving
  <2> QED
    BY <2>1, <2>2 DEF Next
<1>3. OwnedInv(owner) /\ Drains(owner) /\ TypeOK => JoinDrains
  <2> SUFFICES ASSUME OwnedInv(owner), Drains(owner), TypeOK, state = "STOPPED"
               PROVE  tasks = <<>> /\ \A w \in Worker : pc[w] \in {"unborn", "dead"}
    BY DEF JoinDrains
  <2>1. Counted = {} /\ Born \subseteq Counted \cup Leaving /\ pc[owner] # "create"
    BY DEF OwnedInv, Shrunk, Draining, Outside
  <2>2. \A w \in Worker : pc[w] \in {"unborn", "dead"}
    BY <2>1 DEF Born, Counted, Leaving
  <2>3. tasks = <<>>
    BY <2>1 DEF Drains
  <2> QED
    BY <2>2, <2>3
<1> QED
  BY <1>1, <1>2, <1>3, TypeCorrect, OwnedInvHolds, PTL DEF Spec

====
