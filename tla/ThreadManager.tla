---------------------------- MODULE ThreadManager ----------------------------
(***************************************************************************)
(* The thread pool of threading/thread_manager.cc: SimpleThreadManager on  *)
(* top of ThreadManager::Impl, its Workers and the task queue.             *)
(*                                                                         *)
(* Client threads each run a fixed program of calls (Script); workers are  *)
(* the threads AddWorker creates.  A section executed under mutex_ is one  *)
(* action.  Two sections are split, because the counter they change is     *)
(* guarded by two different mutexes: Worker::Run increments worker_count_  *)
(* under mutex_ and decrements it under the mutex worker_monitor_ owns, so *)
(* each is a load and a later store.  Every unlocked access is an action   *)
(* of its own.                                                             *)
(*                                                                         *)
(* A definition whose name ends in a capital X is a slip that the          *)
(* definition below it could have: TLC must find it out (see README.md).   *)
(***************************************************************************)
EXTENDS Integers, Sequences, FiniteSets

CONSTANTS
  Client,               \* threads of the embedding program
  Worker,               \* identities for the pool's threads, none reused
  Runnable,             \* what can be submitted
  Body,                 \* Body[r]: the Add call r's Run() makes, or NoRequest
  Script,               \* Script[c]: the sequence of calls client c makes
  InitialWorkers,       \* SimpleThreadManager's worker_count_
  MaxPending,           \* SimpleThreadManager's pending_task_count_max_, 0: no maximum
  SizeMax,              \* the largest size_t
  NoRequest, NoTask, NoThread

Thread == Client \cup Worker

(* Add's timeout argument: < 0, = 0 and > 0. *)
Timeout == {"none", "forever", "timed"}

Request == [runnable : Runnable, timeout : Timeout, expires : BOOLEAN]

(* Await is no call on the manager: it is a client waiting for another     *)
(* client to have returned from its first `calls` calls.                   *)
Operation ==
  [op : {"Start", "Stop", "Join", "RemoveNextPending", "ExpiredTaskCount"}]
    \cup [op : {"Add"}, request : Request]
    \cup [op : {"AddWorker", "RemoveWorker"}, value : 0..SizeMax]
    \cup [op : {"Await"}, client : Client, calls : Nat]

ASSUME ThreadsAssumption ==
  /\ IsFiniteSet(Client)
  /\ IsFiniteSet(Worker)
  /\ Client \cap Worker = {}
  /\ NoThread \notin Thread

ASSUME ProgramAssumption ==
  /\ Script \in [Client -> Seq(Operation)]
  /\ Body \in [Runnable -> Request \cup {NoRequest}]
  /\ NoRequest \notin Request

ASSUME SizeAssumption ==
  /\ SizeMax \in Nat
  /\ InitialWorkers \in 0..SizeMax
  /\ MaxPending \in 0..SizeMax

(* A queued task: ids are handed out in the order tasks are pushed. *)
Task == [id : Nat, runnable : Runnable, expires : BOOLEAN]

ASSUME TaskAssumption == NoTask \notin Task

VARIABLES
  state,                  \* ThreadManager::STATE
  tasks,                  \* std::queue<shared_ptr<Task>>
  worker_count,
  worker_max_count,
  idle_count,
  pending_task_count_max,
  expired_count,
  workers, dead_workers, id_map,
  mutex,                  \* holder of mutex_ between two actions, or NoThread
  worker_mutex,           \* holder of worker_monitor_'s own mutex, or NoThread
  monitor,                \* threads asleep on monitor_ that nobody has notified
  max_monitor,            \* the same for max_monitor_
  worker_monitor,         \* the same for worker_monitor_
  pc,                     \* where each thread is
  ip,                     \* index of the call each client is in, or starts next
  value,                  \* the worker_count_ Stop passes to RemoveWorker
  newThreads,             \* threads AddWorker has still to start and register
  held,                   \* the task a worker has popped, or NoTask
  seen,                   \* the worker_count_ a worker has loaded but not stored
  elapsed,                \* ids of queued tasks whose expire_time_ has passed
  accepted,               \* history: number of tasks pushed so far
  begun,                  \* history: ids of tasks some worker popped to run
  dropped                 \* history: ids of tasks expired or taken back

fields == <<pending_task_count_max, expired_count, workers, dead_workers, id_map>>
counts == <<worker_count, worker_max_count, idle_count>>
locks  == <<mutex, worker_mutex>>
conds  == <<monitor, max_monitor, worker_monitor>>
queue  == <<tasks, elapsed, accepted, begun, dropped>>
calls  == <<ip, value, newThreads>>
vars   == <<state, fields, counts, locks, conds, queue, calls, pc, held, seen>>

------------------------------------------------------------------------------
(* Threads and locks.                                                      *)

Goto(t, label) == pc' = [pc EXCEPT ![t] = label]

Call(c) == Script[c][ip[c]]

Calling(c, op) ==
  /\ pc[c] = "ready"
  /\ ip[c] <= Len(Script[c])
  /\ Call(c).op = op

(* Client c's call returns or throws; the script goes on either way. *)
Return(c) ==
  /\ Goto(c, "ready")
  /\ ip' = [ip EXCEPT ![c] = @ + 1]

(* The `value` of the AddWorker or RemoveWorker call client c is in, which *)
(* it makes itself or which Start or Stop makes for it.                    *)
Amount(c) ==
  IF pc[c] = "create" THEN InitialWorkers
  ELSE IF pc[c] = "shrink" THEN value[c]
  ELSE Call(c).value

(* What a condition variable's wait set can become when notified k times. *)
Signalled(waiting, k) ==
  {waiting \ S : S \in {S \in SUBSET waiting :
     Cardinality(S) = IF k < Cardinality(waiting) THEN k ELSE Cardinality(waiting)}}

MutexFree == mutex = NoThread
WorkerMutexFree == worker_mutex = NoThread

(* size_t arithmetic. *)
Plus(m, n) == IF m + n > SizeMax THEN m + n - (SizeMax + 1) ELSE m + n
Decrement(n) == IF n = 0 THEN SizeMax ELSE n - 1

------------------------------------------------------------------------------
(* The queue.                                                              *)

Expired(task) == task.expires /\ task.id \in elapsed

(* RemoveExpiredTasks drops the first n tasks: it stops at the first task  *)
(* that does not expire or whose time has not come.                        *)
RemovesExpired(n) ==
  /\ \A i \in 1..n : Expired(tasks[i])
  /\ n < Len(tasks) => ~Expired(tasks[n + 1])

Without(n) == SubSeq(tasks, n + 1, Len(tasks))

FirstIds(n) == {tasks[i].id : i \in 1..n}

DropExpired(n) ==
  /\ expired_count' = expired_count + n
  /\ dropped' = dropped \cup FirstIds(n)

FullX(s) == pending_task_count_max > 0 /\ Len(s) > pending_task_count_max

Full(s) == pending_task_count_max > 0 /\ Len(s) >= pending_task_count_max

(* There is room again for an adder asleep on max_monitor_. *)
RoomX == pending_task_count_max # 0 /\ Len(tasks') < pending_task_count_max - 1

Room == pending_task_count_max # 0 /\ Len(tasks') <= pending_task_count_max - 1

(* The wrong condition variable is notified. *)
PushQuietX(request, rest) ==
  /\ tasks' = Append(rest, [id       |-> accepted + 1,
                            runnable |-> request.runnable,
                            expires  |-> request.expires])
  /\ accepted' = accepted + 1
  /\ UNCHANGED monitor

(* The newest task goes first. *)
PushFrontX(request, rest) ==
  /\ tasks' = <<[id |-> accepted + 1, runnable |-> request.runnable,
                 expires |-> request.expires]>> \o rest
  /\ accepted' = accepted + 1
  /\ monitor' \in Signalled(monitor, IF idle_count > 0 THEN 1 ELSE 0)

Push(request, rest) ==
  /\ tasks' = Append(rest, [id       |-> accepted + 1,
                            runnable |-> request.runnable,
                            expires  |-> request.expires])
  /\ accepted' = accepted + 1
  /\ monitor' \in Signalled(monitor, IF idle_count > 0 THEN 1 ELSE 0)

(* Time passes: the deadline of a queued task goes by. *)
Elapse ==
  /\ \E i \in DOMAIN tasks :
       /\ tasks[i].expires
       /\ tasks[i].id \notin elapsed
       /\ elapsed' = elapsed \cup {tasks[i].id}
  /\ UNCHANGED <<state, fields, counts, locks, conds, tasks, accepted, begun, dropped,
                 calls, pc, held, seen>>

------------------------------------------------------------------------------
(* Add, called by a client or by a task's Run() on a worker.               *)

AtAdd(t) ==
  IF t \in Client
  THEN Calling(t, "Add")
  ELSE pc[t] = "body" /\ Body[held[t].runnable] # NoRequest

RequestOf(t) == IF t \in Client THEN Call(t).request ELSE Body[held[t].runnable]

(* Add returns or throws: a client goes on with its script, a worker is    *)
(* back in Worker::Run, which swallows whatever Run() throws.              *)
LeaveAdd(t) ==
  IF t \in Client
  THEN Return(t) /\ UNCHANGED held
  ELSE /\ Goto(t, "loop")
       /\ held' = [held EXCEPT ![t] = NoTask]
       /\ UNCHANGED ip

CanSleep(t) == t \notin id_map

(* Guard g(mutex_, timeout) gives up: some other thread has the mutex.     *)
AddLockFails(t) ==
  /\ AtAdd(t)
  /\ RequestOf(t).timeout # "forever"
  /\ LeaveAdd(t)
  /\ UNCHANGED <<state, fields, counts, locks, conds, queue, value, newThreads, seen>>

AddRejected(t) ==
  /\ AtAdd(t)
  /\ MutexFree
  /\ state # "STARTED"
  /\ LeaveAdd(t)
  /\ UNCHANGED <<state, fields, counts, locks, conds, queue, value, newThreads, seen>>

AddToFull(t, n) ==
  /\ Full(Without(n))
  /\ tasks' = Without(n)
  /\ IF CanSleep(t) /\ RequestOf(t).timeout # "none"
     THEN /\ max_monitor' = max_monitor \cup {t}
          /\ Goto(t, "addWait")
          /\ UNCHANGED <<held, ip>>
     ELSE LeaveAdd(t) /\ UNCHANGED max_monitor
  /\ UNCHANGED <<accepted, monitor>>

AddToSpace(t, n) ==
  /\ ~Full(Without(n))
  /\ Push(RequestOf(t), Without(n))
  /\ LeaveAdd(t)
  /\ UNCHANGED max_monitor

Add(t) ==
  /\ AtAdd(t)
  /\ MutexFree
  /\ state = "STARTED"
  /\ \E n \in 0..Len(tasks) :
       /\ RemovesExpired(n)
       /\ DropExpired(n)
       /\ AddToFull(t, n) \/ AddToSpace(t, n)
  /\ UNCHANGED <<state, pending_task_count_max, workers, dead_workers, id_map, counts,
                 locks, worker_monitor, elapsed, begun, value, newThreads, seen>>

(* Back from max_monitor_.Wait: the loop tests the queue again, and only   *)
(* the queue; state_ is not looked at a second time.                       *)
AddResume(t) ==
  /\ pc[t] = "addWait"
  /\ t \notin max_monitor
  /\ MutexFree
  /\ IF Full(tasks)
     THEN /\ max_monitor' = max_monitor \cup {t}
          /\ UNCHANGED <<tasks, accepted, monitor, pc, held, ip>>
     ELSE /\ Push(RequestOf(t), tasks)
          /\ LeaveAdd(t)
          /\ UNCHANGED max_monitor
  /\ UNCHANGED <<state, fields, counts, locks, worker_monitor, elapsed, begun, dropped,
                 value, newThreads, seen>>

AddTimesOut(t) ==
  /\ pc[t] = "addWait"
  /\ t \in max_monitor
  /\ RequestOf(t).timeout = "timed"
  /\ MutexFree
  /\ max_monitor' = max_monitor \ {t}
  /\ LeaveAdd(t)
  /\ UNCHANGED <<state, fields, counts, locks, monitor, worker_monitor, queue, value,
                 newThreads, seen>>

------------------------------------------------------------------------------
(* Worker::Run.                                                            *)

IsActiveX == worker_count <= worker_max_count

IsActive ==
  \/ worker_count <= worker_max_count
  \/ state = "JOINING" /\ tasks # <<>>

(* The first section: count this worker in, unless the maximum is reached. *)
(* A worker that finds it reached skips the loop, not the count down.      *)
WorkerEnter(w) ==
  /\ pc[w] = "entry"
  /\ MutexFree
  /\ IF worker_count < worker_max_count
     THEN /\ mutex' = w
          /\ seen' = [seen EXCEPT ![w] = worker_count]
          /\ Goto(w, "countIn")
     ELSE /\ Goto(w, "exit")
          /\ UNCHANGED <<mutex, seen>>
  /\ UNCHANGED <<state, fields, counts, worker_mutex, conds, queue, calls, held>>

WorkerCountIn(w) ==
  /\ pc[w] = "countIn"
  /\ worker_count' = Plus(seen[w], 1)
  /\ mutex' = NoThread
  /\ Goto(w, IF worker_count' = worker_max_count THEN "announce" ELSE "loop")
  /\ UNCHANGED <<state, fields, worker_max_count, idle_count, worker_mutex, conds, queue,
                 calls, held, seen>>

WorkerAnnounce(w) ==
  /\ pc[w] = "announce"
  /\ WorkerMutexFree
  /\ worker_monitor' \in Signalled(worker_monitor, 1)
  /\ Goto(w, "loop")
  /\ UNCHANGED <<state, fields, counts, locks, monitor, max_monitor, queue, calls, held, seen>>

(* Three ways on from a test of IsActive() under mutex_, for a worker that *)
(* comes from its last task (was = 0) or out of monitor_.Wait() (was = 1). *)
Sleep(w, was) ==
  /\ IsActive
  /\ tasks = <<>>
  /\ idle_count' = (idle_count - was) + 1
  /\ monitor' = monitor \cup {w}
  /\ Goto(w, "idle")
  /\ UNCHANGED <<expired_count, max_monitor, tasks, begun, dropped, held>>

(* The loop is left before idle_count_ is decremented. *)
GiveUpX(w, was) ==
  /\ ~IsActive
  /\ Goto(w, "exit")
  /\ UNCHANGED <<idle_count, expired_count, monitor, max_monitor, tasks, begun, dropped, held>>

GiveUp(w, was) ==
  /\ ~IsActive
  /\ idle_count' = idle_count - was
  /\ Goto(w, "exit")
  /\ UNCHANGED <<expired_count, monitor, max_monitor, tasks, begun, dropped, held>>

(* front() without pop(). *)
PopX(w, n) ==
  /\ tasks' = Without(n)
  /\ held' = [held EXCEPT ![w] = tasks[n + 1]]
  /\ begun' = begun \cup {tasks[n + 1].id}

Pop(w, n) ==
  /\ tasks' = Without(n + 1)
  /\ held' = [held EXCEPT ![w] = tasks[n + 1]]
  /\ begun' = begun \cup {tasks[n + 1].id}

TakeTask(w, was) ==
  /\ IsActive
  /\ tasks # <<>>
  /\ idle_count' = idle_count - was
  /\ \E n \in 0..Len(tasks) :
       /\ RemovesExpired(n)
       /\ DropExpired(n)
       /\ IF n < Len(tasks)
          THEN Pop(w, n) /\ Goto(w, "body")
          ELSE /\ tasks' = <<>>
               /\ Goto(w, "loop")
               /\ UNCHANGED <<held, begun>>
  /\ max_monitor' \in Signalled(max_monitor, IF Room THEN 1 ELSE 0)
  /\ UNCHANGED monitor

WorkerTest(w, was) ==
  /\ MutexFree
  /\ Sleep(w, was) \/ GiveUp(w, was) \/ TakeTask(w, was)
  /\ UNCHANGED <<state, pending_task_count_max, workers, dead_workers, id_map, worker_count,
                 worker_max_count, locks, worker_monitor, elapsed, accepted, calls, seen>>

WorkerLoop(w) == pc[w] = "loop" /\ WorkerTest(w, 0)

WorkerWake(w) == pc[w] = "idle" /\ w \notin monitor /\ WorkerTest(w, 1)

(* The task's Run() ends, normally or with an exception Run swallows.      *)
RunTask(w) ==
  /\ pc[w] = "body"
  /\ Body[held[w].runnable] = NoRequest
  /\ held' = [held EXCEPT ![w] = NoTask]
  /\ Goto(w, "loop")
  /\ UNCHANGED <<state, fields, counts, locks, conds, queue, calls, seen>>

WorkerExit(w) ==
  /\ pc[w] = "exit"
  /\ WorkerMutexFree
  /\ worker_mutex' = w
  /\ dead_workers' = dead_workers \cup {w}
  /\ seen' = [seen EXCEPT ![w] = worker_count]
  /\ Goto(w, "countOut")
  /\ UNCHANGED <<state, pending_task_count_max, expired_count, workers, id_map, counts, mutex,
                 conds, queue, calls, held>>

(* Notified before the decrement. *)
WorkerCountOutX(w) ==
  /\ pc[w] = "countOut"
  /\ worker_count' = Decrement(seen[w])
  /\ worker_monitor' \in
       Signalled(worker_monitor, IF seen[w] = worker_max_count THEN 1 ELSE 0)
  /\ worker_mutex' = NoThread
  /\ Goto(w, "dead")
  /\ UNCHANGED <<state, fields, worker_max_count, idle_count, mutex, monitor, max_monitor, queue,
                 calls, held, seen>>

WorkerCountOut(w) ==
  /\ pc[w] = "countOut"
  /\ worker_count' = Decrement(seen[w])
  /\ worker_monitor' \in
       Signalled(worker_monitor, IF worker_count' = worker_max_count THEN 1 ELSE 0)
  /\ worker_mutex' = NoThread
  /\ Goto(w, "dead")
  /\ UNCHANGED <<state, fields, worker_max_count, idle_count, mutex, monitor, max_monitor, queue,
                 calls, held, seen>>

------------------------------------------------------------------------------
(* Start and AddWorker.                                                    *)

(* The thread factory is set before any other call, as the tests do.       *)
StartConfigure(c) ==
  /\ Calling(c, "Start")
  /\ MutexFree
  /\ pending_task_count_max' = MaxPending
  /\ Goto(c, "startTest")
  /\ UNCHANGED <<state, expired_count, workers, dead_workers, id_map, counts, locks, conds, queue,
                 calls, held, seen>>

(* The first test reads state_ with no lock.  STOPPED makes Impl::Start    *)
(* return; SimpleThreadManager::Start goes on to AddWorker all the same.   *)
StartTest(c) ==
  /\ pc[c] = "startTest"
  /\ Goto(c, IF state = "STOPPED" THEN "create" ELSE "startSet")
  /\ UNCHANGED <<state, fields, counts, locks, conds, queue, calls, held, seen>>

(* state_ is not tested again under the mutex. *)
StartSetX(c) ==
  /\ pc[c] = "startSet"
  /\ MutexFree
  /\ state' = "STARTED" /\ monitor' = {}
  /\ Goto(c, "create")
  /\ UNCHANGED <<fields, counts, locks, max_monitor, worker_monitor, queue, calls, held, seen>>

StartSet(c) ==
  /\ pc[c] = "startSet"
  /\ MutexFree
  /\ IF state = "UNINITIALIZED"
     THEN state' = "STARTED" /\ monitor' = {}
     ELSE UNCHANGED <<state, monitor>>
  /\ Goto(c, "create")
  /\ UNCHANGED <<fields, counts, locks, max_monitor, worker_monitor, queue, calls, held, seen>>

AtAddWorker(c) == pc[c] = "create" \/ Calling(c, "AddWorker")

(* Bounded by Worker: enough identities must be unused. *)
AddWorkerCreate(c) ==
  /\ AtAddWorker(c)
  /\ MutexFree
  /\ worker_max_count' = Plus(worker_max_count, Amount(c))
  /\ \E S \in SUBSET {w \in Worker : pc[w] = "unborn"} :
       /\ Cardinality(S) = Amount(c)
       /\ workers' = workers \cup S
       /\ newThreads' = [newThreads EXCEPT ![c] = S]
       /\ pc' = [t \in Thread |-> IF t \in S THEN "created"
                                  ELSE IF t = c THEN "spawn" ELSE pc[t]]
  /\ UNCHANGED <<state, pending_task_count_max, expired_count, dead_workers, id_map, worker_count,
                 idle_count, locks, conds, queue, ip, value, held, seen>>

(* Thread::Start: the thread runs from here on, before it is in id_map_.   *)
AddWorkerSpawn(c, w) ==
  /\ pc[c] = "spawn"
  /\ w \in newThreads[c]
  /\ pc[w] = "created"
  /\ pc' = [pc EXCEPT ![w] = "entry", ![c] = "register"]
  /\ UNCHANGED <<state, fields, counts, locks, conds, queue, calls, held, seen>>

(* id_map_.insert, with no lock. *)
AddWorkerRegister(c, w) ==
  /\ pc[c] = "register"
  /\ w \in newThreads[c]
  /\ pc[w] # "created"
  /\ id_map' = id_map \cup {w}
  /\ newThreads' = [newThreads EXCEPT ![c] = @ \ {w}]
  /\ Goto(c, "spawn")
  /\ UNCHANGED <<state, pending_task_count_max, expired_count, workers, dead_workers, counts, locks,
                 conds, queue, ip, value, held, seen>>

(* while (worker_count_ != worker_max_count_) worker_monitor_.Wait()       *)
AtSettle(c) ==
  \/ pc[c] = "spawn" /\ newThreads[c] = {}
  \/ pc[c] = "settleWait" /\ c \notin worker_monitor

AddWorkerWait(c) ==
  /\ AtSettle(c)
  /\ WorkerMutexFree
  /\ worker_count # worker_max_count
  /\ worker_monitor' = worker_monitor \cup {c}
  /\ Goto(c, "settleWait")
  /\ UNCHANGED <<state, fields, counts, locks, monitor, max_monitor, queue, calls, held, seen>>

AddWorkerReturn(c) ==
  /\ AtSettle(c)
  /\ WorkerMutexFree
  /\ worker_count = worker_max_count
  /\ Return(c)
  /\ UNCHANGED <<state, fields, counts, locks, conds, queue, value, newThreads, held, seen>>

------------------------------------------------------------------------------
(* RemoveWorker, Stop and Join.                                            *)

AtRemoveWorker(c) == pc[c] = "shrink" \/ Calling(c, "RemoveWorker")

Stopping(c) == Call(c).op \in {"Stop", "Join"}

(* Whether RemoveWorker has that many workers to remove. *)
EnoughX(c) == TRUE

Enough(c) == Amount(c) <= worker_max_count

(* Whom RemoveWorker wakes on monitor_. *)
RousedX(c) == IF idle_count < Amount(c) THEN Signalled(monitor, idle_count) ELSE Signalled(monitor, 1)

Roused(c) == IF idle_count < Amount(c) THEN Signalled(monitor, idle_count) ELSE {{}}

(* InvalidArgumentException: it leaves StopImpl too, with state_ as is.    *)
RemoveWorkerInvalid(c) ==
  /\ AtRemoveWorker(c)
  /\ MutexFree
  /\ ~Enough(c)
  /\ Return(c)
  /\ UNCHANGED <<state, fields, counts, locks, conds, queue, value, newThreads, held, seen>>

RemoveWorkerShrink(c) ==
  /\ AtRemoveWorker(c)
  /\ MutexFree
  /\ Enough(c)
  /\ worker_max_count' = worker_max_count - Amount(c)
  /\ monitor' \in Roused(c)
  /\ Goto(c, "reap")
  /\ UNCHANGED <<state, fields, worker_count, idle_count, locks, max_monitor, worker_monitor, queue,
                 calls, held, seen>>

AtReap(c) == pc[c] = "reap" \/ (pc[c] = "reapWait" /\ c \notin worker_monitor)

RemoveWorkerWait(c) ==
  /\ AtReap(c)
  /\ WorkerMutexFree
  /\ worker_count # worker_max_count
  /\ worker_monitor' = worker_monitor \cup {c}
  /\ Goto(c, "reapWait")
  /\ UNCHANGED <<state, fields, counts, locks, monitor, max_monitor, queue, calls, held, seen>>

RemoveWorkerReap(c) ==
  /\ AtReap(c)
  /\ WorkerMutexFree
  /\ worker_count = worker_max_count
  /\ id_map' = id_map \ dead_workers
  /\ workers' = workers \ dead_workers
  /\ dead_workers' = {}
  /\ IF Stopping(c) THEN Goto(c, "stopSet") /\ UNCHANGED ip ELSE Return(c)
  /\ UNCHANGED <<state, pending_task_count_max, expired_count, counts, locks, conds, queue, value,
                 newThreads, held, seen>>

AtStop(c) == Calling(c, "Stop") \/ Calling(c, "Join")

(* The first test reads state_ with no lock. *)
StopTest(c) ==
  /\ AtStop(c)
  /\ IF state = "STOPPED" THEN Return(c) ELSE Goto(c, "stopBegin") /\ UNCHANGED ip
  /\ UNCHANGED <<state, fields, counts, locks, conds, queue, value, newThreads, held, seen>>

StopBegin(c) ==
  /\ pc[c] = "stopBegin"
  /\ MutexFree
  /\ IF state \notin {"STOPPING", "JOINING", "STOPPED"}
     THEN /\ state' = IF Call(c).op = "Join" THEN "JOINING" ELSE "STOPPING"
          /\ Goto(c, "stopCount")
     ELSE Goto(c, "stopSet") /\ UNCHANGED state
  /\ UNCHANGED <<fields, counts, locks, conds, queue, calls, held, seen>>

(* RemoveWorker(worker_count_): the argument is read with no lock.         *)
StopCount(c) ==
  /\ pc[c] = "stopCount"
  /\ value' = [value EXCEPT ![c] = worker_count]
  /\ Goto(c, "shrink")
  /\ UNCHANGED <<state, fields, counts, locks, conds, queue, ip, newThreads, held, seen>>

StopSet(c) ==
  /\ pc[c] = "stopSet"
  /\ MutexFree
  /\ state' = "STOPPED"
  /\ Return(c)
  /\ UNCHANGED <<fields, counts, locks, conds, queue, value, newThreads, held, seen>>

------------------------------------------------------------------------------
(* RemoveNextPending, ExpiredTaskCount, and the embedding program.         *)

(* The task is handed back and stays queued. *)
RemoveNextPendingX(c) ==
  /\ Calling(c, "RemoveNextPending")
  /\ MutexFree
  /\ IF state = "STARTED" /\ tasks # <<>>
     THEN dropped' = dropped \cup {Head(tasks).id}
     ELSE UNCHANGED dropped
  /\ Return(c)
  /\ UNCHANGED <<state, fields, counts, locks, conds, tasks, elapsed, accepted, begun, value,
                 newThreads, held, seen>>

RemoveNextPending(c) ==
  /\ Calling(c, "RemoveNextPending")
  /\ MutexFree
  /\ IF state = "STARTED" /\ tasks # <<>>
     THEN /\ tasks' = Tail(tasks)
          /\ dropped' = dropped \cup {Head(tasks).id}
     ELSE UNCHANGED <<tasks, dropped>>
  /\ Return(c)
  /\ UNCHANGED <<state, fields, counts, locks, conds, elapsed, accepted, begun, value, newThreads,
                 held, seen>>

ExpiredTaskCount(c) ==
  /\ Calling(c, "ExpiredTaskCount")
  /\ MutexFree
  /\ expired_count' = 0
  /\ Return(c)
  /\ UNCHANGED <<state, pending_task_count_max, workers, dead_workers, id_map, counts, locks, conds,
                 queue, value, newThreads, held, seen>>

Await(c) ==
  /\ Calling(c, "Await")
  /\ ip[Call(c).client] > Call(c).calls
  /\ Return(c)
  /\ UNCHANGED <<state, fields, counts, locks, conds, queue, value, newThreads, held, seen>>

(* pthread_cond_wait may return with nobody having signalled.              *)
SpuriousWake(t) ==
  /\ \/ t \in monitor /\ monitor' = monitor \ {t} /\ UNCHANGED <<max_monitor, worker_monitor>>
     \/ t \in max_monitor /\ max_monitor' = max_monitor \ {t}
        /\ UNCHANGED <<monitor, worker_monitor>>
     \/ t \in worker_monitor /\ worker_monitor' = worker_monitor \ {t}
        /\ UNCHANGED <<monitor, max_monitor>>
  /\ UNCHANGED <<state, fields, counts, locks, queue, calls, pc, held, seen>>

------------------------------------------------------------------------------
Init ==
  /\ state = "UNINITIALIZED"
  /\ tasks = <<>>
  /\ worker_count = 0
  /\ worker_max_count = 0
  /\ idle_count = 0
  /\ pending_task_count_max = 0
  /\ expired_count = 0
  /\ workers = {} /\ dead_workers = {} /\ id_map = {}
  /\ mutex = NoThread /\ worker_mutex = NoThread
  /\ monitor = {} /\ max_monitor = {} /\ worker_monitor = {}
  /\ pc = [t \in Thread |-> IF t \in Client THEN "ready" ELSE "unborn"]
  /\ ip = [c \in Client |-> 1]
  /\ value = [c \in Client |-> 0]
  /\ newThreads = [c \in Client |-> {}]
  /\ held = [w \in Worker |-> NoTask]
  /\ seen = [w \in Worker |-> 0]
  /\ elapsed = {}
  /\ accepted = 0
  /\ begun = {}
  /\ dropped = {}

AddStep(t) ==
  AddLockFails(t) \/ AddRejected(t) \/ Add(t) \/ AddResume(t) \/ AddTimesOut(t)

WorkerStep(w) ==
  \/ WorkerEnter(w) \/ WorkerCountIn(w) \/ WorkerAnnounce(w)
  \/ WorkerLoop(w) \/ WorkerWake(w) \/ RunTask(w)
  \/ WorkerExit(w) \/ WorkerCountOut(w)

AddWorkerStep(c) ==
  \/ AddWorkerCreate(c)
  \/ \E w \in Worker : AddWorkerSpawn(c, w) \/ AddWorkerRegister(c, w)
  \/ AddWorkerWait(c) \/ AddWorkerReturn(c)

RemoveWorkerStep(c) ==
  \/ RemoveWorkerInvalid(c) \/ RemoveWorkerShrink(c)
  \/ RemoveWorkerWait(c) \/ RemoveWorkerReap(c)

ClientStep(c) ==
  \/ StartConfigure(c) \/ StartTest(c) \/ StartSet(c)
  \/ AddWorkerStep(c) \/ RemoveWorkerStep(c)
  \/ StopTest(c) \/ StopBegin(c) \/ StopCount(c) \/ StopSet(c)
  \/ RemoveNextPending(c) \/ ExpiredTaskCount(c) \/ Await(c)

ThreadStep(t) ==
  \/ AddStep(t)
  \/ t \in Worker /\ WorkerStep(t)
  \/ t \in Client /\ ClientStep(t)

Next ==
  \/ \E t \in Thread : ThreadStep(t) \/ SpuriousWake(t)
  \/ Elapse

Spec == Init /\ [][Next]_vars

(* Every thread the scheduler can run, runs.  Spurious wake-ups and the    *)
(* passing of a task's deadline are not obliged to happen.                 *)
FairSpec == Spec /\ \A t \in Thread : WF_vars(ThreadStep(t))
==============================================================================
