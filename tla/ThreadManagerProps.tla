-------------------------- MODULE ThreadManagerProps --------------------------
(***************************************************************************)
(* What is asked of threading/thread_manager.cc, as modelled in            *)
(* ThreadManager.                                                          *)
(***************************************************************************)
EXTENDS ThreadManager

ClientLabel ==
  {"ready", "startTest", "startSet", "create", "spawn", "register", "settleWait", "shrink",
   "reap", "reapWait", "stopBegin", "stopCount", "stopSet", "addWait"}

WorkerLabel ==
  {"unborn", "created", "entry", "countIn", "announce", "loop", "idle", "body", "addWait",
   "exit", "countOut", "dead"}

PcOK ==
  /\ pc \in [Thread -> ClientLabel \cup WorkerLabel]
  /\ \A c \in Client : pc[c] \in ClientLabel
  /\ \A w \in Worker : pc[w] \in WorkerLabel

(* A thread inside Add has a request to submit, and a worker running a     *)
(* task has that task.                                                     *)
LocalsOK ==
  /\ \A w \in Worker :
       /\ pc[w] \in {"body", "addWait"} => held[w] \in Task
       /\ pc[w] = "addWait" => Body[held[w].runnable] # NoRequest
  /\ \A c \in Client :
       pc[c] = "addWait" => ip[c] <= Len(Script[c]) /\ Call(c).op = "Add"

(* The fields of the manager and the locals of its threads keep their      *)
(* types; in particular worker_count_ stays a size_t.                      *)
FieldsOK ==
  /\ state \in {"UNINITIALIZED", "STARTED", "JOINING", "STOPPING", "STOPPED"}
  /\ tasks \in Seq(Task)
  /\ worker_count \in 0..SizeMax
  /\ worker_max_count \in 0..SizeMax
  /\ idle_count \in Int
  /\ pending_task_count_max \in {0, MaxPending}
  /\ expired_count \in Nat
  /\ workers \subseteq Worker /\ dead_workers \subseteq Worker /\ id_map \subseteq Worker
  /\ mutex \in Worker \cup {NoThread}
  /\ worker_mutex \in Worker \cup {NoThread}
  /\ monitor \subseteq Worker /\ max_monitor \subseteq Thread /\ worker_monitor \subseteq Client
  /\ ip \in [Client -> Nat \ {0}]
  /\ value \in [Client -> 0..SizeMax]
  /\ newThreads \in [Client -> SUBSET Worker]
  /\ held \in [Worker -> Task \cup {NoTask}]
  /\ seen \in [Worker -> 0..SizeMax]
  /\ elapsed \subseteq Nat
  /\ accepted \in Nat
  /\ begun \subseteq Nat
  /\ dropped \subseteq Nat

TypeOK == FieldsOK /\ PcOK /\ LocalsOK

IdleWorkers == {w \in Worker : pc[w] = "idle"}

(* idle_count_, which Add and RemoveWorker consult to decide whom to wake, *)
(* is exactly the number of workers inside monitor_.Wait(), those already  *)
(* notified and not yet running included.                                  *)
IdleCountExact == idle_count = Cardinality(IdleWorkers)

(* The queue is first in, first out and holds no task twice: it is always  *)
(* the last Len(tasks) accepted tasks, oldest first.                       *)
QueueIsSuffix == \A i \in 1..Len(tasks) : tasks[i].id = accepted - Len(tasks) + i

(* Every accepted task is in exactly one place: still queued, popped to be *)
(* run, or dropped (expired or taken back by RemoveNextPending).           *)
EachTaskOnce ==
  /\ begun \cap dropped = {}
  /\ begun \cup dropped = 1..(accepted - Len(tasks))

(* A task in a worker's hands was begun, and none is in the hands of two.  *)
NoTaskShared ==
  /\ \A w \in Worker : held[w] # NoTask => held[w].id \in begun
  /\ \A v, w \in Worker :
       v # w /\ held[v] # NoTask /\ held[w] # NoTask => held[v].id # held[w].id

(* Nothing is queued, and nobody is on the way to STARTED, before Start    *)
(* has set the queue's bound.                                              *)
BoundSetFirst ==
  \/ pending_task_count_max = MaxPending
  \/ /\ state # "STARTED"
     /\ tasks = <<>>
     /\ \A t \in Thread : pc[t] \notin {"startTest", "startSet", "addWait"}

(* pendingTaskCountMax bounds the queue whatever the interleaving of the   *)
(* adders that were asleep, woken together or woken for nothing.           *)
QueueBounded == pending_task_count_max > 0 => Len(tasks) <= pending_task_count_max

(* A woken worker that has been told about work but has not yet seen it.   *)
Coming == {w \in Worker : pc[w] \in {"countIn", "announce", "loop", "body", "addWait"}
                          \/ (pc[w] = "idle" /\ w \notin monitor)}

(* No lost wake-up: while tasks wait and some worker sleeps un-notified,   *)
(* another worker is awake and will look at the queue.                     *)
NoStrandedTask == tasks # <<>> /\ monitor # {} => Coming # {}

(* A worker sleeps un-notified only while the pool is within its maximum:  *)
(* RemoveWorker leaves nobody asleep who should go.                        *)
NoSurplusSleeper == monitor # {} => worker_count <= worker_max_count

CallsOf(c) == {Script[c][i].op : i \in DOMAIN Script[c]}

(* A program whose manager one client, `owner`, starts, enlarges and in    *)
(* the end joins; nobody calls Stop or RemoveWorker, and everyone else     *)
(* only submits tasks, takes them back and asks.                           *)
OwnedBy(owner) ==
  /\ \A c \in Client \ {owner} :
       CallsOf(c) \cap {"Start", "AddWorker", "RemoveWorker", "Stop", "Join"} = {}
  /\ CallsOf(owner) \cap {"RemoveWorker", "Stop"} = {}
  /\ \A i, j \in DOMAIN Script[owner] :
       i < j /\ Script[owner][i].op = "Join" => Script[owner][j].op \notin {"Start", "AddWorker"}

(* No call of Add waits for room in the queue. *)
AddersDoNotSleep ==
  \/ MaxPending = 0
  \/ /\ \A c \in Client : \A i \in DOMAIN Script[c] :
          Script[c][i].op = "Add" => Script[c][i].request.timeout = "none"
     /\ \A r \in Runnable : Body[r] # NoRequest => Body[r].timeout = "none"

(* When nobody but one Join call takes workers away and adders never have  *)
(* to sleep, STOPPED means that every accepted task was run to the end or  *)
(* dropped and that no worker is left.                                     *)
JoinDrains ==
  state = "STOPPED" =>
    /\ tasks = <<>>
    /\ \A w \in Worker : pc[w] \in {"unborn", "dead"}

(* Every client gets through its script: no call on the manager hangs.     *)
EveryCallReturns == <>(\A c \in Client : ip[c] > Len(Script[c]))

(* A task Add has accepted is begun or dropped in the end.                 *)
AcceptedTaskIsServed == []<>(tasks = <<>>)

(* state_ only moves forward, however Start, Stop and Join race: a stopped *)
(* manager is never started again and one that stops never reopens Add.    *)
Rank(s) ==
  CASE s = "UNINITIALIZED" -> 0
    [] s = "STARTED" -> 1
    [] s \in {"JOINING", "STOPPING"} -> 2
    [] s = "STOPPED" -> 3

LifecycleForward == [][Rank(state) < Rank(state')]_state

(* The comment in Worker::Run (thread_manager.cc:214-217) on a worker that *)
(* finds the maximum exceeded: "eventually the manager will see it".  The  *)
(* manager is the thread inside RemoveWorker, waiting for its workers.     *)
RemoveWorkerReturns ==
  \A c \in Client : pc[c] \in {"reap", "reapWait"} ~> pc[c] \notin {"reap", "reapWait"}

(* thread_manager.h:60-62 of Join: "it will block until all the workers    *)
(* have finished their work.  At that point the ThreadManager will         *)
(* transition into the STOPPED state."                                     *)
StoppedMeansFinished ==
  state = "STOPPED" => \A w \in Worker : pc[w] \notin {"body", "addWait"}

(* thread_manager.h:113 of Add: "Adds a task to be executed at some time   *)
(* in the future by a worker thread."  Nothing stops the manager but Join, *)
(* which does not abort tasks, and no task expires or is taken back.       *)
AddedTaskIsExecuted ==
  \A id \in 1..2 : accepted >= id ~> id \in begun

(* The queue behaves as the header says, through every interleaving.       *)
Queue == INSTANCE TaskQueue WITH
  Bound   <- MaxPending,
  pending <- [i \in 1..Len(tasks) |-> tasks[i].id]

ImplementsTaskQueue == Queue!QueueSpec
==============================================================================
