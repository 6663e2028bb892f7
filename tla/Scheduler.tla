----------------------------- MODULE Scheduler ------------------------------
(***************************************************************************)
(* The thread pool of src/scheduler/scheduler.c: a main thread that        *)
(* creates the workers, plans the tasks, queues them, waits for them and   *)
(* shuts the pool down, and workers that take tasks from the queue.  Every *)
(* step is one access, or one critical section, of one thread; the threads *)
(* interleave.  A thread that holds a mutex does in one step only what no  *)
(* other thread can tell apart; accesses without the mutex (shutdown,      *)
(* completed_tasks, var_access_owner) are steps of their own.              *)
(*                                                                         *)
(* Abstracted: what a task computes (it is the list of the globals that    *)
(* its instructions load and store), its VM, and the JIT: a task runs at   *)
(* most once (RunOnce), so exec_count never reaches JIT_HOT_THRESHOLD and  *)
(* the native path is not taken.  build_execution_plan never fills         *)
(* dependencies_count, so every task is ready from the start and the scan  *)
(* that ends a worker's round (scheduler.c:279-297) finds nothing to do.   *)
(***************************************************************************)
EXTENDS Integers, Sequences, FiniteSets

CONSTANTS
  NumWorkers,      (* worker_count                                          *)
  NumTasks,        (* parallelizable statements of the CFG                  *)
  Var,             (* globals, of the first 100 that the scheduler tracks   *)
  Accesses,        (* Accesses[t]: the globals of t's instructions, in order*)
  CreateMayFail,   (* whether pthread_create may fail                       *)
  MaxExecutes,     (* bound: calls of scheduler_execute                     *)
  MaxSpurious      (* bound: spurious wakeups, which POSIX allows           *)

Worker == 1 .. NumWorkers
Task   == 1 .. NumTasks

ASSUME CountsAssumption ==
  /\ NumWorkers \in Nat \ {0}
  /\ NumTasks \in Nat
  /\ MaxExecutes \in Nat
  /\ MaxSpurious \in Nat
  /\ CreateMayFail \in BOOLEAN
ASSUME AccessesAssumption == Accesses \in [Task -> Seq(Var)]

MaxCounted == MaxExecutes * NumTasks    \* so often may a task be taken

NoTask == 0     \* -1 in var_access_owner
NoOne  == 0     \* the owner of a mutex nobody holds

VARIABLES
  ready_queue,        \* a stack of task ids: the last one is taken first
  queue_mutex,        \* its holder
  shutdown,
  completed_tasks,
  completed,          \* task->completed
  exec_count,         \* task->exec_count
  task_mutex,         \* task->mutex: its holder
  conflict_detected,
  var_access_owner,   \* the task that accessed each global last
  freed,              \* the structure has been freed
  main,               \* where the main thread is
  next,               \* the main thread's loop index
  executes,           \* calls of scheduler_execute made
  pc,                 \* where each worker is
  current,            \* the task each worker took
  access,             \* the access each worker is checking
  spurious            \* spurious wakeups so far

queueVars    == <<ready_queue, queue_mutex>>
taskVars     == <<completed, exec_count, task_mutex>>
conflictVars == <<conflict_detected, var_access_owner>>
mainVars     == <<main, next, executes>>
workerVars   == <<pc, current, access, spurious>>
vars == <<queueVars, shutdown, completed_tasks, taskVars, conflictVars, freed,
          mainVars, workerVars>>

MainPC ==
  {"create", "create_failed", "idle", "enqueue", "poll", "executed",
   "broadcast", "join", "ended"}
WorkerPC ==
  {"none", "lock", "test", "to_wait", "waiting", "test_shutdown", "lock_task",
   "check", "claim", "count", "exited"}

TypeOK ==
  /\ ready_queue \in Seq(Task)
  /\ queue_mutex \in Worker \cup {NoOne}
  /\ shutdown \in BOOLEAN
  /\ completed_tasks \in 0 .. MaxCounted
  /\ completed \in [Task -> BOOLEAN]
  /\ exec_count \in [Task -> Nat]
  /\ task_mutex \in [Task -> Worker \cup {NoOne}]
  /\ conflict_detected \in BOOLEAN
  /\ var_access_owner \in [Var -> Task \cup {NoTask}]
  /\ freed \in BOOLEAN
  /\ main \in MainPC
  /\ next \in 1 .. NumTasks + NumWorkers + 1
  /\ executes \in 0 .. MaxExecutes
  /\ pc \in [Worker -> WorkerPC]
  /\ current \in [Worker -> Task \cup {NoTask}]
  /\ access \in [Worker -> Nat]
  /\ spurious \in 0 .. MaxSpurious

(* scheduler_create, up to its first pthread_create.                       *)
Init ==
  /\ ready_queue = <<>>
  /\ queue_mutex = NoOne
  /\ shutdown = FALSE
  /\ completed_tasks = 0
  /\ completed = [t \in Task |-> FALSE]
  /\ exec_count = [t \in Task |-> 0]
  /\ task_mutex = [t \in Task |-> NoOne]
  /\ conflict_detected = FALSE
  /\ var_access_owner = [v \in Var |-> NoTask]
  /\ freed = FALSE
  /\ main = "create"
  /\ next = 1
  /\ executes = 0
  /\ pc = [w \in Worker |-> "none"]
  /\ current = [w \in Worker |-> NoTask]
  /\ access = [w \in Worker |-> 0]
  /\ spurious = 0

-----------------------------------------------------------------------------
(* The main thread.                                                        *)

(* pthread_cond_broadcast on queue_cond: every worker that waits wakes up  *)
(* and has to take the mutex again.                                        *)
Broadcast ==
  pc' = [w \in Worker |-> IF pc[w] = "waiting" THEN "lock" ELSE pc[w]]

(* scheduler_create starts the workers one by one, ...                     *)
CreateWorker ==
  /\ main = "create"
  /\ next <= NumWorkers
  /\ pc' = [pc EXCEPT ![next] = "lock"]
  /\ next' = next + 1
  /\ UNCHANGED <<queueVars, shutdown, completed_tasks, taskVars, conflictVars, freed,
                 main, executes, current, access, spurious>>

(* ... and when one cannot be started it sets shutdown, wakes nobody, ...  *)
CreateFails ==
  /\ CreateMayFail
  /\ main = "create"
  /\ next <= NumWorkers
  /\ shutdown' = TRUE
  /\ main' = "create_failed"
  /\ UNCHANGED <<queueVars, completed_tasks, taskVars, conflictVars, freed,
                 next, executes, workerVars>>

(* ... joins the workers that were started and frees everything.           *)
JoinCreated ==
  /\ main = "create_failed"
  /\ \A w \in 1 .. next - 1 : pc[w] = "exited"
  /\ freed' = TRUE
  /\ main' = "ended"
  /\ UNCHANGED <<queueVars, shutdown, completed_tasks, taskVars, conflictVars,
                 next, executes, workerVars>>

(* build_execution_plan: no worker looks at the tasks before one is queued.*)
Plan ==
  /\ main = "create"
  /\ next > NumWorkers
  /\ main' = "idle"
  /\ UNCHANGED <<queueVars, shutdown, completed_tasks, taskVars, conflictVars, freed,
                 next, executes, workerVars>>

(* scheduler_execute queues every ready task, ...                          *)
Execute ==
  /\ main \in {"idle", "executed"}
  /\ executes < MaxExecutes
  /\ executes' = executes + 1
  /\ next' = 1
  /\ main' = "enqueue"
  /\ UNCHANGED <<queueVars, shutdown, completed_tasks, taskVars, conflictVars, freed,
                 workerVars>>

(* Faulty variant: the workers are not told of the task.                   *)
MarkReadySilently ==
  /\ main = "enqueue"
  /\ next <= NumTasks
  /\ queue_mutex = NoOne
  /\ ready_queue' = Append(ready_queue, next)
  /\ next' = next + 1
  /\ UNCHANGED <<queue_mutex, shutdown, completed_tasks, taskVars, conflictVars, freed,
                 main, executes, workerVars>>

(* ... each by mark_task_ready, a critical section of queue_mutex, ...     *)
MarkTaskReady ==
  /\ main = "enqueue"
  /\ next <= NumTasks
  /\ queue_mutex = NoOne
  /\ ready_queue' = Append(ready_queue, next)
  /\ Broadcast
  /\ next' = next + 1
  /\ UNCHANGED <<queue_mutex, shutdown, completed_tasks, taskVars, conflictVars, freed,
                 main, executes, current, access, spurious>>

AllQueued ==
  /\ main = "enqueue"
  /\ next > NumTasks
  /\ main' = "poll"
  /\ UNCHANGED <<queueVars, shutdown, completed_tasks, taskVars, conflictVars, freed,
                 next, executes, workerVars>>

(* ... then sleeps and reads completed_tasks, without its mutex, until all *)
(* tasks are counted.                                                      *)
ExecuteReturns ==
  /\ main = "poll"
  /\ completed_tasks >= NumTasks
  /\ main' = "executed"
  /\ UNCHANGED <<queueVars, shutdown, completed_tasks, taskVars, conflictVars, freed,
                 next, executes, workerVars>>

(* scheduler_destroy sets shutdown, ...                                    *)
BeginDestroy ==
  /\ main \in {"idle", "executed"}
  /\ shutdown' = TRUE
  /\ main' = "broadcast"
  /\ UNCHANGED <<queueVars, completed_tasks, taskVars, conflictVars, freed,
                 next, executes, workerVars>>

(* ... wakes the workers that wait, neither under queue_mutex, ...         *)
BroadcastShutdown ==
  /\ main = "broadcast"
  /\ Broadcast
  /\ next' = 1
  /\ main' = "join"
  /\ UNCHANGED <<queueVars, shutdown, completed_tasks, taskVars, conflictVars, freed,
                 executes, current, access, spurious>>

(* ... joins them one by one ...                                           *)
Join ==
  /\ main = "join"
  /\ next <= NumWorkers
  /\ pc[next] = "exited"
  /\ next' = next + 1
  /\ UNCHANGED <<queueVars, shutdown, completed_tasks, taskVars, conflictVars, freed,
                 main, executes, workerVars>>

(* ... and frees tasks, mutexes, queue and workers.                        *)
Free ==
  /\ main = "join"
  /\ next > NumWorkers
  /\ freed' = TRUE
  /\ main' = "ended"
  /\ UNCHANGED <<queueVars, shutdown, completed_tasks, taskVars, conflictVars,
                 next, executes, workerVars>>

Main ==
  \/ CreateWorker \/ CreateFails \/ JoinCreated \/ Plan
  \/ Execute \/ MarkTaskReady \/ AllQueued \/ ExecuteReturns
  \/ BeginDestroy \/ BroadcastShutdown \/ Join \/ Free

-----------------------------------------------------------------------------
(* worker_thread; worker->running is never reset.                          *)

Goto(w, label) == pc' = [pc EXCEPT ![w] = label]

(* Take queue_mutex: at the head of the loop, or to return from the wait.  *)
Lock(w) ==
  /\ pc[w] = "lock"
  /\ queue_mutex = NoOne
  /\ queue_mutex' = w
  /\ Goto(w, "test")
  /\ UNCHANGED <<ready_queue, shutdown, completed_tasks, taskVars, conflictVars, freed,
                 mainVars, current, access, spurious>>

(* The condition of the wait loop.  The mutex keeps the queue as it is,    *)
(* but not shutdown.                                                       *)
Test(w) ==
  /\ pc[w] = "test"
  /\ Goto(w, IF ready_queue = <<>> /\ ~shutdown THEN "to_wait" ELSE "test_shutdown")
  /\ UNCHANGED <<queueVars, shutdown, completed_tasks, taskVars, conflictVars, freed,
                 mainVars, current, access, spurious>>

(* pthread_cond_wait gives the mutex up and waits, in one step.            *)
Wait(w) ==
  /\ pc[w] = "to_wait"
  /\ queue_mutex' = NoOne
  /\ Goto(w, "waiting")
  /\ UNCHANGED <<ready_queue, shutdown, completed_tasks, taskVars, conflictVars, freed,
                 mainVars, current, access, spurious>>

SpuriousWakeup(w) ==
  /\ pc[w] = "waiting"
  /\ spurious < MaxSpurious
  /\ spurious' = spurious + 1
  /\ Goto(w, "lock")
  /\ UNCHANGED <<queueVars, shutdown, completed_tasks, taskVars, conflictVars, freed,
                 mainVars, current, access>>

Exit(w) ==
  /\ pc[w] = "test_shutdown"
  /\ shutdown
  /\ queue_mutex' = NoOne
  /\ Goto(w, "exited")
  /\ UNCHANGED <<ready_queue, shutdown, completed_tasks, taskVars, conflictVars, freed,
                 mainVars, current, access, spurious>>

(* Faulty variant: the task is counted when it is taken.                   *)
TakeCounted(w) ==
  /\ pc[w] = "test_shutdown"
  /\ ~shutdown
  /\ ready_queue # <<>>
  /\ current' = [current EXCEPT ![w] = ready_queue[Len(ready_queue)]]
  /\ ready_queue' = SubSeq(ready_queue, 1, Len(ready_queue) - 1)
  /\ completed_tasks' = completed_tasks + 1
  /\ queue_mutex' = NoOne
  /\ Goto(w, "lock_task")
  /\ UNCHANGED <<shutdown, taskVars, conflictVars, freed, mainVars, access, spurious>>

(* Take the task that was queued last.  The queue is not empty: shutdown,  *)
(* which would also have ended the wait, is never reset.                   *)
Take(w) ==
  /\ pc[w] = "test_shutdown"
  /\ ~shutdown
  /\ ready_queue # <<>>
  /\ current' = [current EXCEPT ![w] = ready_queue[Len(ready_queue)]]
  /\ ready_queue' = SubSeq(ready_queue, 1, Len(ready_queue) - 1)
  /\ queue_mutex' = NoOne
  /\ Goto(w, "lock_task")
  /\ UNCHANGED <<shutdown, completed_tasks, taskVars, conflictVars, freed,
                 mainVars, access, spurious>>

(* Faulty variant: a task is run whether or not it is completed.           *)
RunAgain(w) ==
  LET t == current[w] IN
  /\ pc[w] = "lock_task"
  /\ task_mutex[t] = NoOne
  /\ task_mutex' = [task_mutex EXCEPT ![t] = w]
  /\ exec_count' = [exec_count EXCEPT ![t] = @ + 1]
  /\ access' = [access EXCEPT ![w] = 1]
  /\ Goto(w, "check")
  /\ UNCHANGED <<queueVars, shutdown, completed_tasks, completed, conflictVars, freed,
                 mainVars, current, spurious>>

(* Lock the task and, unless it is completed, run it on its own VM.        *)
Run(w) ==
  LET t == current[w] IN
  /\ pc[w] = "lock_task"
  /\ task_mutex[t] = NoOne
  /\ ~completed[t]
  /\ task_mutex' = [task_mutex EXCEPT ![t] = w]
  /\ exec_count' = [exec_count EXCEPT ![t] = @ + 1]
  /\ access' = [access EXCEPT ![w] = 1]
  /\ Goto(w, "check")
  /\ UNCHANGED <<queueVars, shutdown, completed_tasks, completed, conflictVars, freed,
                 mainVars, current, spurious>>

SkipCompleted(w) ==
  /\ pc[w] = "lock_task"
  /\ task_mutex[current[w]] = NoOne
  /\ completed[current[w]]
  /\ Goto(w, "count")
  /\ UNCHANGED <<queueVars, shutdown, completed_tasks, taskVars, conflictVars, freed,
                 mainVars, current, access, spurious>>

(* Conflict detection: for each global the task accesses, look whether     *)
(* another task accessed it before, then put the task down as its owner;   *)
(* the task's mutex does not protect either.                               *)
Checking(w) == pc[w] = "check" /\ access[w] <= Len(Accesses[current[w]])
Accessed(w) == Accesses[current[w]][access[w]]

(* Faulty variant: a task conflicts with itself.                           *)
CheckAnyOwner(w) ==
  /\ Checking(w)
  /\ conflict_detected' = (conflict_detected \/ var_access_owner[Accessed(w)] # NoTask)
  /\ Goto(w, "claim")
  /\ UNCHANGED <<queueVars, shutdown, completed_tasks, taskVars, var_access_owner, freed,
                 mainVars, current, access, spurious>>

Check(w) ==
  /\ Checking(w)
  /\ conflict_detected' =
       (conflict_detected \/ var_access_owner[Accessed(w)] \notin {NoTask, current[w]})
  /\ Goto(w, "claim")
  /\ UNCHANGED <<queueVars, shutdown, completed_tasks, taskVars, var_access_owner, freed,
                 mainVars, current, access, spurious>>

Claim(w) ==
  /\ pc[w] = "claim"
  /\ var_access_owner' = [var_access_owner EXCEPT ![Accessed(w)] = current[w]]
  /\ access' = [access EXCEPT ![w] = @ + 1]
  /\ Goto(w, "check")
  /\ UNCHANGED <<queueVars, shutdown, completed_tasks, taskVars, conflict_detected, freed,
                 mainVars, current, spurious>>

Complete(w) ==
  /\ pc[w] = "check"
  /\ ~Checking(w)
  /\ completed' = [completed EXCEPT ![current[w]] = TRUE]
  /\ task_mutex' = [task_mutex EXCEPT ![current[w]] = NoOne]
  /\ Goto(w, "count")
  /\ UNCHANGED <<queueVars, shutdown, completed_tasks, exec_count, conflictVars, freed,
                 mainVars, current, access, spurious>>

(* Faulty variant: a task counts twice.                                    *)
CountTwice(w) ==
  /\ pc[w] = "count"
  /\ completed_tasks' = completed_tasks + 2
  /\ Goto(w, "lock")
  /\ UNCHANGED <<queueVars, shutdown, taskVars, conflictVars, freed,
                 mainVars, current, access, spurious>>

(* A critical section of completion_mutex.                                 *)
Count(w) ==
  /\ pc[w] = "count"
  /\ completed_tasks' = completed_tasks + 1
  /\ Goto(w, "lock")
  /\ UNCHANGED <<queueVars, shutdown, taskVars, conflictVars, freed,
                 mainVars, current, access, spurious>>

Step(w) ==
  \/ Lock(w) \/ Test(w) \/ Wait(w) \/ Exit(w) \/ Take(w)
  \/ Run(w) \/ SkipCompleted(w) \/ Check(w) \/ Claim(w) \/ Complete(w) \/ Count(w)

Next == Main \/ \E w \in Worker : Step(w) \/ SpuriousWakeup(w)

Spec == Init /\ [][Next]_vars

(* The operating system runs every thread that can run.  Nothing makes     *)
(* main execute rather than destroy, and nothing makes a creation fail or  *)
(* a wakeup happen for no reason.  A mutex is not contended forever: a     *)
(* worker that finds nothing to do waits.                                  *)
MainProgress ==
  \/ CreateWorker \/ JoinCreated \/ Plan \/ MarkTaskReady \/ AllQueued
  \/ ExecuteReturns \/ BroadcastShutdown \/ Join \/ Free

Fairness == WF_vars(MainProgress) /\ \A w \in Worker : WF_vars(Step(w))

FairSpec == Spec /\ Fairness

-----------------------------------------------------------------------------
(* Properties.                                                             *)

RunOnce == \A t \in Task : exec_count[t] <= 1

ReturnsWhenDone ==
  main \in {"executed", "broadcast", "join"} /\ executes > 0 =>
     \A t \in Task : completed[t]

FreeWhenIdle == freed => \A w \in Worker : pc[w] \in {"none", "exited"}

(* scheduler_execute returns only with the completed flag of every task    *)
(* set, although it reads a counter that counts dequeues and not tasks;    *)
(* flags and counter are never reset, so that a later execution returns    *)
(* with them, whatever is still queued, and workers may be at the end of   *)
(* their step.  But memory is freed, as docs/memory_model.md:8 says, only  *)
(* when no parallel thread is active any more.                             *)
ReturnsWhenIdle == ReturnsWhenDone /\ FreeWhenIdle

Queued ==
  IF main = "enqueue" THEN (executes - 1) * NumTasks + next - 1 ELSE executes * NumTasks

Holding(w) == pc[w] \in {"lock_task", "check", "claim", "count"}

QueueAccounted ==
  Len(ready_queue) + Cardinality({w \in Worker : Holding(w)}) + completed_tasks = Queued

(* No task that was queued is lost or taken twice: each is in the queue,   *)
(* in the hands of a worker, or counted.  And its code runs at most once,  *)
(* however often it is queued: a second scheduler_execute queues completed *)
(* tasks again, and two workers may hold the same task at the same time.   *)
TasksRunOnce == RunOnce /\ QueueAccounted

(* A conflict is reported only if two tasks that have started access a     *)
(* common global.                                                          *)
Conflicting(t, u) ==
  \E i \in DOMAIN Accesses[t], j \in DOMAIN Accesses[u] : Accesses[t][i] = Accesses[u][j]

NoFalseConflict ==
  conflict_detected =>
    \E t, u \in {s \in Task : exec_count[s] > 0} : t # u /\ Conflicting(t, u)

(* A task that is queued is completed, and scheduler_execute returns.      *)
ExecuteTerminates == (main = "enqueue") ~> (main = "executed")

(* Workers that are told to end do, so that whoever tells them can join    *)
(* them and free their memory: scheduler_destroy, which "encerra workers"  *)
(* (scheduler.c:385) and returns, as main.c:553 relies on it to, and       *)
(* scheduler_create when it fails (scheduler.c:360).                       *)
WorkersEnd == shutdown ~> freed

(* What the tasks of an instance access: the first one a global twice, the *)
(* second one another global, and the third one the first one's; or one    *)
(* task.                                                                   *)
ThreeTasks == <<<<1, 1>>, <<2>>, <<1>>>>
OneTask    == <<<<1>>>>
=============================================================================
