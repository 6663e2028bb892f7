-------------------------- MODULE SchedulerProofs ---------------------------
(***************************************************************************)
(* The invariants of the thread pool, for any number of workers, tasks and *)
(* executions, and whatever globals the tasks access.                      *)
(*                                                                         *)
(* None of them is inductive.  IInv says besides who holds each mutex, by  *)
(* where the workers are; that a task has been run exactly when it is      *)
(* completed or locked; that a global belongs to a task that has been run  *)
(* and accesses it; where main and its loop are; and where each task is    *)
(* that has been queued: done, in the queue or in the hands of a worker.   *)
(***************************************************************************)
EXTENDS Scheduler, FiniteSetTheorems, SequenceTheorems, TLAPS

-----------------------------------------------------------------------------
(* The inductive invariant.                                                *)

(* queue_mutex is held from the head of the loop to the dequeuing or the   *)
(* wait, a task's mutex while the task runs.                               *)
MutexesHeld ==
  /\ \A w \in Worker : queue_mutex = w <=> pc[w] \in {"test", "to_wait", "test_shutdown"}
  /\ \A w \in Worker, t \in Task :
        task_mutex[t] = w <=> pc[w] \in {"check", "claim"} /\ current[w] = t

(* A worker that holds a task has a task, which is completed before it is  *)
(* counted.                                                                *)
TasksHeld == \A w \in Worker :
  /\ Holding(w) => current[w] \in Task
  /\ pc[w] = "count" => completed[current[w]]

RunsCounted == \A t \in Task :
  /\ exec_count[t] = IF completed[t] \/ task_mutex[t] # NoOne THEN 1 ELSE 0
  /\ task_mutex[t] # NoOne => ~completed[t]

AccessesInRange == \A w \in Worker :
  /\ pc[w] = "check" => access[w] \in 1 .. Len(Accesses[current[w]]) + 1
  /\ pc[w] = "claim" => access[w] \in 1 .. Len(Accesses[current[w]])

OwnersRan == \A v \in Var : var_access_owner[v] # NoTask =>
  /\ exec_count[var_access_owner[v]] > 0
  /\ \E i \in DOMAIN Accesses[var_access_owner[v]] : Accesses[var_access_owner[v]][i] = v

MainPlace ==
  /\ main \in {"create", "create_failed"} =>
        next <= NumWorkers + 1 /\ \A w \in Worker : w >= next => pc[w] = "none"
  /\ main \in {"create", "create_failed", "idle"} => executes = 0
  /\ main = "enqueue" => next <= NumTasks + 1
  /\ main \in {"enqueue", "poll", "executed"} => executes > 0
  /\ main = "join" => \A w \in Worker : w < next => pc[w] = "exited"
  /\ freed => main = "ended"

Placed(t) ==
  \/ completed[t]
  \/ \E i \in 1 .. Len(ready_queue) : ready_queue[i] = t
  \/ \E w \in Worker : Holding(w) /\ current[w] = t

(* What has been queued is somewhere; once all has been queued twice, it   *)
(* had all been completed before.                                          *)
TasksPlaced ==
  /\ executes > 0 => \A t \in Task : (main = "enqueue" => t < next) => Placed(t)
  /\ executes > 1 => \A t \in Task : completed[t]

IInv ==
  /\ TypeOK
  /\ MutexesHeld
  /\ TasksHeld
  /\ RunsCounted
  /\ AccessesInRange
  /\ OwnersRan
  /\ NoFalseConflict
  /\ MainPlace
  /\ QueueAccounted
  /\ TasksPlaced
  /\ ReturnsWhenDone
  /\ FreeWhenIdle

-----------------------------------------------------------------------------
(* Lemmas about the state.                                                 *)

(* Workers are numbered from 1, so that 0 stands for no one.               *)
LEMMA WorkersAreSomeone ==
  /\ NoOne \notin Worker
  /\ Worker \subseteq Nat
  /\ IsFiniteSet(Worker)
<1>1. NoOne \notin Worker /\ Worker \subseteq Nat
  BY CountsAssumption DEF Worker, NoOne
<1>2. IsFiniteSet(Worker)
  BY CountsAssumption, FS_Interval DEF Worker
<1>. QED  BY <1>1, <1>2

Holders == {w \in Worker : Holding(w)}

(* The workers that hold a task can be counted.                            *)
LEMMA HoldersFinite ==
  /\ IsFiniteSet(Holders) /\ Cardinality(Holders) \in Nat
  /\ IsFiniteSet(Holders') /\ Cardinality(Holders') \in Nat
<1>1. Holders \subseteq Worker /\ Holders' \subseteq Worker
  BY DEF Holders
<1>. QED  BY <1>1, WorkersAreSomeone, FS_Subset, FS_CardinalityType

(* QueueAccounted, with the set of holders named.                          *)
LEMMA Balance ==
  /\ QueueAccounted  <=> Len(ready_queue) + Cardinality(Holders) + completed_tasks = Queued
  /\ QueueAccounted' <=>
        Len(ready_queue') + Cardinality(Holders') + completed_tasks' = Queued'
BY DEF QueueAccounted, Holders

(* The holders stay the same when each worker holds a task as before.      *)
LEMMA SameHolders ==
  ASSUME \A w \in Worker : Holding(w)' <=> Holding(w)
  PROVE  Holders' = Holders
BY DEF Holders

(* A worker that takes a task is one more of them.                         *)
LEMMA OneMoreHolder ==
  ASSUME NEW w \in Worker, ~Holding(w), Holding(w)',
         \A u \in Worker : u # w => (Holding(u)' <=> Holding(u))
  PROVE  Cardinality(Holders') = Cardinality(Holders) + 1
<1>1. Holders' = Holders \cup {w} /\ w \notin Holders
  BY DEF Holders
<1>. QED  BY <1>1, HoldersFinite, FS_AddElement

(* A worker that is done with its task is one less.                        *)
LEMMA OneHolderLess ==
  ASSUME NEW w \in Worker, Holding(w), ~Holding(w)',
         \A u \in Worker : u # w => (Holding(u)' <=> Holding(u))
  PROVE  Cardinality(Holders') = Cardinality(Holders) - 1
<1>1. Holders' = Holders \ {w} /\ w \in Holders
  BY DEF Holders
<1>. QED  BY <1>1, HoldersFinite, FS_RemoveElement

(* A task stays where it is if the queue keeps it and those who hold it do.*)
LEMMA PlacedStays ==
  ASSUME NEW t \in Task, Placed(t),
         completed[t] => completed'[t],
         \A i \in 1 .. Len(ready_queue) :
            i \in 1 .. Len(ready_queue') /\ ready_queue'[i] = ready_queue[i],
         \A w \in Worker : Holding(w) => Holding(w)' /\ current'[w] = current[w]
  PROVE  Placed(t)'
<1>1. CASE completed[t]
  BY <1>1 DEF Placed
<1>2. CASE \E i \in 1 .. Len(ready_queue) : ready_queue[i] = t
  BY <1>2 DEF Placed
<1>3. CASE \E w \in Worker : Holding(w) /\ current[w] = t
  <2>1. PICK w \in Worker : Holding(w) /\ current[w] = t
    BY <1>3
  <2>2. Holding(w)' /\ current'[w] = t
    BY <2>1
  <2>. QED  BY <2>2 DEF Placed
<1>. QED  BY <1>1, <1>2, <1>3 DEF Placed

(* Multiplication by a natural number keeps the order.                     *)
LEMMA ProductsGrow ==
  ASSUME NEW a \in Nat, NEW b \in Nat, NEW n \in Nat, a <= b
  PROVE  a * n <= b * n
<1>. DEFINE d == b - a
<1>1. d \in Nat /\ b = a + d
  OBVIOUS
<1>. HIDE DEF d
<1>2. (a + d) * n = a * n + d * n /\ d * n \in Nat /\ a * n \in Nat
  BY <1>1
<1>. QED  BY <1>1, <1>2

(* Queued counts the tasks that main has queued; it cannot exceed the      *)
(* bound, so neither can what has been dequeued, after a step.             *)
LEMMA CountedInRange ==
  ASSUME QueueAccounted', ready_queue' \in Seq(Task), completed_tasks' \in Nat,
         executes' \in 0 .. MaxExecutes, next' \in Nat,
         main' = "enqueue" => executes' > 0 /\ next' <= NumTasks + 1
  PROVE  completed_tasks' \in 0 .. MaxCounted
<1>. DEFINE all == executes' * NumTasks
<1>1. all \in Int /\ (executes' - 1) * NumTasks = all - NumTasks
  BY CountsAssumption
<1>2. all <= MaxExecutes * NumTasks /\ MaxExecutes * NumTasks \in Int
  <2>1. executes' \in Nat /\ executes' <= MaxExecutes /\ MaxExecutes \in Nat /\ NumTasks \in Nat
    BY CountsAssumption
  <2>2. all <= MaxExecutes * NumTasks
    BY <2>1, ProductsGrow
  <2>3. MaxExecutes * NumTasks \in Int
    BY <2>1
  <2>. QED  BY <2>2, <2>3
<1>3. Queued' = IF main' = "enqueue" THEN (executes' - 1) * NumTasks + next' - 1 ELSE all
  BY DEF Queued
<1>. HIDE DEF all
<1>4. Queued' \in Int /\ Queued' <= all
  <2>1. CASE main' # "enqueue"
    BY <1>1, <1>3, <2>1
  <2>2. CASE main' = "enqueue"
    <3>1. Queued' = all - NumTasks + next' - 1
      BY <1>1, <1>3, <2>2
    <3>2. \A n \in Nat : n <= NumTasks + 1 =>
             all - NumTasks + n - 1 \in Int /\ all - NumTasks + n - 1 <= all
      BY <1>1, CountsAssumption
    <3>. QED  BY <2>2, <3>1, <3>2
  <2>. QED  BY <2>1, <2>2
<1>5. completed_tasks' <= Queued'
  BY <1>4, Balance, HoldersFinite
<1>. QED  BY <1>1, <1>2, <1>4, <1>5 DEF MaxCounted

(* Which tasks have run and what they have accessed is as it was after a   *)
(* step that leaves the tasks and the conflict detection alone.            *)
LEMMA TasksUntouched ==
  ASSUME IInv, UNCHANGED <<taskVars, conflictVars>>
  PROVE  RunsCounted' /\ OwnersRan' /\ NoFalseConflict'
BY DEF IInv, taskVars, conflictVars, RunsCounted, OwnersRan, NoFalseConflict, Conflicting

(* So are, after a step that leaves the workers alone too, the mutexes,    *)
(* what the workers hold and what they check.                              *)
LEMMA WorkersUntouched ==
  ASSUME IInv, UNCHANGED <<queueVars, taskVars, conflictVars, workerVars>>
  PROVE  /\ MutexesHeld' /\ TasksHeld' /\ RunsCounted'
         /\ AccessesInRange' /\ OwnersRan' /\ NoFalseConflict'
<1>1. RunsCounted' /\ OwnersRan' /\ NoFalseConflict'
  BY TasksUntouched
<1>2. MutexesHeld' /\ TasksHeld' /\ AccessesInRange'
  BY DEF IInv, queueVars, taskVars, workerVars, MutexesHeld, TasksHeld, Holding,
         AccessesInRange
<1>. QED  BY <1>1, <1>2

(* The account still balances when nothing in it has changed.              *)
LEMMA StillAccounted ==
  ASSUME IInv, Holders' = Holders, Queued' = Queued,
         UNCHANGED <<ready_queue, completed_tasks>>
  PROVE  QueueAccounted'
BY DEF IInv, QueueAccounted, Holders

(* What has been queued is still somewhere when the queue keeps it, those  *)
(* who hold it do, and main has queued nothing more.                       *)
LEMMA StillPlaced ==
  ASSUME IInv, executes' = executes,
         executes > 0 /\ main' # "enqueue" => main # "enqueue",
         executes > 0 /\ main' = "enqueue" => main = "enqueue" /\ next' = next,
         \A t \in Task : completed[t] => completed'[t],
         ready_queue' = ready_queue,
         \A w \in Worker : Holding(w) => Holding(w)' /\ current'[w] = current[w]
  PROVE  TasksPlaced'
<1>1. executes' > 1 => \A t \in Task : completed'[t]
  BY DEF IInv, TasksPlaced
<1>2. ASSUME executes' > 0, NEW t \in Task, main' = "enqueue" => t < next'
      PROVE  Placed(t)'
  <2>1. Placed(t)
    BY <1>2 DEF IInv, TasksPlaced
  <2>. QED  BY <2>1, PlacedStays
<1>. QED  BY <1>1, <1>2 DEF TasksPlaced

-----------------------------------------------------------------------------
(* The steps of the main thread.                                           *)

(* The new worker holds nothing and has nothing to do with the tasks.      *)
LEMMA CreateWorkerKeeps ==
  ASSUME IInv, CreateWorker
  PROVE  IInv'
<1>1. /\ next \in Worker /\ pc[next] = "none"
      /\ pc' = [pc EXCEPT ![next] = "lock"]
      /\ next' = next + 1 /\ main' = main /\ executes' = executes
  BY CountsAssumption DEF IInv, CreateWorker, TypeOK, MainPlace, Worker
<1>2. RunsCounted' /\ OwnersRan' /\ NoFalseConflict'
  BY TasksUntouched DEF IInv, CreateWorker
<1>3. TypeOK'
  <2>1. next' \in 1 .. NumTasks + NumWorkers + 1
    BY <1>1, CountsAssumption DEF Worker
  <2>. QED
    BY <1>1, <2>1 DEF IInv, CreateWorker, TypeOK, queueVars, taskVars, conflictVars, WorkerPC
<1>4. MutexesHeld'
  BY <1>1 DEF IInv, CreateWorker, TypeOK, MutexesHeld, queueVars, taskVars
<1>5. TasksHeld'
  BY DEF IInv, CreateWorker, taskVars, TasksHeld, Holding
<1>6. AccessesInRange'
  BY DEF IInv, CreateWorker, AccessesInRange
<1>7. MainPlace'
  BY CountsAssumption DEF IInv, CreateWorker, TypeOK, MainPlace, Worker
<1>8. QueueAccounted'
  <2>1. Holders' = Holders
    BY <1>1, SameHolders DEF IInv, TypeOK, Holding
  <2>2. Queued' = Queued
    BY <1>1 DEF IInv, CreateWorker, Queued
  <2>. QED  BY <2>1, <2>2, StillAccounted DEF CreateWorker, queueVars
<1>9. TasksPlaced'
  BY StillPlaced, CountsAssumption
  DEF IInv, CreateWorker, queueVars, taskVars, conflictVars, TypeOK, MainPlace,
      Holding, Task
<1>10. ReturnsWhenDone'
  BY DEF IInv, CreateWorker, ReturnsWhenDone
<1>11. FreeWhenIdle'
  BY DEF IInv, CreateWorker, FreeWhenIdle, MainPlace
<1>. QED  BY <1>1, <1>2, <1>3, <1>4, <1>5, <1>6, <1>7, <1>8, <1>9, <1>10, <1>11 DEF
             IInv

(* Nothing has been executed when a creation fails.                        *)
LEMMA CreateFailsKeeps ==
  ASSUME IInv, CreateFails
  PROVE  IInv'
<1>1. /\ MutexesHeld' /\ TasksHeld' /\ RunsCounted'
      /\ AccessesInRange' /\ OwnersRan' /\ NoFalseConflict'
  BY WorkersUntouched DEF IInv, CreateFails
<1>2. TypeOK'
  BY DEF IInv, CreateFails, queueVars, taskVars, conflictVars, workerVars, TypeOK, MainPC
<1>3. MainPlace'
  BY DEF IInv, CreateFails, workerVars, MainPlace
<1>4. QueueAccounted'
  BY StillAccounted, SameHolders
  DEF IInv, CreateFails, queueVars, workerVars, Queued, Holding
<1>5. TasksPlaced'
  BY StillPlaced DEF IInv, CreateFails, queueVars, taskVars, workerVars, Holding
<1>6. ReturnsWhenDone'
  BY DEF IInv, CreateFails, ReturnsWhenDone
<1>7. FreeWhenIdle'
  BY DEF IInv, CreateFails, FreeWhenIdle, MainPlace
<1>. QED  BY <1>1, <1>2, <1>3, <1>4, <1>5, <1>6, <1>7 DEF IInv

(* The workers that were created have ended, the others never started.     *)
LEMMA JoinCreatedKeeps ==
  ASSUME IInv, JoinCreated
  PROVE  IInv'
<1>1. /\ MutexesHeld' /\ TasksHeld' /\ RunsCounted'
      /\ AccessesInRange' /\ OwnersRan' /\ NoFalseConflict'
  BY WorkersUntouched DEF IInv, JoinCreated
<1>2. TypeOK'
  BY DEF IInv, JoinCreated, queueVars, taskVars, conflictVars, workerVars, TypeOK,
         MainPC
<1>3. MainPlace'
  BY DEF IInv, JoinCreated, MainPlace
<1>4. QueueAccounted'
  BY StillAccounted, SameHolders
  DEF IInv, JoinCreated, queueVars, workerVars, Queued, Holding
<1>5. TasksPlaced'
  BY StillPlaced DEF IInv, JoinCreated, queueVars, taskVars, workerVars, Holding
<1>6. ReturnsWhenDone'
  BY DEF IInv, JoinCreated, ReturnsWhenDone
<1>7. FreeWhenIdle'
  BY DEF IInv, JoinCreated, workerVars, TypeOK, FreeWhenIdle, MainPlace, Worker
<1>. QED  BY <1>1, <1>2, <1>3, <1>4, <1>5, <1>6, <1>7 DEF IInv

(* All workers have been created.                                          *)
LEMMA PlanKeeps ==
  ASSUME IInv, Plan
  PROVE  IInv'
<1>1. /\ MutexesHeld' /\ TasksHeld' /\ RunsCounted'
      /\ AccessesInRange' /\ OwnersRan' /\ NoFalseConflict'
  BY WorkersUntouched DEF IInv, Plan
<1>2. TypeOK'
  BY DEF IInv, Plan, queueVars, taskVars, conflictVars, workerVars, TypeOK, MainPC
<1>3. MainPlace'
  BY DEF IInv, Plan, MainPlace
<1>4. QueueAccounted'
  BY StillAccounted, SameHolders DEF IInv, Plan, queueVars, workerVars, Queued, Holding
<1>5. TasksPlaced'
  BY StillPlaced DEF IInv, Plan, queueVars, taskVars, workerVars, Holding
<1>6. ReturnsWhenDone'
  BY DEF IInv, Plan, ReturnsWhenDone
<1>7. FreeWhenIdle'
  BY DEF IInv, Plan, FreeWhenIdle, MainPlace
<1>. QED  BY <1>1, <1>2, <1>3, <1>4, <1>5, <1>6, <1>7 DEF IInv

(* A second execution finds every task completed.                          *)
LEMMA ExecuteKeeps ==
  ASSUME IInv, Execute
  PROVE  IInv'
<1>1. executes > 0 => \A t \in Task : completed[t]
  BY DEF IInv, Execute, MainPlace, ReturnsWhenDone
<1>2. /\ MutexesHeld' /\ TasksHeld' /\ RunsCounted'
      /\ AccessesInRange' /\ OwnersRan' /\ NoFalseConflict'
  BY WorkersUntouched DEF IInv, Execute
<1>3. TypeOK'
  <2>1. executes' \in 0 .. MaxExecutes /\ next' \in 1 .. NumTasks + NumWorkers + 1
    BY CountsAssumption DEF IInv, Execute, TypeOK
  <2>. QED
    BY <2>1 DEF IInv, Execute, queueVars, taskVars, conflictVars, workerVars, TypeOK, MainPC
<1>4. MainPlace'
  BY CountsAssumption DEF IInv, Execute, TypeOK, MainPlace
<1>5. QueueAccounted'
  BY StillAccounted, SameHolders, CountsAssumption
  DEF IInv, Execute, queueVars, workerVars, TypeOK, Queued, Holding
<1>6. TasksPlaced'
  <2>1. executes' = executes + 1 /\ next' = 1 /\ main' = "enqueue" /\ completed' = completed
    BY DEF Execute, taskVars
  <2>2. executes \in Nat /\ Task \subseteq Nat \ {0}
    BY DEF IInv, TypeOK, Task
  <2>. QED  BY <1>1, <2>1, <2>2 DEF TasksPlaced
<1>7. ReturnsWhenDone'
  BY DEF Execute, ReturnsWhenDone
<1>8. FreeWhenIdle'
  BY DEF IInv, Execute, FreeWhenIdle, MainPlace
<1>. QED  BY <1>1, <1>2, <1>3, <1>4, <1>5, <1>6, <1>7, <1>8 DEF IInv

(* One more task is queued, and it is in the queue.                        *)
LEMMA MarkTaskReadyKeeps ==
  ASSUME IInv, MarkTaskReady
  PROVE  IInv'
<1>1. /\ next \in Task /\ main = "enqueue" /\ main' = "enqueue"
      /\ ready_queue' = Append(ready_queue, next) /\ next' = next + 1
      /\ executes' = executes /\ completed_tasks' = completed_tasks
      /\ completed' = completed /\ current' = current
  BY CountsAssumption DEF IInv, MarkTaskReady, TypeOK, Task, taskVars
<1>2. \A w \in Worker : Holding(w)' <=> Holding(w)
  BY DEF IInv, MarkTaskReady, Broadcast, TypeOK, Holding
<1>3. RunsCounted' /\ OwnersRan' /\ NoFalseConflict'
  BY TasksUntouched DEF IInv, MarkTaskReady
<1>4. TypeOK'
  <2>1. next' \in 1 .. NumTasks + NumWorkers + 1
    BY <1>1, CountsAssumption DEF Task
  <2>2. ready_queue' \in Seq(Task)
    BY <1>1 DEF IInv, TypeOK
  <2>3. pc' \in [Worker -> WorkerPC]
    BY DEF IInv, MarkTaskReady, Broadcast, TypeOK, WorkerPC
  <2>. QED
    BY <2>1, <2>2, <2>3 DEF IInv, MarkTaskReady, TypeOK, taskVars, conflictVars
<1>5. MutexesHeld'
  BY DEF IInv, MarkTaskReady, Broadcast, taskVars, MutexesHeld
<1>6. TasksHeld'
  BY DEF IInv, MarkTaskReady, Broadcast, taskVars, TasksHeld, Holding
<1>7. AccessesInRange'
  BY DEF IInv, MarkTaskReady, Broadcast, AccessesInRange
<1>8. MainPlace'
  BY CountsAssumption DEF IInv, MarkTaskReady, TypeOK, MainPlace
<1>9. QueueAccounted'
  <2>1. Holders' = Holders
    BY <1>2, SameHolders
  <2>2. Len(ready_queue') = Len(ready_queue) + 1 /\ Len(ready_queue) \in Nat
    BY <1>1 DEF IInv, TypeOK
  <2>3. (executes - 1) * NumTasks \in Int
    BY CountsAssumption DEF IInv, TypeOK
  <2>4. Queued' = Queued + 1 /\ Queued \in Int
    BY <1>1, <2>3 DEF Queued, Task
  <2>5. completed_tasks \in Nat
    BY CountsAssumption DEF IInv, TypeOK, MaxCounted
  <2>. QED
    BY <1>1, <2>1, <2>2, <2>4, <2>5, HoldersFinite, Balance DEF IInv
<1>10. TasksPlaced'
  <2>1. executes' > 1 => \A t \in Task : completed'[t]
    BY <1>1 DEF IInv, TasksPlaced
  <2>2. Len(ready_queue) \in Nat /\ Len(ready_queue') = Len(ready_queue) + 1
        /\ ready_queue'[Len(ready_queue) + 1] = next
        /\ \A i \in 1 .. Len(ready_queue) : ready_queue'[i] = ready_queue[i]
    BY <1>1 DEF IInv, TypeOK
  <2>3. \A t \in Task : t = next => Placed(t)'
    BY <1>1, <2>2 DEF Placed
  <2>4. ASSUME executes' > 0, NEW t \in Task, t < next'
        PROVE  Placed(t)'
    <3>1. CASE t = next
      BY <2>3, <3>1
    <3>2. CASE t # next
      <4>1. t < next
        BY <1>1, <2>4, <3>2 DEF Task
      <4>2. Placed(t)
        BY <1>1, <2>4, <4>1 DEF IInv, TasksPlaced
      <4>. QED  BY <1>1, <1>2, <2>2, <4>2, PlacedStays
    <3>. QED  BY <3>1, <3>2
  <2>. QED  BY <1>1, <2>1, <2>4 DEF TasksPlaced
<1>11. ReturnsWhenDone'
  BY DEF IInv, MarkTaskReady, ReturnsWhenDone
<1>12. FreeWhenIdle'
  BY DEF IInv, MarkTaskReady, FreeWhenIdle, MainPlace
<1>. QED  BY <1>1, <1>2, <1>3, <1>4, <1>5, <1>6, <1>7, <1>8, <1>9, <1>10, <1>11,
             <1>12 DEF IInv

(* Every task has been queued, so every task is somewhere.                 *)
LEMMA AllQueuedKeeps ==
  ASSUME IInv, AllQueued
  PROVE  IInv'
<1>1. /\ MutexesHeld' /\ TasksHeld' /\ RunsCounted'
      /\ AccessesInRange' /\ OwnersRan' /\ NoFalseConflict'
  BY WorkersUntouched DEF IInv, AllQueued
<1>2. TypeOK'
  BY DEF IInv, AllQueued, queueVars, taskVars, conflictVars, workerVars, TypeOK, MainPC
<1>3. MainPlace'
  BY DEF IInv, AllQueued, MainPlace
<1>4. QueueAccounted'
  BY StillAccounted, SameHolders, CountsAssumption
  DEF IInv, AllQueued, queueVars, workerVars, TypeOK, MainPlace, Queued, Holding
<1>5. TasksPlaced'
  <2>1. main = "enqueue" /\ next > NumTasks /\ executes' = executes
        /\ UNCHANGED <<completed, ready_queue, pc, current>>
    BY DEF AllQueued, queueVars, taskVars, workerVars
  <2>2. \A t \in Task : t < next
    BY <2>1, CountsAssumption DEF IInv, TypeOK, Task
  <2>3. \A t \in Task : Placed(t)' <=> Placed(t)
    BY <2>1 DEF Placed, Holding
  <2>. QED  BY <2>1, <2>2, <2>3 DEF IInv, TasksPlaced
<1>6. ReturnsWhenDone'
  BY DEF IInv, AllQueued, ReturnsWhenDone
<1>7. FreeWhenIdle'
  BY DEF IInv, AllQueued, FreeWhenIdle, MainPlace
<1>. QED  BY <1>1, <1>2, <1>3, <1>4, <1>5, <1>6, <1>7 DEF IInv

(* The counter counts dequeues.  In the first execution there are as many  *)
(* as tasks, so that none is left in the queue or in a worker's hands; and *)
(* before any later one every task had been completed.                     *)
LEMMA ExecuteReturnsKeeps ==
  ASSUME IInv, ExecuteReturns
  PROVE  IInv'
<1>1. /\ MutexesHeld' /\ TasksHeld' /\ RunsCounted'
      /\ AccessesInRange' /\ OwnersRan' /\ NoFalseConflict'
  BY WorkersUntouched DEF IInv, ExecuteReturns
<1>2. TypeOK'
  BY DEF IInv, ExecuteReturns, queueVars, taskVars, conflictVars, workerVars, TypeOK,
         MainPC
<1>3. MainPlace'
  BY DEF IInv, ExecuteReturns, MainPlace
<1>4. QueueAccounted'
  BY StillAccounted, SameHolders
  DEF IInv, ExecuteReturns, queueVars, workerVars, Queued, Holding
<1>5. TasksPlaced'
  BY StillPlaced DEF IInv, ExecuteReturns, queueVars, taskVars, workerVars, Holding
<1>6. ReturnsWhenDone'
  <2>1. main = "poll" /\ completed_tasks >= NumTasks /\ UNCHANGED <<executes, completed>>
    BY DEF ExecuteReturns, mainVars, taskVars
  <2>2. executes \in Nat /\ executes > 0
    BY <2>1, CountsAssumption DEF IInv, TypeOK, MainPlace
  <2>3. CASE executes > 1
    BY <2>1, <2>3 DEF IInv, TasksPlaced, ReturnsWhenDone
  <2>4. CASE executes = 1
    <3>1. /\ Len(ready_queue) \in Nat /\ Cardinality(Holders) \in Nat
          /\ completed_tasks \in Nat
      BY HoldersFinite, CountsAssumption DEF IInv, TypeOK, MaxCounted
    <3>2. Queued = NumTasks
      BY <2>1, <2>4, CountsAssumption DEF Queued
    <3>3. Len(ready_queue) = 0 /\ Cardinality(Holders) = 0
      BY <2>1, <3>1, <3>2, CountsAssumption, Balance DEF IInv
    <3>4. Holders = {}
      BY <3>3, HoldersFinite, FS_EmptySet
    <3>5. \A t \in Task : Placed(t)
      BY <2>1, <2>2 DEF IInv, TasksPlaced
    <3>6. \A t \in Task : completed[t]
      BY <3>3, <3>4, <3>5 DEF Placed, Holders
    <3>. QED  BY <2>1, <3>6 DEF ReturnsWhenDone
  <2>. QED  BY <2>2, <2>3, <2>4
<1>7. FreeWhenIdle'
  BY DEF IInv, ExecuteReturns, FreeWhenIdle, MainPlace
<1>. QED  BY <1>1, <1>2, <1>3, <1>4, <1>5, <1>6, <1>7 DEF IInv

(* Main is not executing when it destroys the pool.                        *)
LEMMA BeginDestroyKeeps ==
  ASSUME IInv, BeginDestroy
  PROVE  IInv'
<1>1. /\ MutexesHeld' /\ TasksHeld' /\ RunsCounted'
      /\ AccessesInRange' /\ OwnersRan' /\ NoFalseConflict'
  BY WorkersUntouched DEF IInv, BeginDestroy
<1>2. TypeOK'
  BY DEF IInv, BeginDestroy, queueVars, taskVars, conflictVars, workerVars, TypeOK,
         MainPC
<1>3. MainPlace'
  BY DEF IInv, BeginDestroy, MainPlace
<1>4. QueueAccounted'
  BY StillAccounted, SameHolders
  DEF IInv, BeginDestroy, queueVars, workerVars, Queued, Holding
<1>5. TasksPlaced'
  BY StillPlaced DEF IInv, BeginDestroy, queueVars, taskVars, workerVars, Holding
<1>6. ReturnsWhenDone'
  BY DEF IInv, BeginDestroy, taskVars, ReturnsWhenDone, MainPlace
<1>7. FreeWhenIdle'
  BY DEF IInv, BeginDestroy, FreeWhenIdle, MainPlace
<1>. QED  BY <1>1, <1>2, <1>3, <1>4, <1>5, <1>6, <1>7 DEF IInv

(* Workers that wait hold nothing; waking them changes nothing.            *)
LEMMA BroadcastShutdownKeeps ==
  ASSUME IInv, BroadcastShutdown
  PROVE  IInv'
<1>1. RunsCounted' /\ OwnersRan' /\ NoFalseConflict'
  BY TasksUntouched DEF IInv, BroadcastShutdown
<1>2. TypeOK'
  BY CountsAssumption
  DEF IInv, BroadcastShutdown, Broadcast, queueVars, taskVars, conflictVars, TypeOK,
      MainPC, WorkerPC
<1>3. MutexesHeld'
  BY DEF IInv, BroadcastShutdown, Broadcast, queueVars, taskVars, MutexesHeld
<1>4. TasksHeld'
  BY DEF IInv, BroadcastShutdown, Broadcast, taskVars, TasksHeld, Holding
<1>5. AccessesInRange'
  BY DEF IInv, BroadcastShutdown, Broadcast, AccessesInRange
<1>6. MainPlace'
  BY DEF IInv, BroadcastShutdown, MainPlace, Worker
<1>7. QueueAccounted'
  BY StillAccounted, SameHolders
  DEF IInv, BroadcastShutdown, Broadcast, queueVars, Queued, Holding
<1>8. TasksPlaced'
  BY StillPlaced DEF IInv, BroadcastShutdown, Broadcast, queueVars, taskVars, Holding
<1>9. ReturnsWhenDone'
  BY DEF IInv, BroadcastShutdown, taskVars, ReturnsWhenDone
<1>10. FreeWhenIdle'
  BY DEF IInv, BroadcastShutdown, FreeWhenIdle, MainPlace
<1>. QED  BY <1>1, <1>2, <1>3, <1>4, <1>5, <1>6, <1>7, <1>8, <1>9, <1>10 DEF IInv

(* One more worker is known to have ended.                                 *)
LEMMA JoinKeeps ==
  ASSUME IInv, Join
  PROVE  IInv'
<1>1. /\ MutexesHeld' /\ TasksHeld' /\ RunsCounted'
      /\ AccessesInRange' /\ OwnersRan' /\ NoFalseConflict'
  BY WorkersUntouched DEF IInv, Join
<1>2. TypeOK'
  BY CountsAssumption
  DEF IInv, Join, queueVars, taskVars, conflictVars, workerVars, TypeOK
<1>3. MainPlace'
  BY DEF IInv, Join, workerVars, TypeOK, MainPlace, Worker
<1>4. QueueAccounted'
  BY StillAccounted, SameHolders DEF IInv, Join, queueVars, workerVars, Queued, Holding
<1>5. TasksPlaced'
  BY StillPlaced DEF IInv, Join, queueVars, taskVars, workerVars, Holding
<1>6. ReturnsWhenDone'
  BY DEF IInv, Join, taskVars, ReturnsWhenDone
<1>7. FreeWhenIdle'
  BY DEF IInv, Join, FreeWhenIdle, MainPlace
<1>. QED  BY <1>1, <1>2, <1>3, <1>4, <1>5, <1>6, <1>7 DEF IInv

(* Every worker has ended.                                                 *)
LEMMA FreeKeeps ==
  ASSUME IInv, Free
  PROVE  IInv'
<1>1. /\ MutexesHeld' /\ TasksHeld' /\ RunsCounted'
      /\ AccessesInRange' /\ OwnersRan' /\ NoFalseConflict'
  BY WorkersUntouched DEF IInv, Free
<1>2. TypeOK'
  BY DEF IInv, Free, queueVars, taskVars, conflictVars, workerVars, TypeOK, MainPC
<1>3. MainPlace'
  BY DEF IInv, Free, MainPlace
<1>4. QueueAccounted'
  BY StillAccounted, SameHolders DEF IInv, Free, queueVars, workerVars, Queued, Holding
<1>5. TasksPlaced'
  BY StillPlaced DEF IInv, Free, queueVars, taskVars, workerVars, Holding
<1>6. ReturnsWhenDone'
  BY DEF IInv, Free, ReturnsWhenDone
<1>7. FreeWhenIdle'
  BY CountsAssumption
  DEF IInv, Free, workerVars, TypeOK, FreeWhenIdle, MainPlace, Worker
<1>. QED  BY <1>1, <1>2, <1>3, <1>4, <1>5, <1>6, <1>7 DEF IInv

-----------------------------------------------------------------------------
(* The steps of the workers.                                               *)

(* queue_mutex passes from no one to the worker.                           *)
LEMMA LockKeeps ==
  ASSUME IInv, NEW w \in Worker, Lock(w)
  PROVE  IInv'
<1>1. RunsCounted' /\ OwnersRan' /\ NoFalseConflict'
  BY TasksUntouched DEF IInv, Lock
<1>2. TypeOK'
  BY DEF IInv, Lock, Goto, taskVars, conflictVars, mainVars, TypeOK, WorkerPC
<1>3. MutexesHeld'
  BY WorkersAreSomeone DEF IInv, Lock, Goto, taskVars, TypeOK, MutexesHeld
<1>4. TasksHeld'
  BY DEF IInv, Lock, Goto, taskVars, TasksHeld, Holding
<1>5. AccessesInRange'
  BY DEF IInv, Lock, Goto, AccessesInRange
<1>6. MainPlace'
  BY DEF IInv, Lock, Goto, mainVars, MainPlace
<1>7. QueueAccounted'
  BY StillAccounted, SameHolders DEF IInv, Lock, Goto, mainVars, Queued, Holding
<1>8. TasksPlaced'
  BY StillPlaced DEF IInv, Lock, Goto, taskVars, mainVars, Holding
<1>9. ReturnsWhenDone'
  BY DEF IInv, Lock, taskVars, mainVars, ReturnsWhenDone
<1>10. FreeWhenIdle'
  BY DEF IInv, Lock, FreeWhenIdle
<1>. QED  BY <1>1, <1>2, <1>3, <1>4, <1>5, <1>6, <1>7, <1>8, <1>9, <1>10 DEF IInv

(* The worker keeps queue_mutex while it looks.                            *)
LEMMA TestKeeps ==
  ASSUME IInv, NEW w \in Worker, Test(w)
  PROVE  IInv'
<1>1. RunsCounted' /\ OwnersRan' /\ NoFalseConflict'
  BY TasksUntouched DEF IInv, Test
<1>2. TypeOK'
  BY DEF IInv, Test, Goto, queueVars, taskVars, conflictVars, mainVars, TypeOK, WorkerPC
<1>3. MutexesHeld'
  BY DEF IInv, Test, Goto, queueVars, taskVars, MutexesHeld
<1>4. TasksHeld'
  BY DEF IInv, Test, Goto, taskVars, TasksHeld, Holding
<1>5. AccessesInRange'
  BY DEF IInv, Test, Goto, AccessesInRange
<1>6. MainPlace'
  BY DEF IInv, Test, Goto, mainVars, MainPlace
<1>7. QueueAccounted'
  BY StillAccounted, SameHolders
  DEF IInv, Test, Goto, queueVars, mainVars, Queued, Holding
<1>8. TasksPlaced'
  BY StillPlaced DEF IInv, Test, Goto, queueVars, taskVars, mainVars, Holding
<1>9. ReturnsWhenDone'
  BY DEF IInv, Test, taskVars, mainVars, ReturnsWhenDone
<1>10. FreeWhenIdle'
  BY DEF IInv, Test, FreeWhenIdle
<1>. QED  BY <1>1, <1>2, <1>3, <1>4, <1>5, <1>6, <1>7, <1>8, <1>9, <1>10 DEF IInv

(* The worker gives queue_mutex up.                                        *)
LEMMA WaitKeeps ==
  ASSUME IInv, NEW w \in Worker, Wait(w)
  PROVE  IInv'
<1>1. RunsCounted' /\ OwnersRan' /\ NoFalseConflict'
  BY TasksUntouched DEF IInv, Wait
<1>2. TypeOK'
  BY DEF IInv, Wait, Goto, taskVars, conflictVars, mainVars, TypeOK, WorkerPC
<1>3. MutexesHeld'
  BY WorkersAreSomeone DEF IInv, Wait, Goto, taskVars, TypeOK, MutexesHeld
<1>4. TasksHeld'
  BY DEF IInv, Wait, Goto, taskVars, TasksHeld, Holding
<1>5. AccessesInRange'
  BY DEF IInv, Wait, Goto, AccessesInRange
<1>6. MainPlace'
  BY DEF IInv, Wait, Goto, mainVars, MainPlace
<1>7. QueueAccounted'
  BY StillAccounted, SameHolders DEF IInv, Wait, Goto, mainVars, Queued, Holding
<1>8. TasksPlaced'
  BY StillPlaced DEF IInv, Wait, Goto, taskVars, mainVars, Holding
<1>9. ReturnsWhenDone'
  BY DEF IInv, Wait, taskVars, mainVars, ReturnsWhenDone
<1>10. FreeWhenIdle'
  BY DEF IInv, Wait, FreeWhenIdle
<1>. QED  BY <1>1, <1>2, <1>3, <1>4, <1>5, <1>6, <1>7, <1>8, <1>9, <1>10 DEF IInv

(* The worker wakes up without a mutex.                                    *)
LEMMA SpuriousWakeupKeeps ==
  ASSUME IInv, NEW w \in Worker, SpuriousWakeup(w)
  PROVE  IInv'
<1>1. RunsCounted' /\ OwnersRan' /\ NoFalseConflict'
  BY TasksUntouched DEF IInv, SpuriousWakeup
<1>2. TypeOK'
  BY CountsAssumption
  DEF IInv, SpuriousWakeup, Goto, queueVars, taskVars, conflictVars, mainVars, TypeOK,
      WorkerPC
<1>3. MutexesHeld'
  BY DEF IInv, SpuriousWakeup, Goto, queueVars, taskVars, MutexesHeld
<1>4. TasksHeld'
  BY DEF IInv, SpuriousWakeup, Goto, taskVars, TasksHeld, Holding
<1>5. AccessesInRange'
  BY DEF IInv, SpuriousWakeup, Goto, AccessesInRange
<1>6. MainPlace'
  BY DEF IInv, SpuriousWakeup, Goto, mainVars, MainPlace
<1>7. QueueAccounted'
  BY StillAccounted, SameHolders
  DEF IInv, SpuriousWakeup, Goto, queueVars, mainVars, Queued, Holding
<1>8. TasksPlaced'
  BY StillPlaced DEF IInv, SpuriousWakeup, Goto, queueVars, taskVars, mainVars, Holding
<1>9. ReturnsWhenDone'
  BY DEF IInv, SpuriousWakeup, taskVars, mainVars, ReturnsWhenDone
<1>10. FreeWhenIdle'
  BY DEF IInv, SpuriousWakeup, FreeWhenIdle
<1>. QED  BY <1>1, <1>2, <1>3, <1>4, <1>5, <1>6, <1>7, <1>8, <1>9, <1>10 DEF IInv

(* The worker ends without a mutex and without a task.                     *)
LEMMA ExitKeeps ==
  ASSUME IInv, NEW w \in Worker, Exit(w)
  PROVE  IInv'
<1>1. RunsCounted' /\ OwnersRan' /\ NoFalseConflict'
  BY TasksUntouched DEF IInv, Exit
<1>2. TypeOK'
  BY DEF IInv, Exit, Goto, taskVars, conflictVars, mainVars, TypeOK, WorkerPC
<1>3. MutexesHeld'
  BY WorkersAreSomeone DEF IInv, Exit, Goto, taskVars, TypeOK, MutexesHeld
<1>4. TasksHeld'
  BY DEF IInv, Exit, Goto, taskVars, TasksHeld, Holding
<1>5. AccessesInRange'
  BY DEF IInv, Exit, Goto, AccessesInRange
<1>6. MainPlace'
  BY DEF IInv, Exit, Goto, mainVars, MainPlace
<1>7. QueueAccounted'
  BY StillAccounted, SameHolders DEF IInv, Exit, Goto, mainVars, Queued, Holding
<1>8. TasksPlaced'
  BY StillPlaced DEF IInv, Exit, Goto, taskVars, mainVars, Holding
<1>9. ReturnsWhenDone'
  BY DEF IInv, Exit, taskVars, mainVars, ReturnsWhenDone
<1>10. FreeWhenIdle'
  BY DEF IInv, Exit, FreeWhenIdle
<1>. QED  BY <1>1, <1>2, <1>3, <1>4, <1>5, <1>6, <1>7, <1>8, <1>9, <1>10 DEF IInv

(* The task leaves the queue for the worker's hands.                       *)
LEMMA TakeKeeps ==
  ASSUME IInv, NEW w \in Worker, Take(w)
  PROVE  IInv'
<1>1. /\ ready_queue \in Seq(Task) /\ Len(ready_queue) \in Nat \ {0}
      /\ ready_queue[Len(ready_queue)] \in Task
  BY DEF IInv, Take, TypeOK
<1>2. /\ ready_queue' \in Seq(Task) /\ Len(ready_queue') = Len(ready_queue) - 1
      /\ \A i \in 1 .. Len(ready_queue) - 1 : ready_queue'[i] = ready_queue[i]
  <2>. DEFINE n == Len(ready_queue) - 1
  <2>1. ready_queue' = SubSeq(ready_queue, 1, n) /\ n \in 0 .. Len(ready_queue)
    BY <1>1 DEF Take
  <2>2. n \in Nat /\ \A i \in 1 .. n : ready_queue[i] \in Task
    BY <1>1
  <2>. HIDE DEF n
  <2>3. /\ ready_queue' \in Seq(Task) /\ Len(ready_queue') = n
        /\ \A i \in 1 .. n : ready_queue'[i] = ready_queue[i]
    BY <2>1, <2>2, SubSeqProperties
  <2>. QED  BY <2>3 DEF n
<1>3. /\ pc[w] = "test_shutdown" /\ pc'[w] = "lock_task"
      /\ current'[w] = ready_queue[Len(ready_queue)]
      /\ \A u \in Worker : u # w => pc'[u] = pc[u] /\ current'[u] = current[u]
      /\ UNCHANGED <<completed, completed_tasks, main, executes, next>>
  BY DEF IInv, Take, Goto, TypeOK, taskVars, mainVars
<1>4. RunsCounted' /\ OwnersRan' /\ NoFalseConflict'
  BY TasksUntouched DEF IInv, Take
<1>5. TypeOK'
  BY <1>1, <1>2 DEF IInv, Take, Goto, TypeOK, taskVars, conflictVars, mainVars, WorkerPC, NoOne
<1>6. MutexesHeld'
  BY WorkersAreSomeone
  DEF IInv, Take, Goto, queueVars, taskVars, conflictVars, mainVars, workerVars,
      TypeOK, MutexesHeld, NoTask, WorkerPC
<1>7. TasksHeld'
  BY DEF IInv, Take, Goto, taskVars, TypeOK, TasksHeld, Holding
<1>8. AccessesInRange'
  BY DEF IInv, Take, Goto, AccessesInRange
<1>9. MainPlace'
  BY DEF IInv, Take, Goto, mainVars, MainPlace
<1>10. QueueAccounted'
  <2>1. Cardinality(Holders') = Cardinality(Holders) + 1
    BY <1>3, OneMoreHolder DEF Holding
  <2>2. Queued' = Queued
    BY <1>3 DEF Queued
  <2>3. completed_tasks \in Nat
    BY CountsAssumption DEF IInv, TypeOK, MaxCounted
  <2>. QED
    BY <1>1, <1>2, <1>3, <2>1, <2>2, <2>3, HoldersFinite, Balance DEF IInv
<1>11. TasksPlaced'
  <2>1. executes' > 1 => \A t \in Task : completed'[t]
    BY <1>3 DEF IInv, TasksPlaced
  <2>2. ASSUME executes' > 0, NEW t \in Task, main' = "enqueue" => t < next'
        PROVE  Placed(t)'
    <3>1. Placed(t)
      BY <1>3, <2>2 DEF IInv, TasksPlaced
    <3>2. CASE completed[t]
      BY <1>3, <3>2 DEF Placed
    <3>3. CASE \E i \in 1 .. Len(ready_queue) : ready_queue[i] = t
      <4>1. PICK i \in 1 .. Len(ready_queue) : ready_queue[i] = t
        BY <3>3
      <4>2. CASE i = Len(ready_queue)
        <5>1. Holding(w)' /\ current'[w] = t
          BY <1>3, <4>1, <4>2 DEF Holding
        <5>. QED  BY <5>1 DEF Placed
      <4>3. CASE i # Len(ready_queue)
        <5>1. i \in 1 .. Len(ready_queue') /\ ready_queue'[i] = t
          BY <1>1, <1>2, <4>1, <4>3
        <5>. QED  BY <5>1 DEF Placed
      <4>. QED  BY <4>2, <4>3
    <3>4. CASE \E u \in Worker : Holding(u) /\ current[u] = t
      <4>1. PICK u \in Worker : Holding(u) /\ current[u] = t
        BY <3>4
      <4>2. Holding(u)' /\ current'[u] = t
        BY <1>3, <4>1 DEF Holding
      <4>. QED  BY <4>2 DEF Placed
    <3>. QED  BY <3>1, <3>2, <3>3, <3>4 DEF Placed
  <2>. QED  BY <2>1, <2>2 DEF TasksPlaced
<1>12. ReturnsWhenDone'
  BY DEF IInv, Take, taskVars, mainVars, ReturnsWhenDone
<1>13. FreeWhenIdle'
  BY DEF IInv, Take, FreeWhenIdle
<1>. QED  BY <1>1, <1>2, <1>3, <1>4, <1>5, <1>6, <1>7, <1>8, <1>9, <1>10, <1>11,
             <1>12, <1>13 DEF IInv

(* The task had not run, and nobody else runs it while it is locked.       *)
LEMMA RunKeeps ==
  ASSUME IInv, NEW w \in Worker, Run(w)
  PROVE  IInv'
<1>1. /\ pc[w] = "lock_task" /\ current[w] \in Task
      /\ task_mutex[current[w]] = NoOne /\ ~completed[current[w]]
      /\ exec_count[current[w]] = 0
  BY DEF IInv, Run, TasksHeld, Holding, RunsCounted
<1>2. /\ task_mutex' = [task_mutex EXCEPT ![current[w]] = w]
      /\ exec_count' = [exec_count EXCEPT ![current[w]] = @ + 1]
      /\ access' = [access EXCEPT ![w] = 1]
      /\ pc' = [pc EXCEPT ![w] = "check"]
      /\ UNCHANGED <<queueVars, shutdown, completed_tasks, completed, conflictVars, freed,
                     mainVars, current, spurious>>
  BY DEF Run, Goto
<1>3. \A t \in Task : exec_count'[t] >= exec_count[t] /\ exec_count[t] \in Nat
  BY <1>1, <1>2 DEF IInv, TypeOK
<1>4. TypeOK'
  BY <1>1, <1>2 DEF IInv, TypeOK, queueVars, conflictVars, mainVars, WorkerPC
<1>5. MutexesHeld'
  BY WorkersAreSomeone
  DEF IInv, Run, Goto, queueVars, TypeOK, MutexesHeld, NoOne, WorkerPC
<1>6. TasksHeld'
  BY DEF IInv, Run, Goto, TasksHeld, Holding
<1>7. RunsCounted'
  BY DEF IInv, Run, TypeOK, RunsCounted, MutexesHeld, TasksHeld, Holding
<1>8. AccessesInRange'
  BY DEF IInv, Run, Goto, TypeOK, AccessesInRange
<1>9. OwnersRan'
  <2>1. var_access_owner' = var_access_owner
    BY <1>2 DEF conflictVars
  <2>2. \A v \in Var : var_access_owner[v] # NoTask => var_access_owner[v] \in Task
    BY DEF IInv, TypeOK
  <2>3. ASSUME NEW v \in Var, var_access_owner[v] # NoTask
        PROVE  exec_count'[var_access_owner[v]] > 0
    <3>1. exec_count[var_access_owner[v]] > 0
      BY <2>3 DEF IInv, OwnersRan
    <3>. QED  BY <1>3, <2>2, <2>3, <3>1, <1>2 DEF IInv, TypeOK
  <2>. QED  BY <2>1, <2>3 DEF IInv, OwnersRan
<1>10. NoFalseConflict'
  <2>1. SUFFICES ASSUME conflict_detected
        PROVE  \E t, u \in {s \in Task : exec_count'[s] > 0} : t # u /\ Conflicting(t, u)
    BY <1>2 DEF NoFalseConflict, conflictVars, Conflicting
  <2>2. PICK t \in {s \in Task : exec_count[s] > 0}, u \in {s \in Task : exec_count[s] > 0} :
          t # u /\ Conflicting(t, u)
    BY <2>1 DEF IInv, NoFalseConflict
  <2>3. exec_count'[t] > 0 /\ exec_count'[u] > 0
    BY <1>2, <1>3, <2>2 DEF IInv, TypeOK
  <2>. QED  BY <2>2, <2>3
<1>11. MainPlace'
  BY DEF IInv, Run, Goto, mainVars, MainPlace
<1>12. QueueAccounted'
  BY StillAccounted, SameHolders
  DEF IInv, Run, Goto, queueVars, mainVars, Queued, Holding
<1>13. TasksPlaced'
  BY StillPlaced DEF IInv, Run, Goto, queueVars, mainVars, Holding
<1>14. ReturnsWhenDone'
  BY DEF IInv, Run, mainVars, ReturnsWhenDone
<1>15. FreeWhenIdle'
  BY DEF IInv, Run, FreeWhenIdle
<1>. QED  BY <1>1, <1>2, <1>3, <1>4, <1>5, <1>6, <1>7, <1>8, <1>9, <1>10, <1>11,
             <1>12, <1>13, <1>14, <1>15 DEF IInv

(* A completed task may be counted.                                        *)
LEMMA SkipCompletedKeeps ==
  ASSUME IInv, NEW w \in Worker, SkipCompleted(w)
  PROVE  IInv'
<1>1. RunsCounted' /\ OwnersRan' /\ NoFalseConflict'
  BY TasksUntouched DEF IInv, SkipCompleted
<1>2. TypeOK'
  BY DEF IInv, SkipCompleted, Goto, queueVars, taskVars, conflictVars, mainVars,
         TypeOK, WorkerPC
<1>3. MutexesHeld'
  BY DEF IInv, SkipCompleted, Goto, queueVars, taskVars, MutexesHeld
<1>4. TasksHeld'
  BY DEF IInv, SkipCompleted, Goto, taskVars, TasksHeld, Holding
<1>5. AccessesInRange'
  BY DEF IInv, SkipCompleted, Goto, AccessesInRange
<1>6. MainPlace'
  BY DEF IInv, SkipCompleted, Goto, mainVars, MainPlace
<1>7. QueueAccounted'
  BY StillAccounted, SameHolders
  DEF IInv, SkipCompleted, Goto, queueVars, mainVars, Queued, Holding
<1>8. TasksPlaced'
  BY StillPlaced DEF IInv, SkipCompleted, Goto, queueVars, taskVars, mainVars, Holding
<1>9. ReturnsWhenDone'
  BY DEF IInv, SkipCompleted, taskVars, mainVars, ReturnsWhenDone
<1>10. FreeWhenIdle'
  BY DEF IInv, SkipCompleted, FreeWhenIdle
<1>. QED  BY <1>1, <1>2, <1>3, <1>4, <1>5, <1>6, <1>7, <1>8, <1>9, <1>10 DEF IInv

(* The previous owner of the global has run and accesses it, as the task   *)
(* in hand does: if they differ the conflict is one.                       *)
LEMMA CheckKeeps ==
  ASSUME IInv, NEW w \in Worker, Check(w)
  PROVE  IInv'
<1>1. /\ pc[w] = "check" /\ current[w] \in Task /\ access[w] \in 1 .. Len(Accesses[current[w]])
      /\ Accessed(w) \in Var /\ exec_count[current[w]] > 0
  <2>1. pc[w] = "check" /\ current[w] \in Task /\ access[w] \in 1 .. Len(Accesses[current[w]])
    BY AccessesAssumption DEF IInv, Check, Checking, TasksHeld, Holding, AccessesInRange
  <2>2. Accessed(w) \in Var
    BY <2>1, AccessesAssumption DEF Accessed
  <2>3. task_mutex[current[w]] # NoOne
    BY <2>1, WorkersAreSomeone DEF IInv, MutexesHeld
  <2>. QED  BY <2>1, <2>2, <2>3 DEF IInv, RunsCounted
<1>2. /\ conflict_detected' =
           (conflict_detected \/ var_access_owner[Accessed(w)] \notin {NoTask, current[w]})
      /\ pc' = [pc EXCEPT ![w] = "claim"]
      /\ UNCHANGED <<queueVars, shutdown, completed_tasks, taskVars, var_access_owner, freed,
                     mainVars, current, access, spurious>>
  BY DEF Check, Goto
<1>3. TypeOK'
  BY <1>1, <1>2 DEF IInv, TypeOK, queueVars, taskVars, mainVars, WorkerPC
<1>4. MutexesHeld'
  BY <1>1, <1>2 DEF IInv, TypeOK, queueVars, taskVars, MutexesHeld
<1>5. TasksHeld'
  BY <1>1, <1>2 DEF IInv, TypeOK, taskVars, TasksHeld, Holding
<1>6. RunsCounted'
  BY <1>2 DEF IInv, taskVars, RunsCounted
<1>7. AccessesInRange'
  BY <1>1, <1>2 DEF IInv, TypeOK, AccessesInRange
<1>8. OwnersRan'
  BY <1>2 DEF IInv, taskVars, OwnersRan
<1>9. NoFalseConflict'
  <2>1. CASE conflict_detected' = conflict_detected
    BY <1>2, <2>1 DEF IInv, taskVars, NoFalseConflict, Conflicting
  <2>2. CASE var_access_owner[Accessed(w)] \notin {NoTask, current[w]}
    <3>. DEFINE o == var_access_owner[Accessed(w)]
    <3>1. o \in Task /\ o # current[w] /\ exec_count[o] > 0
      BY <1>1, <2>2 DEF IInv, TypeOK, OwnersRan
    <3>2. PICK i \in DOMAIN Accesses[o] : Accesses[o][i] = Accessed(w)
      BY <1>1, <2>2 DEF IInv, OwnersRan
    <3>3. access[w] \in DOMAIN Accesses[current[w]]
      BY <1>1, AccessesAssumption
    <3>4. Conflicting(o, current[w])
      BY <3>2, <3>3 DEF Conflicting, Accessed
    <3>5. \E t, u \in {s \in Task : exec_count[s] > 0} : t # u /\ Conflicting(t, u)
      BY <1>1, <3>1, <3>4
    <3>. QED  BY <1>2, <3>5 DEF taskVars, NoFalseConflict, Conflicting
  <2>. QED  BY <1>2, <2>1, <2>2 DEF IInv, TypeOK
<1>10. MainPlace'
  BY <1>1, <1>2 DEF IInv, TypeOK, mainVars, MainPlace
<1>11. QueueAccounted'
  <2>1. Holders' = Holders
    BY <1>1, <1>2, SameHolders DEF IInv, TypeOK, Holding
  <2>. QED  BY <1>2, <2>1, StillAccounted DEF queueVars, mainVars, Queued
<1>12. TasksPlaced'
  <2>1. \A u \in Worker : Holding(u) => Holding(u)' /\ current'[u] = current[u]
    BY <1>1, <1>2 DEF IInv, TypeOK, Holding
  <2>. QED  BY <1>2, <2>1, StillPlaced DEF queueVars, taskVars, mainVars
<1>13. ReturnsWhenDone'
  BY <1>2 DEF IInv, taskVars, mainVars, ReturnsWhenDone
<1>14. FreeWhenIdle'
  BY <1>1, <1>2 DEF IInv, TypeOK, FreeWhenIdle
<1>. QED  BY <1>1, <1>2, <1>3, <1>4, <1>5, <1>6, <1>7, <1>8, <1>9, <1>10, <1>11,
             <1>12, <1>13, <1>14 DEF IInv

(* The new owner of the global is running and accesses it.                 *)
LEMMA ClaimKeeps ==
  ASSUME IInv, NEW w \in Worker, Claim(w)
  PROVE  IInv'
<1>1. /\ pc[w] = "claim" /\ current[w] \in Task /\ access[w] \in 1 .. Len(Accesses[current[w]])
      /\ Accessed(w) \in Var /\ exec_count[current[w]] > 0
  <2>1. pc[w] = "claim" /\ current[w] \in Task /\ access[w] \in 1 .. Len(Accesses[current[w]])
    BY DEF IInv, Claim, TasksHeld, Holding, AccessesInRange
  <2>2. Accessed(w) \in Var
    BY <2>1, AccessesAssumption DEF Accessed
  <2>3. task_mutex[current[w]] # NoOne
    BY <2>1, WorkersAreSomeone DEF IInv, MutexesHeld
  <2>. QED  BY <2>1, <2>2, <2>3 DEF IInv, RunsCounted
<1>2. TypeOK'
  <2>1. var_access_owner' \in [Var -> Task \cup {NoTask}]
    BY <1>1 DEF IInv, Claim, TypeOK
  <2>2. access' \in [Worker -> Nat]
    BY <1>1 DEF IInv, Claim, TypeOK
  <2>3. pc' \in [Worker -> WorkerPC]
    BY DEF IInv, Claim, Goto, TypeOK, WorkerPC
  <2>. QED
    BY <2>1, <2>2, <2>3 DEF IInv, Claim, TypeOK, queueVars, taskVars, mainVars
<1>3. MutexesHeld'
  BY DEF IInv, Claim, Goto, queueVars, taskVars, MutexesHeld
<1>4. TasksHeld'
  BY DEF IInv, Claim, Goto, taskVars, TasksHeld, Holding
<1>5. RunsCounted'
  BY DEF IInv, Claim, taskVars, RunsCounted
<1>6. AccessesInRange'
  BY AccessesAssumption DEF IInv, Claim, Goto, TypeOK, AccessesInRange
<1>7. OwnersRan'
  <2>1. access[w] \in DOMAIN Accesses[current[w]] /\ Accesses[current[w]][access[w]] = Accessed(w)
    BY <1>1, AccessesAssumption DEF Accessed
  <2>2. var_access_owner' = [var_access_owner EXCEPT ![Accessed(w)] = current[w]]
        /\ exec_count' = exec_count /\ var_access_owner \in [Var -> Task \cup {NoTask}]
    BY DEF IInv, Claim, TypeOK, taskVars
  <2>3. ASSUME NEW v \in Var, var_access_owner'[v] # NoTask
        PROVE  /\ exec_count[var_access_owner'[v]] > 0
               /\ \E i \in DOMAIN Accesses[var_access_owner'[v]] :
                     Accesses[var_access_owner'[v]][i] = v
    <3>1. CASE v = Accessed(w)
      <4>1. var_access_owner'[v] = current[w]
        BY <1>1, <2>2, <3>1
      <4>. QED  BY <1>1, <2>1, <3>1, <4>1
    <3>2. CASE v # Accessed(w)
      <4>1. var_access_owner'[v] = var_access_owner[v]
        BY <2>2, <3>2
      <4>. QED  BY <2>3, <4>1 DEF IInv, OwnersRan
    <3>. QED  BY <3>1, <3>2
  <2>. QED  BY <2>2, <2>3 DEF OwnersRan
<1>8. NoFalseConflict'
  BY DEF IInv, Claim, taskVars, NoFalseConflict
<1>9. MainPlace'
  BY DEF IInv, Claim, Goto, mainVars, MainPlace
<1>10. QueueAccounted'
  BY StillAccounted, SameHolders
  DEF IInv, Claim, Goto, queueVars, mainVars, Queued, Holding
<1>11. TasksPlaced'
  BY StillPlaced DEF IInv, Claim, Goto, queueVars, taskVars, mainVars, Holding
<1>12. ReturnsWhenDone'
  BY DEF IInv, Claim, taskVars, mainVars, ReturnsWhenDone
<1>13. FreeWhenIdle'
  BY DEF IInv, Claim, FreeWhenIdle
<1>. QED  BY <1>1, <1>2, <1>3, <1>4, <1>5, <1>6, <1>7, <1>8, <1>9, <1>10, <1>11,
             <1>12, <1>13 DEF IInv

(* The task is completed as its mutex is released.                         *)
LEMMA CompleteKeeps ==
  ASSUME IInv, NEW w \in Worker, Complete(w)
  PROVE  IInv'
<1>1. TypeOK'
  BY DEF IInv, Complete, Goto, queueVars, conflictVars, mainVars, TypeOK, WorkerPC
<1>2. MutexesHeld'
  BY WorkersAreSomeone
  DEF IInv, Complete, Goto, queueVars, taskVars, TypeOK, MutexesHeld, NoTask
<1>3. TasksHeld'
  BY DEF IInv, Complete, Goto, TypeOK, TasksHeld, Holding
<1>4. RunsCounted'
  BY WorkersAreSomeone DEF IInv, Complete, TypeOK, RunsCounted, MutexesHeld
<1>5. AccessesInRange'
  BY DEF IInv, Complete, Goto, AccessesInRange
<1>6. OwnersRan'
  BY DEF IInv, Complete, conflictVars, OwnersRan
<1>7. NoFalseConflict'
  BY DEF IInv, Complete, conflictVars, NoFalseConflict
<1>8. MainPlace'
  BY DEF IInv, Complete, Goto, mainVars, MainPlace
<1>9. QueueAccounted'
  BY StillAccounted, SameHolders
  DEF IInv, Complete, Goto, queueVars, mainVars, Queued, Holding
<1>10. TasksPlaced'
  BY StillPlaced DEF IInv, Complete, Goto, queueVars, mainVars, Holding
<1>11. ReturnsWhenDone'
  BY DEF IInv, Complete, mainVars, ReturnsWhenDone
<1>12. FreeWhenIdle'
  BY DEF IInv, Complete, FreeWhenIdle
<1>. QED  BY <1>1, <1>2, <1>3, <1>4, <1>5, <1>6, <1>7, <1>8, <1>9, <1>10, <1>11,
             <1>12 DEF IInv

(* The task leaves the worker's hands for the counter.                     *)
LEMMA CountKeeps ==
  ASSUME IInv, NEW w \in Worker, Count(w)
  PROVE  IInv'
<1>1. /\ pc[w] = "count" /\ pc' = [pc EXCEPT ![w] = "lock"]
      /\ completed_tasks' = completed_tasks + 1
      /\ UNCHANGED <<queueVars, shutdown, taskVars, conflictVars, freed,
                     mainVars, current, access, spurious>>
  BY DEF Count, Goto
<1>2. QueueAccounted'
  <2>1. Cardinality(Holders') = Cardinality(Holders) - 1
    BY <1>1, OneHolderLess DEF IInv, TypeOK, Holding
  <2>2. Queued' = Queued
    BY <1>1 DEF mainVars, Queued
  <2>3. completed_tasks \in Nat /\ Len(ready_queue) \in Nat
    BY CountsAssumption DEF IInv, TypeOK, MaxCounted
  <2>. QED
    BY <1>1, <2>1, <2>2, <2>3, HoldersFinite, Balance DEF IInv, queueVars
<1>3. RunsCounted' /\ OwnersRan' /\ NoFalseConflict'
  BY TasksUntouched DEF IInv, Count
<1>4. TypeOK'
  <2>1. completed_tasks' \in Nat
    BY <1>1, CountsAssumption DEF IInv, TypeOK, MaxCounted
  <2>2. /\ ready_queue' \in Seq(Task) /\ executes' \in 0 .. MaxExecutes /\ next' \in Nat
        /\ main' = "enqueue" => executes' > 0 /\ next' <= NumTasks + 1
    BY <1>1 DEF IInv, TypeOK, MainPlace, queueVars, mainVars
  <2>3. completed_tasks' \in 0 .. MaxCounted
    BY <1>2, <2>1, <2>2, CountedInRange
  <2>. QED
    BY <1>1, <2>3 DEF IInv, TypeOK, queueVars, taskVars, conflictVars, mainVars, WorkerPC
<1>5. MutexesHeld'
  BY DEF IInv, Count, Goto, queueVars, taskVars, MutexesHeld
<1>6. TasksHeld'
  BY DEF IInv, Count, Goto, taskVars, TasksHeld, Holding
<1>7. AccessesInRange'
  BY DEF IInv, Count, Goto, AccessesInRange
<1>8. MainPlace'
  BY DEF IInv, Count, Goto, mainVars, MainPlace
<1>9. QueueAccounted'
  BY <1>2
<1>10. TasksPlaced'
  <2>1. completed[current[w]]
    BY <1>1 DEF IInv, TasksHeld
  <2>2. executes' > 1 => \A t \in Task : completed'[t]
    BY <1>1 DEF IInv, TasksPlaced, mainVars, taskVars
  <2>3. ASSUME executes' > 0, NEW t \in Task, main' = "enqueue" => t < next'
        PROVE  Placed(t)'
    <3>1. Placed(t) /\ UNCHANGED <<ready_queue, current, completed>>
      BY <1>1, <2>3 DEF IInv, TasksPlaced, mainVars, queueVars, taskVars
    <3>2. \A u \in Worker : Holding(u) /\ u # w => Holding(u)'
      BY <1>1 DEF IInv, TypeOK, Holding
    <3>. QED  BY <2>1, <3>1, <3>2 DEF Placed
  <2>. QED  BY <2>2, <2>3 DEF TasksPlaced
<1>11. ReturnsWhenDone'
  BY DEF IInv, Count, taskVars, mainVars, ReturnsWhenDone
<1>12. FreeWhenIdle'
  BY DEF IInv, Count, FreeWhenIdle
<1>. QED  BY <1>1, <1>2, <1>3, <1>4, <1>5, <1>6, <1>7, <1>8, <1>9, <1>10, <1>11,
             <1>12 DEF IInv

-----------------------------------------------------------------------------
(* The theorems.                                                           *)

(* The invariant holds when scheduler_create begins.                      *)
LEMMA InitIInv == ASSUME Init PROVE IInv
<1>1. TypeOK
  <2>1. MaxCounted \in Nat
    BY CountsAssumption DEF MaxCounted
  <2>2. completed_tasks \in 0 .. MaxCounted /\ next \in 1 .. NumTasks + NumWorkers + 1
    BY <2>1, CountsAssumption DEF Init
  <2>3. ready_queue \in Seq(Task)
    BY DEF Init
  <2>4. executes \in 0 .. MaxExecutes /\ spurious \in 0 .. MaxSpurious
    BY CountsAssumption DEF Init
  <2>5. /\ completed \in [Task -> BOOLEAN] /\ exec_count \in [Task -> Nat]
        /\ task_mutex \in [Task -> Worker \cup {NoOne}]
        /\ var_access_owner \in [Var -> Task \cup {NoTask}]
        /\ pc \in [Worker -> WorkerPC] /\ current \in [Worker -> Task \cup {NoTask}]
        /\ access \in [Worker -> Nat]
    BY DEF Init, WorkerPC
  <2>6. queue_mutex \in Worker \cup {NoOne} /\ main \in MainPC
    BY DEF Init, MainPC
  <2>7. shutdown \in BOOLEAN /\ freed \in BOOLEAN /\ conflict_detected \in BOOLEAN
    BY DEF Init
  <2>. QED  BY <2>2, <2>3, <2>4, <2>5, <2>6, <2>7 DEF TypeOK
<1>2. MutexesHeld /\ TasksHeld /\ RunsCounted /\ AccessesInRange
  BY WorkersAreSomeone DEF Init, MutexesHeld, TasksHeld, Holding, RunsCounted, AccessesInRange
<1>3. OwnersRan /\ NoFalseConflict /\ ReturnsWhenDone /\ FreeWhenIdle
  BY DEF Init, OwnersRan, NoFalseConflict, ReturnsWhenDone, FreeWhenIdle
<1>4. MainPlace /\ TasksPlaced
  BY CountsAssumption DEF Init, MainPlace, TasksPlaced, Worker
<1>5. QueueAccounted
  <2>1. Holders = {}
    BY DEF Init, Holders, Holding
  <2>. QED  BY <2>1, Balance, FS_EmptySet, CountsAssumption DEF Init, Queued
<1>. QED  BY <1>1, <1>2, <1>3, <1>4, <1>5 DEF IInv

(* It does not depend on anything but the variables ...                    *)
LEMMA StutterIInv == ASSUME IInv, UNCHANGED vars PROVE IInv'
<1>1. UNCHANGED <<queueVars, shutdown, completed_tasks, taskVars, conflictVars, freed,
                  mainVars, workerVars>>
  BY DEF vars
<1>2. /\ TypeOK' /\ MainPlace' /\ ReturnsWhenDone' /\ FreeWhenIdle'
  BY <1>1 DEF IInv, queueVars, taskVars, conflictVars, mainVars, workerVars,
              TypeOK, MainPlace, ReturnsWhenDone, FreeWhenIdle
<1>3. /\ MutexesHeld' /\ TasksHeld' /\ RunsCounted'
      /\ AccessesInRange' /\ OwnersRan' /\ NoFalseConflict'
  BY <1>1, WorkersUntouched
<1>4. QueueAccounted' /\ TasksPlaced'
  BY <1>1, SameHolders, StillAccounted, StillPlaced
  DEF queueVars, taskVars, mainVars, workerVars, Holding, Queued
<1>. QED  BY <1>2, <1>3, <1>4 DEF IInv

(* ... and every step of every thread keeps it.                            *)
LEMMA NextIInv == ASSUME IInv, [Next]_vars PROVE IInv'
<1>1. CASE Main
  BY <1>1, CreateWorkerKeeps, CreateFailsKeeps, JoinCreatedKeeps, PlanKeeps,
           ExecuteKeeps, MarkTaskReadyKeeps, AllQueuedKeeps,
           ExecuteReturnsKeeps, BeginDestroyKeeps, BroadcastShutdownKeeps,
           JoinKeeps, FreeKeeps
  DEF Main
<1>2. CASE \E w \in Worker : Step(w) \/ SpuriousWakeup(w)
  BY <1>2, LockKeeps, TestKeeps, WaitKeeps, SpuriousWakeupKeeps, ExitKeeps,
           TakeKeeps, RunKeeps, SkipCompletedKeeps, CheckKeeps, ClaimKeeps,
           CompleteKeeps, CountKeeps
  DEF Step
<1>3. CASE UNCHANGED vars
  BY <1>3, StutterIInv
<1>. QED  BY <1>1, <1>2, <1>3 DEF Next

(* So it always holds.                                                     *)
THEOREM Inductive == Spec => []IInv
BY InitIInv, NextIInv, PTL DEF Spec

(* Every variable keeps its type, whatever the threads do: in particular   *)
(* the counters stay in their bounds.                                      *)
THEOREM TypeCorrect == Spec => []TypeOK
<1>1. IInv => TypeOK
  BY DEF IInv
<1>. QED  BY <1>1, Inductive, PTL

(* A task's code is run at most once, and no queued task is lost or taken  *)
(* twice (scheduler.c:195-270), with any number of workers and executions. *)
THEOREM TasksRunOnceHolds == Spec => []TasksRunOnce
<1>1. ASSUME IInv PROVE RunOnce
  BY <1>1 DEF IInv, RunsCounted, RunOnce
<1>2. IInv => TasksRunOnce
  BY <1>1 DEF IInv, TasksRunOnce
<1>. QED  BY <1>2, Inductive, PTL

(* scheduler_execute returns only with the completed flag of every task    *)
(* set, and what the workers use is freed only when each of them has ended *)
(* or was never started.                                                   *)
THEOREM ReturnsWhenIdleHolds == Spec => []ReturnsWhenIdle
<1>1. IInv => ReturnsWhenIdle
  BY DEF IInv, ReturnsWhenIdle
<1>. QED  BY <1>1, Inductive, PTL

(* A reported conflict is one: two tasks that have started access a common *)
(* global (scheduler.c:219-244, which no mutex protects).                  *)
THEOREM NoFalseConflictHolds == Spec => []NoFalseConflict
<1>1. IInv => NoFalseConflict
  BY DEF IInv
<1>. QED  BY <1>1, Inductive, PTL
=============================================================================
