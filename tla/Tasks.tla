------------------------------- MODULE Tasks --------------------------------
(***************************************************************************)
(* The tasks and mutexes of modules/native/task_module.c.  Like a channel  *)
(* (see Channel), both are shared by the threads of the host; a task is    *)
(* done as soon as it is spawned, because nothing runs it.  A step is one  *)
(* access to what is shared.  Threads release only what they have locked,  *)
(* and lock nothing twice: pthreads leave undefined what happens then.     *)
(***************************************************************************)
EXTENDS Integers, Sequences, FiniteSets

CONSTANTS
    Threads,
    Nobody,     \* the owner of a free mutex
    MaxTasks    \* bound

VARIABLES
    holder,     \* of the pthread mutex
    locked,     \* the flag beside it
    pc,         \* where each thread is
    tasks,      \* [id, state] of the tasks
    next_id,    \* g_next_task_id
    seen        \* the id each thread has read and is about to increment

taskVars == <<holder, locked, pc, tasks, next_id, seen>>

TaskStates == {"pending", "running", "done", "error", "cancelled"}
Final      == {"done", "error", "cancelled"}

Goes(t, from, to) == pc[t] = from /\ pc' = [pc EXCEPT ![t] = to]

----------------------------------------------------------------------------
(* Mutexes.                                                                *)

\* pthread_mutex_lock waits, pthread_mutex_trylock takes what is free.
Acquire(t) ==
    /\ Goes(t, "idle", "locking")
    /\ holder = Nobody /\ holder' = t
    /\ UNCHANGED <<locked, tasks, next_id, seen>>

SetLocked(t) ==
    /\ Goes(t, "locking", "inside")
    /\ locked' = TRUE
    /\ UNCHANGED <<holder, tasks, next_id, seen>>

task_lock(t) == Acquire(t) \/ SetLocked(t)      \* and task_try_lock that returns true

ClearLocked(t) ==
    /\ Goes(t, "inside", "unlocking")
    /\ locked' = FALSE
    /\ UNCHANGED <<holder, tasks, next_id, seen>>

ReleaseMutex(t) ==
    /\ Goes(t, "unlocking", "idle")
    /\ holder' = Nobody
    /\ UNCHANGED <<locked, tasks, next_id, seen>>

task_unlock(t) == ClearLocked(t) \/ ReleaseMutex(t)

----------------------------------------------------------------------------
(* Tasks, from inside a mutex or not.                                      *)

\* g_next_task_id++ reads and writes.
ReadId(t) ==
    /\ seen[t] = 0 /\ Len(tasks) < MaxTasks
    /\ seen' = [seen EXCEPT ![t] = next_id]
    /\ UNCHANGED <<holder, locked, pc, tasks, next_id>>

WriteId(t) ==
    /\ seen[t] # 0 /\ Len(tasks) < MaxTasks
    /\ next_id' = seen[t] + 1
    /\ tasks' = Append(tasks, [id |-> seen[t], state |-> "done"])
    /\ seen' = [seen EXCEPT ![t] = 0]
    /\ UNCHANGED <<holder, locked, pc>>

task_spawn(t) == ReadId(t) \/ WriteId(t)

Cancellable == {"pending", "running"}

task_cancel(t) ==
    /\ seen[t] = 0
    /\ tasks' = [k \in DOMAIN tasks |->
                    IF tasks[k].state \in Cancellable THEN [tasks[k] EXCEPT !.state = "cancelled"]
                    ELSE tasks[k]]
    /\ UNCHANGED <<holder, locked, pc, next_id, seen>>

task_is_done(k) == tasks[k].state \in Final

Init ==
    /\ holder = Nobody /\ locked = FALSE /\ pc = [t \in Threads |-> "idle"]
    /\ tasks = << >> /\ next_id = 1 /\ seen = [t \in Threads |-> 0]

Next ==
    \E t \in Threads :
        \/ seen[t] = 0 /\ (task_lock(t) \/ task_unlock(t))
        \/ task_spawn(t) \/ task_cancel(t)

Spec == Init /\ [][Next]_taskVars

----------------------------------------------------------------------------
TypeOK ==
    /\ holder \in Threads \cup {Nobody} /\ locked \in BOOLEAN
    /\ pc \in [Threads -> {"idle", "locking", "inside", "unlocking"}]
    /\ \A k \in DOMAIN tasks : tasks[k].state \in TaskStates
    /\ seen \in [Threads -> 0 .. MaxTasks + 1]

\* The flag of a mutex is up all the while a thread is between its lock and its
\* unlock, and down when nobody has it: it is written by the holder only,
\* after it has locked and before it unlocks.
FlagTellsHolder ==
    /\ \A t \in Threads : pc[t] = "inside" => holder = t /\ locked
    /\ holder = Nobody => ~locked

\* In every step a task that was reported done stays what it was: cancelling
\* comes too late (task_module.c:88-119).
TasksStayDone ==
    \A k \in DOMAIN tasks : task_is_done(k) => tasks'[k] = tasks[k]
=============================================================================
