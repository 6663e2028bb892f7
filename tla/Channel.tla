------------------------------ MODULE Channel -------------------------------
(***************************************************************************)
(* The channels of src/modules/native/task_module.c: a ring buffer that    *)
(* send and recv use under a mutex with two condition variables, and that  *)
(* try_send, try_recv and close use without it.  Every step is one access  *)
(* to the channel by one thread, except that the two reads of a condition  *)
(* (count and closed) are one step.  What a thread that holds the mutex    *)
(* does still takes several steps: the mutex does not keep the others out. *)
(*                                                                         *)
(* A channel is shared by host threads; task.spawn itself starts none.     *)
(* The variant without mutex for Windows is not modelled.                  *)
(***************************************************************************)
EXTENDS Integers, Sequences, SequencesExt

CONSTANTS
  Thread,       (* the threads that share the channel                     *)
  Nobody,       (* the owner of a mutex that is free                      *)
  Programs,     (* the programs considered: in p, thread t calls the      *)
                (* operations p[t]                                        *)
  Capacity,     (* capacity of the buffer                                 *)
  CountModulus, (* size_t wraps around at 2^64; any larger size than the  *)
                (* capacity shows the same                                *)
  MaxSends,     (* bound: calls of send and try_send                      *)
  MaxSpurious   (* bound: spurious wakeups                                *)

Operation == {"send", "recv", "try_send", "try_recv", "close"}

ASSUME CapacityAssumption ==
  /\ Capacity \in Nat \ {0}
  /\ CountModulus \in Nat
  /\ CountModulus > Capacity
  /\ MaxSends \in Nat
  /\ MaxSpurious \in Nat
ASSUME ProgramsAssumption == Programs \subseteq [Thread -> SUBSET Operation]
ASSUME NobodyAssumption == Nobody \notin Thread

(* How a program may share a channel.  try_send and try_recv do not take   *)
(* the mutex (task_module.c:287), so that beside any other thread they     *)
(* lose and duplicate values; what is promised of a channel is promised to *)
(* threads that block, and to a thread that has the channel to itself.     *)
Solo(p, t) == \A u \in Thread \ {t} : p[u] = {}

Disciplined == \A p \in Programs :
  \/ \A t \in Thread : p[t] \subseteq {"send", "recv", "close"}
  \/ \E t \in Thread : Solo(p, t)

VARIABLES
  buffer, head, tail, count, closed,
  mutex,      \* the thread that holds it, or Nobody
  pc,         \* where each thread is
  value,      \* the value each thread sends
  seen,       \* the count each thread has read and is about to update
  sends,      \* calls of send and try_send: call n sends the value n
  spurious,   \* spurious wakeups so far
  calls,      \* the program that runs
  sent,       \* history: the values stored in the buffer, in that order
  received,   \* history: the values loaded from it, in that order
  eof         \* history: a recv has returned ASTERON_ERROR_EOF

channelVars == <<buffer, head, tail, count, closed>>
localVars   == <<value, seen, sends, spurious>>
historyVars == <<sent, received, eof>>
vars == <<channelVars, mutex, pc, localVars, calls, historyVars>>

Slot   == 0 .. Capacity - 1
Value  == 1 .. MaxSends
Nil    == 0

Waiting == {"wait_not_full", "wait_not_empty"}
PC ==
  Waiting \cup
  {"idle", "send_lock", "send_test", "send_wait", "send_closed",
   "recv_lock", "recv_test", "recv_wait", "recv_closed",
   "store", "bump_tail", "read_count_up", "count_up",
   "load", "bump_head", "read_count_down", "count_down",
   "wake_receivers", "wake_senders"}

TypeOK ==
  /\ buffer \in [Slot -> Value \cup {Nil}]
  /\ head \in Slot
  /\ tail \in Slot
  /\ count \in 0 .. CountModulus - 1
  /\ closed \in BOOLEAN
  /\ mutex \in Thread \cup {Nobody}
  /\ pc \in [Thread -> PC]
  /\ value \in [Thread -> Value \cup {Nil}]
  /\ seen \in [Thread -> 0 .. CountModulus - 1]
  /\ sends \in 0 .. MaxSends
  /\ spurious \in 0 .. MaxSpurious
  /\ calls \in Programs
  /\ sent \in Seq(Value)
  /\ received \in Seq(Value \cup {Nil})
  /\ eof \in BOOLEAN

(* task_channel                                                            *)
Init ==
  /\ buffer = [i \in Slot |-> Nil]
  /\ head = 0
  /\ tail = 0
  /\ count = 0
  /\ closed = FALSE
  /\ mutex = Nobody
  /\ pc = [t \in Thread |-> "idle"]
  /\ value = [t \in Thread |-> Nil]
  /\ seen = [t \in Thread |-> 0]
  /\ sends = 0
  /\ spurious = 0
  /\ calls \in Programs
  /\ sent = <<>>
  /\ received = <<>>
  /\ eof = FALSE

-----------------------------------------------------------------------------
At(t, label)   == pc[t] = label
Goto(t, label) == pc' = [pc EXCEPT ![t] = label]

Lock(t)   == mutex = Nobody /\ mutex' = t
Unlock(t) == mutex' = IF mutex = t THEN Nobody ELSE mutex

(* pthread_cond_wait gives the mutex up and waits, in one step; a thread   *)
(* that was woken has to take the mutex again and tests its condition anew.*)
Relock == [label \in Waiting |-> IF label = "wait_not_full" THEN "send_lock" ELSE "recv_lock"]

Waiters(label) == {t \in Thread : At(t, label)}

(* pthread_cond_signal by t, which then returns from its call.             *)
ReturnAndSignal(t, label) ==
  LET returned == [pc EXCEPT ![t] = "idle"] IN
  IF Waiters(label) = {}
    THEN pc' = returned
    ELSE \E w \in Waiters(label) : pc' = [returned EXCEPT ![w] = Relock[label]]

(* pthread_cond_broadcast by t.                                            *)
Broadcast(t, label, next) ==
  pc' = [u \in Thread |->
           IF u = t THEN next ELSE IF At(u, label) THEN Relock[label] ELSE pc[u]]

SpuriousWakeup(t) ==
  /\ pc[t] \in Waiting
  /\ spurious < MaxSpurious
  /\ spurious' = spurious + 1
  /\ Goto(t, Relock[pc[t]])
  /\ UNCHANGED <<channelVars, mutex, value, seen, sends, historyVars>>

-----------------------------------------------------------------------------
(* task_send                                                               *)

(* Faulty variant: one value too many.                                     *)
FullLate == count > Capacity

Full  == count >= Capacity
Empty == count = 0

(* send looks at closed without the mutex.                                 *)
Send(t) ==
  /\ At(t, "idle")
  /\ "send" \in calls[t]
  /\ sends < MaxSends
  /\ sends' = sends + 1
  /\ value' = [value EXCEPT ![t] = sends']
  /\ Goto(t, IF closed THEN "idle" ELSE "send_lock")
  /\ UNCHANGED <<channelVars, mutex, seen, spurious, historyVars>>

SendLock(t) ==
  /\ At(t, "send_lock")
  /\ Lock(t)
  /\ Goto(t, "send_test")
  /\ UNCHANGED <<channelVars, localVars, historyVars>>

SendTest(t) ==
  /\ At(t, "send_test")
  /\ Goto(t, IF Full /\ ~closed THEN "send_wait" ELSE "send_closed")
  /\ UNCHANGED <<channelVars, mutex, localVars, historyVars>>

SendWait(t) ==
  /\ At(t, "send_wait")
  /\ Unlock(t)
  /\ Goto(t, "wait_not_full")
  /\ UNCHANGED <<channelVars, localVars, historyVars>>

(* A closed channel takes no value: send returns false.                    *)
SendClosed(t) ==
  /\ At(t, "send_closed")
  /\ \/ closed /\ Unlock(t) /\ Goto(t, "idle")
     \/ ~closed /\ UNCHANGED mutex /\ Goto(t, "store")
  /\ UNCHANGED <<channelVars, localVars, historyVars>>

(* task_try_send: the tests, without the mutex; it then stores the value   *)
(* as send does.                                                           *)
TrySend(t) ==
  /\ At(t, "idle")
  /\ "try_send" \in calls[t]
  /\ sends < MaxSends
  /\ sends' = sends + 1
  /\ value' = [value EXCEPT ![t] = sends']
  /\ Goto(t, IF closed \/ Full THEN "idle" ELSE "store")
  /\ UNCHANGED <<channelVars, mutex, seen, spurious, historyVars>>

Store(t) ==
  /\ At(t, "store")
  /\ buffer' = [buffer EXCEPT ![tail] = value[t]]
  /\ sent' = Append(sent, value[t])
  /\ Goto(t, "bump_tail")
  /\ UNCHANGED <<head, tail, count, closed, mutex, localVars, received, eof>>

(* Faulty variant: the tail does not wrap around.                          *)
BumpTailUnwrapped(t) ==
  /\ At(t, "bump_tail")
  /\ tail' = tail + 1
  /\ Goto(t, "read_count_up")
  /\ UNCHANGED <<buffer, head, count, closed, mutex, localVars, historyVars>>

BumpTail(t) ==
  /\ At(t, "bump_tail")
  /\ tail' = (tail + 1) % Capacity
  /\ Goto(t, "read_count_up")
  /\ UNCHANGED <<buffer, head, count, closed, mutex, localVars, historyVars>>

(* count++ and count-- are a read and a write.                             *)
ReadCount(t) ==
  /\ pc[t] \in {"read_count_up", "read_count_down"}
  /\ seen' = [seen EXCEPT ![t] = count]
  /\ Goto(t, IF At(t, "read_count_up") THEN "count_up" ELSE "count_down")
  /\ UNCHANGED <<channelVars, mutex, value, sends, spurious, historyVars>>

(* Faulty variant: no consumer is woken.                                   *)
CountUpUnsignalled(t) ==
  /\ At(t, "count_up")
  /\ count' = (seen[t] + 1) % CountModulus
  /\ Unlock(t)
  /\ Goto(t, "idle")
  /\ UNCHANGED <<buffer, head, tail, closed, localVars, historyVars>>

(* Only send, which holds the mutex, signals and unlocks.                  *)
CountUp(t) ==
  /\ At(t, "count_up")
  /\ count' = (seen[t] + 1) % CountModulus
  /\ Unlock(t)
  /\ IF mutex = t THEN ReturnAndSignal(t, "wait_not_empty") ELSE Goto(t, "idle")
  /\ UNCHANGED <<buffer, head, tail, closed, localVars, historyVars>>

-----------------------------------------------------------------------------
(* task_recv                                                               *)

Recv(t) ==
  /\ At(t, "idle")
  /\ "recv" \in calls[t]
  /\ Goto(t, "recv_lock")
  /\ UNCHANGED <<channelVars, mutex, localVars, historyVars>>

RecvLock(t) ==
  /\ At(t, "recv_lock")
  /\ Lock(t)
  /\ Goto(t, "recv_test")
  /\ UNCHANGED <<channelVars, localVars, historyVars>>

RecvTest(t) ==
  /\ At(t, "recv_test")
  /\ Goto(t, IF Empty /\ ~closed THEN "recv_wait" ELSE "recv_closed")
  /\ UNCHANGED <<channelVars, mutex, localVars, historyVars>>

RecvWait(t) ==
  /\ At(t, "recv_wait")
  /\ Unlock(t)
  /\ Goto(t, "wait_not_empty")
  /\ UNCHANGED <<channelVars, localVars, historyVars>>

(* Faulty variant: a closed channel is at its end even if it holds values. *)
RecvClosedEarly(t) ==
  /\ At(t, "recv_closed")
  /\ \/ closed /\ Unlock(t) /\ Goto(t, "idle") /\ eof' = TRUE
     \/ ~closed /\ Goto(t, "load") /\ UNCHANGED <<mutex, eof>>
  /\ UNCHANGED <<channelVars, localVars, sent, received>>

(* A channel that is empty and closed is at its end.                       *)
RecvClosed(t) ==
  /\ At(t, "recv_closed")
  /\ \/ Empty /\ closed /\ Unlock(t) /\ Goto(t, "idle") /\ eof' = TRUE
     \/ ~(Empty /\ closed) /\ Goto(t, "load") /\ UNCHANGED <<mutex, eof>>
  /\ UNCHANGED <<channelVars, localVars, sent, received>>

(* task_try_recv: the test, without the mutex; it then takes a value as    *)
(* recv does.                                                              *)
TryRecv(t) ==
  /\ At(t, "idle")
  /\ "try_recv" \in calls[t]
  /\ Goto(t, IF Empty THEN "idle" ELSE "load")
  /\ UNCHANGED <<channelVars, mutex, localVars, historyVars>>

Load(t) ==
  /\ At(t, "load")
  /\ received' = Append(received, buffer[head])
  /\ Goto(t, "bump_head")
  /\ UNCHANGED <<channelVars, mutex, localVars, sent, eof>>

BumpHead(t) ==
  /\ At(t, "bump_head")
  /\ head' = (head + 1) % Capacity
  /\ Goto(t, "read_count_down")
  /\ UNCHANGED <<buffer, tail, count, closed, mutex, localVars, historyVars>>

(* Faulty variant: no sender is woken.                                     *)
CountDownUnsignalled(t) ==
  /\ At(t, "count_down")
  /\ count' = (seen[t] - 1) % CountModulus
  /\ Unlock(t)
  /\ Goto(t, "idle")
  /\ UNCHANGED <<buffer, head, tail, closed, localVars, historyVars>>

CountDown(t) ==
  /\ At(t, "count_down")
  /\ count' = (seen[t] - 1) % CountModulus
  /\ Unlock(t)
  /\ IF mutex = t THEN ReturnAndSignal(t, "wait_not_full") ELSE Goto(t, "idle")
  /\ UNCHANGED <<buffer, head, tail, closed, localVars, historyVars>>

-----------------------------------------------------------------------------
(* task_close_channel, which never takes the mutex.                        *)

Close(t) ==
  /\ At(t, "idle")
  /\ "close" \in calls[t]
  /\ closed' = TRUE
  /\ Goto(t, "wake_receivers")
  /\ UNCHANGED <<buffer, head, tail, count, mutex, localVars, historyVars>>

WakeReceivers(t) ==
  /\ At(t, "wake_receivers")
  /\ Broadcast(t, "wait_not_empty", "wake_senders")
  /\ UNCHANGED <<channelVars, mutex, localVars, historyVars>>

WakeSenders(t) ==
  /\ At(t, "wake_senders")
  /\ Broadcast(t, "wait_not_full", "idle")
  /\ UNCHANGED <<channelVars, mutex, localVars, historyVars>>

-----------------------------------------------------------------------------
(* Calls that have begun go on by themselves.                              *)
Continue(t) ==
  \/ SendLock(t) \/ SendTest(t) \/ SendWait(t) \/ SendClosed(t)
  \/ Store(t) \/ BumpTail(t) \/ ReadCount(t) \/ CountUp(t)
  \/ RecvLock(t) \/ RecvTest(t) \/ RecvWait(t) \/ RecvClosed(t)
  \/ Load(t) \/ BumpHead(t) \/ CountDown(t)
  \/ WakeReceivers(t) \/ WakeSenders(t)

Call(t) == Send(t) \/ TrySend(t) \/ Recv(t) \/ TryRecv(t) \/ Close(t)

Next ==
  /\ \E t \in Thread : Call(t) \/ Continue(t) \/ SpuriousWakeup(t)
  /\ UNCHANGED calls

Spec == Init /\ [][Next]_vars

(* Every thread that can go on does.  Consumers loop on recv, as           *)
(* docs/STDLIB.md:240-244 shows; nobody has to send or close.              *)
FairSpec ==
  /\ Spec
  /\ \A t \in Thread : WF_vars(Continue(t) /\ UNCHANGED calls) /\ WF_vars(Recv(t) /\ UNCHANGED calls)

-----------------------------------------------------------------------------
(* Properties.                                                             *)

(* The values in the buffer, the oldest first.                             *)
Contents == [i \in 1 .. count |-> buffer[(head + i - 1) % Capacity]]

Quiet == \A t \in Thread : pc[t] \in Waiting \cup {"idle", "send_lock", "recv_lock"}

(* Between calls the buffer holds exactly the values that were sent and    *)
(* not received, in order: none is lost, overwritten, taken twice or       *)
(* reordered, and count agrees with head and tail.                         *)
FirstInFirstOut ==
  Quiet =>
    /\ count <= Capacity
    /\ received \o Contents = sent

(* ASTERON_ERROR_EOF is final: when recv has returned it, every value that *)
(* any send accepted has been received, and no send accepts one again,     *)
(* although close does not take the mutex.                                 *)
EofMeansDrained == eof => received = sent

(* What a channel promises to those who use it, whoever of them has the    *)
(* mutex: a bounded queue, of which each step is one of these.             *)
queue == [i \in 1 .. Len(sent) - Len(received) |-> buffer[(Len(received) + i - 1) % Capacity]]

queueVars == <<queue, received, closed, eof>>

QueueInit == queue = <<>> /\ received = <<>> /\ closed = FALSE /\ eof = FALSE

(* A value is put at the end while there is room and no recv has found the *)
(* end; close may have been called, since a send tests closed before.      *)
Put ==
  /\ Len(queue) < Capacity /\ ~eof
  /\ \E v \in Value : queue' = Append(queue, v)
  /\ UNCHANGED <<received, closed, eof>>

(* The first value is taken by one recv.                                   *)
Take ==
  /\ queue # <<>>
  /\ received' = Append(received, Head(queue))
  /\ queue' = Tail(queue)
  /\ UNCHANGED <<closed, eof>>

Shut == closed' = TRUE /\ UNCHANGED <<queue, received, eof>>

(* A recv finds the end: the queue is closed and nothing is left in it.    *)
End == closed /\ queue = <<>> /\ eof' = TRUE /\ UNCHANGED <<queue, received, closed>>

QueueNext == Put \/ Take \/ Shut \/ End

(* The channel implements that queue: no interleaving of the threads makes *)
(* it lose, invent, reorder or repeat a value, hold more than its capacity,*)
(* or end while it holds one (task_module.c:160-318).                      *)
ImplementsQueue == QueueInit /\ [][QueueNext]_queueVars

(* The threads use the blocking operations only, and nobody ever closes.   *)
Blocking == [](~closed /\ \A t \in Thread : calls[t] \subseteq {"send", "recv", "close"})

(* A send that waits for room ends when there are consumers: the one       *)
(* signal of recv reaches a thread that can use it.                        *)
SendReturns == Blocking => \A t \in Thread : At(t, "send_lock") ~> At(t, "idle")

(* Every value that was sent is received: no consumer sleeps beside one.   *)
EverythingIsReceived == Blocking => []<>(received = sent)

(* "Acorda todos os waiters" (task_module.c:308): close wakes every thread *)
(* that waits, and none waits for ever on a closed channel.                *)
CloseWakesWaiters == \A t \in Thread : (closed /\ pc[t] \in Waiting) ~> At(t, "idle")
=============================================================================
