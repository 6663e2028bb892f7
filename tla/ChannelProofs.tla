---------------------------- MODULE ChannelProofs ----------------------------
(***************************************************************************)
(* The channel's buffer is a queue, for any capacity, any number of        *)
(* threads and of values, when it is shared as it can be: by threads that  *)
(* block, or by one thread alone (Disciplined).  Beside threads that hold  *)
(* the mutex, try_send and try_recv, which do not take it, do break it.    *)
(*                                                                         *)
(* The inductive invariant says who is inside the channel (one thread at a *)
(* time, AccessIsExclusive), how head, tail and count follow from the      *)
(* values stored and loaded so far and from how far the thread inside has  *)
(* come (BufferIsQueue), and that a channel at its end stays there.        *)
(***************************************************************************)
EXTENDS Channel, SequenceTheorems, TLAPS

-----------------------------------------------------------------------------
(* The inductive invariant.                                                *)

Sending == {"send_lock", "send_test", "send_wait", "wait_not_full", "send_closed", "store"}

(* A thread that is sending has a value to send.                           *)
ValuesSet == \A t \in Thread : pc[t] \in Sending => value[t] \in Value

Locked   == {"send_test", "send_wait", "send_closed", "recv_test", "recv_wait", "recv_closed"}
Storing  == {"store", "bump_tail", "read_count_up", "count_up"}
Loading  == {"load", "bump_head", "read_count_down", "count_down"}
Inside   == Locked \cup Storing \cup Loading

(* Who is inside has the mutex or the channel to itself.                   *)
Access == \A t \in Thread :
  /\ mutex = t => pc[t] \in Inside
  /\ pc[t] \in Locked => mutex = t
  /\ pc[t] \in Inside => mutex = t \/ Solo(calls, t)
  /\ calls[t] = {} => pc[t] = "idle"

Someone(labels) == \E t \in Thread : pc[t] \in labels

(* Values stored whose slot the tail has passed, loaded whose slot the     *)
(* head has, and the value that count does not know of yet.                *)
Passed   == Len(sent) - (IF Someone({"bump_tail"}) THEN 1 ELSE 0)
Freed    == Len(received) - (IF Someone({"bump_head"}) THEN 1 ELSE 0)
Stored   == IF Someone({"bump_tail", "read_count_up", "count_up"}) THEN 1 ELSE 0
Loaded   == IF Someone({"bump_head", "read_count_down", "count_down"}) THEN 1 ELSE 0

Places ==
  /\ count = Len(sent) - Len(received) - Stored + Loaded
  /\ tail = Passed % Capacity
  /\ head = Freed % Capacity
  /\ Freed \in Nat

Room ==
  /\ count <= Capacity
  /\ Someone(Storing) => count < Capacity
  /\ Someone(Loading) => count > 0
  /\ \A t \in Thread :
       /\ pc[t] = "send_closed" => count < Capacity \/ closed
       /\ pc[t] = "recv_closed" => count > 0 \/ closed
       /\ pc[t] \in {"count_up", "count_down"} => seen[t] = count

Kept ==
  /\ Len(received) <= Len(sent)
  /\ \A i \in 1 .. Len(received) : received[i] = sent[i]
  /\ \A i \in Len(received) + 1 .. Len(sent) : buffer[(i - 1) % Capacity] = sent[i]

(* Nobody stores or loads any more once a recv has found the end.          *)
Ended == eof =>
  /\ closed
  /\ ~Someone(Storing \cup Loading)
  /\ Len(received) = Len(sent)

IInv == TypeOK /\ ValuesSet /\ Access /\ Places /\ Room /\ Kept /\ Ended

-----------------------------------------------------------------------------
(* Remainders.                                                             *)

(* Multiplication by a natural number keeps the order.                     *)
LEMMA ProductsGrow ==
  ASSUME NEW a \in Nat, NEW b \in Nat, NEW n \in Nat, a <= b
  PROVE  n * a <= n * b
<1>. DEFINE d == b - a
<1>1. d \in Nat /\ b = a + d
  OBVIOUS
<1>. HIDE DEF d
<1>2. n * (a + d) = n * a + n * d /\ n * d \in Nat /\ n * a \in Nat
  BY <1>1
<1>. QED  BY <1>1, <1>2

(* Quotient and remainder ...                                              *)
LEMMA QuotientRemainder ==
  ASSUME NEW c \in Nat \ {0}, NEW x \in Nat
  PROVE  x = c * (x \div c) + (x % c) /\ x \div c \in Nat /\ x % c \in 0 .. c - 1
<1>1. x \div c \in Nat /\ x % c \in 0 .. c - 1
  OBVIOUS
<1>2. x = c * (x \div c) + (x % c)
  OBVIOUS
<1>. QED  BY <1>1, <1>2

(* ... are the only ones.                                                  *)
LEMMA OnlyRemainder ==
  ASSUME NEW c \in Nat \ {0}, NEW q \in Nat, NEW r \in 0 .. c - 1
  PROVE  (c * q + r) % c = r
OBVIOUS

(* Adding before or after the remainder is taken comes to the same.        *)
LEMMA RemainderOfSum ==
  ASSUME NEW c \in Nat \ {0}, NEW x \in Nat, NEW k \in Nat
  PROVE  ((x % c) + k) % c = (x + k) % c
<1>. DEFINE q == x \div c   r == x % c
            p == (r + k) \div c   s == (r + k) % c
<1>1. x = c * q + r /\ q \in Nat /\ r \in Nat
  BY QuotientRemainder
<1>. HIDE DEF q, r
<1>2. r + k = c * p + s /\ p \in Nat /\ s \in 0 .. c - 1
  <2>1. r + k \in Nat
    BY <1>1
  <2>. QED  BY <2>1, QuotientRemainder, Zenon
<1>. HIDE DEF p, s
<1>3. c * (q + p) = c * q + c * p /\ c * q \in Nat /\ c * p \in Nat
  BY <1>1, <1>2
<1>4. x + k = c * (q + p) + s
  BY <1>1, <1>2, <1>3
<1>5. (x + k) % c = s
  <2>1. q + p \in Nat
    BY <1>1, <1>2
  <2>2. (c * (q + p) + s) % c = s
    BY <1>2, <2>1, OnlyRemainder
  <2>. QED  BY <1>4, <2>2
<1>. QED  BY <1>5 DEF r, s

(* Numbers less than c apart have different remainders.                    *)
LEMMA RemaindersDiffer ==
  ASSUME NEW c \in Nat \ {0}, NEW x \in Nat, NEW y \in Nat, x < y, y < x + c
  PROVE  x % c # y % c
<1>. SUFFICES ASSUME x % c = y % c PROVE FALSE
  OBVIOUS
<1>. DEFINE q == x \div c   p == y \div c   r == x % c
<1>1. x = c * q + r /\ q \in Nat /\ r \in Nat /\ y = c * p + r /\ p \in Nat
  <2>1. x = c * q + r /\ q \in Nat /\ r \in 0 .. c - 1
    BY QuotientRemainder, Zenon
  <2>2. y = c * p + r /\ p \in Nat
    BY QuotientRemainder, Zenon
  <2>. QED  BY <2>1, <2>2
<1>. HIDE DEF q, p, r
<1>2. c * q \in Nat /\ c * p \in Nat /\ c * (q + 1) = c * q + c
  BY <1>1
<1>3. CASE p <= q
  BY <1>1, <1>2, <1>3, ProductsGrow
<1>4. CASE q + 1 <= p
  <2>1. c * (q + 1) <= c * p
    BY <1>1, <1>4, ProductsGrow
  <2>. QED  BY <1>1, <1>2, <2>1
<1>. QED  BY <1>1, <1>3, <1>4

-----------------------------------------------------------------------------
(* Where the threads go.                                                   *)

Woken(t) == \A u \in Thread \ {t} :
  pc'[u] = pc[u] \/ (pc[u] \in Waiting /\ pc'[u] = Relock[pc[u]])

(* Goto moves one thread, ...                                              *)
LEMMA GotoMoves ==
  ASSUME TypeOK, NEW t \in Thread, NEW label \in PC, Goto(t, label)
  PROVE  pc' \in [Thread -> PC] /\ pc'[t] = label /\ Woken(t)
BY DEF TypeOK, Goto, Woken

(* ... a signal one more at most, and a broadcast all that wait.           *)
LEMMA SignalMoves ==
  ASSUME TypeOK, NEW t \in Thread, pc[t] \notin Waiting,
         NEW label \in Waiting, ReturnAndSignal(t, label)
  PROVE  pc' \in [Thread -> PC] /\ pc'[t] = "idle" /\ Woken(t)
<1>1. CASE Waiters(label) = {}
  BY <1>1 DEF TypeOK, ReturnAndSignal, Woken, PC
<1>2. CASE Waiters(label) # {}
  <2>1. PICK w \in Waiters(label) :
          pc' = [[pc EXCEPT ![t] = "idle"] EXCEPT ![w] = Relock[label]]
    BY <1>2 DEF ReturnAndSignal
  <2>2. w \in Thread /\ pc[w] = label /\ w # t /\ Relock[label] \in PC
    BY <2>1 DEF Waiters, At, Relock, Waiting, PC
  <2>. QED  BY <2>1, <2>2 DEF TypeOK, Woken, PC
<1>. QED  BY <1>1, <1>2

LEMMA BroadcastMoves ==
  ASSUME TypeOK, NEW t \in Thread, NEW label \in Waiting, NEW next \in PC,
         Broadcast(t, label, next)
  PROVE  pc' \in [Thread -> PC] /\ pc'[t] = next /\ Woken(t)
<1>1. Relock[label] \in PC
  BY DEF Relock, Waiting, PC
<1>. QED  BY <1>1 DEF TypeOK, Broadcast, Woken, At

(* Woken threads wait for the mutex: nobody enters or leaves the channel.  *)
LEMMA WokenOutside ==
  ASSUME NEW t \in Thread, Woken(t), NEW u \in Thread \ {t}
  PROVE  /\ pc[u] \in Inside => pc'[u] = pc[u]
         /\ pc'[u] \in Inside => pc'[u] = pc[u]
         /\ pc'[u] \in Sending => pc[u] \in Sending
         /\ pc[u] = "idle" => pc'[u] = "idle"
BY DEF Woken, Waiting, Relock, Inside, Locked, Storing, Loading, Sending

(* Every step moves its own thread and wakes others at most.               *)
LEMMA StepMoves ==
  ASSUME TypeOK, NEW t \in Thread, Call(t) \/ Continue(t) \/ SpuriousWakeup(t)
  PROVE  pc' \in [Thread -> PC] /\ Woken(t)
<1>1. CASE Send(t)
  BY <1>1, CapacityAssumption, GotoMoves DEF Send, At, PC
<1>2. CASE TrySend(t)
  BY <1>2, GotoMoves DEF TrySend, PC
<1>3. CASE Recv(t)
  BY <1>3, GotoMoves DEF Recv, PC
<1>4. CASE TryRecv(t)
  BY <1>4, GotoMoves DEF TryRecv, PC
<1>5. CASE Close(t)
  BY <1>5, GotoMoves DEF Close, PC
<1>6. CASE SendLock(t)
  BY <1>6, GotoMoves DEF SendLock, PC
<1>7. CASE SendTest(t)
  BY <1>7, GotoMoves DEF SendTest, PC
<1>8. CASE SendWait(t)
  BY <1>8, GotoMoves DEF SendWait, PC, Waiting
<1>9. CASE SendClosed(t)
  BY <1>9, GotoMoves DEF SendClosed, PC
<1>10. CASE Store(t)
  BY <1>10, GotoMoves DEF Store, PC
<1>11. CASE BumpTail(t)
  BY <1>11, GotoMoves DEF BumpTail, PC
<1>12. CASE ReadCount(t)
  BY <1>12, GotoMoves DEF ReadCount, PC
<1>13. CASE CountUp(t)
  BY <1>13, GotoMoves, SignalMoves DEF CountUp, At, PC, Waiting
<1>14. CASE RecvLock(t)
  BY <1>14, GotoMoves DEF RecvLock, PC
<1>15. CASE RecvTest(t)
  BY <1>15, GotoMoves DEF RecvTest, PC
<1>16. CASE RecvWait(t)
  BY <1>16, GotoMoves DEF RecvWait, PC, Waiting
<1>17. CASE RecvClosed(t)
  BY <1>17, GotoMoves DEF RecvClosed, PC
<1>18. CASE Load(t)
  BY <1>18, GotoMoves DEF Load, PC
<1>19. CASE BumpHead(t)
  BY <1>19, GotoMoves DEF BumpHead, PC
<1>20. CASE CountDown(t)
  BY <1>20, GotoMoves, SignalMoves DEF CountDown, At, PC, Waiting
<1>21. CASE WakeReceivers(t)
  BY <1>21, BroadcastMoves DEF WakeReceivers, PC, Waiting
<1>22. CASE WakeSenders(t)
  BY <1>22, BroadcastMoves DEF WakeSenders, PC, Waiting
<1>23. CASE SpuriousWakeup(t)
  BY <1>23, GotoMoves DEF SpuriousWakeup, PC, Waiting, Relock
<1>. QED  BY <1>1, <1>2, <1>3, <1>4, <1>5, <1>6, <1>7, <1>8, <1>9, <1>10, <1>11,
             <1>12, <1>13, <1>14, <1>15, <1>16, <1>17, <1>18, <1>19, <1>20, <1>21,
             <1>22, <1>23 DEF Call, Continue

-----------------------------------------------------------------------------
(* Types.                                                                  *)

(* TypeOK is inductive once those who send have a value.                   *)
LEMMA StepTypes ==
  ASSUME TypeOK, ValuesSet, NEW t \in Thread,
         Call(t) \/ Continue(t) \/ SpuriousWakeup(t), UNCHANGED calls
  PROVE  TypeOK' /\ ValuesSet'
<1>1. pc' \in [Thread -> PC] /\ calls' \in Programs /\ Woken(t)
  BY StepMoves DEF TypeOK
<1>2. ASSUME UNCHANGED value, pc'[t] \in Sending => pc[t] \in Sending
      PROVE  ValuesSet'
  BY <1>1, <1>2, WokenOutside DEF ValuesSet
<1>3. CASE Send(t)
  <2>1. sends' \in Value /\ value' = [value EXCEPT ![t] = sends']
    BY <1>3, CapacityAssumption DEF Send, TypeOK, Value
  <2>2. TypeOK'
    BY <1>1, <1>3, <2>1 DEF Send, TypeOK, channelVars, historyVars, Value
  <2>3. ValuesSet'
    BY <1>1, <2>1, WokenOutside DEF TypeOK, ValuesSet
  <2>. QED  BY <2>2, <2>3
<1>4. CASE TrySend(t)
  <2>1. sends' \in Value /\ value' = [value EXCEPT ![t] = sends']
    BY <1>4, CapacityAssumption DEF TrySend, TypeOK, Value
  <2>2. TypeOK'
    BY <1>1, <1>4, <2>1 DEF TrySend, TypeOK, channelVars, historyVars, Value
  <2>3. ValuesSet'
    BY <1>1, <2>1, WokenOutside DEF TypeOK, ValuesSet
  <2>. QED  BY <2>2, <2>3
<1>5. CASE Recv(t)
  <2>1. TypeOK'
    BY <1>1, <1>5 DEF Recv, TypeOK, channelVars, localVars, historyVars
  <2>2. UNCHANGED value /\ (pc'[t] \in Sending => pc[t] \in Sending)
    BY <1>5 DEF Recv, localVars, TypeOK, At, Goto, Sending
  <2>. QED  BY <1>2, <2>1, <2>2
<1>6. CASE TryRecv(t)
  <2>1. TypeOK'
    BY <1>1, <1>6 DEF TryRecv, TypeOK, channelVars, localVars, historyVars
  <2>2. UNCHANGED value /\ (pc'[t] \in Sending => pc[t] \in Sending)
    BY <1>6 DEF TryRecv, localVars, TypeOK, At, Goto, Sending
  <2>. QED  BY <1>2, <2>1, <2>2
<1>7. CASE Close(t)
  <2>1. TypeOK'
    BY <1>1, <1>7 DEF Close, TypeOK, channelVars, localVars, historyVars
  <2>2. UNCHANGED value /\ (pc'[t] \in Sending => pc[t] \in Sending)
    BY <1>7 DEF Close, localVars, TypeOK, At, Goto, Sending
  <2>. QED  BY <1>2, <2>1, <2>2
<1>8. CASE SendLock(t)
  <2>1. TypeOK'
    BY <1>1, <1>8 DEF SendLock, TypeOK, channelVars, localVars, historyVars, Lock
  <2>2. UNCHANGED value /\ (pc'[t] \in Sending => pc[t] \in Sending)
    BY <1>8 DEF SendLock, localVars, TypeOK, At, Goto, Sending
  <2>. QED  BY <1>2, <2>1, <2>2
<1>9. CASE SendTest(t)
  <2>1. TypeOK'
    BY <1>1, <1>9 DEF SendTest, TypeOK, channelVars, localVars, historyVars
  <2>2. UNCHANGED value /\ (pc'[t] \in Sending => pc[t] \in Sending)
    BY <1>9 DEF SendTest, localVars, TypeOK, At, Goto, Sending
  <2>. QED  BY <1>2, <2>1, <2>2
<1>10. CASE SendWait(t)
  <2>1. TypeOK'
    BY <1>1, <1>10 DEF SendWait, TypeOK, channelVars, localVars, historyVars, Unlock
  <2>2. UNCHANGED value /\ (pc'[t] \in Sending => pc[t] \in Sending)
    BY <1>10 DEF SendWait, localVars, TypeOK, At, Goto, Sending
  <2>. QED  BY <1>2, <2>1, <2>2
<1>11. CASE SendClosed(t)
  <2>1. TypeOK'
    BY <1>1, <1>11 DEF SendClosed, TypeOK, channelVars, localVars, historyVars, Unlock
  <2>2. UNCHANGED value /\ (pc'[t] \in Sending => pc[t] \in Sending)
    BY <1>11 DEF SendClosed, localVars, TypeOK, At, Goto, Sending
  <2>. QED  BY <1>2, <2>1, <2>2
<1>12. CASE Store(t)
  <2>1. TypeOK'
    <3>1. value[t] \in Value
      BY <1>12 DEF Store, At, ValuesSet, Sending
    <3>. QED
      BY <1>1, <1>12, <3>1 DEF Store, TypeOK, localVars
  <2>2. UNCHANGED value /\ (pc'[t] \in Sending => pc[t] \in Sending)
    BY <1>12 DEF Store, localVars, TypeOK, At, Goto, Sending
  <2>. QED  BY <1>2, <2>1, <2>2
<1>13. CASE BumpTail(t)
  <2>1. TypeOK'
    BY <1>1, <1>13, CapacityAssumption DEF BumpTail, TypeOK, channelVars, localVars,
        historyVars, Slot
  <2>2. UNCHANGED value /\ (pc'[t] \in Sending => pc[t] \in Sending)
    BY <1>13 DEF BumpTail, localVars, TypeOK, At, Goto, Sending
  <2>. QED  BY <1>2, <2>1, <2>2
<1>14. CASE ReadCount(t)
  <2>1. TypeOK'
    BY <1>1, <1>14 DEF ReadCount, TypeOK, channelVars, localVars, historyVars
  <2>2. UNCHANGED value /\ (pc'[t] \in Sending => pc[t] \in Sending)
    BY <1>14 DEF ReadCount, localVars, TypeOK, At, Goto, Sending
  <2>. QED  BY <1>2, <2>1, <2>2
<1>15. CASE CountUp(t)
  <2>1. TypeOK'
    BY <1>1, <1>15, CapacityAssumption DEF CountUp, TypeOK, channelVars, localVars,
        historyVars, Unlock
  <2>2. UNCHANGED value /\ pc'[t] = "idle"
    BY <1>15, GotoMoves, SignalMoves DEF CountUp, localVars, At, PC, Waiting
  <2>. QED  BY <1>2, <2>1, <2>2 DEF Sending
<1>16. CASE RecvLock(t)
  <2>1. TypeOK'
    BY <1>1, <1>16 DEF RecvLock, TypeOK, channelVars, localVars, historyVars, Lock
  <2>2. UNCHANGED value /\ (pc'[t] \in Sending => pc[t] \in Sending)
    BY <1>16 DEF RecvLock, localVars, TypeOK, At, Goto, Sending
  <2>. QED  BY <1>2, <2>1, <2>2
<1>17. CASE RecvTest(t)
  <2>1. TypeOK'
    BY <1>1, <1>17 DEF RecvTest, TypeOK, channelVars, localVars, historyVars
  <2>2. UNCHANGED value /\ (pc'[t] \in Sending => pc[t] \in Sending)
    BY <1>17 DEF RecvTest, localVars, TypeOK, At, Goto, Sending
  <2>. QED  BY <1>2, <2>1, <2>2
<1>18. CASE RecvWait(t)
  <2>1. TypeOK'
    BY <1>1, <1>18 DEF RecvWait, TypeOK, channelVars, localVars, historyVars, Unlock
  <2>2. UNCHANGED value /\ (pc'[t] \in Sending => pc[t] \in Sending)
    BY <1>18 DEF RecvWait, localVars, TypeOK, At, Goto, Sending
  <2>. QED  BY <1>2, <2>1, <2>2
<1>19. CASE RecvClosed(t)
  <2>1. TypeOK'
    BY <1>1, <1>19 DEF RecvClosed, TypeOK, channelVars, localVars, historyVars, Unlock
  <2>2. UNCHANGED value /\ (pc'[t] \in Sending => pc[t] \in Sending)
    BY <1>19 DEF RecvClosed, localVars, TypeOK, At, Goto, Sending
  <2>. QED  BY <1>2, <2>1, <2>2
<1>20. CASE Load(t)
  <2>1. TypeOK'
    <3>1. buffer[head] \in Value \cup {Nil}
      BY DEF TypeOK
    <3>. QED
      BY <1>1, <1>20, <3>1 DEF Load, TypeOK, channelVars, localVars
  <2>2. UNCHANGED value /\ (pc'[t] \in Sending => pc[t] \in Sending)
    BY <1>20 DEF Load, localVars, TypeOK, At, Goto, Sending
  <2>. QED  BY <1>2, <2>1, <2>2
<1>21. CASE BumpHead(t)
  <2>1. TypeOK'
    BY <1>1, <1>21, CapacityAssumption DEF BumpHead, TypeOK, channelVars, localVars,
        historyVars, Slot
  <2>2. UNCHANGED value /\ (pc'[t] \in Sending => pc[t] \in Sending)
    BY <1>21 DEF BumpHead, localVars, TypeOK, At, Goto, Sending
  <2>. QED  BY <1>2, <2>1, <2>2
<1>22. CASE CountDown(t)
  <2>1. TypeOK'
    BY <1>1, <1>22, CapacityAssumption DEF CountDown, TypeOK, channelVars, localVars,
        historyVars, Unlock
  <2>2. UNCHANGED value /\ pc'[t] = "idle"
    BY <1>22, GotoMoves, SignalMoves DEF CountDown, localVars, At, PC, Waiting
  <2>. QED  BY <1>2, <2>1, <2>2 DEF Sending
<1>23. CASE WakeReceivers(t)
  <2>1. TypeOK'
    BY <1>1, <1>23 DEF WakeReceivers, TypeOK, channelVars, localVars, historyVars
  <2>2. UNCHANGED value /\ pc'[t] \in {"idle", "wake_senders"}
    BY <1>23, BroadcastMoves DEF WakeReceivers, localVars, PC, Waiting
  <2>. QED  BY <1>2, <2>1, <2>2 DEF Sending
<1>24. CASE WakeSenders(t)
  <2>1. TypeOK'
    BY <1>1, <1>24 DEF WakeSenders, TypeOK, channelVars, localVars, historyVars
  <2>2. UNCHANGED value /\ pc'[t] \in {"idle", "wake_senders"}
    BY <1>24, BroadcastMoves DEF WakeSenders, localVars, PC, Waiting
  <2>. QED  BY <1>2, <2>1, <2>2 DEF Sending
<1>25. CASE SpuriousWakeup(t)
  <2>1. TypeOK'
    BY <1>1, <1>25, CapacityAssumption DEF SpuriousWakeup, TypeOK, channelVars,
        localVars, historyVars
  <2>2. UNCHANGED value /\ (pc'[t] \in Sending => pc[t] \in Sending)
    BY <1>25 DEF SpuriousWakeup, localVars, TypeOK, At, Goto, Sending, Waiting, Relock
  <2>. QED  BY <1>2, <2>1, <2>2
<1>. QED  BY <1>3, <1>4, <1>5, <1>6, <1>7, <1>8, <1>9, <1>10, <1>11, <1>12, <1>13,
             <1>14, <1>15, <1>16, <1>17, <1>18, <1>19, <1>20, <1>21, <1>22, <1>23,
             <1>24, <1>25 DEF Call, Continue

(* The types and the values to send, of any programs.                      *)
LEMMA InitTypes == ASSUME Init PROVE TypeOK /\ ValuesSet
<1>1. Slot # {} /\ 0 \in Slot /\ 0 \in 0 .. CountModulus - 1 /\ 0 \in 0 .. MaxSends
      /\ 0 \in 0 .. MaxSpurious
  BY CapacityAssumption DEF Slot
<1>2. buffer \in [Slot -> Value \cup {Nil}] /\ value \in [Thread -> Value \cup {Nil}]
  BY DEF Init
<1>3. pc \in [Thread -> PC] /\ seen \in [Thread -> 0 .. CountModulus - 1]
  BY <1>1 DEF Init, PC
<1>4. sent \in Seq(Value) /\ received \in Seq(Value \cup {Nil})
  BY DEF Init
<1>5. closed \in BOOLEAN /\ eof \in BOOLEAN /\ mutex \in Thread \cup {Nobody}
  BY DEF Init
<1>6. TypeOK
  BY <1>1, <1>2, <1>3, <1>4, <1>5 DEF Init, TypeOK
<1>7. ValuesSet
  BY DEF Init, ValuesSet, Sending
<1>. QED  BY <1>6, <1>7

LEMMA NextTypes == ASSUME TypeOK, ValuesSet, [Next]_vars PROVE TypeOK' /\ ValuesSet'
<1>1. CASE Next
  BY <1>1, StepTypes DEF Next
<1>2. CASE UNCHANGED vars
  BY <1>2 DEF vars, channelVars, localVars, historyVars, TypeOK, ValuesSet
<1>. QED  BY <1>1, <1>2

(* Every variable keeps its type: the indices stay in the buffer and the   *)
(* count does not leave size_t, even when try_send and try_recv race.      *)
THEOREM TypeCorrect == Spec => []TypeOK
<1>1. Spec => [](TypeOK /\ ValuesSet)
  BY InitTypes, NextTypes, PTL DEF Spec
<1>. QED  BY <1>1, PTL

-----------------------------------------------------------------------------
(* One thread at a time.                                                   *)

(* No two threads are inside.                                              *)
LEMMA OneInside ==
  ASSUME Access, NEW t \in Thread, NEW u \in Thread, pc[t] \in Inside, pc[u] \in Inside
  PROVE  t = u
<1>1. calls[t] # {} /\ calls[u] # {}
  BY DEF Access, Inside, Locked, Storing, Loading
<1>2. CASE mutex = t /\ mutex = u
  BY <1>2
<1>3. CASE Solo(calls, t) \/ Solo(calls, u)
  BY <1>1, <1>3 DEF Solo
<1>. QED  BY <1>2, <1>3 DEF Access

LEMMA OneInsideNext ==
  ASSUME Access', NEW t \in Thread, NEW u \in Thread, pc'[t] \in Inside, pc'[u] \in Inside
  PROVE  t = u
<1>1. calls'[t] # {} /\ calls'[u] # {}
  BY DEF Access, Inside, Locked, Storing, Loading
<1>2. CASE mutex' = t /\ mutex' = u
  BY <1>2
<1>3. CASE Solo(calls', t) \/ Solo(calls', u)
  BY <1>1, <1>3 DEF Solo
<1>. QED  BY <1>2, <1>3 DEF Access

(* try_send and try_recv, which enter without the mutex, are only called   *)
(* by a thread that is alone.                                              *)
LEMMA TriesAreSolo ==
  ASSUME Disciplined, TypeOK, NEW t \in Thread, {"try_send", "try_recv"} \cap calls[t] # {}
  PROVE  Solo(calls, t)
<1>1. ~ (\A u \in Thread : calls[u] \subseteq {"send", "recv", "close"})
  OBVIOUS
<1>2. PICK u \in Thread : Solo(calls, u)
  BY <1>1 DEF Disciplined, TypeOK
<1>. QED  BY <1>2 DEF Solo

(* What a step must do with the mutex for Access to hold after it.         *)
LEMMA AccessKept ==
  ASSUME TypeOK, Access, NEW t \in Thread, Woken(t), UNCHANGED calls, calls[t] # {},
         \A u \in Thread \ {t} : mutex' = u => mutex = u,
         \A u \in Thread \ {t} : mutex = u => mutex' = u,
         mutex' = t => pc'[t] \in Inside,
         pc'[t] \in Locked => mutex' = t,
         pc'[t] \in Inside => mutex' = t \/ Solo(calls, t)
  PROVE  Access'
<1>. SUFFICES ASSUME NEW u \in Thread \ {t}
     PROVE  /\ mutex' = u => pc'[u] \in Inside
            /\ pc'[u] \in Locked => mutex' = u
            /\ pc'[u] \in Inside => mutex' = u \/ Solo(calls, u)
            /\ calls[u] = {} => pc'[u] = "idle"
  BY DEF Access
<1>1. pc'[u] \in Inside => pc[u] \in Inside /\ pc'[u] = pc[u]
  BY WokenOutside
<1>2. pc[u] \in Inside => pc'[u] = pc[u]
  BY WokenOutside
<1>3. pc'[u] \in Locked => pc'[u] \in Inside
  BY DEF Inside
<1>4. calls[u] = {} => pc'[u] = "idle"
  BY WokenOutside DEF Access
<1>. QED  BY <1>1, <1>2, <1>3, <1>4 DEF Access

(* Every step keeps Access.                                                *)
LEMMA StepAccess ==
  ASSUME Disciplined, TypeOK, Access, NEW t \in Thread,
         Call(t) \/ Continue(t) \/ SpuriousWakeup(t), UNCHANGED calls
  PROVE  Access'
<1>1. Woken(t) /\ calls[t] # {}
  <2>1. CASE Call(t)
    BY <2>1, StepMoves DEF Call, Send, TrySend, Recv, TryRecv, Close
  <2>2. CASE Continue(t) \/ SpuriousWakeup(t)
    <3>1. pc[t] # "idle"
      BY <2>2 DEF Continue, At, SpuriousWakeup, Waiting, SendLock, SendTest, SendWait,
          SendClosed, Store, BumpTail, ReadCount, CountUp, RecvLock, RecvTest, RecvWait,
          RecvClosed, Load, BumpHead, CountDown, WakeReceivers, WakeSenders
    <3>. QED  BY <2>2, <3>1, StepMoves DEF Access
  <2>. QED  BY <2>1, <2>2
<1>2. mutex = t => mutex # Nobody
  BY NobodyAssumption
<1>3. pc[t] \in Inside => mutex = t \/ Solo(calls, t)
  BY DEF Access
<1>4. Solo(calls, t) => mutex \in {t, Nobody}
  <2>1. \A u \in Thread : mutex = u => calls[u] # {}
    BY DEF Access, Inside, Locked, Storing, Loading
  <2>. QED  BY <2>1 DEF Solo, TypeOK
<1>5. CASE Send(t)
  BY <1>1, <1>2, <1>3, <1>4, <1>5, AccessKept DEF Send, TypeOK, Access, At, Inside,
      Locked, Storing, Loading, Goto
<1>6. CASE TrySend(t)
  BY <1>1, <1>2, <1>3, <1>4, <1>6, AccessKept, TriesAreSolo DEF TrySend, TypeOK,
      Access, At, Inside, Locked, Storing, Loading, Goto
<1>7. CASE Recv(t)
  BY <1>1, <1>2, <1>3, <1>4, <1>7, AccessKept DEF Recv, TypeOK, Access, At, Inside,
      Locked, Storing, Loading, Goto
<1>8. CASE TryRecv(t)
  BY <1>1, <1>2, <1>3, <1>4, <1>8, AccessKept, TriesAreSolo DEF TryRecv, TypeOK,
      Access, At, Inside, Locked, Storing, Loading, Goto
<1>9. CASE Close(t)
  BY <1>1, <1>2, <1>3, <1>4, <1>9, AccessKept DEF Close, TypeOK, Access, At, Inside,
      Locked, Storing, Loading, Goto
<1>10. CASE SendLock(t)
  BY <1>1, <1>2, <1>3, <1>4, <1>10, AccessKept, NobodyAssumption DEF SendLock, TypeOK,
      Access, At, Inside, Locked, Storing, Loading, Lock, Goto
<1>11. CASE SendTest(t)
  BY <1>1, <1>2, <1>3, <1>4, <1>11, AccessKept DEF SendTest, TypeOK, Access, At,
      Inside, Locked, Storing, Loading, Goto
<1>12. CASE SendWait(t)
  BY <1>1, <1>2, <1>3, <1>4, <1>12, AccessKept, NobodyAssumption DEF SendWait, TypeOK,
      Access, At, Inside, Locked, Storing, Loading, Unlock, Goto
<1>13. CASE SendClosed(t)
  BY <1>1, <1>2, <1>3, <1>4, <1>13, AccessKept, NobodyAssumption DEF SendClosed,
      TypeOK, Access, At, Inside, Locked, Storing, Loading, Unlock, Goto
<1>14. CASE Store(t)
  BY <1>1, <1>2, <1>3, <1>4, <1>14, AccessKept DEF Store, TypeOK, Access, At, Inside,
      Locked, Storing, Loading, Goto
<1>15. CASE BumpTail(t)
  BY <1>1, <1>2, <1>3, <1>4, <1>15, AccessKept DEF BumpTail, TypeOK, Access, At,
      Inside, Locked, Storing, Loading, Goto
<1>16. CASE ReadCount(t)
  BY <1>1, <1>2, <1>3, <1>4, <1>16, AccessKept DEF ReadCount, TypeOK, Access, At,
      Inside, Locked, Storing, Loading, Goto
<1>17. CASE CountUp(t)
  <2>1. pc[t] \in Inside /\ pc'[t] = "idle"
    BY <1>17, GotoMoves, SignalMoves DEF CountUp, At, PC, Waiting, Inside, Locked, Storing, Loading
  <2>2. mutex' = IF mutex = t THEN Nobody ELSE mutex
    BY <1>17 DEF CountUp, Unlock
  <2>. QED
    BY <1>1, <2>1, <2>2, AccessKept, NobodyAssumption DEF Inside, Locked, Storing, Loading
<1>18. CASE RecvLock(t)
  BY <1>1, <1>2, <1>3, <1>4, <1>18, AccessKept, NobodyAssumption DEF RecvLock, TypeOK,
      Access, At, Inside, Locked, Storing, Loading, Lock, Goto
<1>19. CASE RecvTest(t)
  BY <1>1, <1>2, <1>3, <1>4, <1>19, AccessKept DEF RecvTest, TypeOK, Access, At,
      Inside, Locked, Storing, Loading, Goto
<1>20. CASE RecvWait(t)
  BY <1>1, <1>2, <1>3, <1>4, <1>20, AccessKept, NobodyAssumption DEF RecvWait, TypeOK,
      Access, At, Inside, Locked, Storing, Loading, Unlock, Goto
<1>21. CASE RecvClosed(t)
  BY <1>1, <1>2, <1>3, <1>4, <1>21, AccessKept, NobodyAssumption DEF RecvClosed,
      TypeOK, Access, At, Inside, Locked, Storing, Loading, Unlock, Goto
<1>22. CASE Load(t)
  BY <1>1, <1>2, <1>3, <1>4, <1>22, AccessKept DEF Load, TypeOK, Access, At, Inside,
      Locked, Storing, Loading, Goto
<1>23. CASE BumpHead(t)
  BY <1>1, <1>2, <1>3, <1>4, <1>23, AccessKept DEF BumpHead, TypeOK, Access, At,
      Inside, Locked, Storing, Loading, Goto
<1>24. CASE CountDown(t)
  <2>1. pc[t] \in Inside /\ pc'[t] = "idle"
    BY <1>24, GotoMoves, SignalMoves DEF CountDown, At, PC, Waiting, Inside, Locked, Storing, Loading
  <2>2. mutex' = IF mutex = t THEN Nobody ELSE mutex
    BY <1>24 DEF CountDown, Unlock
  <2>. QED
    BY <1>1, <2>1, <2>2, AccessKept, NobodyAssumption DEF Inside, Locked, Storing, Loading
<1>25. CASE WakeReceivers(t)
  <2>1. UNCHANGED mutex /\ pc[t] \notin Inside /\ pc'[t] \in {"idle", "wake_senders"}
    BY <1>25, BroadcastMoves DEF WakeReceivers, At, PC, Waiting, Inside, Locked, Storing, Loading
  <2>. QED
    BY <1>1, <2>1, AccessKept DEF Access, Inside, Locked, Storing, Loading
<1>26. CASE WakeSenders(t)
  <2>1. UNCHANGED mutex /\ pc[t] \notin Inside /\ pc'[t] \in {"idle", "wake_senders"}
    BY <1>26, BroadcastMoves DEF WakeSenders, At, PC, Waiting, Inside, Locked, Storing, Loading
  <2>. QED
    BY <1>1, <2>1, AccessKept DEF Access, Inside, Locked, Storing, Loading
<1>27. CASE SpuriousWakeup(t)
  BY <1>1, <1>2, <1>3, <1>4, <1>27, AccessKept DEF SpuriousWakeup, TypeOK, Access, At,
      Inside, Locked, Storing, Loading, Goto, Waiting, Relock
<1>. QED  BY <1>5, <1>6, <1>7, <1>8, <1>9, <1>10, <1>11, <1>12, <1>13, <1>14, <1>15,
             <1>16, <1>17, <1>18, <1>19, <1>20, <1>21, <1>22, <1>23, <1>24, <1>25,
             <1>26, <1>27 DEF Call, Continue

-----------------------------------------------------------------------------
(* The buffer.                                                             *)

Busy == {"bump_tail", "read_count_up", "count_up", "bump_head", "read_count_down", "count_down"}

(* When a thread is inside before or after its step, no other is.          *)
LEMMA Alone ==
  ASSUME Access, Access', NEW t \in Thread, Woken(t), pc[t] \in Inside \/ pc'[t] \in Inside
  PROVE  \A u \in Thread \ {t} : pc[u] \notin Inside /\ pc'[u] \notin Inside
<1>1. ASSUME NEW u \in Thread \ {t}
      PROVE  pc[u] \in Inside <=> pc'[u] \in Inside
  BY WokenOutside
<1>2. CASE pc[t] \in Inside
  BY <1>1, <1>2, OneInside
<1>3. CASE pc'[t] \in Inside
  BY <1>1, <1>3, OneInsideNext
<1>. QED  BY <1>2, <1>3

(* Where the one thread is that may be inside tells where anyone is.       *)
LEMMA SomeoneIs ==
  ASSUME NEW t \in Thread, NEW labels \in SUBSET Inside,
         \A u \in Thread \ {t} : pc[u] \notin Inside /\ pc'[u] \notin Inside
  PROVE  (Someone(labels) <=> pc[t] \in labels) /\ (Someone(labels)' <=> pc'[t] \in labels)
BY DEF Someone

(* A step outside of the given places leaves them to those who are there.  *)
LEMMA SomeoneStays ==
  ASSUME NEW t \in Thread, Woken(t), NEW labels \in SUBSET Inside,
         pc[t] \notin labels, pc'[t] \notin labels
  PROVE  Someone(labels)' <=> Someone(labels)
<1>1. ASSUME NEW u \in Thread \ {t}
      PROVE  pc[u] \in labels <=> pc'[u] \in labels
  BY WokenOutside
<1>. QED  BY <1>1 DEF Someone

(* A step that does not touch the data, but may test it and enter, stop at *)
(* the gates or leave, keeps what is said of the data.                     *)
LEMMA GateStep ==
  ASSUME IInv, NEW t \in Thread, Woken(t), closed => closed',
         UNCHANGED <<buffer, head, tail, count, seen, sent, received>>,
         pc[t] \notin Busy, pc'[t] \notin Busy,
         pc'[t] = "store" => count < Capacity /\ ~closed,
         pc'[t] = "load" => count > 0,
         pc'[t] = "send_closed" => count < Capacity \/ closed,
         pc'[t] = "recv_closed" => count > 0 \/ closed,
         eof' => eof \/ (closed /\ count = 0 /\ pc[t] = "recv_closed" /\ pc'[t] = "idle")
  PROVE  Places' /\ Room' /\ Kept' /\ Ended'
<1>1. \A labels \in SUBSET Busy : Someone(labels)' <=> Someone(labels)
  BY SomeoneStays DEF Busy, Inside, Storing, Loading
<1>2. Passed' = Passed /\ Freed' = Freed /\ Stored' = Stored /\ Loaded' = Loaded
  <2>1. /\ {"bump_tail"} \in SUBSET Busy /\ {"bump_head"} \in SUBSET Busy
        /\ {"bump_tail", "read_count_up", "count_up"} \in SUBSET Busy
        /\ {"bump_head", "read_count_down", "count_down"} \in SUBSET Busy
    BY DEF Busy
  <2>. QED  BY <1>1, <2>1 DEF Passed, Freed, Stored, Loaded
<1>3. Places'
  BY <1>2 DEF IInv, Places
<1>4. Kept'
  BY DEF IInv, Kept
<1>5. \A u \in Thread \ {t} : pc'[u] \in Inside => pc[u] = pc'[u]
  BY WokenOutside
<1>6. Room'
  <2>1. Someone(Storing)' => count < Capacity
    <3>1. ASSUME NEW u \in Thread, pc'[u] \in Storing PROVE count < Capacity
      <4>1. CASE u = t
        BY <3>1, <4>1 DEF Storing, Busy
      <4>2. CASE u # t
        BY <1>5, <3>1, <4>2 DEF IInv, Room, Someone, Inside
      <4>. QED  BY <4>1, <4>2
    <3>. QED  BY <3>1 DEF Someone
  <2>2. Someone(Loading)' => count > 0
    <3>1. ASSUME NEW u \in Thread, pc'[u] \in Loading PROVE count > 0
      <4>1. CASE u = t
        BY <3>1, <4>1 DEF Loading, Busy
      <4>2. CASE u # t
        BY <1>5, <3>1, <4>2 DEF IInv, Room, Someone, Inside
      <4>. QED  BY <4>1, <4>2
    <3>. QED  BY <3>1 DEF Someone
  <2>3. ASSUME NEW u \in Thread
        PROVE  /\ pc'[u] = "send_closed" => count < Capacity \/ closed'
               /\ pc'[u] = "recv_closed" => count > 0 \/ closed'
               /\ pc'[u] \in {"count_up", "count_down"} => seen[u] = count
    <3>1. CASE u = t
      BY <3>1 DEF Busy
    <3>2. CASE u # t
      BY <1>5, <3>2 DEF IInv, Room, Inside, Locked, Storing, Loading
    <3>. QED  BY <3>1, <3>2
  <2>. QED  BY <2>1, <2>2, <2>3 DEF IInv, Room
<1>7. Ended'
  <2>1. ASSUME eof
        PROVE  ~Someone(Storing \cup Loading)'
    <3>1. closed /\ ~Someone(Storing \cup Loading) /\ Len(received) = Len(sent)
      BY <2>1 DEF IInv, Ended
    <3>2. count = 0
      BY <3>1 DEF IInv, TypeOK, Places, Stored, Loaded, Someone, Storing, Loading
    <3>3. pc'[t] \notin Storing \cup Loading
      BY <3>1, <3>2 DEF Storing, Loading, Busy
    <3>. QED  BY <1>5, <3>1, <3>3 DEF Someone, Inside
  <2>2. ASSUME count = 0, pc[t] = "recv_closed", pc'[t] = "idle"
        PROVE  ~Someone(Storing \cup Loading)' /\ Len(received) = Len(sent)
    <3>1. \A u \in Thread \ {t} : pc[u] \notin Inside
      BY <2>2, OneInside DEF IInv, Inside, Locked
    <3>2. ~Someone(Storing \cup Loading)'
      BY <1>5, <2>2, <3>1 DEF Someone, Inside, Storing, Loading
    <3>3. Stored = 0 /\ Loaded = 0
      BY <2>2, <3>1 DEF Stored, Loaded, Someone, Inside, Storing, Loading
    <3>. QED  BY <2>2, <3>2, <3>3 DEF IInv, TypeOK, Places
  <2>. QED  BY <2>1, <2>2 DEF IInv, Ended
<1>. QED  BY <1>3, <1>4, <1>6, <1>7

(* The lengths are natural numbers.                                        *)
LEMMA Lengths ==
  ASSUME IInv
  PROVE  /\ Len(sent) \in Nat /\ Len(received) \in Nat /\ count \in Nat
         /\ Capacity \in Nat \ {0} /\ Slot = 0 .. Capacity - 1
BY CapacityAssumption DEF IInv, TypeOK, Slot

(* While a thread stores or loads, how far it has come is how far the      *)
(* channel has, and no recv has found its end.                             *)
LEMMA Progress ==
  ASSUME IInv, Access', NEW t \in Thread, Woken(t), pc[t] \in Storing \cup Loading
  PROVE  /\ Passed = Len(sent) - (IF pc[t] = "bump_tail" THEN 1 ELSE 0)
         /\ Freed = Len(received) - (IF pc[t] = "bump_head" THEN 1 ELSE 0)
         /\ Stored = IF pc[t] \in {"bump_tail", "read_count_up", "count_up"} THEN 1 ELSE 0
         /\ Loaded = IF pc[t] \in {"bump_head", "read_count_down", "count_down"} THEN 1 ELSE 0
         /\ Passed' = Len(sent') - (IF pc'[t] = "bump_tail" THEN 1 ELSE 0)
         /\ Freed' = Len(received') - (IF pc'[t] = "bump_head" THEN 1 ELSE 0)
         /\ Stored' = IF pc'[t] \in {"bump_tail", "read_count_up", "count_up"} THEN 1 ELSE 0
         /\ Loaded' = IF pc'[t] \in {"bump_head", "read_count_down", "count_down"} THEN 1 ELSE 0
         /\ pc[t] \in Storing => count < Capacity
         /\ pc[t] \in Loading => count > 0
         /\ ~eof
<1>1. \A u \in Thread \ {t} : pc[u] \notin Inside /\ pc'[u] \notin Inside
  BY Alone DEF IInv, Inside
<1>2. ASSUME NEW labels \in SUBSET Inside
      PROVE  (Someone(labels) <=> pc[t] \in labels) /\ (Someone(labels)' <=> pc'[t] \in labels)
  BY <1>1, SomeoneIs
<1>3. /\ {"bump_tail"} \in SUBSET Inside /\ {"bump_head"} \in SUBSET Inside
      /\ {"bump_tail", "read_count_up", "count_up"} \in SUBSET Inside
      /\ {"bump_head", "read_count_down", "count_down"} \in SUBSET Inside
      /\ Storing \in SUBSET Inside /\ Loading \in SUBSET Inside
      /\ Storing \cup Loading \in SUBSET Inside
  BY DEF Inside, Storing, Loading
<1>4. /\ Passed = Len(sent) - (IF pc[t] = "bump_tail" THEN 1 ELSE 0)
      /\ Passed' = Len(sent') - (IF pc'[t] = "bump_tail" THEN 1 ELSE 0)
      /\ Freed = Len(received) - (IF pc[t] = "bump_head" THEN 1 ELSE 0)
      /\ Freed' = Len(received') - (IF pc'[t] = "bump_head" THEN 1 ELSE 0)
  BY <1>2, <1>3 DEF Passed, Freed
<1>5. /\ Stored = IF pc[t] \in {"bump_tail", "read_count_up", "count_up"} THEN 1 ELSE 0
      /\ Stored' = IF pc'[t] \in {"bump_tail", "read_count_up", "count_up"} THEN 1 ELSE 0
      /\ Loaded = IF pc[t] \in {"bump_head", "read_count_down", "count_down"} THEN 1 ELSE 0
      /\ Loaded' = IF pc'[t] \in {"bump_head", "read_count_down", "count_down"} THEN 1 ELSE 0
  BY <1>2, <1>3 DEF Stored, Loaded
<1>6. /\ pc[t] \in Storing => count < Capacity
      /\ pc[t] \in Loading => count > 0
      /\ ~eof
  BY <1>2, <1>3 DEF IInv, Room, Ended
<1>. QED  BY <1>4, <1>5, <1>6

(* What it must leave for Room and Ended to hold.                          *)
LEMMA RoomLeft ==
  ASSUME IInv, Access', NEW t \in Thread, Woken(t), pc[t] \in Storing \cup Loading,
         pc'[t] \notin {"send_closed", "recv_closed"}, eof' = eof,
         count' <= Capacity,
         pc'[t] \in Storing => count' < Capacity,
         pc'[t] \in Loading => count' > 0,
         pc'[t] \in {"count_up", "count_down"} => seen'[t] = count'
  PROVE  Room' /\ Ended'
<1>1. \A u \in Thread \ {t} : pc'[u] \notin Inside
  BY Alone DEF IInv, Inside
<1>2. ~eof
  BY Progress
<1>3. Ended'
  BY <1>2 DEF Ended
<1>4. Room'
  BY <1>1 DEF Room, Someone, Inside, Locked, Storing, Loading
<1>. QED  BY <1>3, <1>4

(* The value goes to the slot after the last, which is free.               *)
LEMMA StoreKeeps ==
  ASSUME IInv, Access', NEW t \in Thread, Woken(t), Store(t)
  PROVE  Places' /\ Room' /\ Kept' /\ Ended'
<1>1. /\ pc[t] = "store" /\ pc'[t] = "bump_tail" /\ value[t] \in Value
      /\ buffer' = [buffer EXCEPT ![tail] = value[t]] /\ sent' = Append(sent, value[t])
      /\ UNCHANGED <<head, tail, count, closed, seen, received, eof>>
  BY DEF IInv, TypeOK, ValuesSet, Sending, Store, At, Goto, localVars
<1>2. /\ pc[t] \in Storing /\ pc'[t] \in Storing /\ pc'[t] \notin Loading
  BY <1>1 DEF Storing, Loading
<1>3. /\ Passed = Len(sent) /\ Freed = Len(received) /\ Stored = 0 /\ Loaded = 0
      /\ Passed' = Len(sent') - 1 /\ Freed' = Len(received) /\ Stored' = 1 /\ Loaded' = 0
      /\ count < Capacity /\ ~eof
  BY <1>1, <1>2, Progress
<1>4. /\ sent \in Seq(Value) /\ Len(sent') = Len(sent) + 1
      /\ sent'[Len(sent) + 1] = value[t]
      /\ \A i \in 1 .. Len(sent) : sent'[i] = sent[i]
  BY <1>1 DEF IInv, TypeOK
<1>5. /\ count = Len(sent) - Len(received) /\ tail = Len(sent) % Capacity
      /\ head = Len(received) % Capacity
  BY <1>3, Lengths DEF IInv, Places
<1>6. Places'
  BY <1>1, <1>3, <1>4, <1>5, Lengths DEF IInv, Places
<1>7. Room' /\ Ended'
  BY <1>1, <1>2, <1>3, RoomLeft, Lengths
<1>8. Kept'
  <2>1. Len(received') <= Len(sent')
    BY <1>1, <1>4, Lengths DEF IInv, Kept
  <2>2. \A i \in 1 .. Len(received') : received'[i] = sent'[i]
    BY <1>1, <1>4, Lengths DEF IInv, Kept
  <2>3. ASSUME NEW i \in Len(received') + 1 .. Len(sent')
        PROVE  buffer'[(i - 1) % Capacity] = sent'[i]
    <3>1. buffer \in [Slot -> Value \cup {Nil}] /\ tail \in Slot
      BY DEF IInv, TypeOK
    <3>2. CASE i = Len(sent) + 1
      <4>1. (i - 1) % Capacity = tail
        BY <1>5, <3>2, Lengths
      <4>. QED  BY <1>1, <1>4, <3>1, <3>2, <4>1
    <3>3. CASE i # Len(sent) + 1
      <4>1. i \in Len(received) + 1 .. Len(sent) /\ i - 1 \in Nat
        BY <1>1, <1>4, <2>3, <3>3, Lengths
      <4>2. i - 1 < Len(sent) /\ Len(sent) < (i - 1) + Capacity
        <5>1. /\ Len(sent) - Len(received) < Capacity
              /\ Len(sent) \in Nat /\ Len(received) \in Nat /\ Capacity \in Nat
          BY <1>3, <1>5, Lengths
        <5>. QED  BY ONLY <4>1, <5>1
      <4>3. (i - 1) % Capacity # tail
        BY <1>5, <4>1, <4>2, RemaindersDiffer, Lengths
      <4>4. (i - 1) % Capacity \in Slot
        BY <4>1, QuotientRemainder, Lengths
      <4>5. buffer'[(i - 1) % Capacity] = buffer[(i - 1) % Capacity]
        BY <1>1, <3>1, <4>3, <4>4
      <4>6. buffer[(i - 1) % Capacity] = sent[i]
        BY <4>1 DEF IInv, Kept
      <4>. QED  BY <1>4, <4>1, <4>5, <4>6, Lengths
    <3>. QED  BY <3>2, <3>3
  <2>. QED  BY <2>1, <2>2, <2>3 DEF Kept
<1>. QED  BY <1>6, <1>7, <1>8

(* The tail passes the slot.                                               *)
LEMMA BumpTailKeeps ==
  ASSUME IInv, Access', NEW t \in Thread, Woken(t), BumpTail(t)
  PROVE  Places' /\ Room' /\ Kept' /\ Ended'
<1>1. /\ pc[t] = "bump_tail" /\ pc'[t] = "read_count_up" /\ tail' = (tail + 1) % Capacity
      /\ UNCHANGED <<buffer, head, count, closed, seen, sent, received, eof>>
  BY DEF IInv, TypeOK, BumpTail, At, Goto, localVars, historyVars
<1>2. /\ pc[t] \in Storing /\ pc'[t] \in Storing /\ pc'[t] \notin Loading
  BY <1>1 DEF Storing, Loading
<1>3. /\ Passed = Len(sent) - 1 /\ Freed' = Freed /\ Stored' = Stored /\ Loaded' = Loaded
      /\ Passed' = Len(sent) /\ Stored = 1 /\ Loaded = 0 /\ count < Capacity
  BY <1>1, <1>2, Progress
<1>4. Len(sent) - 1 \in Nat
  BY <1>3, Lengths DEF IInv, Places, Kept
<1>5. tail' = Len(sent) % Capacity
  <2>1. tail = (Len(sent) - 1) % Capacity
    BY <1>3 DEF IInv, Places
  <2>2. (tail + 1) % Capacity = ((Len(sent) - 1) + 1) % Capacity
    BY <1>4, <2>1, RemainderOfSum, Lengths
  <2>3. (Len(sent) - 1) + 1 = Len(sent)
    BY Lengths
  <2>. QED  BY <1>1, <2>2, <2>3
<1>6. Places'
  BY <1>1, <1>3, <1>5 DEF IInv, Places
<1>7. Room' /\ Ended'
  BY <1>1, <1>2, <1>3, RoomLeft, Lengths
<1>8. Kept'
  BY <1>1 DEF IInv, Kept
<1>. QED  BY <1>6, <1>7, <1>8

(* What the thread inside reads is what it will find.                      *)
LEMMA ReadCountKeeps ==
  ASSUME IInv, Access', NEW t \in Thread, Woken(t), ReadCount(t)
  PROVE  Places' /\ Room' /\ Kept' /\ Ended'
<1>1. /\ \/ pc[t] = "read_count_up" /\ pc'[t] = "count_up"
         \/ pc[t] = "read_count_down" /\ pc'[t] = "count_down"
      /\ seen'[t] = count
      /\ UNCHANGED <<buffer, head, tail, count, closed, sent, received, eof>>
  BY DEF IInv, TypeOK, ReadCount, At, Goto, channelVars, historyVars
<1>2. /\ pc[t] \in Storing \cup Loading
      /\ pc[t] \in Storing <=> pc'[t] \in Storing
      /\ pc[t] \in Loading <=> pc'[t] \in Loading
  BY <1>1 DEF Storing, Loading
<1>3. /\ Passed' = Passed /\ Freed' = Freed /\ Stored' = Stored /\ Loaded' = Loaded
      /\ pc[t] \in Storing => count < Capacity
      /\ pc[t] \in Loading => count > 0
  BY <1>1, <1>2, Progress
<1>4. Places'
  BY <1>1, <1>3 DEF IInv, Places
<1>5. Room' /\ Ended'
  BY <1>1, <1>2, <1>3, RoomLeft DEF IInv, Room
<1>6. Kept'
  BY <1>1 DEF IInv, Kept
<1>. QED  BY <1>4, <1>5, <1>6

(* The value is counted, and the thread leaves.                            *)
LEMMA CountUpKeeps ==
  ASSUME IInv, Access', NEW t \in Thread, Woken(t), CountUp(t)
  PROVE  Places' /\ Room' /\ Kept' /\ Ended'
<1>1. /\ pc[t] = "count_up" /\ pc'[t] = "idle" /\ count' = (seen[t] + 1) % CountModulus
      /\ UNCHANGED <<buffer, head, tail, closed, sent, received, eof>>
  BY GotoMoves, SignalMoves DEF IInv, CountUp, At, PC, Waiting, localVars, historyVars
<1>2. /\ pc[t] \in Storing /\ pc'[t] \notin Storing /\ pc'[t] \notin Loading
  BY <1>1 DEF Storing, Loading
<1>3. /\ Passed' = Passed /\ Freed' = Freed /\ Stored = 1 /\ Stored' = 0
      /\ Loaded = 0 /\ Loaded' = 0 /\ count < Capacity
  BY <1>1, <1>2, Progress
<1>4. count' = count + 1
  <2>1. seen[t] = count
    BY <1>1 DEF IInv, Room
  <2>2. count + 1 \in Nat /\ count + 1 < CountModulus
    BY <1>3, CapacityAssumption, Lengths
  <2>3. \A n \in Nat : n < CountModulus => n % CountModulus = n
    BY CapacityAssumption
  <2>. QED  BY <1>1, <2>1, <2>2, <2>3
<1>5. Places'
  BY <1>1, <1>3, <1>4, Lengths DEF IInv, Places
<1>6. Room' /\ Ended'
  BY <1>1, <1>2, <1>3, <1>4, RoomLeft, Lengths
<1>7. Kept'
  BY <1>1 DEF IInv, Kept
<1>. QED  BY <1>5, <1>6, <1>7

(* The value at the head is the one sent first of those not received.      *)
LEMMA LoadKeeps ==
  ASSUME IInv, Access', NEW t \in Thread, Woken(t), Load(t)
  PROVE  Places' /\ Room' /\ Kept' /\ Ended'
<1>1. /\ pc[t] = "load" /\ pc'[t] = "bump_head" /\ received' = Append(received, buffer[head])
      /\ UNCHANGED <<buffer, head, tail, count, closed, seen, sent, eof>>
  BY DEF IInv, TypeOK, Load, At, Goto, channelVars, localVars
<1>2. /\ pc[t] \in Loading /\ pc'[t] \in Loading /\ pc'[t] \notin Storing
  BY <1>1 DEF Storing, Loading
<1>3. /\ Passed = Len(sent) /\ Freed = Len(received) /\ Stored = 0 /\ Loaded = 0
      /\ Passed' = Len(sent) /\ Freed' = Len(received') - 1 /\ Stored' = 0 /\ Loaded' = 1
      /\ count > 0
  BY <1>1, <1>2, Progress
<1>4. /\ received \in Seq(Value \cup {Nil}) /\ Len(received') = Len(received) + 1
      /\ received'[Len(received) + 1] = buffer[head]
      /\ \A i \in 1 .. Len(received) : received'[i] = received[i]
  BY <1>1 DEF IInv, TypeOK
<1>5. /\ count = Len(sent) - Len(received) /\ head = Len(received) % Capacity
      /\ tail = Len(sent) % Capacity
  BY <1>3, Lengths DEF IInv, Places
<1>6. Places'
  BY <1>1, <1>3, <1>4, <1>5, Lengths DEF IInv, Places
<1>7. Room' /\ Ended'
  BY <1>1, <1>2, <1>3, RoomLeft, Lengths DEF IInv, Room
<1>8. Kept'
  <2>1. Len(received') <= Len(sent')
    BY <1>1, <1>3, <1>4, <1>5, Lengths
  <2>2. buffer[head] = sent[Len(received) + 1]
    <3>1. Len(received) + 1 \in Len(received) + 1 .. Len(sent)
      BY <1>3, <1>5, Lengths
    <3>2. buffer[((Len(received) + 1) - 1) % Capacity] = sent[Len(received) + 1]
      BY <3>1 DEF IInv, Kept
    <3>3. (Len(received) + 1) - 1 = Len(received)
      BY Lengths
    <3>. QED  BY <1>5, <3>2, <3>3
  <2>3. \A i \in 1 .. Len(received') : received'[i] = sent'[i]
    BY <1>1, <1>4, <2>2, Lengths DEF IInv, Kept
  <2>4. ASSUME NEW i \in Len(received') + 1 .. Len(sent')
        PROVE  buffer'[(i - 1) % Capacity] = sent'[i]
    <3>1. i \in Len(received) + 1 .. Len(sent)
      BY <1>1, <1>4, Lengths
    <3>. QED  BY <1>1, <3>1 DEF IInv, Kept
  <2>. QED  BY <2>1, <2>3, <2>4 DEF Kept
<1>. QED  BY <1>6, <1>7, <1>8

(* The head passes the slot.                                               *)
LEMMA BumpHeadKeeps ==
  ASSUME IInv, Access', NEW t \in Thread, Woken(t), BumpHead(t)
  PROVE  Places' /\ Room' /\ Kept' /\ Ended'
<1>1. /\ pc[t] = "bump_head" /\ pc'[t] = "read_count_down" /\ head' = (head + 1) % Capacity
      /\ UNCHANGED <<buffer, tail, count, closed, seen, sent, received, eof>>
  BY DEF IInv, TypeOK, BumpHead, At, Goto, localVars, historyVars
<1>2. /\ pc[t] \in Loading /\ pc'[t] \in Loading /\ pc'[t] \notin Storing
  BY <1>1 DEF Storing, Loading
<1>3. /\ Freed = Len(received) - 1 /\ Passed' = Passed /\ Stored' = Stored /\ Loaded' = Loaded
      /\ Freed' = Len(received) /\ Stored = 0 /\ Loaded = 1 /\ count > 0
  BY <1>1, <1>2, Progress
<1>4. Len(received) - 1 \in Nat
  BY <1>3 DEF IInv, Places
<1>5. head' = Len(received) % Capacity
  <2>1. head = (Len(received) - 1) % Capacity
    BY <1>3 DEF IInv, Places
  <2>2. (head + 1) % Capacity = ((Len(received) - 1) + 1) % Capacity
    BY <1>4, <2>1, RemainderOfSum, Lengths
  <2>3. (Len(received) - 1) + 1 = Len(received)
    BY Lengths
  <2>. QED  BY <1>1, <2>2, <2>3
<1>6. Places'
  BY <1>1, <1>3, <1>5 DEF IInv, Places
<1>7. Room' /\ Ended'
  BY <1>1, <1>2, <1>3, RoomLeft, Lengths DEF IInv, Room
<1>8. Kept'
  BY <1>1 DEF IInv, Kept
<1>. QED  BY <1>6, <1>7, <1>8

(* The value is no longer counted, and the thread leaves.                  *)
LEMMA CountDownKeeps ==
  ASSUME IInv, Access', NEW t \in Thread, Woken(t), CountDown(t)
  PROVE  Places' /\ Room' /\ Kept' /\ Ended'
<1>1. /\ pc[t] = "count_down" /\ pc'[t] = "idle" /\ count' = (seen[t] - 1) % CountModulus
      /\ UNCHANGED <<buffer, head, tail, closed, sent, received, eof>>
  BY GotoMoves, SignalMoves DEF IInv, CountDown, At, PC, Waiting, localVars, historyVars
<1>2. /\ pc[t] \in Loading /\ pc'[t] \notin Storing /\ pc'[t] \notin Loading
  BY <1>1 DEF Storing, Loading
<1>3. /\ Passed' = Passed /\ Freed' = Freed /\ Loaded = 1 /\ Loaded' = 0
      /\ Stored = 0 /\ Stored' = 0 /\ count > 0
  BY <1>1, <1>2, Progress
<1>4. count' = count - 1
  <2>1. seen[t] = count /\ count <= Capacity
    BY <1>1 DEF IInv, Room
  <2>2. count - 1 \in Nat /\ count - 1 < CountModulus
    BY <1>3, <2>1, CapacityAssumption, Lengths
  <2>3. \A n \in Nat : n < CountModulus => n % CountModulus = n
    BY CapacityAssumption
  <2>. QED  BY <1>1, <2>1, <2>2, <2>3
<1>5. Places'
  BY <1>1, <1>3, <1>4, Lengths DEF IInv, Places
<1>6. Room' /\ Ended'
  BY <1>1, <1>2, <1>3, <1>4, RoomLeft, Lengths DEF IInv, Room
<1>7. Kept'
  BY <1>1 DEF IInv, Kept
<1>. QED  BY <1>5, <1>6, <1>7

-----------------------------------------------------------------------------
(* The theorems.                                                           *)

(* A new channel is empty and nobody is inside.                            *)
LEMMA InitIInv == ASSUME Init PROVE IInv
<1>1. TypeOK /\ ValuesSet
  BY InitTypes
<1>2. Access
  BY NobodyAssumption DEF Init, Access, Inside, Locked, Storing, Loading
<1>3. ~Someone(Inside)
  BY DEF Init, Someone, Inside, Locked, Storing, Loading
<1>4. Passed = 0 /\ Freed = 0 /\ Stored = 0 /\ Loaded = 0
  BY <1>3 DEF Init, Passed, Freed, Stored, Loaded, Someone, Inside, Storing, Loading
<1>5. 0 % Capacity = 0
  BY CapacityAssumption
<1>6. Places /\ Kept /\ Ended
  BY <1>4, <1>5 DEF Init, Places, Kept, Ended
<1>7. Room
  BY <1>3, CapacityAssumption
  DEF Init, Room, Someone, Inside, Locked, Storing, Loading
<1>. QED  BY <1>1, <1>2, <1>6, <1>7 DEF IInv

(* Every step of every thread keeps what is said of the data.              *)
LEMMA StepData ==
  ASSUME IInv, Access', NEW t \in Thread, Call(t) \/ Continue(t) \/ SpuriousWakeup(t)
  PROVE  Places' /\ Room' /\ Kept' /\ Ended'
<1>1. Woken(t)
  BY StepMoves DEF IInv
<1>2. CASE Send(t)
  BY <1>1, <1>2, GateStep, Lengths DEF IInv, TypeOK, Room, Send, At, Goto,
      channelVars, localVars, historyVars, Busy, Full, Empty
<1>3. CASE TrySend(t)
  <2>1. UNCHANGED <<buffer, head, tail, count, closed, seen, sent, received, eof>>
    BY <1>3 DEF TrySend, channelVars, localVars, historyVars
  <2>2. /\ pc[t] = "idle" /\ pc'[t] \in {"idle", "store"}
        /\ pc'[t] = "store" => count < Capacity /\ ~closed
    BY <1>3, Lengths DEF IInv, TypeOK, Room, TrySend, At, Goto, Full, Empty
  <2>. QED  BY <1>1, <2>1, <2>2, GateStep DEF Busy
<1>4. CASE Recv(t)
  BY <1>1, <1>4, GateStep, Lengths DEF IInv, TypeOK, Room, Recv, At, Goto,
      channelVars, localVars, historyVars, Busy, Full, Empty
<1>5. CASE TryRecv(t)
  <2>1. UNCHANGED <<buffer, head, tail, count, closed, seen, sent, received, eof>>
    BY <1>5 DEF TryRecv, channelVars, localVars, historyVars
  <2>2. /\ pc[t] = "idle" /\ pc'[t] \in {"idle", "load"}
        /\ pc'[t] = "load" => count > 0
    BY <1>5, Lengths DEF IInv, TypeOK, Room, TryRecv, At, Goto, Full, Empty
  <2>. QED  BY <1>1, <2>1, <2>2, GateStep DEF Busy
<1>6. CASE Close(t)
  BY <1>1, <1>6, GateStep, Lengths DEF IInv, TypeOK, Room, Close, At, Goto,
      channelVars, localVars, historyVars, Busy, Full, Empty
<1>7. CASE SendLock(t)
  BY <1>1, <1>7, GateStep, Lengths DEF IInv, TypeOK, Room, SendLock, At, Goto,
      channelVars, localVars, historyVars, Busy, Full, Empty
<1>8. CASE SendTest(t)
  <2>1. UNCHANGED <<buffer, head, tail, count, closed, seen, sent, received, eof>>
    BY <1>8 DEF SendTest, channelVars, localVars, historyVars
  <2>2. /\ pc[t] = "send_test" /\ pc'[t] \in {"send_wait", "send_closed"}
        /\ pc'[t] = "send_closed" => count < Capacity \/ closed
    BY <1>8, Lengths DEF IInv, TypeOK, Room, SendTest, At, Goto, Full, Empty
  <2>. QED  BY <1>1, <2>1, <2>2, GateStep DEF Busy
<1>9. CASE SendWait(t)
  BY <1>1, <1>9, GateStep, Lengths DEF IInv, TypeOK, Room, SendWait, At, Goto,
      channelVars, localVars, historyVars, Busy, Full, Empty
<1>10. CASE SendClosed(t)
  BY <1>1, <1>10, GateStep, Lengths DEF IInv, TypeOK, Room, SendClosed, At, Goto,
      channelVars, localVars, historyVars, Busy, Full, Empty
<1>11. CASE Store(t)
  BY <1>1, <1>11, StoreKeeps
<1>12. CASE BumpTail(t)
  BY <1>1, <1>12, BumpTailKeeps
<1>13. CASE ReadCount(t)
  BY <1>1, <1>13, ReadCountKeeps
<1>14. CASE CountUp(t)
  BY <1>1, <1>14, CountUpKeeps
<1>15. CASE RecvLock(t)
  BY <1>1, <1>15, GateStep, Lengths DEF IInv, TypeOK, Room, RecvLock, At, Goto,
      channelVars, localVars, historyVars, Busy, Full, Empty
<1>16. CASE RecvTest(t)
  <2>1. UNCHANGED <<buffer, head, tail, count, closed, seen, sent, received, eof>>
    BY <1>16 DEF RecvTest, channelVars, localVars, historyVars
  <2>2. /\ pc[t] = "recv_test" /\ pc'[t] \in {"recv_wait", "recv_closed"}
        /\ pc'[t] = "recv_closed" => count > 0 \/ closed
    BY <1>16, Lengths DEF IInv, TypeOK, Room, RecvTest, At, Goto, Full, Empty
  <2>. QED  BY <1>1, <2>1, <2>2, GateStep DEF Busy
<1>17. CASE RecvWait(t)
  BY <1>1, <1>17, GateStep, Lengths DEF IInv, TypeOK, Room, RecvWait, At, Goto,
      channelVars, localVars, historyVars, Busy, Full, Empty
<1>18. CASE RecvClosed(t)
  <2>1. UNCHANGED <<buffer, head, tail, count, closed, seen, sent, received>>
    BY <1>18 DEF RecvClosed, channelVars, localVars, historyVars
  <2>2. /\ pc[t] = "recv_closed" /\ pc'[t] \in {"idle", "load"}
        /\ pc'[t] = "load" => count > 0
        /\ eof' => eof \/ (closed /\ count = 0 /\ pc'[t] = "idle")
    BY <1>18, Lengths DEF IInv, TypeOK, Room, RecvClosed, At, Goto, Full, Empty
  <2>. QED  BY <1>1, <2>1, <2>2, GateStep DEF Busy
<1>19. CASE Load(t)
  BY <1>1, <1>19, LoadKeeps
<1>20. CASE BumpHead(t)
  BY <1>1, <1>20, BumpHeadKeeps
<1>21. CASE CountDown(t)
  BY <1>1, <1>21, CountDownKeeps
<1>22. CASE WakeReceivers(t)
  <2>1. pc[t] \notin Inside /\ pc'[t] \in {"idle", "wake_senders"}
    BY <1>22, BroadcastMoves DEF IInv, WakeReceivers, At, PC, Waiting, Inside, Locked, Storing, Loading
  <2>. QED
    BY <1>1, <1>22, <2>1, GateStep
    DEF WakeReceivers, channelVars, localVars, historyVars, Busy, Inside, Storing, Loading
<1>23. CASE WakeSenders(t)
  <2>1. pc[t] \notin Inside /\ pc'[t] \in {"idle", "wake_senders"}
    BY <1>23, BroadcastMoves DEF IInv, WakeSenders, At, PC, Waiting, Inside, Locked, Storing, Loading
  <2>. QED
    BY <1>1, <1>23, <2>1, GateStep
    DEF WakeSenders, channelVars, localVars, historyVars, Busy, Inside, Storing, Loading
<1>24. CASE SpuriousWakeup(t)
  BY <1>1, <1>24, GateStep, Lengths DEF IInv, TypeOK, Room, SpuriousWakeup, At, Goto,
      channelVars, localVars, historyVars, Busy, Full, Empty, Waiting, Relock
<1>. QED  BY <1>2, <1>3, <1>4, <1>5, <1>6, <1>7, <1>8, <1>9, <1>10, <1>11, <1>12,
             <1>13, <1>14, <1>15, <1>16, <1>17, <1>18, <1>19, <1>20, <1>21, <1>22,
             <1>23, <1>24 DEF Call, Continue

(* So every step keeps the invariant.                                      *)
LEMMA NextIInv == ASSUME Disciplined, IInv, [Next]_vars PROVE IInv'
<1>1. CASE Next
  <2>1. PICK t \in Thread : Call(t) \/ Continue(t) \/ SpuriousWakeup(t)
    BY <1>1 DEF Next
  <2>2. UNCHANGED calls
    BY <1>1 DEF Next
  <2>3. TypeOK' /\ ValuesSet'
    BY <2>1, <2>2, StepTypes DEF IInv
  <2>4. Access'
    BY <2>1, <2>2, StepAccess DEF IInv
  <2>5. Places' /\ Room' /\ Kept' /\ Ended'
    BY <2>1, <2>4, StepData
  <2>. QED  BY <2>3, <2>4, <2>5 DEF IInv
<1>2. CASE UNCHANGED vars
  <2>1. UNCHANGED <<buffer, head, tail, count, closed, mutex, pc, value, seen, calls,
                    sent, received, eof>>
    BY <1>2 DEF vars, channelVars, localVars, historyVars
  <2>2. TypeOK' /\ ValuesSet'
    BY <1>2, NextTypes DEF IInv
  <2>3. Access' /\ Ended'
    BY <2>1 DEF IInv, Access, Solo, Ended, Someone
  <2>4. Places' /\ Room' /\ Kept'
    BY <2>1 DEF IInv, Places, Passed, Freed, Stored, Loaded, Room, Kept, Someone
  <2>. QED  BY <2>2, <2>3, <2>4 DEF IInv
<1>. QED  BY <1>1, <1>2

(* The invariant holds as long as the channel is shared as it can be.      *)
THEOREM Inductive ==
  ASSUME Disciplined
  PROVE  Spec => []IInv
<1>1. IInv /\ [Next]_vars => IInv'
  BY NextIInv
<1>. QED  BY <1>1, InitIInv, PTL DEF Spec

(* Between calls the buffer is the values sent and not received.           *)
LEMMA QuietIsQueue == ASSUME IInv PROVE FirstInFirstOut
<1>. SUFFICES ASSUME Quiet
     PROVE  count <= Capacity /\ received \o Contents = sent
  BY DEF FirstInFirstOut
<1>1. ~Someone(Storing) /\ ~Someone(Loading)
  BY DEF Quiet, Someone, Storing, Loading, Waiting
<1>2. Freed = Len(received) /\ Stored = 0 /\ Loaded = 0
  BY <1>1 DEF Freed, Stored, Loaded, Someone, Storing, Loading
<1>3. /\ count = Len(sent) - Len(received) /\ head = Len(received) % Capacity
      /\ count <= Capacity
  BY <1>2, Lengths DEF IInv, Places, Room
<1>4. ASSUME NEW i \in 1 .. count
      PROVE  Contents[i] = sent[Len(received) + i] /\ Contents[i] \in Value \cup {Nil}
  <2>1. (head + i - 1) % Capacity = (Len(received) + i - 1) % Capacity
    <3>1. i - 1 \in Nat
      BY Lengths
    <3>2. (head + (i - 1)) % Capacity = (Len(received) + (i - 1)) % Capacity
      BY <1>3, <3>1, RemainderOfSum, Lengths
    <3>3. head \in Nat /\ head + (i - 1) = head + i - 1
          /\ Len(received) + (i - 1) = Len(received) + i - 1
      BY Lengths DEF IInv, TypeOK
    <3>. QED  BY <3>2, <3>3
  <2>2. /\ Len(received) + i \in Len(received) + 1 .. Len(sent)
        /\ (Len(received) + i) - 1 = Len(received) + i - 1
    BY <1>3, Lengths
  <2>3. buffer[(Len(received) + i - 1) % Capacity] = sent[Len(received) + i]
    BY <2>2 DEF IInv, Kept
  <2>4. sent[Len(received) + i] \in Value
    BY <2>2, Lengths DEF IInv, TypeOK
  <2>. QED  BY <2>1, <2>3, <2>4 DEF Contents
<1>5. Contents \in Seq(Value \cup {Nil}) /\ Len(Contents) = count
  <2>1. Contents = [i \in 1 .. count |-> Contents[i]]
    BY DEF Contents
  <2>2. count \in Nat
    BY Lengths
  <2>. QED  BY <1>4, <2>1, <2>2
<1>6. received \in Seq(Value \cup {Nil}) /\ sent \in Seq(Value \cup {Nil})
  <2>1. received \in Seq(Value \cup {Nil}) /\ sent \in Seq(Value)
    BY DEF IInv, TypeOK
  <2>. QED  BY <2>1
<1>7. /\ received \o Contents \in Seq(Value \cup {Nil})
      /\ Len(received \o Contents) = Len(received) + count
      /\ \A i \in 1 .. Len(received) + count : (received \o Contents)[i] =
            IF i <= Len(received) THEN received[i] ELSE Contents[i - Len(received)]
  BY <1>5, <1>6, ConcatProperties
<1>8. Len(received) + count = Len(sent)
  BY <1>3, Lengths
<1>9. ASSUME NEW i \in 1 .. Len(sent)
      PROVE  (received \o Contents)[i] = sent[i]
  <2>1. CASE i <= Len(received)
    <3>1. (received \o Contents)[i] = received[i]
      BY <1>7, <1>8, <2>1
    <3>2. received[i] = sent[i]
      BY <2>1, Lengths DEF IInv, Kept
    <3>. QED  BY <3>1, <3>2
  <2>2. CASE ~(i <= Len(received))
    <3>1. i - Len(received) \in 1 .. count /\ Len(received) + (i - Len(received)) = i
      BY <1>8, <2>2, Lengths
    <3>2. (received \o Contents)[i] = Contents[i - Len(received)]
      BY <1>7, <1>8, <2>2
    <3>. QED  BY <1>4, <3>1, <3>2
  <2>. QED  BY <2>1, <2>2
<1>. QED  BY <1>3, <1>6, <1>7, <1>8, <1>9, SeqEqual

(* Between calls the buffer holds exactly the values that were sent and    *)
(* not received, in order (task_module.c:160-262): for every capacity and  *)
(* any number of blocking producers and consumers, or one thread alone.    *)
THEOREM ChannelIsQueue ==
  ASSUME Disciplined
  PROVE  Spec => []FirstInFirstOut
<1>. QED  BY Inductive, QuietIsQueue, PTL

(* ASTERON_ERROR_EOF is final (task_module.c:226-231): every value that a  *)
(* send accepted has then been received, although close takes no mutex.    *)
THEOREM EofIsFinal ==
  ASSUME Disciplined
  PROVE  Spec => []EofMeansDrained
<1>1. ASSUME IInv, eof PROVE received = sent
  <2>1. Len(received) = Len(sent) /\ \A i \in 1 .. Len(received) : received[i] = sent[i]
    BY <1>1 DEF IInv, Ended, Kept
  <2>2. received \in Seq(Value \cup {Nil}) /\ sent \in Seq(Value \cup {Nil})
    <3>1. received \in Seq(Value \cup {Nil}) /\ sent \in Seq(Value)
      BY <1>1 DEF IInv, TypeOK
    <3>. QED  BY <3>1
  <2>. QED  BY <2>1, <2>2, SeqEqual
<1>2. IInv => EofMeansDrained
  BY <1>1 DEF EofMeansDrained
<1>. QED  BY <1>2, Inductive, PTL

-----------------------------------------------------------------------------
(* The channel implements the queue.                                       *)

(* The queue for a buffer b, and what has been sent and received.          *)
QueueOf(b, s, r) == [i \in 1 .. Len(s) - Len(r) |-> b[(Len(r) + i - 1) % Capacity]]

(* What is in the buffer is what was sent and not received.                *)
LEMMA QueueIsPending ==
  ASSUME NEW b, NEW s \in Seq(Value), NEW r \in Seq(Value \cup {Nil}), Len(r) <= Len(s),
         \A i \in Len(r) + 1 .. Len(s) : b[(i - 1) % Capacity] = s[i]
  PROVE  /\ QueueOf(b, s, r) = [i \in 1 .. Len(s) - Len(r) |-> s[Len(r) + i]]
         /\ QueueOf(b, s, r) \in Seq(Value)
         /\ Len(QueueOf(b, s, r)) = Len(s) - Len(r)
<1>1. Len(s) \in Nat /\ Len(r) \in Nat /\ Len(s) - Len(r) \in Nat
  OBVIOUS
<1>2. ASSUME NEW i \in 1 .. Len(s) - Len(r)
      PROVE  b[(Len(r) + i - 1) % Capacity] = s[Len(r) + i] /\ s[Len(r) + i] \in Value
  <2>1. Len(r) + i \in Len(r) + 1 .. Len(s) /\ Len(r) + i \in 1 .. Len(s)
    BY <1>1
  <2>. QED  BY <2>1
<1>3. QueueOf(b, s, r) = [i \in 1 .. Len(s) - Len(r) |-> s[Len(r) + i]]
  BY <1>2 DEF QueueOf
<1>4. [i \in 1 .. Len(s) - Len(r) |-> s[Len(r) + i]] \in Seq(Value)
  BY <1>1, <1>2
<1>. QED  BY <1>1, <1>3, <1>4

(* So it is in every state.                                                *)
Pending == [i \in 1 .. Len(sent) - Len(received) |-> sent[Len(received) + i]]

QueueIsSound ==
  /\ queue = Pending
  /\ queue \in Seq(Value)
  /\ Len(queue) = Len(sent) - Len(received)

LEMMA QueueHolds == ASSUME IInv PROVE QueueIsSound
<1>1. /\ sent \in Seq(Value) /\ received \in Seq(Value \cup {Nil})
      /\ Len(received) <= Len(sent)
      /\ \A i \in Len(received) + 1 .. Len(sent) : buffer[(i - 1) % Capacity] = sent[i]
  BY DEF IInv, TypeOK, Kept
<1>2. queue = QueueOf(buffer, sent, received)
  BY DEF queue, QueueOf
<1>. QED  BY <1>1, <1>2, QueueIsPending DEF QueueIsSound, Pending

LEMMA QueueHoldsNext == ASSUME IInv' PROVE QueueIsSound'
<1>1. /\ sent' \in Seq(Value) /\ received' \in Seq(Value \cup {Nil})
      /\ Len(received') <= Len(sent')
      /\ \A i \in Len(received') + 1 .. Len(sent') : buffer'[(i - 1) % Capacity] = sent'[i]
  BY DEF IInv, TypeOK, Kept
<1>2. queue' = QueueOf(buffer', sent', received')
  BY DEF queue, QueueOf
<1>. QED  BY <1>1, <1>2, QueueIsPending DEF QueueIsSound, Pending

(* To store is to put a value into the queue ...                           *)
LEMMA StorePuts ==
  ASSUME IInv, IInv', NEW t \in Thread, Woken(t), Store(t)
  PROVE  Put
<1>1. /\ pc[t] = "store" /\ value[t] \in Value /\ sent' = Append(sent, value[t])
      /\ UNCHANGED <<closed, received, eof>>
  BY DEF IInv, TypeOK, ValuesSet, Sending, Store, At, Goto, localVars
<1>2. pc[t] \in Storing
  BY <1>1 DEF Storing
<1>3. Passed = Len(sent) /\ Stored = 0 /\ Loaded = 0 /\ count < Capacity /\ ~eof
  BY <1>1, <1>2, Progress DEF IInv, Storing
<1>4. count = Len(sent) - Len(received)
  BY <1>3, Lengths DEF IInv, Places
<1>5. QueueIsSound /\ QueueIsSound'
  BY QueueHolds, QueueHoldsNext
<1>6. queue' = Append(queue, value[t])
  <2>1. /\ sent \in Seq(Value) /\ sent' \in Seq(Value) /\ Len(sent') = Len(sent) + 1
        /\ sent'[Len(sent) + 1] = value[t]
        /\ \A i \in 1 .. Len(sent) : sent'[i] = sent[i]
    BY <1>1 DEF IInv, TypeOK
  <2>2. /\ Len(received) \in Nat /\ Len(sent) \in Nat /\ Len(received) <= Len(sent)
    BY Lengths DEF IInv, Kept
  <2>3. /\ queue \in Seq(Value) /\ queue' \in Seq(Value)
        /\ Len(queue) = Len(sent) - Len(received) /\ Len(queue') = Len(queue) + 1
    BY <1>1, <1>5, <2>1, <2>2 DEF QueueIsSound
  <2>4. \A i \in 1 .. Len(queue) : queue[i] = sent[Len(received) + i]
    BY <1>5, <2>3 DEF QueueIsSound, Pending
  <2>5. \A i \in 1 .. Len(queue) + 1 : queue'[i] = sent'[Len(received) + i]
    BY <1>1, <1>5, <2>3 DEF QueueIsSound, Pending
  <2>6. ASSUME NEW i \in 1 .. Len(queue) + 1
        PROVE  queue'[i] = Append(queue, value[t])[i]
    <3>1. CASE i = Len(queue) + 1
      <4>1. Len(received) + i = Len(sent) + 1
        BY <2>2, <2>3, <3>1
      <4>2. queue'[i] = value[t]
        BY <2>1, <2>5, <4>1
      <4>. QED  BY <1>1, <2>3, <3>1, <4>2, AppendProperties
    <3>2. CASE i # Len(queue) + 1
      <4>1. i \in 1 .. Len(queue) /\ Len(received) + i \in 1 .. Len(sent)
        BY <2>2, <2>3, <3>2
      <4>2. queue'[i] = queue[i]
        BY <2>1, <2>4, <2>5, <4>1
      <4>. QED  BY <1>1, <2>3, <4>1, <4>2, AppendProperties
    <3>. QED  BY <3>1, <3>2
  <2>7. Append(queue, value[t]) \in Seq(Value) /\ Len(Append(queue, value[t])) = Len(queue) + 1
    BY <1>1, <2>3, AppendProperties
  <2>. QED  BY ONLY <2>3, <2>6, <2>7, SeqEqual
<1>7. Len(queue) < Capacity
  BY <1>3, <1>4, <1>5 DEF QueueIsSound
<1>. QED  BY <1>1, <1>3, <1>6, <1>7 DEF Put

(* ... and to load is to take the first one.                               *)
LEMMA LoadTakes ==
  ASSUME IInv, IInv', NEW t \in Thread, Woken(t), Load(t)
  PROVE  Take
<1>1. /\ pc[t] = "load" /\ received' = Append(received, buffer[head])
      /\ UNCHANGED <<buffer, closed, sent, eof>>
  BY DEF IInv, TypeOK, Load, At, Goto, channelVars, localVars
<1>2. pc[t] \in Loading
  BY <1>1 DEF Loading
<1>3. Freed = Len(received) /\ Stored = 0 /\ Loaded = 0 /\ count > 0
  BY <1>1, <1>2, Progress DEF IInv
<1>4. count = Len(sent) - Len(received) /\ head = Len(received) % Capacity
  BY <1>3, Lengths DEF IInv, Places
<1>5. QueueIsSound /\ QueueIsSound'
  BY QueueHolds, QueueHoldsNext
<1>6. /\ Len(received) \in Nat /\ Len(sent) \in Nat /\ Len(received') = Len(received) + 1
  BY <1>1, Lengths DEF IInv, TypeOK
<1>7. /\ queue \in Seq(Value) /\ queue' \in Seq(Value) /\ queue # <<>>
      /\ Len(queue) = Len(sent) - Len(received) /\ Len(queue') = Len(queue) - 1
  BY <1>1, <1>3, <1>4, <1>5, <1>6 DEF QueueIsSound
<1>8. buffer[head] = Head(queue)
  <2>1. 1 \in 1 .. Len(sent) - Len(received) /\ Len(received) + 1 - 1 = Len(received)
    BY <1>3, <1>4, <1>6
  <2>2. queue[1] = buffer[Len(received) % Capacity]
    BY <2>1 DEF queue
  <2>. QED  BY <1>4, <1>7, <2>2
<1>9. queue' = Tail(queue)
  <2>1. \A i \in 1 .. Len(queue) : queue[i] = sent[Len(received) + i]
    BY <1>5, <1>7 DEF QueueIsSound, Pending
  <2>2. \A i \in 1 .. Len(queue) - 1 : queue'[i] = sent[Len(received) + 1 + i]
    BY <1>1, <1>5, <1>6, <1>7 DEF QueueIsSound, Pending
  <2>3. /\ Tail(queue) \in Seq(Value) /\ Len(Tail(queue)) = Len(queue) - 1
        /\ \A i \in 1 .. Len(queue) - 1 : Tail(queue)[i] = queue[i + 1]
    BY <1>7, HeadTailProperties
  <2>4. ASSUME NEW i \in 1 .. Len(queue) - 1
        PROVE  queue'[i] = Tail(queue)[i]
    <3>1. i + 1 \in 1 .. Len(queue) /\ Len(received) + (i + 1) = Len(received) + 1 + i
      BY <1>6, <1>7
    <3>. QED  BY <2>1, <2>2, <2>3, <3>1
  <2>. QED  BY ONLY <1>7, <2>3, <2>4, SeqEqual
<1>. QED  BY <1>1, <1>7, <1>8, <1>9 DEF Take

(* A recv finds the end when nothing is left.                              *)
LEMMA RecvClosedEnds ==
  ASSUME IInv, IInv', NEW t \in Thread, Woken(t), RecvClosed(t)
  PROVE  End \/ UNCHANGED queueVars
<1>1. UNCHANGED <<buffer, sent, received, closed>> /\ pc[t] = "recv_closed"
  BY DEF RecvClosed, channelVars, localVars, At
<1>2. UNCHANGED queue
  BY <1>1 DEF queue
<1>3. CASE eof' = TRUE /\ Empty /\ closed
  <2>1. ~Someone(Storing) /\ ~Someone(Loading)
    BY <1>1, Alone DEF IInv, Someone, Inside, Locked, Storing, Loading
  <2>2. Stored = 0 /\ Loaded = 0
    BY <2>1 DEF Stored, Loaded, Someone, Storing, Loading
  <2>3. Len(sent) - Len(received) = 0
    BY <1>3, <2>2, Lengths DEF IInv, Places, Empty
  <2>4. queue = <<>>
    BY <2>3, QueueHolds DEF QueueIsSound
  <2>. QED  BY <1>1, <1>2, <1>3, <2>4 DEF End
<1>4. CASE UNCHANGED eof
  BY <1>1, <1>2, <1>4 DEF queueVars
<1>. QED  BY <1>3, <1>4 DEF RecvClosed

(* Every other step but close leaves the queue as it is.                   *)
LEMMA StepQueue ==
  ASSUME IInv, IInv', NEW t \in Thread, Call(t) \/ Continue(t) \/ SpuriousWakeup(t)
  PROVE  [QueueNext]_queueVars
<1>1. Woken(t)
  BY StepMoves DEF IInv
<1>2. ASSUME UNCHANGED <<buffer, closed, sent, received, eof>>
      PROVE  UNCHANGED queueVars
  BY <1>2 DEF queueVars, queue
<1>3. CASE Store(t)
  BY <1>1, <1>3, StorePuts DEF QueueNext
<1>4. CASE Load(t)
  BY <1>1, <1>4, LoadTakes DEF QueueNext
<1>5. CASE RecvClosed(t)
  BY <1>1, <1>5, RecvClosedEnds DEF QueueNext
<1>6. CASE Close(t)
  <2>1. closed' = TRUE /\ UNCHANGED <<buffer, sent, received, eof>>
    BY <1>6 DEF Close, historyVars
  <2>2. UNCHANGED queue
    BY <2>1 DEF queue
  <2>. QED  BY <2>1, <2>2 DEF QueueNext, Shut
<1>7. CASE Send(t) \/ TrySend(t) \/ Recv(t) \/ TryRecv(t)
  BY <1>2, <1>7 DEF Send, TrySend, Recv, TryRecv, channelVars, historyVars
<1>8. CASE SendLock(t) \/ SendTest(t) \/ SendWait(t) \/ SendClosed(t)
  BY <1>2, <1>8 DEF SendLock, SendTest, SendWait, SendClosed, channelVars, historyVars
<1>9. CASE RecvLock(t) \/ RecvTest(t) \/ RecvWait(t)
  BY <1>2, <1>9 DEF RecvLock, RecvTest, RecvWait, channelVars, historyVars
<1>10. CASE BumpTail(t) \/ BumpHead(t) \/ ReadCount(t)
  BY <1>2, <1>10 DEF BumpTail, BumpHead, ReadCount, channelVars, historyVars
<1>11. CASE CountUp(t) \/ CountDown(t)
  BY <1>2, <1>11 DEF CountUp, CountDown, historyVars
<1>12. CASE WakeReceivers(t) \/ WakeSenders(t) \/ SpuriousWakeup(t)
  BY <1>2, <1>12 DEF WakeReceivers, WakeSenders, SpuriousWakeup, channelVars, historyVars
<1>. QED  BY <1>3, <1>4, <1>5, <1>6, <1>7, <1>8, <1>9, <1>10, <1>11, <1>12
          DEF Call, Continue

(* The channel is a bounded queue that can be closed, in every step of     *)
(* every thread (task_module.c:160-318): a store puts one value at its     *)
(* end, a load takes the first, and a recv finds its end when it is closed *)
(* and empty, after which nothing is put.                                  *)
THEOREM ChannelImplementsQueue ==
  ASSUME Disciplined
  PROVE  Spec => ImplementsQueue
<1>1. Init => QueueInit
  <2>. SUFFICES ASSUME Init PROVE QueueInit
    OBVIOUS
  <2>1. sent = <<>> /\ received = <<>> /\ closed = FALSE /\ eof = FALSE
    BY DEF Init
  <2>2. Len(queue) = 0 /\ queue \in Seq(Value)
    BY <2>1, InitIInv, QueueHolds DEF QueueIsSound
  <2>. QED  BY <2>1, <2>2 DEF QueueInit
<1>2. IInv /\ IInv' /\ [Next]_vars => [QueueNext]_queueVars
  <2>. SUFFICES ASSUME IInv, IInv', [Next]_vars PROVE [QueueNext]_queueVars
    OBVIOUS
  <2>1. CASE Next
    BY <2>1, StepQueue DEF Next
  <2>2. CASE UNCHANGED vars
    BY <2>2 DEF vars, channelVars, historyVars, queueVars, queue
  <2>. QED  BY <2>1, <2>2
<1>. QED  BY <1>1, <1>2, Inductive, PTL DEF Spec, ImplementsQueue

-----------------------------------------------------------------------------
(* The tasks and mutexes of the same file (Tasks.tla), which the same      *)
(* threads share.                                                          *)

CONSTANT MaxTasks
VARIABLES holder, locked, task_pc, tasks, next_id, task_seen

Task == INSTANCE Tasks WITH Threads <- Thread, pc <- task_pc, seen <- task_seen

(* Who has passed its lock holds the mutex, and the flag is up from the    *)
(* second step of a lock to the first one of the unlock.                   *)
MutexSound ==
  /\ holder \in Thread \cup {Nobody} /\ locked \in BOOLEAN
  /\ task_pc \in [Thread -> {"idle", "locking", "inside", "unlocking"}]
  /\ \A t \in Thread : task_pc[t] # "idle" <=> holder = t
  /\ locked <=> \E t \in Thread : task_pc[t] = "inside"

(* An id was read from the counter, which counts no more than the tasks.   *)
TasksSound ==
  /\ tasks \in Seq([id : Nat, state : Task!TaskStates]) /\ Len(tasks) <= MaxTasks
  /\ next_id \in 1 .. Len(tasks) + 1
  /\ task_seen \in [Thread -> 0 .. Len(tasks) + 1]

TaskInv == MutexSound /\ TasksSound

(* A step of a lock or an unlock is one of the thread that holds the mutex *)
(* or takes it.                                                            *)
LEMMA MutexKeeps ==
  ASSUME MutexSound, NEW t \in Thread, Task!task_lock(t) \/ Task!task_unlock(t)
  PROVE  MutexSound'
<1>1. /\ holder \in Thread \cup {Nobody} /\ locked \in BOOLEAN
      /\ task_pc \in [Thread -> {"idle", "locking", "inside", "unlocking"}]
      /\ \A u \in Thread : task_pc[u] # "idle" <=> holder = u
      /\ locked <=> \E u \in Thread : task_pc[u] = "inside"
  BY DEF MutexSound
<1>2. CASE Task!Acquire(t)
  <2>1. /\ task_pc[t] = "idle" /\ task_pc' = [task_pc EXCEPT ![t] = "locking"]
        /\ holder = Nobody /\ holder' = t /\ locked' = locked
    BY <1>2 DEF Task!Acquire, Task!Goes
  <2>2. \A u \in Thread : task_pc[u] = "idle"
    BY <1>1, <2>1, NobodyAssumption
  <2>. QED  BY <1>1, <2>1, <2>2 DEF MutexSound
<1>3. CASE Task!SetLocked(t)
  <2>1. /\ task_pc[t] = "locking" /\ task_pc' = [task_pc EXCEPT ![t] = "inside"]
        /\ holder' = holder /\ locked' = TRUE
    BY <1>3 DEF Task!SetLocked, Task!Goes
  <2>2. task_pc'[t] = "inside"
    BY <1>1, <2>1
  <2>. QED  BY <1>1, <2>1, <2>2 DEF MutexSound
<1>4. CASE Task!ClearLocked(t)
  <2>1. /\ task_pc[t] = "inside" /\ task_pc' = [task_pc EXCEPT ![t] = "unlocking"]
        /\ holder' = holder /\ locked' = FALSE
    BY <1>4 DEF Task!ClearLocked, Task!Goes
  <2>2. \A u \in Thread : u # t => task_pc[u] = "idle"
    BY <1>1, <2>1
  <2>3. \A u \in Thread : task_pc'[u] # "inside"
    BY <1>1, <2>1, <2>2
  <2>. QED  BY <1>1, <2>1, <2>3 DEF MutexSound
<1>5. CASE Task!ReleaseMutex(t)
  <2>1. /\ task_pc[t] = "unlocking" /\ task_pc' = [task_pc EXCEPT ![t] = "idle"]
        /\ holder' = Nobody /\ locked' = locked
    BY <1>5 DEF Task!ReleaseMutex, Task!Goes
  <2>2. \A u \in Thread : u # t => task_pc[u] = "idle"
    BY <1>1, <2>1
  <2>3. \A u \in Thread : task_pc'[u] = "idle" /\ task_pc[u] # "inside" /\ Nobody # u
    BY <1>1, <2>1, <2>2, NobodyAssumption
  <2>. QED  BY <1>1, <2>1, <2>3 DEF MutexSound
<1>. QED  BY <1>2, <1>3, <1>4, <1>5 DEF Task!task_lock, Task!task_unlock

(* Tasks are only added, done at once, or cancelled before they are done.  *)
LEMMA TasksKeep ==
  ASSUME MaxTasks \in Nat, TasksSound, NEW t \in Thread, Task!task_spawn(t) \/ Task!task_cancel(t)
  PROVE  TasksSound' /\ Task!TasksStayDone
<1> DEFINE Shape == [id : Nat, state : Task!TaskStates]   n == Len(tasks)
<1>1. /\ tasks \in Seq(Shape) /\ n <= MaxTasks
      /\ next_id \in 1 .. n + 1
      /\ task_seen \in [Thread -> 0 .. n + 1]
  BY DEF TasksSound
<1>2. n \in Nat /\ DOMAIN tasks = 1 .. n /\ \A k \in 1 .. n : tasks[k] \in Shape
  BY <1>1, LenProperties, ElementOfSeq
<1>3. CASE Task!ReadId(t)
  <2>1. task_seen' = [task_seen EXCEPT ![t] = next_id] /\ UNCHANGED <<tasks, next_id>>
    BY <1>3 DEF Task!ReadId
  <2>2. task_seen' \in [Thread -> 0 .. n + 1]
    BY <1>1, <1>2, <2>1
  <2>. QED  BY <1>1, <2>1, <2>2 DEF TasksSound, Task!TasksStayDone
<1>4. CASE Task!WriteId(t)
  <2> DEFINE task == [id |-> task_seen[t], state |-> "done"]
  <2>1. /\ task_seen[t] # 0 /\ n < MaxTasks
        /\ next_id' = task_seen[t] + 1
        /\ tasks' = Append(tasks, task)
        /\ task_seen' = [task_seen EXCEPT ![t] = 0]
    BY <1>4 DEF Task!WriteId
  <2>2. task_seen[t] \in 0 .. n + 1
    BY <1>1
  <2>3. task \in Shape
    BY <1>2, <2>2 DEF Task!TaskStates
  <2> HIDE DEF task, Shape
  <2>4. /\ tasks' \in Seq(Shape) /\ Len(tasks') = n + 1
        /\ \A k \in 1 .. n : tasks'[k] = tasks[k]
    BY <1>1, <1>2, <2>1, <2>3, AppendProperties
  <2>5. n + 1 <= MaxTasks
    BY <1>2, <2>1
  <2>6. next_id' \in 1 .. n + 2 /\ task_seen' \in [Thread -> 0 .. n + 2]
    BY <1>1, <1>2, <2>1, <2>2
  <2>7. TasksSound'
    BY <1>2, <2>4, <2>5, <2>6 DEF TasksSound, Shape
  <2>. QED  BY <1>2, <2>4, <2>7 DEF Task!TasksStayDone
<1>5. CASE Task!task_cancel(t)
  <2> DEFINE Cancelled(k) == IF tasks[k].state \in Task!Cancellable
                             THEN [tasks[k] EXCEPT !.state = "cancelled"] ELSE tasks[k]
  <2>1. /\ tasks' = [k \in DOMAIN tasks |-> Cancelled(k)]
        /\ UNCHANGED <<next_id, task_seen>>
    BY <1>5 DEF Task!task_cancel
  <2>2. \A k \in 1 .. n : Cancelled(k) \in Shape
    BY <1>2 DEF Task!TaskStates
  <2>3. \A k \in 1 .. n : tasks[k].state \in Task!Final => Cancelled(k) = tasks[k]
    BY DEF Task!Final, Task!Cancellable
  <2> HIDE DEF Cancelled, Shape
  <2>4. tasks' \in [1 .. n -> Shape]
    BY <1>2, <2>1, <2>2
  <2>5. tasks' \in Seq(Shape)
    BY <1>2, <2>4, SeqDef
  <2>6. Len(tasks') = n
    BY <1>2, <2>4, <2>5, LenProperties
  <2>7. TasksSound'
    BY <1>1, <2>1, <2>5, <2>6 DEF TasksSound, Shape
  <2>8. \A k \in DOMAIN tasks : tasks[k].state \in Task!Final => tasks'[k] = tasks[k]
    BY <1>2, <2>1, <2>3
  <2>. QED  BY <2>7, <2>8 DEF Task!TasksStayDone, Task!task_is_done
<1>. QED  BY <1>3, <1>4, <1>5 DEF Task!task_spawn

LEMMA TaskStepKeeps ==
  ASSUME MaxTasks \in Nat, TaskInv, [Task!Next]_(Task!taskVars)
  PROVE  TaskInv' /\ Task!TasksStayDone
<1>3. CASE UNCHANGED Task!taskVars
  <2>1. UNCHANGED <<holder, locked, task_pc>> /\ UNCHANGED <<tasks, next_id, task_seen>>
    BY <1>3 DEF Task!taskVars
  <2>2. MutexSound' /\ TasksSound' /\ Task!TasksStayDone
    BY <2>1 DEF MutexSound, TasksSound, TaskInv, Task!TasksStayDone
  <2>. QED  BY <2>2 DEF TaskInv
<1>4. ASSUME NEW t \in Thread, Task!task_lock(t) \/ Task!task_unlock(t)
      PROVE  TaskInv' /\ Task!TasksStayDone
  <2>1. MutexSound'
    BY <1>4, MutexKeeps DEF TaskInv
  <2>2. UNCHANGED <<tasks, next_id, task_seen>>
    BY <1>4 DEF Task!task_lock, Task!task_unlock, Task!Acquire, Task!SetLocked,
         Task!ClearLocked, Task!ReleaseMutex
  <2>3. TasksSound' /\ Task!TasksStayDone
    BY <2>2 DEF TasksSound, TaskInv, Task!TasksStayDone
  <2>. QED  BY <2>1, <2>3 DEF TaskInv
<1>5. ASSUME NEW t \in Thread, Task!task_spawn(t) \/ Task!task_cancel(t)
      PROVE  TaskInv' /\ Task!TasksStayDone
  <2>1. TasksSound' /\ Task!TasksStayDone
    BY <1>5, TasksKeep DEF TaskInv
  <2>2. UNCHANGED <<holder, locked, task_pc>>
    BY <1>5 DEF Task!task_spawn, Task!task_cancel, Task!ReadId, Task!WriteId
  <2>3. MutexSound'
    BY <2>2 DEF MutexSound, TaskInv
  <2>. QED  BY <2>1, <2>3 DEF TaskInv
<1>. QED  BY <1>3, <1>4, <1>5 DEF Task!Next

LEMMA TaskInitInv ==
  ASSUME MaxTasks \in Nat, Task!Init
  PROVE  TaskInv
<1>1. /\ holder = Nobody /\ locked = FALSE /\ task_pc = [t \in Thread |-> "idle"]
      /\ tasks = << >> /\ next_id = 1 /\ task_seen = [t \in Thread |-> 0]
  BY DEF Task!Init
<1>2. MutexSound
  BY <1>1, NobodyAssumption DEF MutexSound
<1>3. tasks \in Seq([id : Nat, state : Task!TaskStates]) /\ Len(tasks) = 0
  BY <1>1
<1>4. TasksSound
  BY <1>1, <1>3 DEF TasksSound
<1>. QED  BY <1>2, <1>4 DEF TaskInv

THEOREM TaskInductive == MaxTasks \in Nat => (Task!Spec => []TaskInv)
<1>. SUFFICES ASSUME MaxTasks \in Nat PROVE Task!Spec => []TaskInv
  OBVIOUS
<1>1. Task!Init => TaskInv
  BY TaskInitInv
<1>2. TaskInv /\ [Task!Next]_(Task!taskVars) => TaskInv'
  BY TaskStepKeeps
<1>. QED  BY <1>1, <1>2, PTL DEF Task!Spec

(* The flag of a mutex is up while a thread is between its lock and its    *)
(* unlock, and down when nobody has it (task_module.c:344-398).            *)
THEOREM FlagIsTheHolders == MaxTasks \in Nat => (Task!Spec => []Task!FlagTellsHolder)
<1>. SUFFICES ASSUME MaxTasks \in Nat PROVE Task!Spec => []Task!FlagTellsHolder
  OBVIOUS
<1>1. TaskInv => Task!FlagTellsHolder
  <2>. SUFFICES ASSUME MutexSound PROVE Task!FlagTellsHolder
    BY DEF TaskInv
  <2>1. /\ \A t \in Thread : task_pc[t] # "idle" <=> holder = t
        /\ locked <=> \E t \in Thread : task_pc[t] = "inside"
    BY DEF MutexSound
  <2>2. \A t \in Thread : task_pc[t] = "inside" => holder = t /\ locked
    BY <2>1
  <2>3. holder = Nobody => ~locked
    BY <2>1, <2>2, NobodyAssumption
  <2>. QED  BY <2>2, <2>3 DEF Task!FlagTellsHolder
<1>. QED  BY <1>1, TaskInductive, PTL

(* A task that was reported done stays what it was: to cancel it comes too *)
(* late (task_module.c:88-119).                                            *)
THEOREM DoneIsDone ==
  MaxTasks \in Nat => (Task!Spec => [][Task!TasksStayDone]_(Task!taskVars))
<1>. SUFFICES ASSUME MaxTasks \in Nat
              PROVE  Task!Spec => [][Task!TasksStayDone]_(Task!taskVars)
  OBVIOUS
<1>1. TaskInv /\ [Task!Next]_(Task!taskVars) => [Task!TasksStayDone]_(Task!taskVars)
  BY TaskStepKeeps
<1>. QED  BY <1>1, TaskInductive, PTL DEF Task!Spec

=============================================================================
