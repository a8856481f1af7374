---------------------------- MODULE BufferQueue ----------------------------
(***************************************************************************)
(* BufferQueue<T> of log/log_queue.h: a ring of capacity_ slots, every     *)
(* method under mutex_, with blocking and timed pops.  A method that does  *)
(* not wait is one action.  A pop that finds the ring empty gives mutex_   *)
(* up inside cond_.wait / wait_for, so it is split there: the thread joins *)
(* the wait set, is taken out of it by a notify_all, by the timeout or for *)
(* no reason at all, and goes on once it holds mutex_ again.               *)
(***************************************************************************)
EXTENDS Integers, Sequences, FiniteSets

CONSTANTS Threads,    \* the threads that call the queue
          Items,      \* the values of T they queue
          capacity_,
          PushReply,  \* what push may return after storing: it has no return
                      \* statement there, so a build can produce either value
          Garbage,    \* the contents of a slot that was never written
          Nothing,    \* no value was handed back
          MaxCnt      \* bound on wcnt_ (the code's counters are unbounded)

ASSUME QueueAssumption ==
  /\ capacity_ \in Nat \ {0}
  /\ MaxCnt \in Nat
  /\ PushReply \subseteq BOOLEAN /\ PushReply # {}
  /\ Garbage \notin Items
  /\ Nothing \notin Items

VARIABLES array_, first_, last_, size_,
          rcnt_, wcnt_,  \* debug_ is on: what was popped and pushed
          at,            \* where each thread is in its call
          reply          \* what the last completed call handed back

ring == <<array_, first_, last_, size_>>
counters == <<rcnt_, wcnt_>>
vars == <<ring, counters, at, reply>>

Slots == 0 .. capacity_ - 1

Places == {"idle",      \* not in a call that waits
           "wait",      \* in cond_.wait
           "wait_for",  \* in cond_.wait_for
           "woken",     \* taken out of either wait, has not got mutex_ yet
           "expired"}   \* wait_for timed out, has not got mutex_ yet

Reply(op, ok, val) == [op |-> op, ok |-> ok, val |-> val]

Init == /\ array_ = [s \in Slots |-> Garbage]
        /\ first_ = -1 /\ last_ = -1 /\ size_ = 0
        /\ rcnt_ = 0 /\ wcnt_ = 0
        /\ at = [t \in Threads |-> "idle"]
        /\ reply = Reply("none", FALSE, Nothing)

IsFull == size_ >= capacity_

Waiting == {t \in Threads : at[t] \in {"wait", "wait_for"}}

NotifyOne == IF Waiting = {} THEN UNCHANGED at    \* mutant
             ELSE \E t \in Waiting : at' = [at EXCEPT ![t] = "woken"]

\* cond_.notify_all()
NotifyAll == at' = [t \in Threads |-> IF t \in Waiting THEN "woken" ELSE at[t]]

Stored(t, v) == /\ at[t] = "idle"
                /\ ~IsFull
                /\ wcnt_ < MaxCnt
                /\ last_' = (last_ + 1) % capacity_
                /\ size_' = size_ + 1
                /\ wcnt_' = wcnt_ + 1
                /\ NotifyAll
                /\ \E ok \in PushReply : reply' = Reply("push", ok, v)
                /\ UNCHANGED <<first_, rcnt_>>

Push(t, v) == Stored(t, v) /\ array_' = [array_ EXCEPT ![last_'] = v]

PushOverNewest(t, v) == /\ at[t] = "idle"    \* mutant
                        /\ IsFull
                        /\ NotifyAll
                        /\ array_' = [array_ EXCEPT ![last_] = v]
                        /\ reply' = Reply("push", FALSE, v)
                        /\ UNCHANGED <<first_, last_, size_, counters>>
PushFull(t, v) == /\ at[t] = "idle"
                  /\ IsFull
                  /\ NotifyAll
                  /\ reply' = Reply("push", FALSE, v)
                  /\ UNCHANGED <<ring, counters>>

\* notify() does not take mutex_.
Notify(t) == /\ at[t] = "idle"
             /\ NotifyAll
             /\ UNCHANGED <<ring, counters, reply>>

Emptied(t) == /\ at[t] = "idle"
              /\ first_' = -1 /\ size_' = 0
              /\ UNCHANGED <<array_, at, reply>>

ClearKeepsLast(t) == Emptied(t) /\ rcnt_' = 0 /\ wcnt_' = 0 /\ UNCHANGED last_    \* mutant
Clear(t) == Emptied(t) /\ last_' = -1 /\ rcnt_' = 0 /\ wcnt_' = 0

\* front() indexes first_ + 1 without wrapping: one past the array when
\* first_ is the last slot.
Front(t) == /\ at[t] = "idle"
            /\ \/ /\ size_ = 0
                  /\ reply' = Reply("front", FALSE, Nothing)
               \/ /\ size_ # 0
                  /\ reply' = Reply("front", TRUE,
                                    IF first_ + 1 \in Slots THEN array_[first_ + 1]
                                                            ELSE Garbage)
            /\ UNCHANGED <<ring, counters, at>>

Back(t) == /\ at[t] = "idle"
           /\ \/ /\ size_ = 0
                 /\ reply' = Reply("back", FALSE, Nothing)
              \/ /\ size_ # 0
                 /\ reply' = Reply("back", TRUE, array_[last_])
           /\ UNCHANGED <<ring, counters, at>>

\* The tail both pops share: take the oldest item and return true.
TakeOldest == /\ size_ > 0
              /\ first_' = (first_ + 1) % capacity_
              /\ size_' = size_ - 1
              /\ rcnt_' = rcnt_ + 1
              /\ reply' = Reply("pop", TRUE, array_[first_'])
              /\ UNCHANGED <<array_, last_, wcnt_>>

ReturnFalse == /\ reply' = Reply("pop", FALSE, Nothing)
               /\ UNCHANGED <<ring, counters>>

Pop(t) == at[t] = "idle" /\ TakeOldest /\ UNCHANGED at

PopBlocks(t) == /\ at[t] = "idle"
                /\ size_ <= 0
                /\ \E w \in {"wait", "wait_for"} : at' = [at EXCEPT ![t] = w]
                /\ UNCHANGED <<ring, counters, reply>>

\* A spurious wakeup, which the standard allows for both waits.
SpuriousWake(t) == /\ at[t] \in {"wait", "wait_for"}
                   /\ at' = [at EXCEPT ![t] = "woken"]
                   /\ UNCHANGED <<ring, counters, reply>>

Expire(t) == /\ at[t] = "wait_for"
             /\ at' = [at EXCEPT ![t] = "expired"]
             /\ UNCHANGED <<ring, counters, reply>>

\* A woken pop looks at size_ once more, and does not wait again.
PopResumes(t) == /\ at[t] = "woken"
                 /\ at' = [at EXCEPT ![t] = "idle"]
                 /\ TakeOldest \/ (size_ <= 0 /\ ReturnFalse)

\* A timed-out pop returns false without looking at size_.
PopTimesOut(t) == /\ at[t] = "expired"
                  /\ at' = [at EXCEPT ![t] = "idle"]
                  /\ ReturnFalse

Return(t) == PopResumes(t) \/ PopTimesOut(t)

Call(t) == \/ \E v \in Items : Push(t, v) \/ PushFull(t, v)
           \/ Notify(t) \/ Clear(t) \/ Front(t) \/ Back(t)
           \/ Pop(t) \/ PopBlocks(t)

Next == \E t \in Threads : Call(t) \/ SpuriousWake(t) \/ Expire(t) \/ Return(t)

Spec == Init /\ [][Next]_vars

-----------------------------------------------------------------------------
TypeOK == /\ array_ \in [Slots -> Items \cup {Garbage}]
          /\ first_ \in -1 .. capacity_ - 1
          /\ last_ \in -1 .. capacity_ - 1
          /\ size_ \in 0 .. capacity_
          /\ rcnt_ \in Nat /\ wcnt_ \in Nat
          /\ at \in [Threads -> Places]
          /\ reply \in [op : {"none", "push", "pop", "front", "back"}, ok : BOOLEAN,
                        val : Items \cup {Garbage, Nothing}]

\* The slot of the i-th oldest item.
SlotOf(i) == (first_ + i) % capacity_

\* The queue the ring stands for, oldest item first.
Contents == [i \in 1 .. size_ |-> array_[SlotOf(i)]]

(* first_, last_ and size_ describe the same stretch of the ring: last_ is  *)
(* size_ slots past first_, going round (log_queue.h 86-88 and 101-103).    *)
RingConsistent ==
  /\ TypeOK
  /\ last_ = IF first_ + size_ < capacity_ THEN first_ + size_ ELSE first_ + size_ - capacity_

(* No live slot is one that was never written, so a pop never hands out     *)
(* the initial contents of new T[capacity_].                                *)
NoGarbage == \A i \in 1 .. size_ : array_[SlotOf(i)] \in Items

(* No pop sleeps on a queue that has an item: the check of size_ and the    *)
(* wait are under mutex_, and every push notifies (log_queue.h 90, 97-98).  *)
NoSleepOnItems == Waiting # {} => size_ = 0

(* The debug counters test_q.cpp asserts on: what was pushed and not popped *)
(* is what is in the ring (test_q.cpp 121-123).                             *)
CountersAgree == wcnt_ - rcnt_ = size_

\* Together they are inductive.
IInv == TypeOK /\ RingConsistent /\ NoGarbage /\ NoSleepOnItems /\ CountersAgree

(* The ring implements the bounded first-in first-out queue: a pop returns  *)
(* the oldest item pushed since the last clear, whatever wakes it, and a    *)
(* push that returns false on a full ring changes nothing.                  *)
Fifo == INSTANCE BoundedFifo WITH q <- Contents, Capacity <- capacity_
FifoSpec == Fifo!Spec
=============================================================================
