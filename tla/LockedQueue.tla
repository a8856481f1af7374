---------------------------- MODULE LockedQueue ----------------------------
(***************************************************************************)
(* The queues of "Designing lock-based concurrent data structures/exp1.cpp".*)
(* scheme keeps its first value:                                           *)
(*   coarse   one mutex and a condition variable (and the same class in    *)
(*            "Synchronizing concurrent operations/exp2.cpp")              *)
(*   fine     a dummy node, a mutex for the head and one for the tail      *)
(*   waiting  fine, with a condition variable                              *)
(* Node i is the i-th to be made; those from head to tail are chained.     *)
(* What is done under a mutex that all who could see it take is one step.  *)
(***************************************************************************)
EXTENDS Naturals, Sequences, FiniteSets

CONSTANTS Threads, NoThread,
          MaxCalls      \* bound on the calls

QueueAssumption == IsFiniteSet(Threads) /\ NoThread \notin Threads /\ MaxCalls \in Nat

VARIABLES scheme,
          data,         \* the data of the nodes before the dummy, the deleted ones too (history)
          head, tail,
          head_mutex, tail_mutex,    \* the only mutex of coarse is head_mutex
          waiting,      \* the threads blocked in data_cond
          pc, wants,    \* where each thread is; whether it pops with "try" or "wait"
          got, calls

vars == <<scheme, data, head, tail, head_mutex, tail_mutex, waiting, pc, wants, got, calls>>
queue == <<data, head, tail>>
call == <<scheme, wants, calls>>

Init == /\ scheme \in {"coarse", "fine", "waiting"}
        /\ data = << >> /\ head = 1 /\ tail = 1
        /\ head_mutex = NoThread /\ tail_mutex = NoThread /\ waiting = {}
        /\ pc = [t \in Threads |-> "idle"] /\ wants = [t \in Threads |-> "try"]
        /\ got = [t \in Threads |-> 0] /\ calls = 0

Goto(t, p) == pc' = [pc EXCEPT ![t] = p]

\* notify_one wakes a waiter if there is one, and that one takes the mutex again.
OnlyFirst(t, next) ==    \* mutant
  IF waiting = {} \/ tail # head THEN UNCHANGED waiting /\ Goto(t, next)
  ELSE \E w \in waiting : waiting' = waiting \ {w} /\ pc' = [pc EXCEPT ![t] = next, ![w] = "lock"]
NotifyOne(t, next) ==
  IF waiting = {} THEN UNCHANGED waiting /\ Goto(t, next)
  ELSE \E w \in waiting : waiting' = waiting \ {w} /\ pc' = [pc EXCEPT ![t] = next, ![w] = "lock"]
-----------------------------------------------------------------------------
(* push *)

PushCoarse(t) ==
  /\ scheme = "coarse" /\ pc[t] = "idle" /\ calls < MaxCalls /\ head_mutex = NoThread
  /\ calls' = calls + 1
  /\ data' = Append(data, Len(data) + 1) /\ tail' = tail + 1
  /\ NotifyOne(t, "idle")
  /\ UNCHANGED <<scheme, wants, head, head_mutex, tail_mutex, got>>

PushLock(t) ==
  /\ scheme # "coarse" /\ pc[t] = "idle" /\ calls < MaxCalls /\ tail_mutex = NoThread
  /\ calls' = calls + 1
  /\ tail_mutex' = t
  /\ Goto(t, "data")
  /\ UNCHANGED <<scheme, wants, queue, head_mutex, waiting, got>>

\* tail->data
SetData(t) == /\ pc[t] = "data"
              /\ data' = Append(data, Len(data) + 1)
              /\ Goto(t, "advance")
              /\ UNCHANGED <<call, head, tail, head_mutex, tail_mutex, waiting, got>>

\* tail->next and tail, the new dummy
Advance(t) == /\ pc[t] = "advance"
              /\ tail' = tail + 1 /\ tail_mutex' = NoThread
              /\ Goto(t, IF scheme = "waiting" THEN "notify" ELSE "idle")
              /\ UNCHANGED <<call, data, head, head_mutex, waiting, got>>

Notify(t) == /\ pc[t] = "notify"
             /\ NotifyOne(t, "idle")
             /\ UNCHANGED <<call, queue, head_mutex, tail_mutex, got>>
-----------------------------------------------------------------------------
(* try_pop and wait_and_pop *)

Pop(t) == /\ pc[t] = "idle" /\ calls < MaxCalls
          /\ calls' = calls + 1
          /\ \E w \in {"try", "wait"} : /\ w = "wait" => scheme # "fine"
                                        /\ wants' = [wants EXCEPT ![t] = w]
          /\ Goto(t, "lock")
          /\ UNCHANGED <<scheme, queue, head_mutex, tail_mutex, waiting, got>>

HeadFree(t) == pc[t] = "lock" /\ head_mutex = NoThread
LockHead(t) == /\ HeadFree(t)
               /\ head_mutex' = t
               /\ Goto(t, "test")
               /\ UNCHANGED <<call, queue, tail_mutex, waiting, got>>

\* head against get_tail(), which waits for the tail mutex
Test(t) ==
  /\ pc[t] = "test" /\ tail_mutex = NoThread
  /\ IF head # tail THEN Goto(t, "take") /\ UNCHANGED <<head_mutex, got>>
     ELSE IF wants[t] = "wait" THEN Goto(t, "sleep") /\ UNCHANGED <<head_mutex, got>>
     ELSE /\ head_mutex' = NoThread /\ got' = [got EXCEPT ![t] = 0]
          /\ Goto(t, "idle")
  /\ UNCHANGED <<call, queue, tail_mutex, waiting>>

\* data_cond.wait gives the mutex back as it starts to wait.
Sleep(t) == /\ pc[t] = "sleep"
            /\ waiting' = waiting \cup {t} /\ head_mutex' = NoThread
            /\ Goto(t, "asleep")
            /\ UNCHANGED <<call, queue, tail_mutex, got>>

\* A condition variable may also wake for no reason.
Spurious(t) == /\ t \in waiting
               /\ waiting' = waiting \ {t}
               /\ Goto(t, "lock")
               /\ UNCHANGED <<call, queue, head_mutex, tail_mutex, got>>

\* pop_head and the unlock; the dummy's data is a null pointer.
DataOf(n) == IF n \in DOMAIN data THEN data[n] ELSE 0
Take(t) == /\ pc[t] = "take"
           /\ got' = [got EXCEPT ![t] = DataOf(head)]
           /\ head' = head + 1 /\ head_mutex' = NoThread
           /\ Goto(t, "idle")
           /\ UNCHANGED <<call, data, tail, tail_mutex, waiting>>
-----------------------------------------------------------------------------
Step(t) == \/ SetData(t) \/ Advance(t) \/ Notify(t)
           \/ LockHead(t) \/ Test(t) \/ Sleep(t) \/ Take(t)

Next == \E t \in Threads : PushCoarse(t) \/ PushLock(t) \/ Pop(t) \/ Step(t) \/ Spurious(t)

Spec == Init /\ [][Next]_vars
-----------------------------------------------------------------------------
Queue == INSTANCE Fifo WITH Items <- 1 .. MaxCalls, Nothing <- 0,
                            contents <- SubSeq(data, head, tail - 1)

(* The queues are queues, though a pop and a push of fine and waiting go on  *)
(* at once: the two meet at the dummy node only.                             *)
FifoSpec == Queue!Spec

(* In coarse threads wait only while each item has a thread that is awake    *)
(* and going to take one: no wakeup is lost.  In waiting it may be: push     *)
(* notifies without the head mutex, maybe between a waiter's test and its    *)
(* sleep (exp1.cpp 385 and 407).                                             *)
Awake == {t \in Threads : pc[t] \in {"lock", "test", "take"}}
NoSleepOnItems ==
  scheme = "coarse" /\ waiting # {} => tail - head =< Cardinality(Awake)
=============================================================================
