---------------------------- MODULE StealingPool ----------------------------
(***************************************************************************)
(* The thread pools of "Advanced thread management" (thread_pool.cpp, the  *)
(* fifth also after exp1.cpp, whose run_pending_task calls functions that  *)
(* exist).  version keeps its first value:                                 *)
(*   1  tasks without a result        2  with futures, which one waits for *)
(*   3  run_pending_task for who waits     4  a local queue per worker     *)
(*   5  local queues of which others steal                                 *)
(* A task submits the tasks of Kids, in their order, and then waits for    *)
(* each, as the sorter of exp1.cpp does with the lower part of its list.   *)
(* Main is the thread that made the pool.  A queue's mutex is held for one *)
(* step.                                                                   *)
(***************************************************************************)
EXTENDS Integers, Sequences, FiniteSets, Functions

CONSTANTS N,            \* the workers are 1 .. N
          Versions,
          Kids,         \* the sequence of tasks each task submits
          Roots         \* the sequence of those Main submits

Main == 0
Workers == 1 .. N
Threads == Main .. N
Tasks == DOMAIN Kids

\* What a call submits; a task is made where it is submitted, in one place.
Submits(x) == IF x = 0 THEN Roots ELSE Kids[x]
PoolAssumption == /\ N \in Nat \ {0} /\ Kids \in Seq(Seq(Nat)) /\ Roots \in Seq(Nat)
                  /\ \A x \in {0} \cup Tasks : Submits(x) \in Seq(Tasks)
                  /\ \A x, y \in {0} \cup Tasks : \A i \in DOMAIN Submits(x), j \in DOMAIN Submits(y) :
                       Submits(x)[i] = Submits(y)[j] => x = y /\ i = j

VARIABLES version,
          done,
          pool_work_queue,
          local_work_queue,     \* each worker's; the oldest first in 4, the newest in 5
          stack,        \* the calls a thread is in: tasks with what they have yet to do
          look,         \* where run_pending_task looks: -1 nowhere, 0 local, 1 pool, 2 .. N + 1 others
          ready,        \* the tasks that have run
          exited        \* the threads that have left the pool

vars == <<version, done, pool_work_queue, local_work_queue, stack, look, ready, exited>>
queues == <<pool_work_queue, local_work_queue>>

Call(x, submits, awaits) == [task |-> x, submit |-> submits, await |-> IF version = 1 THEN << >> ELSE awaits]
Run(x) == Call(x, Kids[x], Kids[x])

\* Main waits for what it submits, or leaves the pool with it.
Init == /\ version \in Versions /\ done = FALSE
        /\ pool_work_queue = << >> /\ local_work_queue = [w \in Workers |-> << >>]
        /\ \E awaits \in {<< >>, Roots} :
             stack = [t \in Threads |-> IF t = Main THEN <<Call(0, Roots, awaits)>> ELSE << >>]
        /\ look = [t \in Threads |-> -1] /\ ready = {} /\ exited = {}

\* Of a queue, or of a stack of calls.
back(q) == q[Len(q)]
pop_back(q) == SubSeq(q, 1, Len(q) - 1)

Top(t) == back(stack[t])
Idle(t) == stack[t] = << >>
InTask(t) == ~Idle(t) /\ look[t] = -1
SetTop(t, f) == stack' = [stack EXCEPT ![t] = Append(pop_back(@), f)]
-----------------------------------------------------------------------------
\* submit, to the local queue in a worker that has one
Submit(t) ==
  /\ InTask(t) /\ Top(t).submit # << >>
  /\ LET x == Head(Top(t).submit)
     IN  IF version >= 4 /\ t \in Workers
         THEN /\ local_work_queue' = [local_work_queue EXCEPT ![t] = IF version = 4 THEN Append(@, x) ELSE <<x>> \o @]
              /\ UNCHANGED pool_work_queue
         ELSE pool_work_queue' = Append(pool_work_queue, x) /\ UNCHANGED local_work_queue
  /\ SetTop(t, [Top(t) EXCEPT !.submit = Tail(@)])
  /\ UNCHANGED <<version, done, look, ready, exited>>

Waits(t) == InTask(t) /\ Top(t).submit = << >> /\ Top(t).await # << >>

\* get, of a future that is ready
Get(t) == /\ Waits(t) /\ Head(Top(t).await) \in ready
          /\ SetTop(t, [Top(t) EXCEPT !.await = Tail(@)])
          /\ UNCHANGED <<version, done, queues, look, ready, exited>>

\* In 3 to 5 who waits for a future calls run_pending_task; a worker does while not done.
Helps(t) == Waits(t) /\ Head(Top(t).await) \notin ready /\ version >= 3
RunPendingTask(t) == /\ \/ Helps(t)
                        \/ t \in Workers \ exited /\ Idle(t) /\ ~done /\ look[t] = -1
                     /\ look' = [look EXCEPT ![t] = IF version >= 4 THEN 0 ELSE 1]
                     /\ UNCHANGED <<version, done, queues, stack, ready, exited>>

Start(t, x) == stack' = [stack EXCEPT ![t] = Append(@, Run(x))] /\ look' = [look EXCEPT ![t] = -1]

PopLocal(t) == /\ look[t] = 0
               /\ IF t \in Workers /\ local_work_queue[t] # << >>
                  THEN /\ Start(t, Head(local_work_queue[t]))
                       /\ local_work_queue' = [local_work_queue EXCEPT ![t] = Tail(@)]
                  ELSE look' = [look EXCEPT ![t] = 1] /\ UNCHANGED <<stack, local_work_queue>>
               /\ UNCHANGED <<version, done, pool_work_queue, ready, exited>>

PopPool(t) == /\ look[t] = 1
              /\ IF pool_work_queue # << >>
                 THEN /\ Start(t, Head(pool_work_queue))
                      /\ pool_work_queue' = Tail(pool_work_queue)
                 ELSE /\ look' = [look EXCEPT ![t] = IF version = 5 THEN 2 ELSE -1]
                      /\ UNCHANGED <<stack, pool_work_queue>>
              /\ UNCHANGED <<version, done, local_work_queue, ready, exited>>

\* try_steal from the worker of index (my_index + i + 1) % N; Main's my_index is 0.
Left(q) == q    \* mutant
Stolen(q) == pop_back(q)
Steal(t) ==
  /\ look[t] >= 2
  /\ LET my_index == IF t = Main THEN 0 ELSE t - 1
         victim == 1 + ((my_index + look[t] - 1) % N)
     IN  IF local_work_queue[victim] # << >>
         THEN /\ Start(t, back(local_work_queue[victim]))
              /\ local_work_queue' = [local_work_queue EXCEPT ![victim] = Stolen(@)]
         ELSE /\ look' = [look EXCEPT ![t] = IF @ = N + 1 THEN -1 ELSE @ + 1]
              /\ UNCHANGED <<stack, local_work_queue>>
  /\ UNCHANGED <<version, done, pool_work_queue, ready, exited>>

\* The task has returned, and its future is set; or Main begins to destroy the pool.
Finish(t) == /\ InTask(t) /\ Top(t).submit = << >> /\ Top(t).await = << >>
             /\ stack' = [stack EXCEPT ![t] = pop_back(@)]
             /\ IF Top(t).task = 0 THEN done' = TRUE /\ UNCHANGED ready
                ELSE ready' = ready \cup {Top(t).task} /\ UNCHANGED done
             /\ UNCHANGED <<version, queues, look, exited>>

\* A worker sees done; the destructor has joined them all.
Exit(t) == /\ Idle(t) /\ done /\ look[t] = -1 /\ t \notin exited
           /\ t = Main => Workers \subseteq exited
           /\ exited' = exited \cup {t}
           /\ UNCHANGED <<version, done, queues, stack, look, ready>>

Step(t) == \/ Submit(t) \/ Get(t) \/ RunPendingTask(t) \/ PopLocal(t) \/ PopPool(t) \/ Steal(t)
           \/ Finish(t) \/ Exit(t)

Next == \E t \in Threads : Step(t)

Fairness == \A t \in Threads : WF_vars(Step(t))
Spec == Init /\ [][Next]_vars /\ Fairness
-----------------------------------------------------------------------------
Places(x) ==
  LET in(q) == {i \in DOMAIN q : q[i] = x}
      calls == UNION {{<<t, i>> : i \in {j \in DOMAIN stack[t] : stack[t][j].task = x}} : t \in Threads}
      locals == UNION {{<<w, i>> : i \in in(local_work_queue[w])} : w \in Workers}
  IN  Cardinality(in(pool_work_queue)) + Cardinality(locals) + Cardinality(calls) + Cardinality(ready \cap {x})

(* A task is in one place: never in two, so it runs once, and in one when    *)
(* somebody waits for it.                                                    *)
TaskRunsOnce ==
  /\ \A x \in Tasks : Places(x) =< 1
  /\ \A t \in Threads : \A i \in DOMAIN stack[t] :
       \A x \in Range(stack[t][i].await) \ Range(stack[t][i].submit) : Places(x) = 1

(* However the workers and the waiting threads share out the tasks, no wait  *)
(* is for a task that nobody comes to run, and the destructor returns even   *)
(* when it finds tasks in the queues; 2 alone may stop, its workers all      *)
(* waiting for tasks that none is left to run.                               *)
Returned == version = 2 \/ Main \in exited
AllReturn == <>Returned
=============================================================================
