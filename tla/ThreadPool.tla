----------------------------- MODULE ThreadPool -----------------------------
(***************************************************************************)
(* ThreadPool of threadpool/thread_pool.h and thread_pool.cpp: a queue of  *)
(* tasks under mutex_, workers that wait on cond_mutex_ while it is empty, *)
(* submit() from any thread, addThread() and the destructor from the       *)
(* thread that owns the pool.                                              *)
(*                                                                         *)
(* A worker's wait(lock, pred) is cut where another thread can come in:    *)
(* the predicate reads run_, which the destructor writes without mutex_,   *)
(* and only then does the worker block.  submit() and the destructor are   *)
(* cut at every access to shared state for the same reason.                *)
(***************************************************************************)
EXTENDS Integers, Sequences, FiniteSets

CONSTANTS Workers,     \* THREAD_COUNT threads the pool can have
          Size,        \* the constructor's argument
          Clients,     \* the threads that call submit
          Tasks,       \* every task is submitted at most once
          NoTask, NoThread,
          LateSubmit   \* may submit run while the destructor does?

ASSUME PoolAssumption ==
  /\ IsFiniteSet(Workers)
  /\ Size \in 1 .. Cardinality(Workers)    \* the constructor asserts <=
  /\ NoTask \notin Tasks
  /\ NoThread \notin Workers
  /\ LateSubmit \in BOOLEAN

VARIABLES run_, tasks_, threads_, num_,
          mutex_,     \* the worker that holds it between two steps
          pc,         \* w -> where worker w is
          task,       \* w -> the task w has taken
          client,     \* c -> where client c is in submit
          arg,        \* c -> the task c submits
          main,       \* where the owner of the pool is
          toAdd,      \* addThread's size
          built,      \* has the constructor returned?
          accepted,   \* the tasks put in the queue, in order (history)
          started,    \* the tasks taken from it, in order (history)
          finished    \* the tasks that have run (history)

shared == <<run_, tasks_, num_, mutex_>>
work == <<pc, task, started, finished>>
calls == <<client, arg, accepted>>
owner == <<main, toAdd, built, threads_>>
vars == <<shared, work, calls, owner>>

WorkerAt == {"unborn", "head", "lock", "sleep", "blocked", "pop", "dec", "run", "inc", "exited"}
ClientAt == {"idle", "checked", "pushed"}
OwnerAt == {"adding", "counting", "alive", "stopped", "joining", "done"}

Init == /\ run_ = TRUE /\ tasks_ = << >> /\ num_ = 0 /\ mutex_ = NoThread
        /\ pc = [w \in Workers |-> "unborn"]
        /\ task = [w \in Workers |-> NoTask]
        /\ client = [c \in Clients |-> "idle"]
        /\ arg = [c \in Clients |-> NoTask]
        /\ main = "adding" /\ toAdd = Size /\ built = FALSE /\ threads_ = {}
        /\ accepted = << >> /\ started = << >> /\ finished = {}

Goto(w, to) == pc' = [pc EXCEPT ![w] = to]
-----------------------------------------------------------------------------
(* The owner: constructor, addThread, destructor. *)

\* threads_.emplace_back starts the worker before num_++ counts it.
Spawn(w) == /\ main = "adding" /\ toAdd > 0
            /\ w \in Workers \ threads_
            /\ threads_' = threads_ \cup {w}
            /\ Goto(w, "head")
            /\ main' = "counting"
            /\ UNCHANGED <<shared, calls, toAdd, built, task, started, finished>>


CountWorker == /\ main = "counting"
               /\ num_' = num_ + 1
               /\ toAdd' = toAdd - 1
               /\ main' = "adding"
               /\ UNCHANGED <<run_, tasks_, mutex_, work, calls, built, threads_>>

Added == /\ main = "adding"
         /\ toAdd = 0 \/ threads_ = Workers
         /\ main' = "alive" /\ toAdd' = 0 /\ built' = TRUE
         /\ UNCHANGED <<shared, work, calls, threads_>>

AddThread == /\ main = "alive"
             /\ main' = "adding"
             /\ toAdd' \in 1 .. Cardinality(Workers)
             /\ UNCHANGED <<shared, work, calls, built, threads_>>

Destroy == /\ main = "alive"
           /\ LateSubmit \/ \A c \in Clients : client[c] = "idle"
           /\ run_' = FALSE
           /\ main' = "stopped"
           /\ UNCHANGED <<tasks_, num_, mutex_, work, calls, toAdd, built, threads_>>

Blocked == {w \in Workers : pc[w] = "blocked"}

WakeAll == /\ main = "stopped"
           /\ pc' = [w \in Workers |-> IF w \in Blocked THEN "lock" ELSE pc[w]]
           /\ main' = "joining"
           /\ UNCHANGED <<shared, calls, task, started, finished, toAdd, built, threads_>>

FirstExited == \E w \in threads_ : pc[w] = "exited"    \* mutant
AllExited == \A w \in threads_ : pc[w] = "exited"

Join == /\ main = "joining"
        /\ AllExited
        /\ main' = "done"
        /\ UNCHANGED <<shared, work, calls, toAdd, built, threads_>>
-----------------------------------------------------------------------------
(* submit() *)

InUse == built /\ IF LateSubmit THEN main # "done"
                                ELSE main \in {"alive", "adding", "counting"}

Unsubmitted == {k \in Tasks : /\ \A i \in 1 .. Len(accepted) : accepted[i] # k
                              /\ \A c \in Clients : arg[c] # k}

\* A stopped pool throws; otherwise the check is over before mutex_ is taken.
Check(c) == /\ client[c] = "idle"
            /\ InUse
            /\ run_
            /\ \E k \in Unsubmitted : arg' = [arg EXCEPT ![c] = k]
            /\ client' = [client EXCEPT ![c] = "checked"]
            /\ UNCHANGED <<shared, work, accepted, owner>>

Push(c) == /\ client[c] = "checked"
           /\ main # "done"
           /\ tasks_' = Append(tasks_, arg[c])
           /\ accepted' = Append(accepted, arg[c])
           /\ client' = [client EXCEPT ![c] = "pushed"]
           /\ arg' = [arg EXCEPT ![c] = NoTask]
           /\ UNCHANGED <<run_, num_, mutex_, work, owner>>

Enqueue(c) == mutex_ = NoThread /\ Push(c)

NotifyNobody(c) == /\ client[c] = "pushed"    \* mutant
                   /\ main # "done"
                   /\ client' = [client EXCEPT ![c] = "idle"]
                   /\ UNCHANGED <<shared, work, arg, accepted, owner>>

NotifyOne(c) == /\ client[c] = "pushed"
                /\ main # "done"
                /\ IF Blocked = {} THEN UNCHANGED pc
                                   ELSE \E w \in Blocked : Goto(w, "lock")
                /\ client' = [client EXCEPT ![c] = "idle"]
                /\ UNCHANGED <<shared, task, started, finished, arg, accepted, owner>>
-----------------------------------------------------------------------------
(* A worker. *)

LoopHead(w) == /\ pc[w] = "head"
               /\ Goto(w, IF run_ THEN "lock" ELSE "exited")
               /\ UNCHANGED <<shared, task, started, finished, calls, owner>>

WantedIfTasks == tasks_ # << >>    \* mutant
Wanted == ~run_ \/ tasks_ # << >>

\* Evaluates the predicate of wait(), holding mutex_.
Test(w) == /\ pc[w] = "lock"
           /\ mutex_' = w
           /\ Goto(w, IF Wanted THEN "pop" ELSE "sleep")
           /\ UNCHANGED <<run_, tasks_, num_, task, started, finished, calls, owner>>

Evaluate(w) == mutex_ = NoThread /\ Test(w)

\* The predicate was false: wait() gives mutex_ up and blocks in one step.
Block(w) == /\ pc[w] = "sleep"
            /\ mutex_' = NoThread
            /\ Goto(w, "blocked")
            /\ UNCHANGED <<run_, tasks_, num_, task, started, finished, calls, owner>>

SpuriousWake(w) == /\ pc[w] = "blocked"
                   /\ Goto(w, "lock")
                   /\ UNCHANGED <<shared, task, started, finished, calls, owner>>

\* The stop test and the dequeue, still under mutex_.
Leave(w) == /\ pc[w] = "pop"
            /\ ~run_ /\ tasks_ = << >>
            /\ mutex_' = NoThread
            /\ Goto(w, "exited")
            /\ UNCHANGED <<run_, tasks_, num_, task, started, finished, calls, owner>>

AllLeft == tasks_    \* mutant
Rest == Tail(tasks_)

Take(w) == /\ pc[w] = "pop"
           /\ tasks_ # << >>
           /\ task' = [task EXCEPT ![w] = Head(tasks_)]
           /\ started' = Append(started, Head(tasks_))
           /\ tasks_' = Rest
           /\ mutex_' = NoThread
           /\ Goto(w, "dec")
           /\ UNCHANGED <<run_, num_, finished, calls, owner>>

CountBusy(w) == /\ pc[w] = "dec"
                /\ num_' = num_ - 1
                /\ Goto(w, "run")
                /\ UNCHANGED <<run_, tasks_, mutex_, task, started, finished, calls, owner>>

RunTask(w) == /\ pc[w] = "run"
              /\ finished' = finished \cup {task[w]}
              /\ task' = [task EXCEPT ![w] = NoTask]
              /\ Goto(w, "inc")
              /\ UNCHANGED <<shared, started, calls, owner>>

CountIdle(w) == /\ pc[w] = "inc"
                /\ num_' = num_ + 1
                /\ Goto(w, "head")
                /\ UNCHANGED <<run_, tasks_, mutex_, task, started, finished, calls, owner>>

Worker(w) == \/ LoopHead(w) \/ Evaluate(w) \/ Block(w) \/ Leave(w)
             \/ Take(w) \/ CountBusy(w) \/ RunTask(w) \/ CountIdle(w)
Adding == (\E w \in Workers : Spawn(w)) \/ CountWorker \/ Added
Destroying == WakeAll \/ Join
Submit(c) == Enqueue(c) \/ NotifyOne(c)

Next == \/ Adding \/ AddThread \/ Destroy \/ Destroying
        \/ \E c \in Clients : Check(c) \/ Submit(c)
        \/ \E w \in Workers : Worker(w) \/ SpuriousWake(w)

Spec == Init /\ [][Next]_vars

\* Running threads run; whoever keeps asking for mutex_ gets it in the end,
\* although other workers take it again and again (a spurious wakeup is
\* enough for that), hence SF.  Nobody has to submit, add or destroy.
Fairness == /\ WF_vars(Adding) /\ WF_vars(Destroying)
            /\ \A c \in Clients : SF_vars(Submit(c))
            /\ \A w \in Workers : SF_vars(Worker(w))

FairSpec == Spec /\ Fairness
-----------------------------------------------------------------------------
TypeOK == /\ run_ \in BOOLEAN /\ tasks_ \in Seq(Tasks)
          /\ threads_ \in SUBSET Workers
          /\ num_ \in -1 .. Cardinality(Workers)
          /\ mutex_ \in Workers \cup {NoThread}
          /\ pc \in [Workers -> WorkerAt] /\ task \in [Workers -> Tasks \cup {NoTask}]
          /\ client \in [Clients -> ClientAt] /\ arg \in [Clients -> Tasks \cup {NoTask}]
          /\ main \in OwnerAt /\ built \in BOOLEAN
          /\ toAdd \in 0 .. Cardinality(Workers)
          /\ accepted \in Seq(Tasks) /\ started \in Seq(Tasks) /\ finished \in SUBSET Tasks

Busy == {w \in Workers : pc[w] \in {"run", "inc"}}

(* idlThreadCnt() is exact: num_ counts the threads that are not between    *)
(* num_-- and num_++, less the one that addThread has started and not yet   *)
(* counted (so it is briefly -1 when that one is already at work).          *)
IdleAccounting ==
  num_ = Cardinality(threads_) - Cardinality(Busy) - (IF main = "counting" THEN 1 ELSE 0)

(* Tasks leave the queue in the order submit put them in, none lost and     *)
(* none twice (thread_pool.h 31-34, thread_pool.cpp 28-29).                 *)
FifoDispatch == accepted = started \o tasks_

Started == {started[i] : i \in 1 .. Len(started)}

(* A task that was taken is run by one worker, once: it is either finished  *)
(* or in the hands of exactly one worker.                                   *)
RunsOnce == \A k \in Tasks :
  /\ k \in Started <=> k \in finished \/ \E w \in Workers : task[w] = k
  /\ \A w \in Workers : task[w] = k => /\ k \notin finished
                                       /\ \A v \in Workers : task[v] = k => v = w

(* mutex_ is held across steps only by the worker that evaluates its        *)
(* predicate, and a worker about to sleep has seen the queue empty.         *)
MutexHeld == \A w \in Workers : pc[w] \in {"sleep", "pop"} <=> mutex_ = w
SleepsOnEmpty == \A w \in Workers : pc[w] = "sleep" => tasks_ = << >>

(* No lost wakeup: as long as the pool runs and a task is queued, either a  *)
(* submit still has its notify_one to do or some worker is awake and will   *)
(* look at the queue (thread_pool.h 36 comes after the push).               *)
NoStrandedTask ==
  run_ /\ tasks_ # << >> => \/ \E c \in Clients : client[c] = "pushed"
                            \/ \E w \in threads_ : pc[w] \notin {"blocked", "sleep"}

(* When the destructor has returned no worker is alive and every task that  *)
(* was taken has run to its end (thread_pool.cpp 11-13).                    *)
DoneMeansQuiet ==
  main = "done" => /\ \A w \in Workers : pc[w] \in {"unborn", "exited"}
                   /\ finished = Started

(* The destructor returns if no worker was between its predicate and the    *)
(* wait when notify_all was called.  run_ is cleared without mutex_         *)
(* (thread_pool.cpp 9-10), so such a worker misses the notification, and    *)
(* only a spurious wakeup can save the join.                                *)
DestructorReturns ==
  (main = "joining" /\ \A w \in Workers : pc[w] \notin {"sleep", "blocked"}) ~> main = "done"
=============================================================================
