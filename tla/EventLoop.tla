----------------------------- MODULE EventLoop -----------------------------
(***************************************************************************)
(* EventLoop of net/event_loop.h and event_loop.cpp: a thread that waits   *)
(* in epoll and then runs the tasks other threads gave it; they wake it    *)
(* through an eventfd.  el_tid_ is the thread that constructed the loop,   *)
(* which in TcpServer::start is not the one that runs loop().  el_quit_    *)
(* and el_dealing_task_funcs are plain bools that threads share: each      *)
(* access is taken as atomic.  Connections' descriptors are left to        *)
(* TcpConnection.                                                          *)
(***************************************************************************)
EXTENDS Integers, Sequences, FiniteSets

CONSTANTS Threads,      \* the threads that call addTask and quit
          Loop,         \* the thread that runs loop()
          Makers,       \* those that may have made the EventLoop
          MaxTasks      \* bound on the tasks

ASSUME LoopAssumption == /\ Loop \notin Threads
                         /\ Makers \subseteq Threads \cup {Loop}
                         /\ MaxTasks \in Nat

VARIABLES el_task_funcs_, el_quit_, el_dealing_task_funcs,
          evfd,         \* the counter of el_evfd_
          functions,    \* local to executeTaskFuncs
          at,           \* where each thread is
          el_tid_,      \* the thread that made the EventLoop
          made, ran,    \* the tasks made so far, and those run, in order (history)
          inline,       \* those run in addTask itself (history)
          quits         \* the threads that called quit() since loop() began (history)

vars == <<el_task_funcs_, el_quit_, el_dealing_task_funcs, evfd, functions, at, el_tid_, made, ran, inline, quits>>

All == Threads \cup {Loop}
IsInLoopThread(t) == t = el_tid_

Init == /\ el_task_funcs_ = << >> /\ el_quit_ = FALSE /\ el_dealing_task_funcs = FALSE
        /\ evfd = 0 /\ functions = << >> /\ el_tid_ \in Makers
        /\ at = [t \in All |-> IF t = Loop THEN "start" ELSE "idle"]
        /\ made = 0 /\ ran = << >> /\ inline = {} /\ quits = {}

Goto(t, p) == at' = [at EXCEPT ![t] = p]
-----------------------------------------------------------------------------
(* addTask, called by a thread that is idle, or by a task of the loop *)

Resting(t) == IF t = Loop THEN "run" ELSE "idle"

RunInline(t) == /\ inline' = inline \cup {made'}
                /\ UNCHANGED <<el_task_funcs_, ran>>
EnqueueFirst(t) == /\ el_task_funcs_' = <<made'>> \o el_task_funcs_    \* mutant
                   /\ UNCHANGED <<ran, inline>>
Enqueue(t) == /\ el_task_funcs_' = Append(el_task_funcs_, made')
              /\ UNCHANGED <<ran, inline>>

AddTask(t) == /\ at[t] = Resting(t) /\ made < MaxTasks
              /\ made' = made + 1
              /\ IF IsInLoopThread(t) THEN RunInline(t) ELSE Enqueue(t)
              /\ Goto(t, "added")
              /\ UNCHANGED <<el_tid_, el_quit_, el_dealing_task_funcs, evfd, functions, quits>>

OnlyIfDealing(t) == el_dealing_task_funcs    \* mutant
ShouldWake(t) == ~IsInLoopThread(t) \/ el_dealing_task_funcs

AddTaskWakes(t) == /\ at[t] = "added"
                   /\ evfd' = IF ShouldWake(t) THEN evfd + 1 ELSE evfd
                   /\ Goto(t, Resting(t))
                   /\ UNCHANGED <<el_tid_, el_task_funcs_, el_quit_, el_dealing_task_funcs, functions, made, ran, inline, quits>>

Quit(t) == /\ at[t] = Resting(t) /\ t \notin quits
           /\ el_quit_' = TRUE
           /\ quits' = quits \cup {t}
           /\ Goto(t, "quitting")
           /\ UNCHANGED <<el_tid_, el_task_funcs_, el_dealing_task_funcs, evfd, functions, made, ran, inline>>

NoWakeup(t) == UNCHANGED evfd    \* mutant
EvfdWakeup(t) == evfd' = IF IsInLoopThread(t) THEN evfd ELSE evfd + 1

QuitWakes(t) == /\ at[t] = "quitting"
                /\ EvfdWakeup(t)
                /\ Goto(t, Resting(t))
                /\ UNCHANGED <<el_tid_, el_task_funcs_, el_quit_, el_dealing_task_funcs, functions, made, ran, inline, quits>>
-----------------------------------------------------------------------------
(* loop *)

Start == /\ at[Loop] = "start"
         /\ el_quit_' = FALSE
         /\ quits' = {}
         /\ Goto(Loop, "head")
         /\ UNCHANGED <<el_tid_, el_task_funcs_, el_dealing_task_funcs, evfd, functions, made, ran, inline>>

Head_ == /\ at[Loop] = "head"
         /\ Goto(Loop, IF el_quit_ THEN "done" ELSE "poll")
         /\ UNCHANGED <<el_tid_, el_task_funcs_, el_quit_, el_dealing_task_funcs, evfd, functions, made, ran, inline, quits>>

\* epoll_wait reports the eventfd, or times out with nothing to report.
Poll == /\ at[Loop] = "poll" /\ evfd > 0
        /\ Goto(Loop, "read")
        /\ UNCHANGED <<el_tid_, el_task_funcs_, el_quit_, el_dealing_task_funcs, evfd, functions, made, ran, inline, quits>>

PollTimesOut == /\ at[Loop] = "poll" /\ evfd = 0
                /\ Goto(Loop, "deal")
                /\ UNCHANGED <<el_tid_, el_task_funcs_, el_quit_, el_dealing_task_funcs, evfd, functions, made, ran, inline, quits>>

EvfdRead == /\ at[Loop] = "read"
            /\ evfd' = 0
            /\ Goto(Loop, "deal")
            /\ UNCHANGED <<el_tid_, el_task_funcs_, el_quit_, el_dealing_task_funcs, functions, made, ran, inline, quits>>

Deal == /\ at[Loop] = "deal"
        /\ el_dealing_task_funcs' = TRUE
        /\ Goto(Loop, "swap")
        /\ UNCHANGED <<el_tid_, el_task_funcs_, el_quit_, evfd, functions, made, ran, inline, quits>>

SwapTasks == functions' = el_task_funcs_ /\ el_task_funcs_' = functions

Swap == /\ at[Loop] = "swap"
        /\ SwapTasks
        /\ Goto(Loop, "run")
        /\ UNCHANGED <<el_tid_, el_quit_, el_dealing_task_funcs, evfd, made, ran, inline, quits>>

RunTask == /\ at[Loop] = "run" /\ functions # << >>
           /\ ran' = Append(ran, Head(functions))
           /\ functions' = Tail(functions)
           /\ UNCHANGED <<el_tid_, el_task_funcs_, el_quit_, el_dealing_task_funcs, evfd, at, made, inline, quits>>

Dealt == /\ at[Loop] = "run" /\ functions = << >>
         /\ el_dealing_task_funcs' = FALSE
         /\ Goto(Loop, "head")
         /\ UNCHANGED <<el_tid_, el_task_funcs_, el_quit_, evfd, functions, made, ran, inline, quits>>

Waking(t) == AddTaskWakes(t) \/ QuitWakes(t)
ExecuteTaskFuncs == Deal \/ Swap \/ RunTask \/ Dealt
Looping == Start \/ Head_ \/ Poll \/ EvfdRead \/ ExecuteTaskFuncs \/ Waking(Loop)

Next == \/ Looping \/ PollTimesOut
        \/ \E t \in Threads : Waking(t)
        \/ \E t \in All : AddTask(t) \/ Quit(t)

Spec == Init /\ [][Next]_vars

\* Threads that have begun go on.  Nothing relies on epoll_wait timing out.
FairSpec == Spec /\ WF_vars(Looping) /\ \A t \in Threads : WF_vars(Waking(t))
-----------------------------------------------------------------------------
TaskIds == 1 .. MaxTasks
Places == {"start", "head", "poll", "read", "deal", "swap", "run", "done", "idle", "added", "quitting"}

TypeOK == /\ el_task_funcs_ \in Seq(TaskIds) /\ functions \in Seq(TaskIds)
          /\ el_quit_ \in BOOLEAN /\ el_dealing_task_funcs \in BOOLEAN
          /\ evfd \in Nat /\ at \in [All -> Places] /\ el_tid_ \in Makers
          /\ made \in 0 .. MaxTasks /\ ran \in Seq(TaskIds)
          /\ inline \subseteq TaskIds /\ quits \subseteq All
          /\ functions # << >> => at[Loop] \in {"run", "added", "quitting"}

(* The loop does not sleep on a task: it is in the queue before the eventfd  *)
(* is written, and the eventfd is read before the queue is emptied.          *)
NoTaskStranded == at[Loop] \in {"head", "poll"} /\ el_task_funcs_ # << >>
                    => evfd > 0 \/ \E t \in Threads : at[t] = "added"

QuitHeard == el_quit_ /\ (quits = {el_tid_} => el_tid_ = Loop)

(* Nor on a request to quit, unless it came from the thread that made the    *)
(* loop, whose quit() takes itself for the loop's thread and does not wake.  *)
NoQuitMissed == at[Loop] = "poll" /\ QuitHeard
                  => evfd > 0 \/ \E t \in Threads : at[t] = "quitting"

InOrder(seq) == \A i, j \in 1 .. Len(seq) : i < j => seq[i] < seq[j]

(* Every task is run once: in the order they were queued, or within addTask. *)
TasksInOrder == /\ InOrder(ran \o functions \o el_task_funcs_)
                /\ \A k \in 1 .. made :
                     k \in inline <=> ~ \E i \in 1 .. Len(ran \o functions \o el_task_funcs_) :
                                           (ran \o functions \o el_task_funcs_)[i] = k

(* A loop that is told to quit after it started does (quit() before loop()   *)
(* has begun is undone by event_loop.cpp 54).                                *)
LoopEnds == at[Loop] # "start" /\ QuitHeard ~> at[Loop] = "done"
=============================================================================
