--------------------------- MODULE EventLoopProofs ---------------------------
(***************************************************************************)
(* The safety of EventLoop for any number of threads and tasks, whichever  *)
(* thread made it: the loop sleeps neither on a task nor on a request to   *)
(* quit, and runs every task once and in order.                            *)
(***************************************************************************)
EXTENDS EventLoop, SequenceTheorems, TLAPS

\* The tasks that were queued, from the first that was run to the last queued.
Order == ran \o functions \o el_task_funcs_

\* A wakeup is there or on its way from a thread that does write the eventfd.
Woken(p) == evfd > 0 \/ \E t \in All \ {el_tid_} : at[t] = p

\* While the loop may sleep or go to sleep without looking at the queue again.
TasksHeard == at[Loop] \notin {"deal", "swap"} /\ el_task_funcs_ # << >> => Woken("added")

\* quits names who set el_quit_; a loop that told itself does not poll again.
QuitsHeard == /\ el_quit_ <=> quits # {}
              /\ Loop \in quits => at[Loop] \in {"run", "added", "quitting", "head", "done"}
              /\ at[Loop] = "poll" /\ (\E t \in quits : t # el_tid_) => Woken("quitting")

\* Tasks are numbered by when they were made.
Numbered == /\ \A i \in 1 .. Len(Order) : Order[i] \in 1 .. made
            /\ inline \subseteq 1 .. made

IInv == TypeOK /\ TasksHeard /\ QuitsHeard /\ Numbered /\ TasksInOrder

LEMMA TypesKept == ASSUME TypeOK, Next PROVE TypeOK'
  <1> USE LoopAssumption DEF LoopAssumption, TypeOK, Places, Goto, All, Resting
  <1>1. ASSUME NEW t \in All, AddTask(t) PROVE TypeOK'
    <2>1. made' \in TaskIds /\ made' \in 0 .. MaxTasks
      BY <1>1 DEF AddTask, TaskIds
    <2>2. el_task_funcs_' \in Seq(TaskIds) /\ ran' = ran /\ inline' \subseteq TaskIds
      <3>1. CASE RunInline(t)  BY <2>1, <3>1 DEF RunInline
      <3>2. CASE Enqueue(t)    BY <2>1, <3>2, AppendProperties DEF Enqueue
      <3> QED  BY <1>1, <3>1, <3>2 DEF AddTask
    <2>3. at' \in [All -> Places] /\ (functions # << >> => at'[Loop] \in {"run", "added", "quitting"})
      BY <1>1 DEF AddTask
    <2> QED  BY <1>1, <2>1, <2>2, <2>3 DEF AddTask
  <1>2. ASSUME NEW t \in All, Waking(t) PROVE TypeOK'
    BY <1>2 DEF Waking, AddTaskWakes, QuitWakes, EvfdWakeup
  <1>3. ASSUME NEW t \in All, Quit(t) PROVE TypeOK'
    BY <1>3 DEF Quit
  <1>4. CASE Start \/ Head_
    BY <1>4 DEF Start, Head_
  <1>7. CASE Poll \/ PollTimesOut \/ EvfdRead
    BY <1>7 DEF Poll, PollTimesOut, EvfdRead
  <1>5. CASE Deal \/ Swap \/ Dealt
    BY <1>5 DEF Deal, Swap, SwapTasks, Dealt
  <1>6. CASE RunTask
    <2>1. Head(functions) \in TaskIds /\ Tail(functions) \in Seq(TaskIds)
      BY <1>6, HeadTailProperties DEF RunTask
    <2> QED  BY <1>6, <2>1 DEF RunTask
  <1> QED  BY <1>1, <1>2, <1>3, <1>4, <1>5, <1>6, <1>7 DEF Next, Looping, ExecuteTaskFuncs

(* A task is in the queue before its wakeup is written, and a wakeup is read *)
(* before the queue is emptied.                                              *)
LEMMA TasksHeardKept == ASSUME TypeOK, TasksHeard, Next PROVE TasksHeard'
  <1> USE LoopAssumption DEF LoopAssumption, TypeOK, TasksHeard, Woken, Goto, All, Resting,
          IsInLoopThread
  <1>1. ASSUME NEW t \in All, AddTask(t) PROVE TasksHeard'
    BY <1>1 DEF AddTask, RunInline, Enqueue
  <1>2. ASSUME NEW t \in All, Waking(t) PROVE TasksHeard'
    BY <1>2 DEF Waking, AddTaskWakes, QuitWakes, EvfdWakeup, ShouldWake
  <1>3. ASSUME NEW t \in All, Quit(t) PROVE TasksHeard'
    BY <1>3 DEF Quit
  <1>4. CASE Start \/ Head_ \/ Poll \/ PollTimesOut \/ EvfdRead
    BY <1>4 DEF Start, Head_, Poll, PollTimesOut, EvfdRead
  <1>5. CASE Deal \/ Swap \/ Dealt
    BY <1>5 DEF Deal, Swap, SwapTasks, Dealt
  <1>6. CASE RunTask
    BY <1>6 DEF RunTask
  <1> QED  BY <1>1, <1>2, <1>3, <1>4, <1>5, <1>6 DEF Next, Looping, ExecuteTaskFuncs

(* The loop begins to poll only when nobody has asked it to quit.            *)
LEMMA QuitsHeardKept == ASSUME TypeOK, QuitsHeard, Next PROVE QuitsHeard'
  <1> USE LoopAssumption DEF LoopAssumption, TypeOK, QuitsHeard, Woken, Goto, All, Resting,
          IsInLoopThread
  <1>1. ASSUME NEW t \in All, AddTask(t) PROVE QuitsHeard'
    BY <1>1 DEF AddTask
  <1>2. ASSUME NEW t \in All, Waking(t) PROVE QuitsHeard'
    BY <1>2 DEF Waking, AddTaskWakes, QuitWakes, EvfdWakeup
  <1>3. ASSUME NEW t \in All, Quit(t) PROVE QuitsHeard'
    BY <1>3 DEF Quit
  <1>4. CASE Start \/ Head_ \/ Poll \/ PollTimesOut \/ EvfdRead
    BY <1>4 DEF Start, Head_, Poll, PollTimesOut, EvfdRead
  <1>5. CASE Deal \/ Swap \/ Dealt
    BY <1>5 DEF Deal, Swap, Dealt
  <1>6. CASE RunTask
    BY <1>6 DEF RunTask
  <1> QED  BY <1>1, <1>2, <1>3, <1>4, <1>5, <1>6 DEF Next, Looping, ExecuteTaskFuncs

LEMMA OrderType ==
  TypeOK => /\ Order \in Seq(TaskIds) /\ Len(Order) \in Nat
            /\ \A i \in 1 .. Len(Order) : Order[i] \in TaskIds
  <1> SUFFICES ASSUME TypeOK
               PROVE  /\ Order \in Seq(TaskIds) /\ Len(Order) \in Nat
                      /\ \A i \in 1 .. Len(Order) : Order[i] \in TaskIds
    OBVIOUS
  <1>1. Order \in Seq(TaskIds)
    BY ConcatProperties DEF Order, TypeOK
  <1> QED  BY <1>1, LenProperties

(* What a step does to the numbered tasks: a new one is queued behind all    *)
(* others or run where it was made, and no other step changes them.          *)
LEMMA NewTask ==
  ASSUME TypeOK, NEW t \in All, AddTask(t)
  PROVE  \/ Order' = Append(Order, made + 1) /\ inline' = inline
         \/ Order' = Order /\ inline' = inline \cup {made + 1}
  <1>1. made + 1 \in TaskIds
    BY LoopAssumption DEF LoopAssumption, AddTask, TypeOK, TaskIds
  <1>2. CASE RunInline(t)
    BY <1>2 DEF AddTask, RunInline, Order
  <1>3. CASE Enqueue(t)
    <2>1. /\ el_task_funcs_' = Append(el_task_funcs_, made + 1)
          /\ ran' = ran /\ functions' = functions /\ inline' = inline
      BY <1>3 DEF AddTask, Enqueue
    <2>2. /\ Append(el_task_funcs_, made + 1) = el_task_funcs_ \o <<made + 1>>
          /\ Append(Order, made + 1) = Order \o <<made + 1>>
      BY <1>1, OrderType, AppendIsConcat DEF TypeOK
    <2>3. ran \o functions \in Seq(TaskIds) /\ <<made + 1>> \in Seq(TaskIds)
      BY <1>1, ConcatProperties DEF TypeOK
    <2>4. Order' = (ran \o functions) \o (el_task_funcs_ \o <<made + 1>>)
      BY <2>1, <2>2 DEF Order
    <2>5. @ = ((ran \o functions) \o el_task_funcs_) \o <<made + 1>>
      BY SMTT(30), <2>3, ConcatAssociative DEF TypeOK
    <2> QED  BY <2>1, <2>2, <2>4, <2>5 DEF Order
  <1> QED  BY <1>2, <1>3 DEF AddTask

LEMMA OldTasks ==
  ASSUME TypeOK, Next, ~ \E t \in All : AddTask(t)
  PROVE  Order' = Order /\ inline' = inline /\ made' = made
  <1> USE DEF Order
  <1>1. CASE Swap
    <2>1. functions = << >>
      BY <1>1 DEF Swap, TypeOK
    <2>2. ran \o (<< >>) = ran /\ (ran \o el_task_funcs_) \o << >> = ran \o el_task_funcs_
      BY ConcatEmptySeq, ConcatProperties DEF TypeOK
    <2> QED  BY <1>1, <2>1, <2>2 DEF Swap, SwapTasks
  <1>2. CASE RunTask
    <2>1. /\ Head(functions) \in TaskIds /\ Tail(functions) \in Seq(TaskIds)
          /\ functions = <<Head(functions)>> \o Tail(functions)
      BY <1>2 DEF RunTask, TypeOK
    <2>2. <<Head(functions)>> \in Seq(TaskIds)
      BY <2>1
    <2>3. Append(ran, Head(functions)) = ran \o <<Head(functions)>>
      BY <2>1, AppendIsConcat DEF TypeOK
    <2>4. (ran \o <<Head(functions)>>) \o Tail(functions) = ran \o (<<Head(functions)>> \o Tail(functions))
      BY SMTT(30), <2>1, <2>2, ConcatAssociative DEF TypeOK
    <2>5. Append(ran, Head(functions)) \o Tail(functions) = ran \o functions
      BY <2>1, <2>3, <2>4
    <2> QED  BY <1>2, <2>5 DEF RunTask
  <1>3. ASSUME NEW t \in All, Waking(t) \/ Quit(t) PROVE UNCHANGED <<Order, inline, made>>
    BY <1>3 DEF Waking, AddTaskWakes, QuitWakes, Quit
  <1>4. CASE Start \/ Head_ \/ Poll \/ PollTimesOut \/ EvfdRead \/ Deal \/ Dealt
    BY <1>4 DEF Start, Head_, Poll, PollTimesOut, EvfdRead, Deal, Dealt
  <1> QED  BY <1>1, <1>2, <1>3, <1>4 DEF Next, Looping, ExecuteTaskFuncs, All

(* So the tasks stay numbered, in order, and each in one place.              *)
LEMMA TasksKept ==
  ASSUME TypeOK, Numbered, TasksInOrder, Next
  PROVE  Numbered' /\ TasksInOrder'
  <1> DEFINE Queued(k) == \E i \in 1 .. Len(Order) : Order[i] = k
  <1>1. InOrder(Order) /\ \A k \in 1 .. made : (k \in inline <=> ~ Queued(k))
    BY DEF TasksInOrder, Order
  <1>2. SUFFICES Numbered' /\ InOrder(Order)' /\ \A k \in 1 .. made' : (k \in inline' <=> ~ Queued(k)')
    BY DEF TasksInOrder, Order
  <1>3. made \in Nat /\ Order \in Seq(TaskIds) /\ Len(Order) \in Nat
    BY OrderType, LoopAssumption DEF TypeOK, LoopAssumption
  <1>4. ASSUME NEW t \in All, AddTask(t)
        PROVE  Numbered' /\ InOrder(Order)' /\ \A k \in 1 .. made' : (k \in inline' <=> ~ Queued(k)')
    <2>1. made' = made + 1 /\ made + 1 \in TaskIds
      BY <1>3, <1>4, LoopAssumption DEF LoopAssumption, AddTask, TaskIds
    <2>4. ASSUME NEW k \in 1 .. made', k # made + 1 PROVE k \in 1 .. made
      BY <1>3, <2>1, <2>4
    <2>2. CASE Order' = Append(Order, made + 1) /\ inline' = inline
      <3>1. /\ Len(Order') = Len(Order) + 1 /\ Order'[Len(Order) + 1] = made + 1
            /\ \A i \in 1 .. Len(Order) : Order'[i] = Order[i]
        BY <1>3, <2>1, <2>2, AppendProperties
      <3>2. Numbered'
        BY <1>3, <2>1, <2>2, <3>1 DEF Numbered
      <3>3. InOrder(Order)'
        <4>1. SUFFICES ASSUME NEW i \in 1 .. Len(Order'), NEW j \in 1 .. Len(Order'), i < j
                       PROVE  Order'[i] < Order'[j]
          BY DEF InOrder
        <4>2. i \in 1 .. Len(Order) /\ Order'[i] = Order[i] /\ Order[i] \in 1 .. made
          BY <1>3, <3>1, <4>1 DEF Numbered
        <4>3. CASE j = Len(Order) + 1
          BY <1>3, <3>1, <4>2, <4>3
        <4>4. CASE j \in 1 .. Len(Order)
          <5>1. Order[i] < Order[j]
            BY <1>1, <4>1, <4>2, <4>4 DEF InOrder
          <5> QED  BY <3>1, <4>2, <4>4, <5>1
        <4> QED  BY <1>3, <3>1, <4>3, <4>4
      <3>4. ASSUME NEW k \in 1 .. made' PROVE k \in inline' <=> ~ Queued(k)'
        <4>1. CASE k = made + 1
          <5>1. k \notin inline'
            BY <1>3, <2>2, <4>1 DEF Numbered
          <5>2. Queued(k)'
            <6>1. Len(Order) + 1 \in 1 .. Len(Order')
              BY <1>3, <3>1
            <6> QED  BY <3>1, <4>1, <6>1
          <5> QED  BY <5>1, <5>2
        <4>2. CASE k # made + 1
          <5> k \in 1 .. made
            BY <2>4, <4>2
          <5>1. Queued(k)' <=> Queued(k)
            BY <1>3, <3>1
          <5> QED  BY <1>1, <2>2, <5>1
        <4> QED  BY <4>1, <4>2
      <3> QED  BY <3>2, <3>3, <3>4
    <2>3. CASE Order' = Order /\ inline' = inline \cup {made + 1}
      <3>1. Numbered' /\ InOrder(Order)'
        BY <1>1, <1>3, <2>1, <2>3 DEF Numbered, InOrder
      <3>2. ASSUME NEW k \in 1 .. made' PROVE k \in inline' <=> ~ Queued(k)'
        <4>1. Queued(k)' <=> Queued(k)
          BY <2>3
        <4>2. CASE k = made + 1
          <5>1. ~ Queued(k)
            BY <1>3, <4>2 DEF Numbered
          <5> QED  BY <2>3, <4>1, <4>2, <5>1
        <4>3. CASE k # made + 1
          <5>1. k \in 1 .. made
            BY <2>4, <4>3
          <5>2. k \in inline' <=> k \in inline
            BY <2>3, <4>3
          <5> QED  BY <1>1, <4>1, <5>1, <5>2
        <4> QED  BY <4>2, <4>3
      <3> QED  BY <3>1, <3>2
    <2> QED  BY <1>4, <2>2, <2>3, NewTask
  <1>5. CASE ~ \E t \in All : AddTask(t)
    <2>1. Order' = Order /\ inline' = inline /\ made' = made
      BY <1>5, OldTasks
    <2> QED  BY <1>1, <2>1 DEF Numbered, InOrder
  <1> QED  BY <1>4, <1>5

THEOREM Invariance == Spec => []IInv
  <1>1. Init => IInv
    <2> SUFFICES ASSUME Init PROVE IInv
      OBVIOUS
    <2> USE LoopAssumption DEF LoopAssumption, Init
    <2>1. Order = << >> /\ Len(Order) = 0
      BY ConcatEmptySeq, EmptySeq DEF Order
    <2>2. TypeOK
      <3>1. << >> \in Seq(TaskIds)
        BY EmptySeq
      <3>2. at \in [All -> Places]
        BY DEF All, Places
      <3>3. el_task_funcs_ \in Seq(TaskIds) /\ functions \in Seq(TaskIds) /\ ran \in Seq(TaskIds)
        BY <3>1
      <3>4. made \in 0 .. MaxTasks /\ evfd \in Nat
        OBVIOUS
      <3> QED  BY <3>2, <3>3, <3>4 DEF TypeOK
    <2>4. TasksHeard /\ QuitsHeard
      BY DEF TasksHeard, QuitsHeard, All
    <2>3. Numbered /\ TasksInOrder
      BY <2>1 DEF Numbered, TasksInOrder, InOrder, Order
    <2> QED  BY <2>2, <2>3, <2>4 DEF IInv
  <1>2. IInv /\ [Next]_vars => IInv'
    <2> SUFFICES ASSUME IInv, [Next]_vars PROVE IInv'
      OBVIOUS
    <2>1. CASE Next
      BY <2>1, TypesKept, TasksHeardKept, QuitsHeardKept, TasksKept DEF IInv
    <2>2. CASE UNCHANGED vars
      <3>1. TypeOK' /\ TasksHeard' /\ QuitsHeard'
        BY <2>2 DEF IInv, vars, TypeOK, TasksHeard, QuitsHeard, Woken
      <3>2. Numbered' /\ TasksInOrder'
        BY <2>2 DEF IInv, vars, Numbered, TasksInOrder, InOrder, Order
      <3> QED  BY <3>1, <3>2 DEF IInv
    <2> QED  BY <2>1, <2>2
  <1> QED  BY <1>1, <1>2, PTL DEF Spec

(* The tasks the loop took over are there only while it runs them            *)
(* (functions, executeTaskFuncs), and every field keeps its type.            *)
THEOREM TypeCorrect == Spec => []TypeOK
  <1>1. IInv => TypeOK
    BY DEF IInv
  <1> QED  BY <1>1, Invariance, PTL

(* addTask wakes the loop: it never goes to sleep in epoll_wait on a task    *)
(* that is queued, whichever threads queue tasks and however often.          *)
THEOREM LoopWakesForTasks == Spec => []NoTaskStranded
  <1>1. IInv => NoTaskStranded
    BY LoopAssumption DEF LoopAssumption, IInv, TypeOK, TasksHeard, Woken, NoTaskStranded, All
  <1> QED  BY <1>1, Invariance, PTL

(* quit wakes the loop, unless the only thread that called it made the loop  *)
(* and does not run it.                                                      *)
THEOREM LoopWakesToQuit == Spec => []NoQuitMissed
  <1>1. IInv => NoQuitMissed
    <2> SUFFICES ASSUME IInv, at[Loop] = "poll", QuitHeard
                 PROVE  evfd > 0 \/ \E t \in Threads : at[t] = "quitting"
      BY DEF NoQuitMissed
    <2>1. Loop \notin quits /\ quits # {}
      BY DEF IInv, QuitsHeard, QuitHeard
    <2>2. \E t \in quits : t # el_tid_
      BY <2>1 DEF QuitHeard
    <2>3. Woken("quitting")
      BY <2>2 DEF IInv, QuitsHeard
    <2> QED  BY <2>3 DEF Woken, All
  <1> QED  BY <1>1, Invariance, PTL

(* Every task given to addTask is run there or queued, once, and the queued  *)
(* ones are run in the order they were made (executeTaskFuncs' swap).        *)
THEOREM RunsOnceInOrder == Spec => []TasksInOrder
  <1>1. IInv => TasksInOrder
    BY DEF IInv
  <1> QED  BY <1>1, Invariance, PTL
=============================================================================
