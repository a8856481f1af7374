-------------------------- MODULE ThreadPoolProofs --------------------------
(***************************************************************************)
(* The safety of ThreadPool for any number of workers, clients and tasks:  *)
(* no task is stranded, lost, reordered or run twice, the idle count is    *)
(* exact, and nothing is left running when the destructor returns.         *)
(***************************************************************************)
EXTENDS ThreadPool, FiniteSetTheorems, SequenceTheorems, TLAPS

\* The types, but for the bounds of num_, which follow from IdleAccounting.
Types == /\ run_ \in BOOLEAN /\ tasks_ \in Seq(Tasks)
         /\ threads_ \in SUBSET Workers
         /\ num_ \in Int
         /\ mutex_ \in Workers \cup {NoThread}
         /\ pc \in [Workers -> WorkerAt] /\ task \in [Workers -> Tasks \cup {NoTask}]
         /\ client \in [Clients -> ClientAt] /\ arg \in [Clients -> Tasks \cup {NoTask}]
         /\ main \in OwnerAt /\ built \in BOOLEAN
         /\ toAdd \in 0 .. Cardinality(Workers)
         /\ accepted \in Seq(Tasks) /\ started \in Seq(Tasks) /\ finished \in SUBSET Tasks

\* Before the constructor returns there is no task; after it there is a worker.
Building == /\ built => threads_ # {}
            /\ ~built /\ threads_ = {} => main = "adding" /\ toAdd = Size
            /\ main = "counting" => toAdd > 0 /\ threads_ # {}
            /\ ~built => tasks_ = << >> /\ \A c \in Clients : client[c] = "idle"

\* Which workers exist, and what stopping them says about run_ and the owner.
Workforce == /\ \A w \in Workers : pc[w] = "unborn" <=> w \notin threads_
             /\ \A w \in Workers : pc[w] = "exited" => ~run_
             /\ run_ <=> main \in {"adding", "counting", "alive"}
             /\ main = "done" => \A w \in threads_ : pc[w] = "exited"
             /\ \A w \in Workers : pc[w] = "pop" => ~run_ \/ tasks_ # << >>

\* A task is submitted once and is in one place at a time.
Submitted == /\ \A c \in Clients : client[c] = "checked" <=> arg[c] # NoTask
             /\ \A c \in Clients, i \in 1 .. Len(accepted) : arg[c] # accepted[i]
             /\ \A c, d \in Clients : arg[c] = arg[d] /\ c # d => arg[c] = NoTask
             /\ \A i, j \in 1 .. Len(accepted) : accepted[i] = accepted[j] => i = j
             /\ \A w \in Workers : pc[w] \in {"dec", "run"} <=> task[w] # NoTask

Wakeful == MutexHeld /\ SleepsOnEmpty /\ NoStrandedTask

IInv == Types /\ Building /\ Workforce /\ Submitted /\ Wakeful /\ IdleAccounting
        /\ FifoDispatch /\ RunsOnce

LEMMA TailInSeq == ASSUME NEW S, NEW s \in Seq(S), s # << >>
                   PROVE  /\ Head(s) \in S /\ Tail(s) \in Seq(S)
                          /\ s = <<Head(s)>> \o Tail(s)
  OBVIOUS

LEMMA TypesKept == ASSUME IInv, Next PROVE Types'
  <1> USE PoolAssumption DEF PoolAssumption, IInv, Types, WorkerAt, ClientAt, OwnerAt, Goto,
          shared, work, calls, owner
  <1>0. Cardinality(Workers) \in Nat
    BY FS_CardinalityType
  <1>1. CASE \E w \in Workers : Spawn(w)
    BY <1>1 DEF Spawn
  <1>a. CASE AddThread
    <2>1. toAdd' \in 0 .. Cardinality(Workers)
      BY <1>0, <1>a DEF AddThread
    <2> QED  BY <1>a, <2>1 DEF AddThread
  <1>2. CASE CountWorker \/ Added
    <2>1. toAdd' \in 0 .. Cardinality(Workers)
      BY <1>0, <1>2 DEF CountWorker, Added, Building
    <2>2. CASE CountWorker  BY <2>1, <2>2 DEF CountWorker
    <2>3. CASE Added  BY <2>1, <2>3 DEF Added
    <2> QED  BY <1>2, <2>2, <2>3
  <1>3. CASE Destroy \/ WakeAll \/ Join
    BY <1>3 DEF Destroy, WakeAll, Join
  <1>4. ASSUME NEW c \in Clients, Check(c) PROVE Types'
    BY <1>4 DEF Check, Unsubmitted
  <1>5. ASSUME NEW c \in Clients, Enqueue(c) PROVE Types'
    <2>1. arg[c] \in Tasks
      BY <1>5 DEF Enqueue, Push, Submitted
    <2>2. Append(tasks_, arg[c]) \in Seq(Tasks) /\ Append(accepted, arg[c]) \in Seq(Tasks)
      BY <2>1
    <2> QED  BY <1>5, <2>2 DEF Enqueue, Push
  <1>6. ASSUME NEW c \in Clients, NotifyOne(c) PROVE Types'
    BY <1>6 DEF NotifyOne
  <1>7. ASSUME NEW w \in Workers, LoopHead(w) \/ Evaluate(w) \/ Block(w) \/ Leave(w) \/ SpuriousWake(w)
        PROVE  Types'
    BY <1>7 DEF LoopHead, Evaluate, Test, Block, Leave, SpuriousWake
  <1>8. ASSUME NEW w \in Workers, Take(w) PROVE Types'
    <2>1. Head(tasks_) \in Tasks /\ Tail(tasks_) \in Seq(Tasks)
      BY <1>8, TailInSeq DEF Take
    <2>2. Append(started, Head(tasks_)) \in Seq(Tasks)
      BY <2>1
    <2> QED  BY <1>8, <2>1, <2>2 DEF Take, Rest
  <1>9. ASSUME NEW w \in Workers, CountBusy(w) \/ RunTask(w) \/ CountIdle(w)
        PROVE  Types'
    BY <1>9 DEF CountBusy, RunTask, CountIdle, Submitted
  <1> QED  BY <1>1, <1>a, <1>2, <1>3, <1>4, <1>5, <1>6, <1>7, <1>8, <1>9
           DEF Next, Adding, Destroying, Submit, Worker

LEMMA BuildingKept == ASSUME IInv, Next PROVE Building'
  <1> USE PoolAssumption DEF PoolAssumption, IInv, Types, Building,
          shared, work, calls, owner
  <1>0. Cardinality(Workers) \in Nat /\ Workers # {}
    BY FS_CardinalityType, FS_EmptySet
  <1>1. CASE (\E w \in Workers : Spawn(w)) \/ AddThread
    BY <1>0, <1>1 DEF Spawn, AddThread, Workforce
  <1>2. CASE CountWorker \/ Added
    BY <1>0, <1>2 DEF CountWorker, Added
  <1>3. CASE Destroy \/ WakeAll \/ Join
    BY <1>3 DEF Destroy, WakeAll, Join
  <1>4. ASSUME NEW c \in Clients, Check(c) PROVE Building'
    BY <1>4 DEF Check, InUse
  <1>5. ASSUME NEW c \in Clients, Enqueue(c) \/ NotifyOne(c) PROVE Building'
    <2>1. built
      BY <1>5 DEF Enqueue, Push, NotifyOne
    <2> QED  BY <1>5, <2>1 DEF Enqueue, Push, NotifyOne
  <1>7. ASSUME NEW w \in Workers, LoopHead(w) \/ Evaluate(w) \/ Block(w) \/ Leave(w) \/ SpuriousWake(w)
        PROVE  Building'
    BY <1>7 DEF LoopHead, Evaluate, Test, Block, Leave, SpuriousWake
  <1>8. ASSUME NEW w \in Workers, Take(w) PROVE Building'
    BY <1>8 DEF Take
  <1>9. ASSUME NEW w \in Workers, CountBusy(w) \/ RunTask(w) \/ CountIdle(w)
        PROVE  Building'
    BY <1>9 DEF CountBusy, RunTask, CountIdle
  <1> QED  BY <1>1, <1>2, <1>3, <1>4, <1>5, <1>7, <1>8, <1>9
           DEF Next, Adding, Destroying, Submit, Worker

LEMMA WorkforceKept == ASSUME IInv, Next PROVE Workforce'
  <1> USE DEF IInv, Types, Workforce, WorkerAt, OwnerAt, Goto,
          shared, work, calls, owner
  <1>1. CASE (\E w \in Workers : Spawn(w)) \/ AddThread
    BY <1>1 DEF Spawn, AddThread
  <1>2. CASE CountWorker \/ Added
    BY <1>2 DEF CountWorker, Added
  <1>3. CASE Destroy \/ WakeAll \/ Join
    BY <1>3 DEF Destroy, WakeAll, Join, AllExited, Blocked
  <1>4. ASSUME NEW c \in Clients, Check(c) PROVE Workforce'
    BY <1>4 DEF Check
  <1>5. ASSUME NEW c \in Clients, Enqueue(c) PROVE Workforce'
    <2>1. mutex_ = NoThread
      BY <1>5 DEF Enqueue
    <2>2. \A w \in Workers : pc[w] # "pop"
      BY <2>1, PoolAssumption DEF Wakeful, MutexHeld, PoolAssumption
    <2> QED  BY <1>5, <2>2 DEF Enqueue, Push
  <1>6. ASSUME NEW c \in Clients, NotifyOne(c) PROVE Workforce'
    BY <1>6 DEF NotifyOne, Blocked
  <1>7. ASSUME NEW w \in Workers, LoopHead(w) \/ Evaluate(w) \/ Block(w) \/ Leave(w) \/ SpuriousWake(w)
        PROVE  Workforce'
    BY <1>7 DEF LoopHead, Evaluate, Test, Wanted, Block, Leave, SpuriousWake
  <1>8. ASSUME NEW w \in Workers, Take(w) PROVE Workforce'
    <2>1. \A v \in Workers : pc[v] = "pop" => v = w
      BY <1>8 DEF Take, Wakeful, MutexHeld
    <2> QED  BY <1>8, <2>1 DEF Take
  <1>9. ASSUME NEW w \in Workers, CountBusy(w) \/ RunTask(w) \/ CountIdle(w)
        PROVE  Workforce'
    BY <1>9 DEF CountBusy, RunTask, CountIdle
  <1> QED  BY <1>1, <1>2, <1>3, <1>4, <1>5, <1>6, <1>7, <1>8, <1>9
           DEF Next, Adding, Destroying, Submit, Worker

LEMMA WakefulKept == ASSUME IInv, Next PROVE Wakeful'
  <1> USE PoolAssumption DEF PoolAssumption, IInv, Types, Wakeful, MutexHeld, SleepsOnEmpty,
          NoStrandedTask, WorkerAt, Goto, shared, work, calls, owner
  <1>1. CASE (\E w \in Workers : Spawn(w)) \/ AddThread
    BY SMTT(30), <1>1 DEF Spawn, AddThread, Workforce
  <1>2. CASE CountWorker \/ Added
    BY <1>2 DEF CountWorker, Added
  <1>3. CASE Destroy \/ WakeAll \/ Join
    BY <1>3 DEF Destroy, WakeAll, Join, Blocked, Workforce
  <1>4. ASSUME NEW c \in Clients, Check(c) PROVE Wakeful'
    BY <1>4 DEF Check
  <1>5. ASSUME NEW c \in Clients, Enqueue(c) PROVE Wakeful'
    BY <1>5 DEF Enqueue, Push
  <1>6. ASSUME NEW c \in Clients, NotifyOne(c) PROVE Wakeful'
    <2>1. CASE Blocked = {}
      <3>1. tasks_ # << >> /\ run_ => \E w \in threads_ : pc[w] \notin {"blocked", "sleep"}
        <4>1. built
          BY <1>6 DEF NotifyOne, Building
        <4>2. PICK w \in threads_ : TRUE
          BY <4>1 DEF Building
        <4>3. tasks_ # << >> => pc[w] \notin {"blocked", "sleep"}
          BY <2>1, <4>2 DEF Blocked
        <4> QED  BY <4>2, <4>3
      <3> QED  BY <1>6, <2>1, <3>1 DEF NotifyOne
    <2>2. CASE Blocked # {}
      <3>1. PICK w \in Blocked : Goto(w, "lock")
        BY <1>6, <2>2 DEF NotifyOne
      <3>2. w \in threads_ /\ w \in Workers /\ pc[w] = "blocked"
        BY <3>1 DEF Blocked, Workforce
      <3> QED  BY <1>6, <3>1, <3>2 DEF NotifyOne
    <2> QED  BY <2>1, <2>2
  <1>7. ASSUME NEW w \in Workers, LoopHead(w) \/ SpuriousWake(w)
        PROVE  Wakeful'
    <2>1. w \in threads_
      BY <1>7 DEF LoopHead, SpuriousWake, Workforce
    <2> QED  BY <1>7, <2>1 DEF LoopHead, SpuriousWake
  <1>8. ASSUME NEW w \in Workers, Evaluate(w) PROVE Wakeful'
    <2>1. w \in threads_
      BY <1>8 DEF Evaluate, Test, Workforce
    <2> QED  BY <1>8, <2>1 DEF Evaluate, Test, Wanted
  <1>9. ASSUME NEW w \in Workers, Block(w) PROVE Wakeful'
    BY <1>9 DEF Block
  <1>10. ASSUME NEW w \in Workers, Leave(w) PROVE Wakeful'
    BY <1>10 DEF Leave
  <1>11. ASSUME NEW w \in Workers, Take(w) PROVE Wakeful'
    <2>1. w \in threads_ /\ \A v \in Workers : pc[v] \notin {"sleep", "pop"} \/ v = w
      BY <1>11 DEF Take, Workforce
    <2> QED  BY <1>11, <2>1 DEF Take
  <1>12. ASSUME NEW w \in Workers, CountBusy(w) \/ RunTask(w) \/ CountIdle(w)
         PROVE  Wakeful'
    <2>1. w \in threads_
      BY <1>12 DEF CountBusy, RunTask, CountIdle, Workforce
    <2>2. CASE CountBusy(w)
      BY <2>1, <2>2 DEF CountBusy
    <2>3. CASE RunTask(w)
      BY <2>1, <2>3 DEF RunTask
    <2>4. CASE CountIdle(w)
      BY <2>1, <2>4 DEF CountIdle
    <2> QED  BY <1>12, <2>2, <2>3, <2>4
  <1> QED  BY <1>1, <1>2, <1>3, <1>4, <1>5, <1>6, <1>7, <1>8, <1>9, <1>10, <1>11, <1>12
           DEF Next, Adding, Destroying, Submit, Worker

LEMMA SubmittedKept == ASSUME IInv, Next PROVE Submitted'
  <1> USE PoolAssumption DEF PoolAssumption, IInv, Types, Submitted, WorkerAt, Goto,
          shared, work, calls, owner
  <1>1. CASE (\E w \in Workers : Spawn(w)) \/ AddThread
    BY <1>1 DEF Spawn, AddThread, Workforce
  <1>2. CASE CountWorker \/ Added \/ Destroy \/ Join
    BY <1>2 DEF CountWorker, Added, Destroy, Join
  <1>3. CASE WakeAll
    BY <1>3 DEF WakeAll, Blocked
  <1>4. ASSUME NEW c \in Clients, Check(c) PROVE Submitted'
    <2>1. PICK k \in Unsubmitted : arg' = [arg EXCEPT ![c] = k]
      BY <1>4 DEF Check
    <2>2. /\ k # NoTask
          /\ \A i \in 1 .. Len(accepted) : accepted[i] # k
          /\ \A d \in Clients : arg[d] # k
      BY <2>1 DEF Unsubmitted
    <2> QED  BY <1>4, <2>1, <2>2 DEF Check
  <1>5. ASSUME NEW c \in Clients, Enqueue(c) PROVE Submitted'
    <2>1. arg[c] \in Tasks
      BY <1>5 DEF Enqueue, Push
    <2>2. accepted' = Append(accepted, arg[c])
      BY <1>5 DEF Enqueue, Push
    <2>3. /\ Len(accepted') = Len(accepted) + 1 /\ Len(accepted) \in Nat
          /\ \A i \in 1 .. Len(accepted) : accepted'[i] = accepted[i]
          /\ accepted'[Len(accepted) + 1] = arg[c]
      BY <2>1, <2>2, AppendProperties, LenProperties
    <2>4. \A i \in 1 .. Len(accepted') : i \in 1 .. Len(accepted) \/ i = Len(accepted) + 1
      <3> HIDE DEF IInv, Types, Submitted
      <3> QED  BY <2>3
    <2>5. /\ client' = [client EXCEPT ![c] = "pushed"] /\ arg' = [arg EXCEPT ![c] = NoTask]
          /\ pc' = pc /\ task' = task /\ client[c] = "checked"
      BY <1>5 DEF Enqueue, Push
    <2>6. \A i, j \in 1 .. Len(accepted') : accepted'[i] = accepted'[j] => i = j
      <3>1. \A i, j \in 1 .. Len(accepted) : accepted[i] = accepted[j] => i = j
        OBVIOUS
      <3>2. \A i \in 1 .. Len(accepted) : arg[c] # accepted[i]
        OBVIOUS
      <3> HIDE DEF IInv, Types, Submitted
      <3> QED  BY <2>3, <2>4, <3>1, <3>2
    <2>7. \A d \in Clients, i \in 1 .. Len(accepted') : arg'[d] # accepted'[i]
      <3> SUFFICES ASSUME NEW d \in Clients, NEW i \in 1 .. Len(accepted')
                   PROVE  arg'[d] # accepted'[i]
        OBVIOUS
      <3>1. accepted'[i] \in Tasks
        <4>1. accepted' \in Seq(Tasks)
          BY <2>1, <2>2, AppendProperties
        <4> QED  BY <4>1, ElementOfSeq
      <3>2. CASE d = c  BY <2>5, <3>1, <3>2
      <3>3. CASE d # c
        <4>1. arg'[d] = arg[d] /\ (arg[d] = arg[c] => arg[d] = NoTask)
          BY <2>5, <3>3
        <4>2. \A j \in 1 .. Len(accepted) : arg[d] # accepted[j]
          OBVIOUS
        <4>3. arg[c] # NoTask
          BY <2>1
        <4> HIDE DEF IInv, Types, Submitted
        <4>4. CASE i \in 1 .. Len(accepted)
          BY <2>3, <4>1, <4>2, <4>4
        <4>5. CASE i = Len(accepted) + 1
          BY <2>3, <3>1, <4>1, <4>3, <4>5, PoolAssumption DEF PoolAssumption
        <4> QED  BY <2>4, <4>4, <4>5
      <3> QED  BY <3>2, <3>3
    <2> QED  BY <2>5, <2>6, <2>7
  <1>6. ASSUME NEW c \in Clients, NotifyOne(c) PROVE Submitted'
    BY <1>6 DEF NotifyOne, Blocked
  <1>7. ASSUME NEW w \in Workers, LoopHead(w) \/ Evaluate(w) \/ Block(w) \/ Leave(w) \/ SpuriousWake(w)
        PROVE  Submitted'
    BY SMTT(30), <1>7 DEF LoopHead, Evaluate, Test, Block, Leave, SpuriousWake
  <1>8. ASSUME NEW w \in Workers, Take(w) PROVE Submitted'
    <2>1. Head(tasks_) \in Tasks
      BY <1>8, TailInSeq DEF Take
    <2> QED  BY <1>8, <2>1 DEF Take
  <1>9. ASSUME NEW w \in Workers, CountBusy(w) \/ RunTask(w) \/ CountIdle(w)
        PROVE  Submitted'
    BY <1>9 DEF CountBusy, RunTask, CountIdle
  <1> QED  BY <1>1, <1>2, <1>3, <1>4, <1>5, <1>6, <1>7, <1>8, <1>9
           DEF Next, Adding, Destroying, Submit, Worker

LEMMA FifoKept == ASSUME IInv, Next PROVE FifoDispatch'
  <1> USE DEF IInv, Types, FifoDispatch, shared, work, calls, owner
  <1>1. ASSUME NEW c \in Clients, Enqueue(c) PROVE FifoDispatch'
    <2>1. arg[c] \in Tasks
      BY <1>1 DEF Enqueue, Push, Submitted
    <2>2. Append(started \o tasks_, arg[c]) = started \o Append(tasks_, arg[c])
      <3>1. <<arg[c]>> \in Seq(Tasks) /\ started \o tasks_ \in Seq(Tasks)
        BY <2>1
      <3>2. Append(started \o tasks_, arg[c]) = (started \o tasks_) \o <<arg[c]>>
        BY <2>1, <3>1, AppendIsConcat
      <3>3. Append(tasks_, arg[c]) = tasks_ \o <<arg[c]>>
        BY <2>1, AppendIsConcat
      <3> QED  BY SMTT(30), <3>1, <3>2, <3>3, ConcatAssociative
    <2> QED  BY <1>1, <2>2 DEF Enqueue, Push
  <1>2. ASSUME NEW w \in Workers, Take(w) PROVE FifoDispatch'
    <2>1. /\ Head(tasks_) \in Tasks /\ Tail(tasks_) \in Seq(Tasks)
          /\ tasks_ = <<Head(tasks_)>> \o Tail(tasks_)
      BY <1>2, TailInSeq DEF Take
    <2>2. <<Head(tasks_)>> \in Seq(Tasks)
      BY <2>1
    <2>3. Append(started, Head(tasks_)) \o Tail(tasks_) = started \o tasks_
      BY SMTT(30), <2>1, <2>2, AppendIsConcat, ConcatAssociative
    <2> QED  BY <1>2, <2>3 DEF Take, Rest
  <1>3. CASE Adding \/ AddThread \/ Destroy \/ Destroying
    BY <1>3 DEF Adding, Spawn, CountWorker, Added, AddThread, Destroy, Destroying, WakeAll, Join
  <1>4. ASSUME NEW c \in Clients, Check(c) \/ NotifyOne(c) PROVE FifoDispatch'
    BY <1>4 DEF Check, NotifyOne
  <1>5. ASSUME NEW w \in Workers, ~Take(w), Worker(w) \/ SpuriousWake(w) PROVE FifoDispatch'
    BY <1>5 DEF Worker, LoopHead, Evaluate, Test, Block, Leave, CountBusy, RunTask, CountIdle, SpuriousWake
  <1> QED  BY <1>1, <1>2, <1>3, <1>4, <1>5 DEF Next, Submit

(* Counting one busy worker more or less. *)
LEMMA BusyCount ==
  ASSUME IInv
  PROVE  /\ IsFiniteSet(Busy) /\ IsFiniteSet(threads_)
         /\ Cardinality(Busy) \in Nat /\ Cardinality(threads_) \in Nat
         /\ Cardinality(threads_) <= Cardinality(Workers)
         /\ Cardinality(Busy) <= Cardinality(threads_)
         /\ \A w \in Workers : w \notin Busy => Cardinality(Busy \cup {w}) = Cardinality(Busy) + 1
         /\ \A w \in Workers : w \in Busy => Cardinality(Busy \ {w}) = Cardinality(Busy) - 1
         /\ \A w \in Workers : w \notin threads_ =>
                                 Cardinality(threads_ \cup {w}) = Cardinality(threads_) + 1
  <1>1. Busy \subseteq threads_ /\ threads_ \subseteq Workers
    BY DEF IInv, Types, Workforce, Busy
  <1>2. IsFiniteSet(Busy) /\ IsFiniteSet(threads_)
    BY <1>1, PoolAssumption, FS_Subset DEF PoolAssumption
  <1> QED  BY <1>1, <1>2, PoolAssumption, FS_Subset, FS_CardinalityType, FS_AddElement,
              FS_RemoveElement DEF PoolAssumption

LEMMA IdleKept == ASSUME IInv, Next PROVE IdleAccounting'
  <1> USE BusyCount DEF IInv, Types, IdleAccounting, WorkerAt, OwnerAt, Goto, shared, work, calls, owner
  <1>1. ASSUME NEW w \in Workers, Spawn(w) PROVE IdleAccounting'
    <2>1. Busy' = Busy
      BY <1>1 DEF Spawn, Busy, Workforce
    <2>2. w \notin threads_ /\ threads_' = threads_ \cup {w} /\ num_' = num_
          /\ main = "adding" /\ main' = "counting"
      BY <1>1 DEF Spawn
    <2>3. Cardinality(threads_') = Cardinality(threads_) + 1
      BY <2>2
    <2> QED  BY <2>1, <2>2, <2>3
  <1>2. CASE CountWorker \/ Added \/ AddThread \/ Destroy \/ Join
    <2>1. Busy' = Busy
      BY <1>2 DEF CountWorker, Added, AddThread, Destroy, Join, Busy
    <2> QED  BY <1>2, <2>1 DEF CountWorker, Added, AddThread, Destroy, Join
  <1>3. CASE WakeAll
    <2>1. Busy' = Busy
      BY <1>3 DEF WakeAll, Busy, Blocked
    <2> QED  BY <1>3, <2>1 DEF WakeAll
  <1>4. ASSUME NEW c \in Clients, Check(c) \/ Enqueue(c) PROVE IdleAccounting'
    <2>1. Busy' = Busy
      BY <1>4 DEF Check, Enqueue, Push, Busy
    <2> QED  BY <1>4, <2>1 DEF Check, Enqueue, Push
  <1>5. ASSUME NEW c \in Clients, NotifyOne(c) PROVE IdleAccounting'
    <2>1. Busy' = Busy
      BY <1>5 DEF NotifyOne, Busy, Blocked
    <2> QED  BY <1>5, <2>1 DEF NotifyOne
  <1>6. ASSUME NEW w \in Workers,
               LoopHead(w) \/ Evaluate(w) \/ Block(w) \/ Leave(w) \/ SpuriousWake(w) \/ Take(w) \/ RunTask(w)
        PROVE  IdleAccounting'
    <2>1. Busy' = Busy
      BY <1>6 DEF LoopHead, Evaluate, Test, Block, Leave, SpuriousWake, Take, RunTask, Busy
    <2> QED  BY <1>6, <2>1 DEF LoopHead, Evaluate, Test, Block, Leave, SpuriousWake, Take, RunTask
  <1>7. ASSUME NEW w \in Workers, CountBusy(w) PROVE IdleAccounting'
    <2>1. Busy' = Busy \cup {w} /\ w \notin Busy
      BY <1>7 DEF CountBusy, Busy
    <2>2. num_' = num_ - 1 /\ UNCHANGED <<threads_, main>>
      BY <1>7 DEF CountBusy
    <2>3. Cardinality(Busy') = Cardinality(Busy) + 1
      BY <2>1
    <2> QED  BY <2>2, <2>3
  <1>8. ASSUME NEW w \in Workers, CountIdle(w) PROVE IdleAccounting'
    <2>1. Busy' = Busy \ {w} /\ w \in Busy
      BY <1>8 DEF CountIdle, Busy
    <2>2. num_' = num_ + 1 /\ UNCHANGED <<threads_, main>>
      BY <1>8 DEF CountIdle
    <2>3. Cardinality(Busy') = Cardinality(Busy) - 1
      BY <2>1
    <2> QED  BY <2>2, <2>3
  <1> QED  BY <1>1, <1>2, <1>3, <1>4, <1>5, <1>6, <1>7, <1>8
           DEF Next, Adding, Destroying, Submit, Worker

LEMMA RunsOnceKept == ASSUME IInv, Next PROVE RunsOnce'
  <1> USE DEF IInv, Types, RunsOnce, Started, shared, work, calls, owner
  <1>1. CASE Adding \/ AddThread \/ Destroy \/ Destroying
    BY <1>1 DEF Adding, Spawn, CountWorker, Added, AddThread, Destroy, Destroying, WakeAll, Join
  <1>2. ASSUME NEW c \in Clients, Check(c) \/ Submit(c) PROVE RunsOnce'
    BY <1>2 DEF Check, Submit, Enqueue, Push, NotifyOne
  <1>3. ASSUME NEW w \in Workers,
               \/ LoopHead(w) \/ Evaluate(w) \/ Block(w) \/ Leave(w) \/ SpuriousWake(w)
               \/ CountBusy(w) \/ CountIdle(w)
        PROVE  RunsOnce'
    BY <1>3 DEF LoopHead, Evaluate, Test, Block, Leave, CountBusy, CountIdle, SpuriousWake
  <1>4. ASSUME NEW w \in Workers, RunTask(w) PROVE RunsOnce'
    <2>1. /\ task' = [task EXCEPT ![w] = NoTask] /\ started' = started
          /\ finished' = finished \cup {task[w]} /\ task[w] \in Tasks
      BY <1>4 DEF RunTask, Submitted
    <2> QED  BY SMTT(30), <2>1, PoolAssumption DEF PoolAssumption
  <1>5. ASSUME NEW w \in Workers, Take(w) PROVE RunsOnce'
    <2> DEFINE k == Head(tasks_)
    <2>1. /\ k \in Tasks /\ task[w] = NoTask /\ tasks_ # << >>
          /\ task' = [task EXCEPT ![w] = k] /\ finished' = finished /\ started' = Append(started, k)
      BY <1>5, TailInSeq DEF Take, Submitted
    <2>2. k \notin Started
      <3>1. Len(accepted) = Len(started) + Len(tasks_) /\ Len(tasks_) \in Nat \ {0} /\ Len(started) \in Nat
        BY <2>1, ConcatProperties, LenProperties, EmptySeq DEF FifoDispatch
      <3>2. accepted[Len(started) + 1] = k
        BY <2>1, <3>1, ConcatProperties DEF FifoDispatch
      <3>3. \A i \in 1 .. Len(started) : accepted[i] = started[i]
        BY <3>1, ConcatProperties DEF FifoDispatch
      <3>4. \A i \in 1 .. Len(started) : i \in 1 .. Len(accepted) /\ i # Len(started) + 1
        BY <3>1
      <3>5. Len(started) + 1 \in 1 .. Len(accepted)
        BY <3>1
      <3> QED  BY <3>2, <3>3, <3>4, <3>5 DEF Submitted
    <2>3. Started' = Started \cup {k}
      <3>1. /\ Len(started') = Len(started) + 1 /\ Len(started) \in Nat
            /\ \A i \in 1 .. Len(started) : started'[i] = started[i]
            /\ started'[Len(started) + 1] = k
        BY <2>1, AppendProperties, LenProperties
      <3> HIDE DEF k, IInv, Types, RunsOnce
      <3>2. \A i \in 1 .. Len(started') : i \in 1 .. Len(started) \/ i = Len(started) + 1
        BY <3>1
      <3>3. \A i \in 1 .. Len(started) : i \in 1 .. Len(started')
        BY <3>1
      <3>4. Len(started) + 1 \in 1 .. Len(started')
        BY <3>1
      <3> QED  BY <3>1, <3>2, <3>3, <3>4
    <2>4. \A v \in Workers : task[v] # k
      BY <2>1, <2>2
    <2>5. k \notin finished
      BY <2>1, <2>2
    <2> HIDE DEF Started, k
    <2>6. \A j \in Tasks : j \in Started' <=> j \in finished' \/ \E v \in Workers : task'[v] = j
      BY <2>1, <2>3, PoolAssumption DEF PoolAssumption
    <2>7. \A j \in Tasks : \A v \in Workers : task'[v] = j =>
             j \notin finished' /\ \A u \in Workers : task'[u] = j => u = v
      BY <2>1, <2>4, <2>5, PoolAssumption DEF PoolAssumption
    <2> QED  BY <2>6, <2>7
  <1> QED  BY <1>1, <1>2, <1>3, <1>4, <1>5 DEF Next, Worker

LEMMA InvariantHolds == Spec => []IInv
  <1>1. Init => IInv
    <2> SUFFICES ASSUME Init PROVE IInv
      OBVIOUS
    <2> USE PoolAssumption DEF PoolAssumption, Init
    <2>1. Cardinality(Workers) \in Nat /\ Workers # {} /\ Cardinality({}) = 0
      BY FS_CardinalityType, FS_EmptySet
    <2>2. Types
      <3>1. toAdd \in 0 .. Cardinality(Workers)
        BY <2>1
      <3>2. tasks_ \in Seq(Tasks) /\ accepted \in Seq(Tasks) /\ started \in Seq(Tasks)
        OBVIOUS
      <3>3. /\ pc \in [Workers -> WorkerAt] /\ task \in [Workers -> Tasks \cup {NoTask}]
            /\ client \in [Clients -> ClientAt] /\ arg \in [Clients -> Tasks \cup {NoTask}]
        BY DEF WorkerAt, ClientAt
      <3>4. run_ \in BOOLEAN /\ built \in BOOLEAN
        OBVIOUS
      <3>5. /\ threads_ \in SUBSET Workers /\ num_ \in Int
            /\ mutex_ \in Workers \cup {NoThread} /\ main \in OwnerAt
            /\ finished \in SUBSET Tasks
        BY DEF OwnerAt
      <3> QED  BY <3>1, <3>2, <3>3, <3>4, <3>5 DEF Types
    <2>3. Building /\ Workforce /\ Submitted /\ Wakeful /\ RunsOnce
      BY DEF Building, Workforce, Submitted, Wakeful, MutexHeld, SleepsOnEmpty, NoStrandedTask,
             RunsOnce, Started
    <2>4. IdleAccounting
      <3>1. Busy = {}  BY DEF Busy
      <3> QED  BY <2>1, <3>1 DEF IdleAccounting
    <2>5. FifoDispatch
      BY DEF FifoDispatch
    <2> QED  BY <2>2, <2>3, <2>4, <2>5 DEF IInv
  <1>2. IInv /\ [Next]_vars => IInv'
    <2> SUFFICES ASSUME IInv, [Next]_vars PROVE IInv'
      OBVIOUS
    <2>1. CASE Next
      BY <2>1, TypesKept, BuildingKept, WorkforceKept, SubmittedKept, WakefulKept, IdleKept,
         FifoKept, RunsOnceKept DEF IInv
    <2>2. CASE UNCHANGED vars
      BY <2>2 DEF vars, shared, work, calls, owner, IInv, Types, Building, Workforce, Submitted,
         Wakeful, MutexHeld, SleepsOnEmpty, NoStrandedTask, IdleAccounting, Busy, FifoDispatch,
         RunsOnce, Started
    <2> QED  BY <2>1, <2>2
  <1> QED  BY <1>1, <1>2, PTL DEF Spec

(* Every variable keeps its type; num_ stays between -1 and the number of  *)
(* threads the pool may have, so idlThreadCnt() is never further off.      *)
THEOREM TypeCorrect == Spec => []TypeOK
  <1>1. IInv => TypeOK
    <2> SUFFICES ASSUME IInv PROVE TypeOK
      OBVIOUS
    <2>1. Cardinality(Workers) \in Nat
      BY PoolAssumption, FS_CardinalityType DEF PoolAssumption
    <2>2. num_ \in -1 .. Cardinality(Workers)
      BY <2>1, BusyCount DEF IInv, Types, IdleAccounting
    <2> QED  BY <2>2 DEF IInv, Types, TypeOK
  <1> QED  BY <1>1, InvariantHolds, PTL

(* No lost wakeup: a queued task always has a worker awake, or a           *)
(* notification on its way, while the pool runs.                           *)
THEOREM NoTaskStranded == Spec => []NoStrandedTask
  <1>1. IInv => NoStrandedTask  BY DEF IInv, Wakeful
  <1> QED  BY <1>1, InvariantHolds, PTL

(* Tasks are taken in the order they were submitted, each by one worker    *)
(* and once.                                                               *)
THEOREM TasksRunOnceInOrder == Spec => [](FifoDispatch /\ RunsOnce)
  <1>1. IInv => FifoDispatch /\ RunsOnce  BY DEF IInv
  <1> QED  BY <1>1, InvariantHolds, PTL

(* When the destructor has returned, no worker and no task is running.     *)
THEOREM QuietAfterJoin == Spec => []DoneMeansQuiet
  <1>1. IInv => DoneMeansQuiet
    <2> SUFFICES ASSUME IInv, main = "done" PROVE DoneMeansQuiet
      BY DEF DoneMeansQuiet
    <2>1. \A w \in Workers : pc[w] \in {"unborn", "exited"}
      BY DEF IInv, Workforce
    <2>2. \A w \in Workers : task[w] = NoTask
      BY <2>1 DEF IInv, Types, Submitted
    <2>3. Started \subseteq Tasks /\ finished \subseteq Tasks
      BY ElementOfSeq DEF IInv, Types, Started
    <2>4. \A k \in Tasks : k \in Started <=> k \in finished
      BY <2>2, PoolAssumption DEF IInv, RunsOnce, PoolAssumption
    <2>5. finished = Started
      BY <2>3, <2>4
    <2> QED  BY <2>1, <2>5 DEF DoneMeansQuiet
  <1> QED  BY <1>1, InvariantHolds, PTL
=============================================================================
