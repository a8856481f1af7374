----------------------------- MODULE MCThreads -----------------------------
(***************************************************************************)
(* The threads of the concurrency exercises that wait for one another, at  *)
(* locks, in pools and at barriers, those that read a skip list while one  *)
(* writes, and the thread that evaluates MetaNN's plan; each program       *)
(* checked on its own with the fairness of its threads: subject says which *)
(* one a behaviour is about, and keeps its first value.  Each has the      *)
(* variables of its module; those the subject has no use for stay None.    *)
(***************************************************************************)
EXTENDS Integers, Sequences

CONSTANTS None, NoThread,
          N, Kids, Roots,                               \* of the pools
          Callers, MaxCalls,                            \* of the locked queues
          Lockers,                                      \* of the mutex and the table
          Mutexes, hierarchy_value, MaxLevel,
          Keys, Values, Buckets, Hash, MaxUpdates,      \* of the table
          Parts, Size,                                  \* of the parallel find
          Length, Value, Blocks,                        \* of the sums
          Members, MaxBlocks,                           \* of the pipelines
          Nodes, Null, Root, MaxWalks,                  \* of the list
          SkipKeys, Height, Readers,                    \* of the skip list
          Exprs, Kind, Group, Operands, Asked,          \* of the evaluation plan
          MaxElems, MaxLayers

\* Functions for the configuration: two tasks that submit one each, three
\* mutexes on two levels, keys that share a bucket, values whose sums tell
\* what was added.
TwoSubmit == <<<<3>>, <<4>>, << >>, << >>>>
TwoRoots == <<1, 2>>
Levels == [x \in Mutexes |-> IF x = "high" THEN 5 ELSE 3]
Itself == [k \in Keys |-> k]
Powers == [i \in 1 .. Length |-> 2 ^ (i - 1)]
ThreeBlocks == <<<<1, 1>>, <<2, 3>>, <<4, 5>>>>

\* Expressions: 3 = h(1, 2) and 2 = f(1) of the datum 1; 4, the derivative of
\* a softmax, of 3 and 2; 5 stands for 4 in 6 = g(5, 2); 7 is a softmax of no
\* columns, read by 8; 9 is an array of 2.
Kinds == <<"Data", "Oper", "Oper", "Late", "Dynamic", "Oper", "Void", "Oper", "Array">>
Groups == <<"-", "f", "h", "SoftmaxDerivative", "-", "g", "Softmax", "f", "Array">>
Args == << << >>, <<1>>, <<1, 2>>, <<3, 2>>, <<4>>, <<5, 2>>, <<1>>, <<7, 3>>, <<2>> >>

VARIABLES subject,
          done, scheme, data, waiting, pc, bad, result,   \* of several
          version, pool_work_queue, local_work_queue, stack, look, ready,
          exited,
          flag, thread_cond, set_clear_mutex, lk, waiter, interrupter,
          provider, interrupted,
          elem, buffer, round, count, spaces, generation, gen, refill, promise,
          blocks, given, chunks, sink, arrived,
          head, tail, head_mutex, tail_mutex, wants, got, calls,
          internal_mutex, previous_hierarchy_value,
          this_thread_hierarchy_value, m, taken,
          buckets, mutex, locks, copied, res, answer, updates,
          matches, begin, found,
          next, live, node_mutex, op, match, current, following, seen, due, walks,
          next_, max_height_, heights, insert, find, node_, asked,
          elems, evaluated, m_evalLayers, evals, returned, registered

ofPool == <<version, pool_work_queue, local_work_queue, stack, look, ready,
            exited>>
ofInterrupted == <<flag, thread_cond, set_clear_mutex, lk, waiter,
                   interrupter, provider, interrupted>>
ofSum == <<elem, buffer, round, count, spaces, generation, gen, refill,
           promise>>
ofPipeline == <<blocks, given, chunks, sink, arrived>>
ofLocked == <<head, tail, head_mutex, tail_mutex, wants, got, calls>>
ofMutex == <<internal_mutex, previous_hierarchy_value,
             this_thread_hierarchy_value, m, taken>>
ofTable == <<buckets, mutex, locks, copied, res, answer, updates>>
ofFind == <<matches, begin, found>>
ofList == <<next, live, node_mutex, op, match, current, following, seen, due, walks>>
ofSkip == <<next_, max_height_, heights, insert, find, node_, asked>>
ofPlan == <<elems, evaluated, m_evalLayers, evals, returned, registered>>
vars == <<subject, ofPool, ofInterrupted, ofSum, ofPipeline, ofLocked, ofMutex,
          ofTable, ofFind, ofList, ofSkip, ofPlan, done, scheme, data, waiting, pc, bad, result>>

NoPool == /\ version = None /\ pool_work_queue = None /\ local_work_queue = None
          /\ stack = None /\ look = None /\ ready = None /\ exited = None
NoInterrupted == /\ flag = None /\ thread_cond = None /\ set_clear_mutex = None
                 /\ lk = None /\ waiter = None /\ interrupter = None /\ provider = None
                 /\ interrupted = None
NoSum == /\ elem = None /\ buffer = None /\ round = None /\ count = None
         /\ spaces = None /\ generation = None /\ gen = None /\ refill = None
         /\ promise = None
NoPipeline == /\ blocks = None /\ given = None /\ chunks = None /\ sink = None
              /\ arrived = None
NoLocked == /\ head = None /\ tail = None /\ head_mutex = None /\ tail_mutex = None
            /\ wants = None /\ got = None /\ calls = None
NoMutex == /\ internal_mutex = None /\ previous_hierarchy_value = None
           /\ this_thread_hierarchy_value = None /\ m = None /\ taken = None
NoTable == /\ buckets = None /\ mutex = None /\ locks = None /\ copied = None
           /\ res = None /\ answer = None /\ updates = None
NoFind == /\ matches = None /\ begin = None /\ found = None
NoList == /\ next = None /\ live = None /\ node_mutex = None /\ op = None /\ match = None
          /\ current = None /\ following = None /\ seen = None /\ due = None /\ walks = None
NoSkip == /\ next_ = None /\ max_height_ = None /\ heights = None /\ insert = None
          /\ find = None /\ node_ = None /\ asked = None
NoPlan == /\ elems = None /\ evaluated = None /\ m_evalLayers = None /\ evals = None
          /\ returned = None /\ registered = None

Pool == INSTANCE StealingPool WITH Versions <- 1 .. 5
Interrupted == INSTANCE Interrupt WITH Schemes <- {"plain", "timed", "predicate", "any", "future"}
Sum == INSTANCE PartialSum WITH Schemes <- {"pairs", "chunks"}
Pipeline == INSTANCE BlockPipeline WITH N <- Members, Schemes <- {"barrier", "flex"}
Locked == INSTANCE LockedQueue WITH Threads <- Callers
Mutex == INSTANCE HierarchicalMutex WITH Threads <- Lockers
Table == INSTANCE LookupTable WITH Threads <- Lockers
Find == INSTANCE ParallelFind WITH Blocks <- Parts, Schemes <- {"promise", "async", "any"}
List == INSTANCE ThreadsafeList WITH Threads <- Lockers, m <- node_mutex, calls <- walks,
                                     MaxCalls <- MaxWalks
Skip == INSTANCE SkipList WITH Keys <- SkipKeys, KMaxHeight <- Height, got <- asked
Plan == INSTANCE EvalPlan WITH calls <- evals

InitPool == /\ subject = "pool" /\ Pool!Init /\ NoInterrupted /\ NoSum /\ NoPipeline
            /\ NoLocked /\ NoMutex /\ NoTable /\ NoFind /\ NoList /\ NoSkip /\ NoPlan /\ scheme = None /\ data = None
            /\ waiting = None /\ pc = None /\ bad = None /\ result = None
InitInterrupted == /\ subject = "interrupt" /\ Interrupted!Init /\ NoPool /\ NoSum
                   /\ NoPipeline /\ NoLocked /\ NoMutex /\ NoTable /\ NoFind /\ NoList /\ NoSkip /\ NoPlan
                   /\ done = None /\ pc = None /\ bad = None /\ result = None
InitSum == /\ subject = "sum" /\ Sum!Init /\ NoPool /\ NoInterrupted /\ NoPipeline
           /\ NoLocked /\ NoMutex /\ NoTable /\ NoFind /\ NoList /\ NoSkip /\ NoPlan /\ done = None /\ data = None
           /\ waiting = None /\ result = None
InitPipeline == /\ subject = "blocks" /\ Pipeline!Init /\ NoPool /\ NoInterrupted
                /\ NoSum /\ NoLocked /\ NoMutex /\ NoTable /\ NoFind /\ NoList /\ NoSkip /\ NoPlan /\ done = None
                /\ data = None /\ waiting = None /\ bad = None
InitLocked == /\ subject = "locked" /\ Locked!Init /\ NoPool /\ NoInterrupted /\ NoSum
              /\ NoPipeline /\ NoMutex /\ NoTable /\ NoFind /\ NoList /\ NoSkip /\ NoPlan /\ done = None /\ bad = None
              /\ result = None
InitMutex == /\ subject = "mutex" /\ Mutex!Init /\ NoPool /\ NoInterrupted /\ NoSum
             /\ NoPipeline /\ NoLocked /\ NoTable /\ NoFind /\ NoList /\ NoSkip /\ NoPlan /\ done = None
             /\ scheme = None /\ data = None /\ waiting = None /\ bad = None
             /\ result = None
InitTable == /\ subject = "table" /\ Table!Init /\ NoPool /\ NoInterrupted /\ NoSum
             /\ NoPipeline /\ NoLocked /\ NoMutex /\ NoFind /\ NoList /\ NoSkip /\ NoPlan /\ done = None
             /\ scheme = None /\ data = None /\ waiting = None /\ pc = None
             /\ bad = None /\ result = None
InitFind == /\ subject = "find" /\ Find!Init /\ NoPool /\ NoInterrupted /\ NoSum
            /\ NoPipeline /\ NoLocked /\ NoMutex /\ NoTable /\ NoList /\ NoSkip /\ NoPlan /\ data = None
            /\ waiting = None
InitList == /\ subject = "list" /\ List!Init /\ NoPool /\ NoInterrupted /\ NoSum
            /\ NoPipeline /\ NoLocked /\ NoMutex /\ NoTable /\ NoFind /\ NoSkip /\ NoPlan
            /\ done = None /\ scheme = None /\ waiting = None /\ bad = None /\ result = None
InitSkip == /\ subject = "skiplist" /\ Skip!Init /\ NoPool /\ NoInterrupted /\ NoSum
            /\ NoPipeline /\ NoLocked /\ NoMutex /\ NoTable /\ NoFind /\ NoList /\ NoPlan
            /\ done = None /\ scheme = None /\ data = None /\ waiting = None /\ pc = None
            /\ bad = None /\ result = None
InitPlan == /\ subject = "plan" /\ Plan!Init /\ NoPool /\ NoInterrupted /\ NoSum
            /\ NoPipeline /\ NoLocked /\ NoMutex /\ NoTable /\ NoFind /\ NoList /\ NoSkip
            /\ done = None /\ scheme = None /\ data = None /\ waiting = None /\ pc = None
            /\ bad = None /\ result = None
Init == InitPool \/ InitInterrupted \/ InitSum \/ InitPipeline \/ InitLocked
        \/ InitMutex \/ InitTable \/ InitFind \/ InitList \/ InitSkip \/ InitPlan

RestPool == <<subject, ofInterrupted, ofSum, ofPipeline, ofLocked, ofMutex,
              ofTable, ofFind, ofList, ofSkip, ofPlan, scheme, data, waiting, pc, bad, result>>
RestInterrupted == <<subject, ofPool, ofSum, ofPipeline, ofLocked, ofMutex,
                     ofTable, ofFind, ofList, ofSkip, ofPlan, done, pc, bad, result>>
RestSum == <<subject, ofPool, ofInterrupted, ofPipeline, ofLocked, ofMutex,
             ofTable, ofFind, ofList, ofSkip, ofPlan, done, data, waiting, result>>
RestPipeline == <<subject, ofPool, ofInterrupted, ofSum, ofLocked, ofMutex,
                  ofTable, ofFind, ofList, ofSkip, ofPlan, done, data, waiting, bad>>
RestLocked == <<subject, ofPool, ofInterrupted, ofSum, ofPipeline, ofMutex,
                ofTable, ofFind, ofList, ofSkip, ofPlan, done, bad, result>>
RestMutex == <<subject, ofPool, ofInterrupted, ofSum, ofPipeline, ofLocked,
               ofTable, ofFind, ofList, ofSkip, ofPlan, done, scheme, data, waiting, bad, result>>
RestTable == <<subject, ofPool, ofInterrupted, ofSum, ofPipeline, ofLocked,
               ofMutex, ofFind, ofList, ofSkip, ofPlan, done, scheme, data, waiting, pc, bad, result>>
RestFind == <<subject, ofPool, ofInterrupted, ofSum, ofPipeline, ofLocked,
              ofMutex, ofTable, ofList, ofSkip, ofPlan, data, waiting>>
RestList == <<subject, ofPool, ofInterrupted, ofSum, ofPipeline, ofLocked,
              ofMutex, ofTable, ofFind, ofSkip, ofPlan, done, scheme, waiting, bad, result>>
RestSkip == <<subject, ofPool, ofInterrupted, ofSum, ofPipeline, ofLocked,
              ofMutex, ofTable, ofFind, ofList, ofPlan, done, scheme, data, waiting, pc, bad,
              result>>
RestPlan == <<subject, ofPool, ofInterrupted, ofSum, ofPipeline, ofLocked, ofMutex,
              ofTable, ofFind, ofList, ofSkip, done, scheme, data, waiting, pc, bad,
              result>>

Next == \/ subject = "pool" /\ Pool!Next /\ UNCHANGED RestPool
        \/ subject = "interrupt" /\ Interrupted!Next /\ UNCHANGED RestInterrupted
        \/ subject = "sum" /\ Sum!Next /\ UNCHANGED RestSum
        \/ subject = "blocks" /\ Pipeline!Next /\ UNCHANGED RestPipeline
        \/ subject = "locked" /\ Locked!Next /\ UNCHANGED RestLocked
        \/ subject = "mutex" /\ Mutex!Next /\ UNCHANGED RestMutex
        \/ subject = "table" /\ Table!Next /\ UNCHANGED RestTable
        \/ subject = "find" /\ Find!Next /\ UNCHANGED RestFind
        \/ subject = "list" /\ List!Next /\ UNCHANGED RestList
        \/ subject = "skiplist" /\ Skip!Next /\ UNCHANGED RestSkip
        \/ subject = "plan" /\ Plan!Next /\ UNCHANGED RestPlan

ASSUME Assumptions == /\ Mutex!MutexAssumption /\ Locked!QueueAssumption
                      /\ Table!TableAssumption /\ Find!FindAssumption
                      /\ Pool!PoolAssumption /\ Sum!SumAssumption /\ Pipeline!PipelineAssumption
                      /\ List!ListAssumption /\ Skip!SkipAssumption /\ Plan!PlanAssumption

FairPool(t) == subject = "pool" /\ Pool!Step(t) /\ UNCHANGED RestPool
FairInterrupted(A) == subject = "interrupt" /\ A /\ UNCHANGED RestInterrupted
FairSum(t) == subject = "sum" /\ t \in Sum!Threads /\ Sum!Step(t) /\ UNCHANGED RestSum
FairPipeline(t) == subject = "blocks" /\ Pipeline!Step(t) /\ UNCHANGED RestPipeline
FairPlan == subject = "plan" /\ Plan!Running /\ UNCHANGED RestPlan

Spec == Init /\ [][Next]_vars

FairSpec == /\ Spec
            /\ \A t \in Pool!Threads : WF_vars(FairPool(t))
            /\ WF_vars(FairInterrupted(Interrupted!WaiterStep))
            /\ WF_vars(FairInterrupted(Interrupted!LockSetClear))
            /\ WF_vars(FairInterrupted(Interrupted!Notify))
            /\ \A t \in Sum!Elements : WF_vars(FairSum(t))
            /\ \A t \in Pipeline!Threads : WF_vars(FairPipeline(t))
            /\ WF_vars(FairPlan)
-----------------------------------------------------------------------------
(* Threads that lock down the hierarchy never all wait.                      *)
HierarchyHolds == subject = "mutex" => Mutex!HierarchyHolds

(* The queues under one mutex or two are queues, and no consumer sleeps on   *)
(* an item that nobody is on the way to.  What the readers of the skip list  *)
(* find is in a set that only grows, each answer taken at one moment.        *)
ServeInOrder ==
    /\ subject = "locked" => Locked!Queue!Init
    /\ [][subject = "locked" => [Locked!Queue!Next]_(Locked!Queue!vars)]_vars
    /\ [](subject = "locked" => Locked!NoSleepOnItems)
    /\ subject = "skiplist" => Skip!Set!Init
    /\ [][subject = "skiplist" => [Skip!Set!Next]_(Skip!Set!vars)]_vars

(* Who reads while others write misses nothing: get_map is a snapshot of the *)
(* lookup table, a parallel search told to stop by a flag still finds what   *)
(* is there, a walk of the list meets what stays in it and no node that was  *)
(* deleted, and each level of the skip list is in order, within the one      *)
(* below.                                                                    *)
ReadersMissNothing == /\ subject = "table" => Table!SnapshotWhole
                      /\ subject = "find" => Find!FindsIfThere
                      /\ subject = "list" => List!NoUseAfterDelete /\ List!MeetsAll
                      /\ subject = "skiplist" => Skip!LevelsNested

(* A task of the pools runs once, and is somewhere while it is waited for.   *)
TaskRunsOnce == subject = "pool" => Pool!TaskRunsOnce

(* The interrupt flag never points to a condition variable that is gone.     *)
CondIsThere == subject = "interrupt" => Interrupted!CondIsThere

(* The blocks sum up, or an exception comes out or ends the process; the     *)
(* threads of the pairwise sum and of the pipelines stay in step.            *)
SumsInStep == /\ subject = "sum" => Sum!SumsOrThrows /\ Sum!InStep
              /\ subject = "blocks" => Pipeline!BlocksWhole

(* Nobody waits for ever: the pools' waits and destructors return, an        *)
(* interrupted wait ends, and so do the parallel sums and the pipelines      *)
(* (those with plain barriers, unless a thread left too early).              *)
WaitsEnd == /\ <>(subject = "pool" => Pool!Returned)
            /\ (subject = "interrupt" /\ Interrupted!Sent) ~> (subject = "interrupt" => Interrupted!Left)
            /\ <>(subject = "sum" => Sum!Ended)
            /\ <>(subject = "blocks" => Pipeline!Ended \/ Pipeline!Stuck)

(* No evaluation unit runs before its operands' or after its own result.     *)
EvaluatedInOrder == subject = "plan" => Plan!EvaluatedInOrder

(* When Eval returns, what was registered is evaluated.                      *)
HandlesReady == [][subject = "plan" => Plan!Handed]_vars

(* Eval returns or throws.                                                   *)
EvalEnds == (subject = "plan" /\ Plan!Evaluating) ~> (subject = "plan" => ~Plan!Evaluating)
=============================================================================
