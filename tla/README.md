# Verification of Code-practice

The repository is a collection of practice code. Its largest systems with state are the
*HighPerformanceConcurrentServer* under `src/utils` (thread pool, logger, timer, buffers and an epoll
server), the *leveldb* containers beside it, the exercises after *C++ Concurrency in Action*, and the
*MetaNN* neural-network templates; the rest are algorithm exercises and design-pattern demonstrations.
This directory holds TLA+ modules of these systems, TLC configurations that check them on small
instances, and TLAPS proofs for every size.

1. [Inventory](#1-inventory) · 2. [Plan](#2-plan) · 3. [Modules and code](#3-modules-and-code) ·
4. [Runs](#4-runs) · 5. [Fairness](#5-fairness) · 6. [Proofs](#6-proofs) ·
7. [Disagreements and observations](#7-disagreements-and-observations) · 8. [Not modelled](#8-not-modelled)

`HPCS/` stands for `src/utils/HighPerformanceConcurrentServer/`, `CCIA/` for `src/C++_Concurrency_in_Action/`,
`MetaNN/` for `src/MetaNN/MetaNN/`.

## 1. Inventory

### HighPerformanceConcurrentServer

| component | state | operations | what is hard | what makes it correct |
|---|---|---|---|---|
| **BufferQueue** `log/log_queue.h` | ring `array_`, `first_`, `last_`, `size_`, debug counters; `mutex_`, `cond_` | `push`, `pop` (blocking, timed), `clear`, `front`, `back` | pops wait and are woken by every push, by time or by nothing; `push` has no return statement after a store | a bounded FIFO; nobody sleeps on an item |
| **ThreadPool** `threadpool/` | `tasks_`, `threads_`, `num_`, `run_`; `mutex_`, `cond_mutex_` | `submit`, `addThread`, `idlThreadCnt`, destructor | `run_` is read and written outside the mutex; idle threads are counted under the mutex, but the one added last is counted after it starts | FIFO dispatch, each task once, no lost wakeup, a destructor that returns and leaves nothing running |
| **Logger** `log/log.{h,cpp}` | open file, `count_`, `today_`, `is_thread_stop_`, the queue, the writer thread | `writeLog` (synchronous, asynchronous), writer loop, destructor | rotation counts lines when they are formatted, not when they are written; the writer stops on a flag | lines of a thread in order, none skipped, files of bounded size, queued lines written |
| **Timer** `timer/timer.h` | priority queue of nodes, `tm_id_state_map_`, `tm_running_`, tick thread | `runAfter`, `runAt`, `runRepeated`, `cancel`, tick loop, destructor | due times are fixed before the critical section; the tick thread's wait is relative and starts after it has read the clock; a callback is looked up, submitted and pushed again in steps | sleeps past a node by no more than that delay, counted runs, cancellation, spacing, a destructor that returns |
| **MemPool, Chunk** `memory/mem_pool.*`, `chunk.*` | free lists by size, `mp_total_size_kb_`, `mp_left_size_kb_` | `allocChunk`, `retrieve` | chunks are made on demand up to a limit that ends the process | every chunk in one place, clean when free |
| **InputBuffer, OutputBuffer** `memory/data_buf.*` | one chunk each, or none | `readFromFd`, `write2buf`, `write2fd`, `pop`, `adjust`, `clear` | growing allocates, copies and returns chunks between other threads' calls, and can fail; partial reads and writes | bytes in order, none lost; no chunk shared |
| **EventLoop** `net/event_loop.*` | `el_task_funcs_`, `el_quit_`, `el_dealing_task_funcs`, eventfd | `addTask`, `loop`, `quit`, `wakeup` | a task or a request to quit must wake a loop that is in `epoll_wait`; the thread that made the loop need not run it | no task stranded, each run once and in order, a loop that is told to quit ends |
| **Epoll** `net/epoll.*` | `ep_event_map_` and the kernel's interest set | `addToEvents`, `removeFromEvents`, `run`, `executeCbs` | the batch of events outlives descriptors that are closed meanwhile | map, kernel and owners agree |
| **TcpConnection, TcpServer, Acceptor** `net/tcp_conn.*`, `tcp_server.*`, `acceptor.*` | fields of a connection, `ts_tcp_connections_`, timers | accept, `doRead`, `send`, `doWrite`, `doClose`, `doClean`, time-out | acceptor, loop and timer workers touch a connection without a lock; descriptors are reused | output is armed exactly while there is some, no connection immortal, output drains and a peer's close is noticed unless that peer keeps sending |

Interactions: the Logger owns a BufferQueue and is its only reader; the Timer owns a ThreadPool and submits to it;
a connection owns an InputBuffer and an OutputBuffer over the one MemPool; the TcpServer owns the Acceptor, the
EventLoops (each with an Epoll) and a Timer whose workers call `doClose` of connections whose time is up.

### leveldb containers (`src/utils/leveldb`)

* **LRUCache, LRUTable** (`cache.h`, `cache.cpp`): reference-counted entries, two lists, a chained hash table;
  `Insert`, `Lookup`, `Release`, `Erase`, `Prune`. Hard: three structures that must agree over any sequence of
  calls, eviction through a second lookup, a table that grows. Correct when references, lists and table agree, the
  charge is exact, nothing held is evicted. **SharedLRUCache** spreads keys over sixteen of them.
* **SkipList** (`skiplist.h`): one writer, readers without a lock, a height that readers may see late; correct when each
  answer of a reader was right at some moment of its walk. **Arena** (`mem.*`): memory for its nodes; correct when nothing is
  handed out twice. **Hash, Random** (`hash.*`, `random.h`) are arithmetic.

### Other `utils`

* **IIpcWorkBase** (`other/`): a poll loop over a fifo and an exit pipe.

### C++ Concurrency in Action

| component | state | what is hard | what makes it correct |
|---|---|---|---|
| **Lock-based queues, table, list** `Designing lock-based …/exp1.cpp` | a queue under one mutex or two, buckets with a shared mutex each, a list with a mutex in every node | wakeups between two mutexes (line 385), a snapshot over all buckets, deletion beside a walk | FIFO, no lost wakeup, a snapshot of one moment, a walk meets what is there throughout |
| **Lock-free stacks** `lock_free_stack.h`, `exp1.cpp` | linked nodes, and for each scheme what tells who may delete | reuse of a node between a load and a compare-and-swap | LIFO; no node used after deletion, none lost |
| **Lock-free queues** `lock_free_queue.h` | linked nodes, split counts, helping | two external counts meet in one word; helpers do each other's steps | FIFO; one consumer gets an item; nodes live while used |
| **Thread pools** `Advanced thread management/thread_pool.cpp`, `exp1.cpp` | pool queue, local queues, `done` | tasks that wait for tasks, stealing, stopping with work queued | a task runs once, waits and destructors return |
| **Interruptible threads** `exp2.cpp`, `interrupt_thread.cpp` | flag, pointer to the condition variable | an interrupt between the test and the wait, or after it | the interrupt ends the wait; no notification to a variable that is gone |
| **Parallel find and partial sum** `Designing concurrent code/exp2.cpp` | flag and promise; barrier with `spaces`, `count`, `generation` | members leave the barrier, exceptions pass along the blocks | what is there is found; sums are right or the exception comes out, or ends the process if the block had passed its sum on; nobody waits for ever |
| **Pipelines over barriers** `Synchronizing …/exp5.cpp` | blocks, chunks, a barrier | a thread leaves while others have yet to arrive | only whole blocks are written |
| **Hierarchical mutex** `Sharing data …/exp2.cpp` | level of each mutex, previous level, level of each thread | levels are restored in any order of unlocking | threads never all wait |
| **Memory order examples** `The C++ memory model …/exp2.cpp` | atomics and plain variables of small programs | what an order does not promise | their assertions |

The other exercises use a mutex, a future or a flag once.

### MetaNN

* **Data and memory** (`data/`): blocks of memory shared by matrices, views and batches, and pools they return to; `SetValue` requires a sole
  holder. Hard: expressions capture matrices long before they are evaluated.
* **Operators** (`operators/`): lazy expressions, with the formulas for forward values and derivatives.
* **Evaluation** (`evaluate/`): a plan of levels and groups; a unit may register further units; handles are set once. Hard: a throw
  half way, units that compute nothing.
* **Layers** (`layers/`): elementary layers keep on stacks what going back needs; **ComposeKernel** puts sublayers in order,
  hands each its policies and runs data and gradients through; **RecurrentLayer** runs one over a sequence. Hard: several passes in flight,
  outputs used twice, parameters shared by name. Correct when what comes back is the derivative of what went out.

### Algorithms and patterns

* **Data_structure_and_algorithm**: LRU and LFU caches, frequency stack, median finder, twitter feed, monotonic queue
  (sequential objects); sorting, searching, lists, trees, dynamic programming, backtracking (pure functions).
* **Head_First_C++**: 21 patterns; the State, Command, Observer and Memento ones keep changing state.
* **More_effective_C++**: fragments on smart pointers, proxies and dispatch.

`PROJECT.json` lists every component with its status, and under `hazards` what in this code is hard to test.

## 2. Plan

The behaviour that many threads share came first, then sequential protocols, then computations:

1. the server: BufferQueue over the abstract BoundedFifo, ThreadPool, Logger, Timer, MemPool and DataBuf, EventLoop, TcpConnection with
   server, acceptor and poller; LRUCache;
2. the shared structures of the concurrency exercises against the abstract Fifo and Lifo, SkipList against OrderedSet, the lookup table and the
   list, the hierarchical mutex, the memory orders;
3. the threads of those exercises that wait for each other: pools, interrupts, barriers, pipelines;
4. MetaNN: memory, operators, layers, kernels, recurrence, evaluation;
5. proofs of what these modules promise.

What could follow: the sequential objects of the algorithm exercises (those that compile) against their contracts; pure functions against
reference definitions; the stateful patterns; proofs for the passes of MetaNN's layers and for the reclamation of the lock-free nodes.

## 3. Modules and code

Each definition that stands for code is tied to its lines by `map` in `PROJECT.json`. Definitions that end in
the comment `\* mutant` are plausible wrong versions of the definition below them; they are in no specification and
serve to show that the properties notice.

A module that begins with `MC` instantiates several components, because each is small: its variable `subject` says which one a behaviour
is about and never changes. The components share variables, `v1`, `v2`, … or, in `MCThreads` and `MCObjects`, whose subjects are proved about, the components' own names; what the
subject has no use for stays `None`. `MCStructures` holds the lock-free structures, the memory orders and MetaNN's layers, `MCThreads` the threads that
wait for one another and the evaluation plan, `MCObjects` the objects that share memory. Every behaviour is thus a behaviour of one
component, and the state graph is the union of theirs. A property of such a module names the subject and the component's own definition, where the reasons stand.

### Server and leveldb

**BufferQueue / BoundedFifo.** Variables are the fields. A method is one critical section and one action
(`Push`, `Clear`, `Front`, ...); a pop that waits is cut at the wait: `Wait`, then taken out by `NotifyAll`, time or
nothing, then `Resume`. `push` falls off its end, so its answer is either value. `BoundedFifo` is what the queue
promises; `Contents` is the refinement mapping.

**ThreadPool.** `pc[w]` follows `worker`: the predicate of the wait reads `run_` and `tasks_` under the mutex, then
blocks in a step of its own, because the destructor changes `run_` without the mutex. `submit` is cut into its test of
`run_`, the push and the notify. `addThread` starts a thread and counts it in two steps.
`accepted`, `started`, `finished` are histories.

**Logger.** `WriteLog` is the stamp (taken before the mutex), the critical section that counts and rotates, and
the emission; the queue is the FIFO that BufferQueue is proved to implement, with its waiting pop. Files are pairs of
day and number. `capacity` = 0 is the synchronous logger.

**Timer.** The queue of nodes is a set, of which the tick thread takes one with the least time. A node's time is
fixed in the caller's step before it is pushed. `check` is the region in which the tick thread looks the id up,
submits the callback and pushes the node again. It reads the clock (`TickReads`, line 118) and starts the relative
wait (`TickWaitsFor`, line 120) in two steps: `deadline` counts from the second, and `lag` is the history of what passed between
them. The pool is abstracted to the counter `fires`. The clock has `Grain` ticks to
the millisecond, because the waits round to milliseconds.

**MemPool / DataBuf.** A chunk is a size and a number, its content the sequence of bytes in it. DataBuf extends
MemPool and cuts the buffers' operations at every pool call and system call. Bytes are numbered per direction, so a
buffer can be compared with the stream.

**EventLoop.** `at[t]` is where a thread is in `addTask`, `quit` or `loop`. `el_tid_` is chosen at the start: the thread
that constructs the loop may or may not be the one that runs it.

**TcpConnection.** Acceptor, loop thread and the timer's workers step through `newTcpConnCallback`, `executeCbs`, `doRead`,
`send`, `doWrite`, `doClose`, `doClean`; the echo server's callback is the user. Each call on `ep_event_map_`, the timers and
`ts_tcp_connections_` is a step: `addNewTcpConn` is `RunAfter`, `SetTimerId` and `EmplaceBack`. What a thread does to one connection's own
fields between two such calls is one step too (`Read`, `Send`, `ClearAndTake`, `Shut`). The kernel is `epoll`, `sock`, `inq`, `fin`; it gives the
lowest free descriptor again, a socket holds `MaxUnread` bytes, and a write to a socket whose peer has gone may fail. Buffers hold `MaxBuffer` bytes, so
that `send` may drop what it is given. A timer's id is one that nothing uses; the code counts ids, which nothing compares but `cancel`.

**LRUCache.** Nodes are addresses, chains and lists are sequences of them. An operation holds the mutex and is one action;
the loops of `Insert` and `Prune` are one action a turn, while `pc` keeps others out. A failed assertion is `pc = "aborted"`.

**SkipList / OrderedSet.** A node is named by its key. The writer links it level by level, a step for each store; a reader's walk
is a step for each load, and may load any height stored since it began. `OrderedSet` is a set that grows, with each answer taken at one moment; the abstract set
is the lowest level. **Arena** is `Mem`: current block, fallback, alignment; addresses of blocks are what `new` may return.

### Concurrency exercises

**LockedQueue / Fifo.** One module for the three locked queues: `scheme` keeps its first value. Nodes are numbered in the order they are made, so
the chain is the interval from `head` to `tail` and the dummy is `tail`. What happens under a mutex that everyone who could see it takes is one
step; `push` under the tail's mutex is cut between storing the data and linking the new dummy. The contents of `Fifo` are `SubSeq(data, head, tail - 1)`.

**LockFreeStack / Lifo, LockFreeQueue / Fifo.** Again one module for the schemes of a file, which share their links and differ in reclamation. Each
access to shared memory is a step, memory is sequentially consistent. Nodes are a finite set of addresses that are used again after deletion: this is
what makes a stale compare-and-swap succeed. A use of a deleted node ends in a fault. `Casts` says which threads push and which pop.

**LookupTable, ThreadsafeList.** `get_map` locks the buckets one at a time while others change the buckets not yet locked. A walk of the list holds one
mutex and asks for the next; `due` is the history of what must be met.

**HierarchicalMutex.** `lock` is the check, the inner mutex and the update of the two values. `taken` is a history.

**StealingPool.** A task submits its `Kids` and waits for them, so a thread's `stack` of calls grows when a waiting task runs another. The five versions
differ in who has queues, who helps, who steals.

**Interrupt.** Waiter, interrupter and provider of the data, cut at the flag, at `set_clear_mutex` and at the caller's mutex, for the five kinds of wait.

**PartialSum, ParallelFind, BlockPipeline.** The threads of each algorithm, cut at the barrier's atomics, the futures and the flag; values are small
numbers, or in a search the mark that makes an operation throw. In the sum in blocks any addition may throw (`bad`): within the block, of the end value before to the last
element, or to the rest; the third comes after the promise is set, and ends the process. The answer of the recursive `parallel_find_async` is that of the first block to tell one, its exceptions before it.

**MemoryOrders.** Memory keeps the writes of each location in order; a thread has a view of the oldest write it may still read; release, acquire,
consume, fences and relaxed accesses pass views on as the standard's orders do. No location has two writers, which the module relies on.

### MetaNN

**Operators.** The operators and the elementary layers. A float is an element of a prime field together with its derivative in one direction (a dual number). Values and
derivatives are thus exact, and the derivative of a whole network comes from the rules of calculus and not from the code that is to be checked. Exponential,
logarithm and the like are given by a generator of the field.

**ComposeTopology, ComposeKernel, RecurrentLayer.** The compile-time half (assertions, topological order, policies) consists of operators; the run-time half
is a state machine whose actions are `InitLayers`, `FeedForward`, `FeedBackward`, `GradCollect`, `NeutralInvariant`. Every sublayer has its stacks. `tape` remembers for each
pass under way what its inputs were, so that the gradients can be compared with the derivative.

**EvalPlan.** A fixed set of expressions is registered, pushed to and evaluated; `calls` is the stack of layers under evaluation with the level and the group each
has come to. A unit of `SoftmaxDerivative` registers a further layer while it runs; an unset handle throws. It is checked with the threads of the exercises in `MCThreads`, where the proofs find it.

**MatrixMemory.** Blocks with their holders, pools by size class, views by offset; `SetValue` asserts its sole holder.

## 4. Runs

Every bound is a CONSTANT of the module. The instances are the smallest in which the cases below all occur.

| run | instance | shows |
|---|---|---|
| `queue` | 3 threads, 2 items, ring of 3, 5 pushes | the ring goes round almost twice; several waiters race for one item; time-outs and spurious wakeups. `FifoSpec` is the refinement, `RingConsistent` and `NoSleepOnItems` the reasons for it |
| `pool` | 3 workers of which 2 at first, 2 clients, 2 tasks | `addThread` during work, submits during and after destruction, spurious wakeups. `FifoDispatch`, `NoStrandedTask`, `DoneMeansQuiet`, `DestructorReturns` |
| `log` | 2 threads with 2 lines, queue of 0, 1 or 2, a file per line, one odd event | queue full and empty, rotation at every line, one midnight, one push that denies what it stored or one spurious wakeup. `LinesInOrder`, `FileSize`, `WriterEnds` |
| `timer` | 2 callers, 2 timers of any kind, clock to 4 half milliseconds | two nodes due in either order, pushed while the tick thread waits, cancelled at any step. `NoOversleep`, `RunsAccounted`, `Spaced`, `DestructorReturns` |
| `event_loop` | 2 threads and the loop, made by either, 3 tasks | tasks added by tasks, quit from every thread. `NoTaskStranded`, `NoQuitMissed`, `TasksInOrder`, `LoopEnds` |
| `tcp` | 2 connections on 2 descriptors, sockets of 1 byte, buffers of 2, any number of bytes in all in behaviours without a time-out and 1 in those with it, one time-out, 8 timer ids, 1 entry in the list told from none | a peer that sends without end, a descriptor reused while another thread holds it, partial and failing writes, `send` without room, time-out against traffic. `Tracked`: agreement of map, kernel and connections and armed output until the first time-out, a pending timer always. `EventsNoticed`: until the first time-out, again and again nothing of a connection waits for the loop (output has drained, a peer's close was noticed), unless the loop again and again gets bytes from that very peer |
| `structures` | stack: 2 threads, 4 nodes, 6 calls · lock-free queue: 3 threads as 1+1, 1+2 or 2+0 producers and consumers, 5 calls · 8 programs on memory orders · 13 MetaNN kernels (linear, single, a diamond with shared weights, classifiers; single data and batches) with 2 passes in flight, a GRU over 3 steps | `AreSequential`: stacks are `Lifo`, queues `Fifo`. `NodesSafe`: no use after deletion, no leak. `AssertionsHold`. `GradientsRight`, `StacksPair`; besides, as an assumption that TLC evaluates, that any set of connections between four sublayers is put in order or its cycle found |
| `threads` | pools: 2 workers and the main thread, 2 tasks that submit 1 each, 5 versions · 5 kinds of interruptible wait · sum of 5 elements, in blocks of 1, 2 and 2, any of whose additions may throw · pipeline of 3 threads, up to 3 blocks · locked queue: 3 threads, 5 calls · mutex: 2 threads, levels 5, 3, 3 · table: 3 keys in 2 buckets, 4 updates · find: 4 blocks · list: 2 threads, 3 nodes, 5 calls · skip list: 3 keys, height 2, one reader · evaluation plan: 9 expressions, up to 3 nested layers | `TaskRunsOnce`, `CondIsThere`, `SumsInStep`, `HierarchyHolds`; `ServeInOrder`: the locked queues are `Fifo` and lose no wakeup, the skip list is an `OrderedSet`; `ReadersMissNothing`: snapshots are whole, searches find what is there, walks meet what they must and nothing deleted, levels are nested; of MetaNN's plan `EvaluatedInOrder` and `HandlesReady`; and the liveness properties `WaitsEnd` and `EvalEnds` |
| `objects` | 2 connections with chunks of 1 and 2, limit 5, streams of 3 and 1 bytes · cache of 3 keys (two of one hash), charges 1 and 2, capacity 0, 2 or 3, 4 nodes, 2 handles · 3 matrix objects over 2 blocks, one write · arena with blocks of 24 bytes | `OneOwner` of chunks, blocks and memory, `StreamsKept`, `CacheConsistent`, `PinnedStays`, `ValuesKept` |
| `timer_repeats` | as `timer` | `RepeatsAsAsked` violated: section 7 |
| `tcp_dispatch` | one connection, two time-outs | `DispatchFinds` violated: section 7 |
| `cache_resize` | the cache alone, `MinLength` 4 | `EvictionFinds` violated: section 7 |

The passing runs reach 56 476 (`queue`), 151 010 (`pool`), 205 488 (`log`), 380 588 (`timer`), 101 146 (`event_loop`), 409 633 (`tcp`), 119 521 (`structures`), 681 949 (`threads`) and
654 444 (`objects`) distinct states.

Two instances of a thing suffice where the properties compare two (two producers, two nodes, two connections on a
descriptor); a third worker or waiter is there where a wakeup may go to the wrong one. The lock-free structures need a node that comes back
to the same place while a slow thread holds its address: a pop that is interrupted while the other thread pops its node, pushes it again and changes what is below takes
five or six calls. `MinLength` is 2 in `objects`,
so that the table grows with three keys; `cache_resize` has the code's 4. Deadlock is checked in `queue` only; in the other
runs the system may stop (a destructor returned, everything sent, all calls made).

What the properties are restricted to, because the code is not right beyond it (section 7 says what goes wrong there):

* `DestructorReturns` of `pool` and of `timer`, and the destructor's part of `WriterEnds`, speak of a destructor whose notification could reach the
  threads it joins; the missed notification is what they cannot show, and no run does, since nothing in the repository promises its absence.
* The rest of `WriterEnds` (queued lines are written, `writeLog` returns) leaves out a writer that a spurious wakeup has ended, and lines still queued when the logger is told to stop. `LinesInOrder`
  counts the lines left in such a queue as kept. `FifoDispatch` is about the order only, and would not notice a task that the stale test of `run_` lets in after the end.
* `FdsAgree`, `OutArmed` and `EventsNoticed` hold until the first time-out; after it a worker changes a connection beside the loop, and only `NotImmortal` is left.
* `ServeInOrder` speaks of wakeups under one mutex only; the queue under two can lose one at its line 385.
* `AreSequential` leaves out the stack scheme `header`, and the counted queues with two producers and a consumer.
* Of the cache, `PinnedStays` and the finding of entries hold until the table grows.
* `WaitsEnd` leaves out pool version 2, the plain interruptible wait, and a pipeline in which a thread left too early.
* `SumsInStep` lets the sum in blocks end with the process, if an addition throws after its block has passed its sum on.

Each property has a mutant in `PROJECT.json`: a plausible bug in a mapped definition with which TLC finds the property violated.

## 5. Fairness

* `pool`: threads that run get their steps (weak fairness), and whoever keeps asking for `mutex_` gets it in the end (strong
  fairness), since other workers may take it again and again. Nobody has to submit or to destroy.
* `log`: the writer runs on, and so does a destructor that has begun; a thread inside `writeLog` runs on, and repeats its push while the queue is full. All three are weakly
  fair (`AsyncWrite`, `Returns`, `Logs(p)`). Nobody has to call `writeLog`, and the program need not end: beginning a call and beginning the destructor are no part of these actions.
* `timer`: the tick thread and a destructor that has begun. The clock is not fair.
* `event_loop`: the loop, and the threads inside `addTask` or `quit`. `epoll_wait`'s time-out of twenty seconds is not relied on.
* `tcp`: the loop, the acceptor once it has accepted, a worker inside `doClose`; a peer reads what it is sent, so that a socket
  reported writable takes a byte. Peers need neither send nor close, and time-outs need not happen; a peer may also send for ever. `executeCbs` comes to `EPOLLOUT` only
  when there is nothing to read (`epoll.cpp:98-102`), so such a peer may keep its own output back for ever, and the property says that it keeps back nobody else's.
* `threads`: weak fairness for each thread of a pool, a sum and a pipeline: the operating system runs every thread. Of an interruptible wait
  the waiter's steps and the interrupter's lock and notification are weakly fair; neither the data nor an interrupt has to come.
  The evaluation plan takes its next step while it is being evaluated; nobody has to ask for an evaluation.

No fairness is given to spurious wakeups, and no liveness property relies on them. `DestructorReturns` of `pool` and `timer` and its part in
`WriterEnds` are conditional for this reason: a thread between its test of the flag and its wait misses the only notification, and
the join may then last for ever.

## 6. Proofs

TLAPS proves, for all values of the constants that satisfy the named assumptions:

* `BufferQueueProofs` (assumes `QueueAssumption`: the capacity is positive, `Garbage` and `Nothing` are no items).
  The inductive invariant `IInv` is `TypeOK`, `RingConsistent`, `NoGarbage`, `NoSleepOnItems` and `CountersAgree`: the ring's
  indices are needed for every statement about `Contents`, since a push writes the slot `SlotOf(size_ + 1)` and a
  pop moves `first_`; `NoGarbage` says that live slots hold items. `QueueInvariant`: `Spec => []IInv`. `NoLostItem`: no pop sleeps on
  an item. `Refinement`: `Spec => FifoSpec`; each action maps to a step of `BoundedFifo` or to a stutter.
* `ThreadPoolProofs` (assumes `PoolAssumption`: finitely many workers, the first size at least 1 and at most their
  number). Its `IInv` joins the types with named parts: `Building` (who has been started), `Workforce` (a thread is born
  exactly when it is in `threads_`), `Wakeful` (the mutex is held across steps only between predicate and block; who is about to sleep has
  seen an empty queue; no stranded task), `Submitted` (a task is with one client or was accepted), `FifoDispatch`,
  `IdleAccounting` and `RunsOnce`. Theorems: `TypeCorrect`, `NoTaskStranded`, `TasksRunOnceInOrder`, `QuietAfterJoin`.
  `NoStrandedTask` is not inductive alone: a worker that blocks must have seen the queue empty while it held the mutex.
* `EventLoopProofs` (assumes `LoopAssumption`: the loop's thread does not call from outside, and one of the threads made the
  loop). `TypeCorrect`, `LoopWakesForTasks`, `LoopWakesToQuit` and `RunsOnceInOrder`. `NoTaskStranded` and `NoQuitMissed` speak of
  the moments when the loop may sleep. Inductive are `TasksHeard` (from the swap of the queue on, what is queued has a wakeup in the eventfd
  or on its way from a thread that did not make the loop, which is the only one that skips it) and `QuitsHeard` (who set
  `el_quit_`; a loop that told itself does not poll again). `Numbered` bounds the tasks by `made`, so that a new one
  keeps `TasksInOrder`.
* `TimerProofs` (assumes `TimerAssumption`: times are natural numbers, the grain positive). `SleepsInTime` (`NoOversleep`: past a node's time by no more than
  `lag`, what passed between reading the clock and starting the wait), `RunsAddUp` (`RunsAccounted`: no timer is run twice for one time or forgotten, and after a cancel it runs once more at most) and the action
  property `KeepsDistance` (`Spaced`). That a repeated timer runs as often as asked is not among them: it does not (section 7). To count a timer's runs, `IInv` adds that ids are given in order and have no trace before (`Known`), that an id has one node,
  in the queue, with its caller or with the tick thread (`OneNode`), that a node counts down as its timer's runs count up (`Tallies`), and that the run for which a cancel
  came too late is the last (`LastRun`). `Spaced` needs only that a node that was due when popped still is (`PoppedDue`).
* `LoggerProofs` (assumes `LoggerAssumption`: a file holds a line, the bounds are natural numbers, finitely many producers). `LinesStayInOrder` and `FilesBounded`. `LinesInOrder`
  speaks of the files, the line with the writer and the queue as one `Stream`; inductive is that what a producer has begun is its next line (`Begun`), that a line handed over is in the stream, or lost because the stop
  flag was set (`NoneSkipped`), and that the stream is in order (`InOrder`). Files are bounded because every line counted since a file was opened is in
  it or still on its way, one for each producer inside the emission, with the writer or in the queue (`Accounted`, `Opened`, `Sized`).
* `TcpConnectionProofs` (assumes `ConnAssumption`: descriptors, timer ids and bounds are natural numbers, an entry in the list can be told from none, acceptor and loop are no workers). `ConnectionsTracked`.
  For `NotImmortal` the inductive part is `Minded`: an open connection that nobody is closing has a timer, except before the acceptor or the loop has started it, and is listed, except before the acceptor has appended it; a
  timer's id is in use by one of timers, connections and threads at most, so that a cancel takes no other's timer. `Known` and `Cleaned` say which connections and descriptors the threads hold. `FdsAgree` and
  `OutArmed` hold until the first time-out (`Calm`), when map, kernel and connections change in the loop alone: `Agreed` says at which step of the acceptor and the loop which of the three is ahead.
* `ConcurrencyProofs` extends `MCThreads` and proves the safety properties of all of its subjects for any constants (assumes `MutexAssumption`, `QueueAssumption`, `TableAssumption`,
  `FindAssumption`, `SumAssumption`, `PipelineAssumption`, `PoolAssumption`, `ListAssumption`, `SkipAssumption`, `PlanAssumption`: finitely many threads, `NoThread` none of them, the hash maps keys to natural numbers, some bucket, levels and block sizes are
  numbers; the blocks of a sum follow each other through a sequence of integers; a pipeline has at least one thread; a task is submitted in one place; the list has finitely many nodes, `Null` and the root none of them; the skip list's keys are finitely many positive
  integers, at least one, its height is positive; an expression has a kind, a group and operands with lower numbers, at least one if it is dynamic or late). A step of the
  module is a step of its subject, so an invariant of a component, inductive under its own `Next`, is one of `Spec` for that subject.
  * `HierarchyWorks`: threads never all wait, and a thread's value is its lowest level. Inductive is the chain of previous values, highest to lowest (`Restores`), which an unlock in any allowed order keeps; that
    someone runs follows from the mutex of the lowest level that anyone waits for.
  * `QueuesAndSetServe`, and on their own `QueueIsFifo` and `NoLostWakeup`: the queues under one mutex, under two, and under two with a condition variable implement `Fifo`; the linearisation points are the move of
    the dummy, the move of the head, and the comparison that finds the queue empty. `Pushing` relates the length of the data to the tail while a push is half done; `Popping` says that what was found under the
    head's mutex stays so though the tail moves. Under one mutex there are as many threads awake as there are items whenever somebody waits; a push adds one of each, since it wakes one.
    The skip list implements `OrderedSet`: the insertion is the link on the lowest level, an answer is the load that ends the walk there. A level is a set of keys and each pointer leads to the next of them (`Leads`,
    `InOrder`, `LevelsLinked`); what an insertion has yet to link fits between the neighbours it found (`Fits`, `Inserting`), and stays so because there is one writer; a reader stands before the key it seeks
    (`Finding`). The recursion along a level takes a value for every key: were there one where it does not, take the largest (`AlongFits`), and likewise for what is on a level (`OnIsInLevel`).
  * `CondOutlivesPointer`: the pointer to the condition variable is cleared before the waiter leaves, by whichever of the ways the wait ends.
  * `ReadersAreServed`: the buckets that a `get_map` has locked are the first ones and stay as they are (`Mutexed`), so what it copied is what they hold (`Snapshots`); a key is in its own bucket only, once
    (`Tables`). Locks are taken in the order of the buckets, hence of several waiting snapshots one can go on. Of the parallel searches, everything before where a search stands was compared and is no match
    (`Searching`), and a search stops half way only when another has something to report (`Reports`, `InPromise`, `InAny`). The nodes of the list
    keep a rank, and one that is pushed gets a lower one than all, so the walks go up in rank whatever is linked and unlinked meanwhile; a walk holds the mutex of the node it stands at, which therefore is not
    deleted (`ListInv`), and what is due to it was met or lies ahead (`Met`). Of the skip list, that a level is within the one below is part of the invariant above.
  * `SumsStayInStep`. Of the pairwise sum (`PairsInv`) the barrier is what has to be understood: `spaces` counts the members that have yet to arrive in this generation, `count` those that have not left, where each thread
    that is inside `wait` or `done_waiting` is counted by where it is; when nobody is left to arrive one thread alone refills the barrier, while all others spin or have gone, so the count it reads cannot
    change before the generation opens; and a thread's round is the generation. In the sum in blocks (`ChunksInv`) a promise carries the prefix sum at its block's end, and an element is its own value, its block's sum or
    the prefix sum according to where its thread is. An exception travels from promise to promise to the last block, whose thread throws it; one of an addition to a block's rest finds the promise set, and is the only one that ends
    the process. The sums are recursive functions, and that they have values, and add up, is induction over a set of natural numbers
    (`NatInduction1`, `PrefixAdds`). In the pipelines (`PipelineInv`) the threads between two barriers hold chunks of one block, and outside thread 0 is alone.
  * `TasksOfPoolsRunOnce` (`PoolInv`). Without their order the queues are one set for each, and what the threads are in is a set of calls; with the tasks that have run these hold every task once (`HeldOnce`). What a call
    has yet to submit is nowhere (`ToCome`), and so is every task of a call that has not begun (`Begun`), since a task is made where it is submitted: so a submission adds a task that no queue holds. The five versions differ
    in the ends of the queues they take from, which those sets do not tell apart.
  * `UnitsRunInOrder` and `HandlesAreReady` (`PlanInv`), of MetaNN's evaluation plan. A unit that waits is not evaluated, is the only one of its level for its result, and what it needs is set or put out by a lower level of
    its layer (`Placed`, `Settled`); what a layer puts out and is not set has a unit that waits, in the layer or, while a call is under way, in the one that its own units fill (`Whole`, `Under`). Units that are registered while
    others run register no more, so calls nest at most twice (`Stages`). A throw leaves the layers of its calls behind, which nobody enters again, so the invariant speaks of the last layer and of those that calls are about. The walk over the
    operands, the list it gives and the layer after each registration are recursive functions on an interval or on the expressions: that they have values is shown once, for any function whose value depends on those before it
    (`RecursiveIs`), and that the walk meets operands first (`WalkInTurn`) is induction over the expressions' numbers.
* `ObjectsProofs` extends `MCObjects` and proves about all of its subjects (assumes `CacheAssumption`: hashes, charges, capacities and bounds are natural numbers, the table's first length
  positive; `BufferAssumption`: finitely many chunk sizes, all positive, of each at least one chunk at
  first, and limits that are natural numbers; `MatrixAssumption`: finitely many objects, shapes of natural numbers, a positive unit; `ArenaAssumption`: block size and requests are positive, addresses natural
  numbers). `Invariance` joins the inductive invariants of the four.
  * `EachHasOneOwner` for the buffers: `BufferInv` is the pool's lists with chunk numbers that were made (`PoolLists`, `Numbered`), so that a new chunk is new; every chunk that is not held is clean (`Clean`), also one
    not made yet; and what each connection is about to do is possible (`Ready`): a grown chunk exists exactly between the allocation and the copy, and what is to be moved fits. `LeftIsFree` counts kilobytes as a set, to which a
    chunk adds its own (`UnitsAdd`). For the matrices: a block in a pool has the size of its class and no holder, and is in one place of one pool (`InPools`), the rest have a holder (`Accounted`), and what an object shows lies
    in its block (`ShowsOwn`). For the arena: the types, and that every piece has a byte.
  * `StreamsAreKept`: until it closes, a connection's buffer and its socket hold the consecutive bytes after those taken (`InOK`), its output buffer those between the bytes written and the bytes accepted (`OutOK`). That other
    connections' steps leave its chunks alone is `OneOwner`, so the two theorems are one induction.
  * `ValuesAreKept`: a block whose sole holder writes is shown by nobody else (`UseCounts`), and a constructor that takes a block from a pool takes one nobody shows.
  * `CacheIsConsistent` and the action property `PinnedIsKept`. `CacheInv` states the lists and references (`ListsGood`), the table (`TableGood`) and the charge (`UsageGood`, which counts units as a set, to which an
    entry adds its own: `WeightsAdd`) of whatever the variables hold, so that an operation is followed piece by piece: an insertion erases what it replaces (`OldIsErased`), then gives the node to its entry (`InsertLists`,
    `UsageInsert`, `TablePut`), then may grow the table (`TableGrows`). Beyond the property it needs that no entry is in two chains or twice in one (`Spread`): otherwise an erasure would leave an entry behind. `elems_`
    is exact also after growth, and growth neither loses nor doubles an entry (`ResizedKeeps`), so `assert(elems_ == count)` (`src/utils/leveldb/cache.h:120`) holds; only where entries are found is lost. `Longer`, `Moved` and
    `Resized` are recursive functions: that they have values, and what values, is induction over the natural numbers, which the prover does once it is stated of a set of numbers and not of a predicate (`Induction`, from the
    library's well-founded orders), and `Recursion` gives the values of so many turns.

Only model-checked: every liveness property (fairness and ENABLED are beyond the prover); the lock-free stacks and queues (`NodesSafe`, `AreSequential`), the memory orders
(`AssertionsHold`, whose programs have no parameter: TLC's search of them is complete) and MetaNN's layers. The formulas of `Operators` and `ComposeTopology` are recursive over data: the library's induction
theorems take an operator as a parameter, which none of the provers instantiates, so induction is out of reach except where it can be put as one over a set of natural numbers, as for the cache's table, the sums and the walk over expressions; these have not been.
The cache's assertion on what it evicts is proved until the table grows (`PinnedIsKept`) and refuted after (`cache_resize`).

## 7. Disagreements and observations

Runs that end in a violation:

* `timer_repeats`: `runRepeated(ms, n)` submits its callback n+1 times, because the first run is not counted (`HPCS/timer/timer.h:130`). `HPCS/timer/test/test_timer.cpp:16`
  prints each run with the number that is left, which lines 59-62 start at what was asked for.
* `tcp_dispatch`: a worker that closes a timed-out connection erases a descriptor that the loop's batch still names, and
  the assertion at `HPCS/net/epoll.cpp:94` fails.
* `cache_resize`: `LRUTable::Resize` computes the new bucket with the old length (`src/utils/leveldb/cache.h:113`). Entries become
  unreachable, the same key can be cached twice, and `assert(erared)` (`cache.cpp:95`) fails when such an entry is evicted.

Seen while modelling, and modelled as they are unless said otherwise. In the server:

* `front()` reads `array_[first_+1]` without the modulo (`HPCS/log/log_queue.h:71`); when `first_` is the last
  slot it is one past the array. `log/test/test_q.cpp:54-55` takes it for the oldest item.
* The tick thread reads the clock and then waits for a duration (`timer.h` 118, 120): what it is held up between the two, it sleeps longer.
* `push` ends without a return statement after a store (`log_queue.h:91`). A push that is taken to have failed is repeated by
  `writeLog`, hence the duplicates that `LinesInOrder` allows; the count in `test_q.cpp:123` can differ.
* A pop waits once, without a loop (`log_queue.h:98`): a spurious wakeup makes it return false. For the logger's writer this is
  the end (`log.h:51`), after which the queue fills and asynchronous `writeLog` calls repeat for ever.
* The writer tests the stop flag after it has popped a line and drops it (`log.h:51`); lines in the queue at exit are lost.
* The day is read before the mutex (`log.cpp:115`): around midnight a line may reopen the previous day's file.
* `submit` tests `run_` before it takes the mutex (`thread_pool.h:24`), so a task may be accepted after the destructor has
  begun; it is then never run.
* The destructors of ThreadPool, Logger and Timer set their flag and notify without the mutex of the wait (`thread_pool.cpp:9`,
  `log.cpp:40`, `timer.h:41`).
* The ids of finished timers are never erased (`timer.h:149`); `Timer::isAvailable` is always true.
* Chunks made on demand do not count as left until they first come back (`mem_pool.cpp:56-57`).
* `doClose` does not cancel the connection's timer, so the close callback may run twice; the time-out takes a second
  path into `doClose` on another thread (`tcp_server.h:41`).
* `ts_tcp_connections_` and `ep_event_map_` are changed by several threads without a lock (`tcp_server.h:44`), which is undefined; the model takes each access as atomic.
* `doClean` erases one entry of `ts_tcp_connections_` although each message that renews the timer appends one (`tcp_server.h:49`,
  `tcp_server.cpp:60`): closed connections stay listed.
* `executeCbs` tests `EPOLLOUT` in the `else` of `EPOLLIN` (`epoll.cpp:98-102`): while a peer keeps sending, what it is to get is not written.
* `TcpConnection::send` drops what the output buffer has no room for (`tcp_conn.cpp:96-99`); the echo server does not look at its answer.
* `quit()` before `loop()` has begun is undone (`event_loop.cpp:54`), and `quit()` from the thread that made the loop does not
  wake it when another thread runs it.
* `TcpServer::start` does not call the acceptor's `listen`, captures the local `ev` by reference (`tcp_server.cpp:43`) and reads members
  that nothing initialised; the model starts with a server that runs.

In leveldb and `other`:

* `LRUCache::Release` does not evict: a cache over its capacity stays so until the next `Insert`.
* `SharedLRUCache::Shared` returns nothing (`cache.h:174`): which of the sixteen caches serves a key is undefined.
* `SkipList` does not compile (`setNext`, `key`, `node->key`, missing semicolons); it is read as meant.
* The arena sends a request that fits the rest exactly to the fallback, and takes `new`'s alignment for granted.
* Nothing writes to the exit pipe that ends `IIpcWorkBase::Loop`, which `Stop` joins.

In the concurrency exercises:

* The queue of two mutexes and a condition variable notifies without the head's mutex: the notification may fall between a waiter's test and its wait (`exp1.cpp` 385, 404-410).
* `lock_free_stack.h`, version 1, reads `to_be_deleted` where `exp1.cpp` exchanges it (line 38): two threads can delete the same list. Both pass a null list on an
  empty pop (`exp1.cpp` 156; header 51 and 72).
* In the queues of counted tails (versions 2 and 3), two producers and a consumer can lose an item; an empty pop of version 3 keeps a reference (line 292). They have no
  constructor: the first node is taken to be version 1's.
* Pool version 2 gets stuck when every worker waits for a task that is queued. The first pool's constructor in `exp1.cpp` starts threads while the vector of queues still grows.
* An interrupt after the thread has ended reaches a destroyed `thread_local` flag; the model's interrupter comes before.
* `process_element` never writes `buffer[0]`, so that sums from the third element on are wrong, which the comment at `Designing concurrent code/exp2.cpp:322` takes for partial sums; the
  checked property is that its threads stay in step.
* In `process_chunk` an addition to the rest of a block that throws comes after `set_value` (`Designing concurrent code/exp2.cpp` 222-225); the handler's `set_exception` (236) then throws `future_error` out of the
  thread, which terminates the process. `process_element` has no handler at all, and its additions are taken not to throw.
* `process_data` over the plain barrier may wait for ever on its last block (`exp5.cpp` 411); the one over `flex_barrier` never processes it.
* The simple queue's `tail` dangles after its last pop and is uninitialised at first (`exp1.cpp` of the lock-based structures, 206 and 217).
* One of the memory order programs asserts `data[3]==141` of an element that was set to -141.
* The sorter of `Designing concurrent code/exp1.cpp` and the interface thread joined twice (lines 253-302) race as they stand.

In MetaNN:

* A kernel without a gradient to pass on, one of whose inputs gets first a gradient and then none, does not compile (`compose_kernel.h` 1139-1140, 1183-1184); nor does `FeedBackward` of a recurrent
  layer without back-propagation through time.
* `RecurrentLayer` keeps hidden values and their gradients in one member: a forward pass without a hidden input after a backward pass starts from the gradient, and two
  sequences forwarded before going back mix theirs (`recurrent_layer.h` 84-113). `SequenceGradients` speaks of sequences that go back before the next begins.
* `FeedBackward` without a matching forward pass throws midway and leaves gradients and stacks of which some are popped.
* `WeightLayer::FeedBackward` multiplies in the order `Dot(tmp, tw)` through `EvalHelper(tw, tmp)` (`weight_layer.h` 145-150).
* `AbsLayer` keeps its stack as matrices even for batches (`abs_layer.h` 14-21), so one that goes back over a batch does not compile; it is no instance of the model, and the batched diamond has a sigmoid instead.
  `MatrixGradInfo` reads `p_weight` after it has moved it (`grad_collector.h` 11-13).
* A throw during evaluation leaves its layers on the plan (`eval_plan.h` 177-196). A softmax of no columns never sets its handle (`softmax.h` 37, 89), so whatever reads it throws.
* An element pushed back to an `Array` between registration and evaluation is missing from the result (`array.h` 175-183, 247-277). `emplace_back`, `reserve` and `clear` do not compile when used.
* Plans are `thread_local`: two threads that register one shared expression both evaluate it.

In the algorithm exercises (not modelled): `LRU.cpp` and `LFU.cpp` do not compile, and putting an existing key evicts another; `FreqStack` and LFU change copies of
their lists; `MonotonicQueue` pops from the front; the stack made of queues loops for more than two elements; `Twitter` orders pointers.

## 8. Not modelled

* Of the modelled components: a logger whose `init()` fails (the writer keeps running), `flush` and the stdout target; the
  constructor failures and printers of MemPool; `head_` of a chunk, which is 0 between operations; the connected callback, which
  keeps no state; several connection loops of one server; data races on containers, of which the model takes each access as atomic;
  values, deleters and SharedLRUCache of the cache; `SaveWeights`, random fillers and rounding of floats in MetaNN.
* Weak memory orders outside `MemoryOrders` and the skip list's height: the lock-free structures are checked as sequentially consistent, so version 5 of the stack, which weakens
  the orders of version 4, is version 4 here.
* Components that `PROJECT.json` marks `not_modelled`, each with its reason there. IIpcWorkBase does not compile and is a thin layer over `poll`; Hash and Random are
  arithmetic whose result the models leave open; the remaining exercises on threads, locks and parallel algorithms call one facility of the library and keep no state of their own; the algorithm
  exercises are pure functions, or sequential objects many of which do not compile; the patterns and the *More Effective C++* items are
  single-threaded demonstrations. MetaNN's tests are read as documentation of what the templates promise.
