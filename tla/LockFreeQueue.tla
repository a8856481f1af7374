--------------------------- MODULE LockFreeQueue ---------------------------
(***************************************************************************)
(* The three queues of lock_free_queue.h.  version keeps its first value:  *)
(*   single    v1, for one thread that pushes and one that pops            *)
(*   counted   v2, nodes with two external counts; a push that finds the   *)
(*             last node's data set waits for the one that set it          *)
(*   helped    v3, where it helps that one instead                         *)
(* producers and consumers say which threads push and which pop.  v2 and   *)
(* v3 have no constructor: their first node is taken to be v1's.  An       *)
(* access to shared memory is a step and memory is sequentially            *)
(* consistent.                                                             *)
(***************************************************************************)
EXTENDS Integers, Sequences, SequencesExt, FiniteSets

CONSTANTS Threads, Nodes, Null,
          Casts,        \* the triples of version, producers and consumers
          MaxCalls,     \* bound on the calls
          MaxCount      \* bound on the external counts, which retries raise

VARIABLES cast,
          head, tail,   \* counted_node_ptr; the counts stay 0 in single
          data, next, internal_count, external_counters,    \* the fields of nodes
          live,         \* the nodes that are allocated
          pc, old,      \* where each thread is; its old_head or old_tail
          new_next,     \* the node a push has made
          target,       \* the next it moves the tail or head to
          item,         \* what it pushes
          got,          \* what a pop won by moving the head (history)
          res,          \* what a pop returned
          calls, pushed

vars == <<cast, head, tail, data, next, internal_count, external_counters, live,
          pc, old, new_next, target, item, got, res, calls, pushed>>
caller == <<cast, item, calls, pushed>>
counts == <<internal_count, external_counters>>
fields == <<data, next, counts, live>>

version == cast[1]
Ptr(n, c) == [ptr |-> n, count |-> c]
NoPtr == Ptr(Null, 0)
First(n) == Ptr(n, IF version = "single" THEN 0 ELSE 1)

Init == /\ cast \in Casts
        /\ \E n \in Nodes : head = First(n) /\ tail = First(n) /\ live = {n}
        /\ data = [n \in Nodes |-> 0] /\ next = [n \in Nodes |-> NoPtr]
        /\ internal_count = [n \in Nodes |-> 0] /\ external_counters = [n \in Nodes |-> 2]
        /\ pc = [t \in Threads |-> "idle"] /\ old = [t \in Threads |-> NoPtr]
        /\ new_next = [t \in Threads |-> NoPtr] /\ target = [t \in Threads |-> NoPtr]
        /\ item = [t \in Threads |-> 0]
        /\ got = [t \in Threads |-> 0] /\ res = [t \in Threads |-> 0]
        /\ calls = 0 /\ pushed = 0

Goto(t, p) == pc' = [pc EXCEPT ![t] = p]
Hold(t, p) == old' = [old EXCEPT ![t] = p]
Holds(t) == old[t].ptr

At(t, p) == pc[t] = p

\* new node, whose fields nobody sees before it is linked
New(n) == /\ n \notin live /\ live' = live \cup {n}
          /\ data' = [data EXCEPT ![n] = 0] /\ next' = [next EXCEPT ![n] = NoPtr]
          /\ internal_count' = [internal_count EXCEPT ![n] = 0]
          /\ external_counters' = [external_counters EXCEPT ![n] = 2]

\* increase_external_count
CountUp(p) == IF version = "single" THEN p ELSE Ptr(p.ptr, p.count + 1)
-----------------------------------------------------------------------------
(* The counts of a node.  A call ends with them or goes on with its loop.  *)

Then == [free |-> "end", refree |-> "tail", drop |-> "end", redrop |-> "tail", repop |-> "head"]

Change(t, inner, outer) ==
  LET n == Holds(t)
  IN  /\ internal_count' = [internal_count EXCEPT ![n] = @ + inner]
      /\ external_counters' = [external_counters EXCEPT ![n] = @ + outer]
      /\ live' = IF internal_count'[n] = 0 /\ external_counters'[n] = 0 THEN live \ {n} ELSE live
      /\ Goto(t, Then[pc[t]])
      /\ UNCHANGED <<caller, head, tail, data, next, old, new_next, target, got, res>>

CountIncrease(t) == old[t].count - 2
FreeExternalCounter(t) == \E p \in {"free", "refree"} : At(t, p) /\ Change(t, CountIncrease(t), -1)
ReleaseRef(t) == \E p \in {"drop", "redrop", "repop"} : At(t, p) /\ Change(t, -1, 0)

End(t) == /\ pc[t] = "end"
          /\ Hold(t, NoPtr)
          /\ new_next' = [new_next EXCEPT ![t] = NoPtr] /\ target' = [target EXCEPT ![t] = NoPtr]
          /\ Goto(t, "idle")
          /\ UNCHANGED <<caller, head, tail, fields, got, res>>
-----------------------------------------------------------------------------
(* push *)

Push(t) == /\ t \in cast[2] /\ pc[t] = "idle" /\ calls < MaxCalls
           /\ calls' = calls + 1 /\ pushed' = pushed + 1
           /\ item' = [item EXCEPT ![t] = pushed + 1]
           /\ \E n \in Nodes : New(n) /\ new_next' = [new_next EXCEPT ![t] = First(n)]
           /\ Goto(t, "tail")
           /\ UNCHANGED <<cast, head, tail, old, target, got, res>>

LoadTail(t) == /\ pc[t] = "tail" /\ tail.count < MaxCount
               /\ tail' = CountUp(tail) /\ Hold(t, CountUp(tail))
               /\ Goto(t, "data")
               /\ UNCHANGED <<caller, head, fields, new_next, target, got, res>>

\* The exchange of data decides which push has the node; v1 has but one push.
SetData(t) ==
  /\ At(t, "data")
  /\ IF data[Holds(t)] = 0 \/ version = "single"
     THEN data' = [data EXCEPT ![Holds(t)] = item[t]] /\ Goto(t, "link")
     ELSE UNCHANGED data /\ Goto(t, IF version = "helped" THEN "help" ELSE "redrop")
  /\ UNCHANGED <<caller, head, tail, next, counts, live, old, new_next, target, got, res>>

\* In v3 a helper may have linked a node: then this push deletes its own.
Link(t) ==
  /\ At(t, "link")
  /\ IF version = "helped" /\ next[Holds(t)] # NoPtr
     THEN /\ live' = live \ {new_next[t].ptr}
          /\ target' = [target EXCEPT ![t] = next[Holds(t)]]
          /\ UNCHANGED next
     ELSE /\ next' = [next EXCEPT ![Holds(t)] = new_next[t]]
          /\ target' = [target EXCEPT ![t] = new_next[t]]
          /\ UNCHANGED live
  /\ Goto(t, "advance")
  /\ UNCHANGED <<caller, head, tail, data, counts, old, new_next, got, res>>

\* The helper links its own node and makes another one, or takes the one that is there.
Help(t) ==
  /\ At(t, "help")
  /\ IF next[Holds(t)] = NoPtr
     THEN \E n \in Nodes \ live :
            /\ live' = live \cup {n}
            /\ data' = [data EXCEPT ![n] = 0]
            /\ next' = [next EXCEPT ![Holds(t)] = new_next[t], ![n] = NoPtr]
            /\ internal_count' = [internal_count EXCEPT ![n] = 0]
            /\ external_counters' = [external_counters EXCEPT ![n] = 2]
            /\ target' = [target EXCEPT ![t] = new_next[t]]
            /\ new_next' = [new_next EXCEPT ![t] = First(n)]
     ELSE target' = [target EXCEPT ![t] = next[Holds(t)]] /\ UNCHANGED <<fields, new_next>>
  /\ Goto(t, "readvance")
  /\ UNCHANGED <<caller, head, tail, old, got, res>>

\* v1 stores the tail, v2 exchanges it; set_new_tail of v3 moves it unless it has moved.
Advance(t) ==
  /\ pc[t] \in {"advance", "readvance"}
  /\ IF version = "helped" /\ tail.ptr # Holds(t)
     THEN /\ Goto(t, IF pc[t] = "advance" THEN "drop" ELSE "redrop")
          /\ UNCHANGED <<tail, old>>
     ELSE /\ tail' = target[t] /\ Hold(t, tail)
          /\ Goto(t, CASE version = "single" -> "end"
                       [] version # "single" /\ pc[t] = "advance" -> "free"
                       [] OTHER -> "refree")
  /\ UNCHANGED <<caller, head, fields, new_next, target, got, res>>
-----------------------------------------------------------------------------
(* pop *)

Pop(t) == /\ t \in cast[3] /\ pc[t] = "idle" /\ calls < MaxCalls
          /\ calls' = calls + 1
          /\ Goto(t, "head")
          /\ UNCHANGED <<cast, item, pushed, head, tail, fields, old, new_next, target, got, res>>

LoadHead(t) == /\ pc[t] = "head" /\ head.count < MaxCount
               /\ head' = CountUp(head) /\ Hold(t, CountUp(head))
               /\ Goto(t, "test")
               /\ UNCHANGED <<caller, tail, fields, new_next, target, got, res>>

\* v3 keeps the reference it has taken
Empty(t) == /\ got' = [got EXCEPT ![t] = 0] /\ res' = [res EXCEPT ![t] = 0]
            /\ Goto(t, IF version = "counted" THEN "drop" ELSE "end")

Tested(t) == IF Holds(t) = tail.ptr THEN Empty(t) ELSE Goto(t, "next") /\ UNCHANGED <<got, res>>
TestEmpty(t) == /\ pc[t] = "test"
                /\ Tested(t)
                /\ UNCHANGED <<caller, head, tail, fields, old, new_next, target>>

ReadNext(t) == /\ At(t, "next")
               /\ target' = [target EXCEPT ![t] = next[Holds(t)]]
               /\ Goto(t, "exchange")
               /\ UNCHANGED <<caller, head, tail, fields, old, new_next, got, res>>

Exchange(t) == /\ pc[t] = "exchange"
               /\ IF head = old[t] \/ version = "single"
                  THEN /\ head' = target[t]
                       /\ got' = [got EXCEPT ![t] = data[Holds(t)]]
                       /\ Goto(t, "extract")
                  ELSE UNCHANGED <<head, got>> /\ Goto(t, "repop")
               /\ UNCHANGED <<caller, tail, fields, old, new_next, target, res>>

\* v1 deletes the node, the others free the head's count of it.
Extract(t) == /\ At(t, "extract")
              /\ res' = [res EXCEPT ![t] = data[Holds(t)]]
              /\ IF version = "single" THEN live' = live \ {Holds(t)} /\ UNCHANGED data /\ Goto(t, "end")
                 ELSE data' = [data EXCEPT ![Holds(t)] = 0] /\ UNCHANGED live /\ Goto(t, "free")
              /\ UNCHANGED <<caller, head, tail, next, counts, old, new_next, target, got>>
-----------------------------------------------------------------------------
Pushing(t) == LoadTail(t) \/ SetData(t) \/ Link(t) \/ Help(t) \/ Advance(t)
Popping(t) == LoadHead(t) \/ TestEmpty(t) \/ ReadNext(t) \/ Exchange(t) \/ Extract(t)

Next == \E t \in Threads : \/ Push(t) \/ Pushing(t) \/ Pop(t) \/ Popping(t)
                           \/ FreeExternalCounter(t) \/ ReleaseRef(t) \/ End(t)

Spec == Init /\ [][Next]_vars
-----------------------------------------------------------------------------
\* The nodes from the head to the one before the tail
Queued ==
  LET Walk[n \in Nodes \cup {Null}, k \in 0 .. Cardinality(Nodes)] ==
        IF n \in {tail.ptr, Null} \/ k = 0 THEN << >> ELSE <<n>> \o Walk[next[n].ptr, k - 1]
  IN  Walk[head.ptr, Cardinality(Nodes)]

Queue == INSTANCE Fifo WITH Items <- 1 .. MaxCalls, Nothing <- 0,
                            contents <- [i \in 1 .. Len(Queued) |-> data[Queued[i]]]

(* With the casts they are made for the queues are queues: an item is popped *)
(* once, the oldest first, and a pop finds nothing only in an empty queue.   *)
FifoSpec == Queue!Spec

(* What a pop returns is what the node held when it won the head.            *)
WinnerTakesItem == \A t \in Threads : pc[t] = "idle" => res[t] = got[t]

Using == {"data", "link", "help", "next", "extract", "free", "refree", "drop", "redrop", "repop"}
Idle == \A t \in Threads : pc[t] = "idle"

(* No node is used after its deletion; and when no call is under way the     *)
(* nodes are those of the queue, v3 apart (its pop of an empty queue keeps a *)
(* reference, lock_free_queue.h 292).                                        *)
NodesLive == /\ \A t \in Threads : pc[t] \in Using => Holds(t) \in live
             /\ Idle => ToSet(Queued) \cup {tail.ptr} \subseteq live
             /\ Idle /\ version # "helped" => live = ToSet(Queued) \cup {tail.ptr}
=============================================================================
