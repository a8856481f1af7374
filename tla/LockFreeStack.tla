--------------------------- MODULE LockFreeStack ---------------------------
(***************************************************************************)
(* The lock-free stacks of lock_free_stack.h and the exp1.cpp beside it.   *)
(* They link and unlink nodes alike and differ in when a popped node is    *)
(* deleted, so scheme is a variable that keeps its first value:            *)
(*   leaky     never (exp1.cpp)                                            *)
(*   counted   when a single thread is in pop (exp1.cpp)                   *)
(*   header    the same in lock_free_stack.h, version_1                    *)
(*   hazard    when no hazard pointer points to it (version_2)             *)
(*   shared    with its last atomic_shared_ptr (version_3)                 *)
(*   split     by a count at the pointer and one in the node (version_4;   *)
(*             version_5 is the same with weaker memory orders)            *)
(* An access to shared memory is a step; memory is sequentially consistent.*)
(* A use of a node that is deleted, or of a null pointer, is a "fault",    *)
(* where everything stops.                                                 *)
(***************************************************************************)
EXTENDS Integers, Sequences, SequencesExt, FiniteSets

CONSTANTS Threads, Nodes, Null, Schemes,
          MaxCalls,     \* bound on the calls of push and pop
          MaxCount      \* bound on the count of split: its exchange may fail for ever

VARIABLES scheme,
          head,             \* a counted_node_ptr; the count stays 0 but in split
          next, data, internal_count,    \* the fields of the nodes
          live,             \* the nodes that are allocated
          pc, old_head,     \* where each thread is in pop
          nxt,              \* the old_head->next it has read
          threads_in_pop,
          to_be_deleted,    \* the list of nodes waiting to be deleted (nodes_to_reclaim in hazard)
          list,             \* the part of it a thread has taken
          hazard,           \* each thread's hazard pointer
          scan,             \* the hazard pointers a thread has yet to look at
          got,              \* what each thread's last pop returned
          calls, pushed     \* the calls and pushes so far

vars == <<scheme, head, next, data, internal_count, live, pc, old_head, nxt, threads_in_pop,
          to_be_deleted, list, hazard, scan, got, calls, pushed>>
nodes == <<next, data, internal_count, live>>
reclaim == <<threads_in_pop, to_be_deleted, list, hazard, scan>>
caller == <<scheme, calls, pushed>>

Ptr(n, c) == [ptr |-> n, count |-> c]

Init == /\ scheme \in Schemes
        /\ head = Ptr(Null, 0) /\ live = {}
        /\ next = [n \in Nodes |-> Ptr(Null, 0)] /\ data = [n \in Nodes |-> 0]
        /\ internal_count = [n \in Nodes |-> 0]
        /\ pc = [t \in Threads |-> "idle"]
        /\ old_head = [t \in Threads |-> Ptr(Null, 0)] /\ nxt = old_head
        /\ threads_in_pop = 0 /\ to_be_deleted = << >> /\ list = [t \in Threads |-> << >>]
        /\ hazard = [t \in Threads |-> Null] /\ scan = [t \in Threads |-> {}]
        /\ got = [t \in Threads |-> 0] /\ calls = 0 /\ pushed = 0

Goto(t, p) == pc' = [pc EXCEPT ![t] = p]
Running == \A t \in Threads : pc[t] # "fault"
Delete(n) == live' = live \ {n}
-----------------------------------------------------------------------------
(* push: the new node is nobody else's until the exchange that links it,   *)
(* and that succeeds only when its next is the head: one step.             *)

Push(t) ==
  /\ pc[t] = "idle" /\ calls < MaxCalls
  /\ \E n \in Nodes \ live :
       /\ live' = live \cup {n}
       /\ head' = Ptr(n, IF scheme = "split" THEN 1 ELSE 0)
       /\ next' = [next EXCEPT ![n] = head]
       /\ data' = [data EXCEPT ![n] = pushed + 1]
       /\ internal_count' = [internal_count EXCEPT ![n] = 0]
  /\ pushed' = pushed + 1 /\ calls' = calls + 1
  /\ UNCHANGED <<scheme, pc, old_head, nxt, reclaim, got>>
-----------------------------------------------------------------------------
(* pop *)

Reclaiming == scheme \in {"counted", "header"}

Enter(t) == /\ pc[t] = "idle" /\ calls < MaxCalls
            /\ calls' = calls + 1
            /\ threads_in_pop' = IF Reclaiming THEN threads_in_pop + 1 ELSE threads_in_pop
            /\ Goto(t, "load")
            /\ UNCHANGED <<scheme, pushed, head, nodes, old_head, nxt, to_be_deleted, list, hazard, scan, got>>

\* What a pop that has read a null head does; the null is what it returns.
Empty(t) == /\ got' = [got EXCEPT ![t] = 0]
            /\ Goto(t, IF Reclaiming THEN "reclaim" ELSE "end")

Counted(p) == IF scheme = "split" THEN Ptr(p.ptr, p.count + 1) ELSE p

\* The head is read; in split its count goes up in the same exchange (increase_head_count).
Load(t) == /\ pc[t] = "load" /\ head.count < MaxCount
           /\ head' = Counted(head)
           /\ old_head' = [old_head EXCEPT ![t] = Counted(head)]
           /\ IF scheme = "hazard" THEN Goto(t, "protect") /\ UNCHANGED got
              ELSE IF head.ptr = Null THEN Empty(t) ELSE Goto(t, "next") /\ UNCHANGED got
           /\ UNCHANGED <<caller, nodes, nxt, reclaim>>

Protect(t) == /\ pc[t] = "protect"
              /\ hazard' = [hazard EXCEPT ![t] = old_head[t].ptr]
              /\ Goto(t, "confirm")
              /\ UNCHANGED <<caller, head, nodes, old_head, nxt, threads_in_pop, to_be_deleted, list, scan, got>>

Unconfirmed(t) == /\ UNCHANGED <<old_head, got>>    \* mutant
                  /\ Goto(t, IF old_head[t].ptr = Null THEN "end" ELSE "next")
Confirmed(t) == /\ old_head' = [old_head EXCEPT ![t] = head]
                /\ IF head # old_head[t] THEN Goto(t, "protect") /\ UNCHANGED got
                   ELSE IF head.ptr = Null THEN Empty(t)
                   ELSE Goto(t, "next") /\ UNCHANGED got
Confirm(t) == /\ pc[t] = "confirm"
              /\ Confirmed(t)
              /\ UNCHANGED <<caller, head, nodes, nxt, reclaim>>

\* old_head->next, the first use of the node
ReadNext(t) == /\ pc[t] = "next"
               /\ IF old_head[t].ptr \in live
                  THEN nxt' = [nxt EXCEPT ![t] = next[old_head[t].ptr]] /\ Goto(t, "exchange")
                  ELSE UNCHANGED nxt /\ Goto(t, "fault")
               /\ UNCHANGED <<caller, head, nodes, old_head, reclaim, got>>

AfterTake == CASE scheme = "leaky" -> "end"
               [] Reclaiming -> "reclaim"
               [] scheme = "hazard" -> "unprotect"
               [] scheme = "shared" -> "cut"
               [] scheme = "split" -> "give"

\* A failed exchange leaves the head it found in old_head.
Exchange(t) ==
  /\ pc[t] = "exchange"
  /\ IF head = old_head[t]
     THEN /\ head' = nxt[t] /\ UNCHANGED old_head
          /\ got' = [got EXCEPT ![t] = data[old_head[t].ptr]]
          /\ Goto(t, AfterTake)
     ELSE /\ UNCHANGED head
          /\ IF scheme = "split" THEN Goto(t, "release") /\ UNCHANGED <<old_head, got>>
             ELSE /\ old_head' = [old_head EXCEPT ![t] = head]
                  /\ IF scheme = "hazard" THEN Goto(t, "protect") /\ UNCHANGED got
                     ELSE IF head.ptr = Null THEN Empty(t) ELSE Goto(t, "next") /\ UNCHANGED got
  /\ UNCHANGED <<caller, nodes, nxt, reclaim>>

End(t) == /\ pc[t] = "end"
          /\ hazard' = [hazard EXCEPT ![t] = Null]
          /\ old_head' = [old_head EXCEPT ![t] = Ptr(Null, 0)] /\ nxt' = [nxt EXCEPT ![t] = Ptr(Null, 0)]
          /\ Goto(t, "idle")
          /\ UNCHANGED <<caller, head, nodes, threads_in_pop, to_be_deleted, list, scan, got>>
-----------------------------------------------------------------------------
(* try_reclaim *)

Alone(t) == threads_in_pop = 1

Reclaim(t) == /\ pc[t] = "reclaim"
              /\ Goto(t, IF Alone(t) THEN "claim" ELSE "chain")
              /\ UNCHANGED <<caller, head, nodes, old_head, nxt, reclaim, got>>

\* exchange(nullptr) in exp1.cpp; the header only reads the list
Claim(t) == /\ pc[t] = "claim"
            /\ list' = [list EXCEPT ![t] = to_be_deleted]
            /\ to_be_deleted' = IF scheme = "header" THEN to_be_deleted ELSE << >>
            /\ Goto(t, "leave")
            /\ UNCHANGED <<caller, head, nodes, old_head, nxt, threads_in_pop, hazard, scan, got>>

\* The last one out deletes the list, else it is chained again; then old_head is deleted.
Leave(t) == /\ pc[t] = "leave"
            /\ threads_in_pop' = threads_in_pop - 1
            /\ LET own == {old_head[t].ptr} \ {Null}
                   deleted == IF threads_in_pop = 1 THEN own \cup ToSet(list[t]) ELSE own
               IN  IF deleted \subseteq live
                   THEN live' = live \ deleted /\ Goto(t, "end")
                   ELSE UNCHANGED live /\ Goto(t, "fault")
            /\ to_be_deleted' = IF threads_in_pop = 1 THEN to_be_deleted ELSE list[t] \o to_be_deleted
            /\ list' = [list EXCEPT ![t] = << >>]
            /\ UNCHANGED <<caller, head, next, data, internal_count, old_head, nxt, hazard, scan, got>>

\* chain_pending_node writes to old_head, which a pop of an empty stack has null.
ChainPending(t) ==
  /\ pc[t] = "chain"
  /\ IF old_head[t].ptr = Null THEN UNCHANGED to_be_deleted /\ Goto(t, "fault")
     ELSE to_be_deleted' = <<old_head[t].ptr>> \o to_be_deleted /\ Goto(t, "left")
  /\ UNCHANGED <<caller, head, nodes, old_head, nxt, threads_in_pop, list, hazard, scan, got>>

LeaveChained(t) ==
  /\ pc[t] = "left"
  /\ threads_in_pop' = threads_in_pop - 1
  /\ Goto(t, "end")
  /\ UNCHANGED <<caller, head, nodes, old_head, nxt, to_be_deleted, list, hazard, scan, got>>
-----------------------------------------------------------------------------
(* Hazard pointers.  outstanding_hazard_pointers_for looks at one after the *)
(* other; list starts with the thread's own node, then nodes_to_reclaim.    *)

Unprotect(t) == /\ pc[t] = "unprotect"
                /\ hazard' = [hazard EXCEPT ![t] = Null]
                /\ list' = [list EXCEPT ![t] = <<old_head[t].ptr>>]
                /\ scan' = [scan EXCEPT ![t] = Threads]
                /\ Goto(t, "own")
                /\ UNCHANGED <<caller, head, nodes, old_head, nxt, threads_in_pop, to_be_deleted, got>>

\* A hazard pointer was found, or none is left: the node is kept or deleted.
Settle(t) == /\ list' = [list EXCEPT ![t] = Tail(@)]
             /\ scan' = [scan EXCEPT ![t] = Threads]
             /\ Goto(t, IF pc[t] = "own" THEN "takeover" ELSE "others")

Outstanding(t) ==
  /\ pc[t] \in {"own", "others"} /\ list[t] # << >>
  /\ \/ \E u \in scan[t] : /\ hazard[u] # Head(list[t])
                           /\ scan' = [scan EXCEPT ![t] = @ \ {u}]
                           /\ UNCHANGED <<list, pc, live, to_be_deleted>>
     \/ \E u \in scan[t] : /\ hazard[u] = Head(list[t])
                           /\ to_be_deleted' = <<Head(list[t])>> \o to_be_deleted
                           /\ Settle(t) /\ UNCHANGED live
     \/ /\ scan[t] = {} /\ UNCHANGED to_be_deleted
        /\ IF Head(list[t]) \in live THEN Delete(Head(list[t])) /\ Settle(t)
           ELSE UNCHANGED <<live, list, scan>> /\ Goto(t, "fault")
  /\ UNCHANGED <<caller, head, next, data, internal_count, old_head, nxt, threads_in_pop, hazard, got>>

\* delete_nodes_with_no_hazards
TakeOver(t) == /\ pc[t] = "takeover"
               /\ list' = [list EXCEPT ![t] = to_be_deleted] /\ to_be_deleted' = << >>
               /\ Goto(t, "others")
               /\ UNCHANGED <<caller, head, nodes, old_head, nxt, threads_in_pop, hazard, scan, got>>

Settled(t) == /\ pc[t] = "others" /\ list[t] = << >>
              /\ scan' = [scan EXCEPT ![t] = {}]
              /\ Goto(t, "end")
              /\ UNCHANGED <<caller, head, nodes, old_head, nxt, threads_in_pop, to_be_deleted, list, hazard, got>>
-----------------------------------------------------------------------------
(* The split count, and the shared pointers *)

\* The count of the references a node still has reaches 0 with the last of them.
LastWas(n, k) == internal_count[n] = k

AddTo(t, k, then) ==
  LET n == old_head[t].ptr
  IN  IF n \notin live THEN UNCHANGED <<internal_count, live>> /\ Goto(t, "fault")
      ELSE /\ internal_count' = [internal_count EXCEPT ![n] = @ + k]
           /\ IF LastWas(n, -k) THEN Delete(n) ELSE UNCHANGED live
           /\ Goto(t, then)

CountAll(t) == old_head[t].count - 1    \* mutant
CountIncrease(t) == old_head[t].count - 2

Give(t) == /\ pc[t] = "give"
           /\ AddTo(t, CountIncrease(t), "end")
           /\ UNCHANGED <<caller, head, next, data, old_head, nxt, reclaim, got>>

Release(t) == /\ pc[t] = "release"
              /\ AddTo(t, -1, "load")
              /\ UNCHANGED <<caller, head, next, data, old_head, nxt, reclaim, got>>

\* old_head->next = nullptr; then nodes go with the last pointer to them.
Cut(t) == /\ pc[t] = "cut"
          /\ next' = [next EXCEPT ![old_head[t].ptr] = Ptr(Null, 0)]
          /\ Goto(t, "end")
          /\ UNCHANGED <<caller, head, data, internal_count, live, old_head, nxt, reclaim, got>>

Unowned == {n \in live : /\ head.ptr # n
                         /\ \A t \in Threads : old_head[t].ptr # n /\ nxt[t].ptr # n
                         /\ \A m \in live : next[m].ptr # n}
Unshare == /\ scheme = "shared"
           /\ \E n \in Unowned : Delete(n)
           /\ UNCHANGED <<caller, head, next, data, internal_count, pc, old_head, nxt, reclaim, got>>
-----------------------------------------------------------------------------
Pop(t) == \/ Load(t) \/ Protect(t) \/ Confirm(t) \/ ReadNext(t) \/ Exchange(t) \/ End(t)
          \/ Reclaim(t) \/ Claim(t) \/ Leave(t) \/ ChainPending(t) \/ LeaveChained(t)
          \/ Unprotect(t) \/ Outstanding(t) \/ TakeOver(t) \/ Settled(t)
          \/ Give(t) \/ Release(t) \/ Cut(t)

Next == Running /\ (Unshare \/ \E t \in Threads : Push(t) \/ Enter(t) \/ Pop(t))

Spec == Init /\ [][Next]_vars
-----------------------------------------------------------------------------
\* The nodes on the stack.  A chain that comes back to a node is cut, longer than any other.
Chain ==
  LET Walk[n \in Nodes \cup {Null}, k \in 0 .. Cardinality(Nodes) + 1] ==
        IF n = Null \/ k = 0 THEN << >> ELSE <<n>> \o Walk[next[n].ptr, k - 1]
  IN  Walk[head.ptr, Cardinality(Nodes) + 1]

OnStack == ToSet(Chain)
Contents == [i \in 1 .. Len(Chain) |-> data[Chain[i]]]

Stack == INSTANCE Lifo WITH Items <- 1 .. MaxCalls, Nothing <- 0, contents <- Contents

(* The stacks are stacks, whatever their deletion does: no node comes back   *)
(* to the head under a pop that has read its next (ABA), no item is popped   *)
(* twice, and a pop that returns nothing saw the stack empty.                *)
LifoSpec == Stack!Spec

(* No node is used after its deletion or deleted twice.  What may happen is  *)
(* that a pop of an empty stack, when others are in pop, chains its null     *)
(* pointer (exp1.cpp 156).                                                   *)
NoUseAfterDelete == \A t \in Threads : pc[t] = "fault" => Reclaiming /\ old_head[t].ptr = Null

(* When no pop is under way, a node that is not on the stack is deleted or   *)
(* in the list of those to delete; split counts and shared pointers leave    *)
(* none.                                                                     *)
NothingLeaks ==
  (\A t \in Threads : pc[t] = "idle") =>
    /\ OnStack \subseteq live
    /\ scheme \in {"counted", "hazard"} => live = OnStack \cup ToSet(to_be_deleted)
    /\ scheme = "split" => live = OnStack
    /\ scheme = "shared" => live \ OnStack = {} \/ Unowned # {}
=============================================================================
