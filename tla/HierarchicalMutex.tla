-------------------------- MODULE HierarchicalMutex --------------------------
(***************************************************************************)
(* hierarchical_mutex of "Sharing data between threads/exp2.cpp": a mutex  *)
(* may be locked only below all those its thread holds.  The threads lock, *)
(* try and unlock as they like; the throwing calls leave things as they    *)
(* are.  A lock is three steps: the check, the mutex, the values.          *)
(***************************************************************************)
EXTENDS Naturals, FiniteSets

CONSTANTS Threads, NoThread, Mutexes,
          hierarchy_value,      \* the level of each
          MaxLevel              \* ULONG_MAX, what a thread starts with

MutexAssumption == /\ Threads # {} /\ NoThread \notin Threads /\ Mutexes # {}
                   /\ hierarchy_value \in [Mutexes -> Nat] /\ MaxLevel \in Nat

VARIABLES internal_mutex,               \* who holds each
          previous_hierarchy_value,     \* of each mutex
          this_thread_hierarchy_value,
          pc, m,                        \* where a thread is, and with which mutex
          taken                         \* (history) those it has locked, the levels recorded

vars == <<internal_mutex, previous_hierarchy_value, this_thread_hierarchy_value, pc, m, taken>>

Init == /\ internal_mutex = [x \in Mutexes |-> NoThread]
        /\ previous_hierarchy_value = [x \in Mutexes |-> 0]
        /\ this_thread_hierarchy_value = [t \in Threads |-> MaxLevel]
        /\ pc = [t \in Threads |-> "idle"]
        /\ m = [t \in Threads |-> CHOOSE x \in Mutexes : TRUE]
        /\ taken = [t \in Threads |-> {}]

Goto(t, p) == pc' = [pc EXCEPT ![t] = p]

AllowEqual(t, x) == this_thread_hierarchy_value[t] >= hierarchy_value[x]    \* mutant
Allowed(t, x) == this_thread_hierarchy_value[t] > hierarchy_value[x]
\* check_for_hierarchy_violation, of lock and of try_lock
Check(t, x) == /\ pc[t] = "idle" /\ Allowed(t, x)
               /\ \E p \in {"lock", "try"} : Goto(t, p)
               /\ m' = [m EXCEPT ![t] = x]
               /\ UNCHANGED <<internal_mutex, previous_hierarchy_value, this_thread_hierarchy_value, taken>>

Acquire(t) == /\ pc[t] \in {"lock", "try"} /\ internal_mutex[m[t]] = NoThread
              /\ internal_mutex' = [internal_mutex EXCEPT ![m[t]] = t]
              /\ Goto(t, "update")
              /\ UNCHANGED <<previous_hierarchy_value, this_thread_hierarchy_value, m, taken>>

\* try_lock returns false.
GiveUp(t) == /\ pc[t] = "try" /\ internal_mutex[m[t]] # NoThread
             /\ Goto(t, "idle")
             /\ UNCHANGED <<internal_mutex, previous_hierarchy_value, this_thread_hierarchy_value, m, taken>>

\* update_hierarchy_value
Update(t) == /\ pc[t] = "update"
             /\ previous_hierarchy_value' = [previous_hierarchy_value EXCEPT ![m[t]] = this_thread_hierarchy_value[t]]
             /\ this_thread_hierarchy_value' = [this_thread_hierarchy_value EXCEPT ![t] = hierarchy_value[m[t]]]
             /\ taken' = [taken EXCEPT ![t] = @ \cup {m[t]}]
             /\ Goto(t, "idle")
             /\ UNCHANGED <<internal_mutex, m>>

\* A mutex whose level is not the thread's is not unlocked: the call throws.
Lowest(t, x) == this_thread_hierarchy_value[t] = hierarchy_value[x]
Unlock(t, x) == /\ pc[t] = "idle" /\ internal_mutex[x] = t /\ Lowest(t, x)
                /\ this_thread_hierarchy_value' = [this_thread_hierarchy_value EXCEPT ![t] = previous_hierarchy_value[x]]
                /\ internal_mutex' = [internal_mutex EXCEPT ![x] = NoThread]
                /\ taken' = [taken EXCEPT ![t] = @ \ {x}]
                /\ UNCHANGED <<previous_hierarchy_value, pc, m>>

Next == \E t \in Threads : \/ \E x \in Mutexes : Check(t, x) \/ Unlock(t, x)
                           \/ Acquire(t) \/ GiveUp(t) \/ Update(t)
Spec == Init /\ [][Next]_vars
-----------------------------------------------------------------------------
Waits(t) == pc[t] = "lock" /\ internal_mutex[m[t]] # NoThread

(* A thread's value is the lowest level it holds, and threads that wait for  *)
(* one another wait for ever lower mutexes: one of them at least does not    *)
(* wait, so there is no deadlock.                                            *)
HierarchyHolds ==
  /\ \A t \in Threads :
       LET levels == {hierarchy_value[x] : x \in taken[t]}
       IN  /\ taken[t] = {} => this_thread_hierarchy_value[t] = MaxLevel
           /\ taken[t] # {} => /\ this_thread_hierarchy_value[t] \in levels
                               /\ \A l \in levels : this_thread_hierarchy_value[t] =< l
  /\ \E t \in Threads : ~Waits(t)
=============================================================================
