--------------------------- MODULE ThreadsafeList ---------------------------
(***************************************************************************)
(* threadsafe_list of "Designing lock-based concurrent data structures/    *)
(* exp1.cpp": a list with a mutex in each node, walked hand over hand by   *)
(* for_each, find_first_if and remove_if.  A step is what a thread does    *)
(* from one lock or unlock to the next.                                    *)
(***************************************************************************)
EXTENDS Naturals, Sequences, FiniteSets, Functions

CONSTANTS Threads, NoThread, Nodes, Null,
          Root,         \* the member head, a node without data
          Values, MaxCalls

ListAssumption == /\ IsFiniteSet(Nodes) /\ Null \notin Nodes /\ Root \notin Nodes \cup {Null}
                  /\ NoThread \notin Threads

VARIABLES next, data, live,
          m,            \* who holds each node's mutex
          pc, op,       \* where each thread is and the call it is in
          match,        \* the values its predicate holds of
          current, following,    \* the nodes it has locked
          seen,         \* (history) the nodes the call has met
          due,          \* (history) those in the list when it began and ever since
          calls

vars == <<next, data, live, m, pc, op, match, current, following, seen, due, calls>>

Init == /\ next = [n \in Nodes \cup {Root} |-> Null] /\ data = [n \in Nodes |-> Null]
        /\ live = {} /\ m = [n \in Nodes \cup {Root} |-> NoThread]
        /\ pc = [t \in Threads |-> "idle"] /\ op = [t \in Threads |-> "none"]
        /\ match = [t \in Threads |-> {}]
        /\ current = [t \in Threads |-> Null] /\ following = [t \in Threads |-> Null]
        /\ seen = [t \in Threads |-> << >>] /\ due = [t \in Threads |-> {}] /\ calls = 0

Goto(t, p) == pc' = [pc EXCEPT ![t] = p]
Running == \A t \in Threads : pc[t] # "fault"

Linked == LET Walk[k \in 0 .. Cardinality(Nodes)] ==
                IF k = 0 THEN {next[Root]} ELSE LET s == Walk[k - 1] IN s \cup {next[n] : n \in s \ {Null}}
          IN  Walk[Cardinality(Nodes)] \ {Null}

\* The new node is filled before the lock, which holds for two moves.
PushFront(t) == /\ pc[t] = "idle" /\ calls < MaxCalls /\ m[Root] = NoThread
                /\ \E n \in Nodes \ live, v \in Values :
                     /\ live' = live \cup {n} /\ data' = [data EXCEPT ![n] = v]
                     /\ next' = [next EXCEPT ![n] = next[Root], ![Root] = n]
                /\ calls' = calls + 1
                /\ UNCHANGED <<m, pc, op, match, current, following, seen, due>>

\* remove_if with every value is the destructor's.
Begin(t) == /\ pc[t] = "idle" /\ calls < MaxCalls /\ m[Root] = NoThread
            /\ \E o \in {"for_each", "find", "remove"}, s \in {{v} : v \in Values} \cup {Values} :
                 /\ o = "for_each" => s = Values
                 /\ op' = [op EXCEPT ![t] = o] /\ match' = [match EXCEPT ![t] = s]
            /\ m' = [m EXCEPT ![Root] = t] /\ current' = [current EXCEPT ![t] = Root]
            /\ seen' = [seen EXCEPT ![t] = << >>] /\ due' = [due EXCEPT ![t] = Linked]
            /\ calls' = calls + 1
            /\ Goto(t, "walk")
            /\ UNCHANGED <<next, data, live, following>>

\* next_lk, the lock of current->next; when there is none the call is over.
LockNext(t) ==
  /\ pc[t] = "walk"
  /\ LET n == next[current[t]]
     IN  IF n = Null
         THEN /\ m' = [m EXCEPT ![current[t]] = NoThread]
              /\ Goto(t, "end")
              /\ UNCHANGED following
         ELSE /\ m[n] = NoThread
              /\ m' = [m EXCEPT ![n] = t]
              /\ following' = [following EXCEPT ![t] = n]
              /\ Goto(t, "at")
  /\ UNCHANGED <<next, data, live, op, match, current, seen, due, calls>>

\* The lock before is given up, then the node is met: find stops at a match.
Visit(t) ==
  /\ pc[t] = "at" /\ op[t] # "remove"
  /\ LET n == following[t]
         found == op[t] = "find" /\ data[n] \in match[t]
     IN  /\ m' = [m EXCEPT ![current[t]] = NoThread, ![n] = IF found THEN NoThread ELSE t]
         /\ current' = [current EXCEPT ![t] = n]
         /\ seen' = [seen EXCEPT ![t] = Append(@, n)]
         /\ Goto(t, IF n \notin live THEN "fault" ELSE IF found THEN "found" ELSE "walk")
  /\ UNCHANGED <<next, data, live, op, match, following, due, calls>>

KeepCurrent(t) == [m EXCEPT ![following[t]] = NoThread]

\* remove_if: a match is unlinked and its mutex freed under the lock of current.
TakeOut(t) ==
  /\ pc[t] = "at" /\ op[t] = "remove"
  /\ LET n == following[t]
     IN  IF n \notin live THEN UNCHANGED <<next, m, current, due>> /\ Goto(t, "fault")
         ELSE IF data[n] \in match[t]
         THEN /\ next' = [next EXCEPT ![current[t]] = next[n]]
              /\ m' = KeepCurrent(t)
              /\ due' = [u \in Threads |-> due[u] \ {n}]
              /\ Goto(t, "delete") /\ UNCHANGED current
         ELSE /\ m' = [m EXCEPT ![current[t]] = NoThread]
              /\ current' = [current EXCEPT ![t] = n]
              /\ Goto(t, "walk") /\ UNCHANGED <<next, due>>
  /\ UNCHANGED <<data, live, op, match, following, seen, calls>>

\* old_next goes out of scope.
Delete(t) == /\ pc[t] = "delete"
             /\ live' = live \ {following[t]}
             /\ Goto(t, IF following[t] \in live THEN "walk" ELSE "fault")
             /\ UNCHANGED <<next, data, m, op, match, current, following, seen, due, calls>>

Return(t) == /\ pc[t] \in {"end", "found"}
             /\ current' = [current EXCEPT ![t] = Null] /\ following' = [following EXCEPT ![t] = Null]
             /\ seen' = [seen EXCEPT ![t] = << >>] /\ due' = [due EXCEPT ![t] = {}]
             /\ op' = [op EXCEPT ![t] = "none"] /\ match' = [match EXCEPT ![t] = {}]
             /\ Goto(t, "idle")
             /\ UNCHANGED <<next, data, live, m, calls>>

Next == Running /\ \E t \in Threads : \/ PushFront(t) \/ Begin(t) \/ LockNext(t) \/ Visit(t)
                                      \/ TakeOut(t) \/ Delete(t) \/ Return(t)

Spec == Init /\ [][Next]_vars
-----------------------------------------------------------------------------
(* A node is not touched after its deletion, though remove_if deletes nodes  *)
(* that other calls are on their way to.                                     *)
NoUseAfterDelete == Running /\ \A n \in Linked : n \in live

(* Calls do not overtake one another, so each meets, in the order of the     *)
(* list and once, every item that stays while it runs: a for_each has seen   *)
(* them all, a find has missed no match, a remove_if has left none.          *)
MeetsAll ==
  \A t \in Threads : pc[t] = "end" =>
    /\ IsInjective(seen[t])
    /\ op[t] = "for_each" => due[t] \subseteq Range(seen[t])
    /\ op[t] = "find" => \A n \in due[t] : data[n] \notin match[t]
    /\ op[t] = "remove" => \A n \in due[t] : data[n] \notin match[t]
=============================================================================
