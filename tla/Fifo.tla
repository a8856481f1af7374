-------------------------------- MODULE Fifo --------------------------------
(***************************************************************************)
(* What the queues of the concurrency exercises promise: push and pop      *)
(* happen at one moment, a pop takes the oldest item, and it finds nothing *)
(* only if there is none.                                                  *)
(***************************************************************************)
EXTENDS Sequences

CONSTANTS Threads, Items, Nothing

VARIABLES contents,     \* the oldest item first
          got           \* what each thread's last pop has taken

vars == <<contents, got>>

Init == contents = << >> /\ got = [t \in Threads |-> Nothing]

Push(x) == contents' = Append(contents, x) /\ UNCHANGED got

Pop(t) == /\ contents # << >>
          /\ got' = [got EXCEPT ![t] = Head(contents)]
          /\ contents' = Tail(contents)

PopNothing(t) == /\ contents = << >>
                 /\ got' = [got EXCEPT ![t] = Nothing]
                 /\ UNCHANGED contents

Next == \/ \E x \in Items : Push(x)
        \/ \E t \in Threads : Pop(t) \/ PopNothing(t)

Spec == Init /\ [][Next]_vars
=============================================================================
