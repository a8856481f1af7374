-------------------------------- MODULE Lifo --------------------------------
(***************************************************************************)
(* What the lock-free stacks promise: push and pop happen at one moment,   *)
(* a pop takes the newest item, and finds nothing only if there is none.   *)
(***************************************************************************)
EXTENDS Sequences

CONSTANTS Threads, Items, Nothing

VARIABLES contents,     \* the newest item first
          got           \* what each thread's pop has taken

vars == <<contents, got>>

Init == contents = << >> /\ got = [t \in Threads |-> Nothing]

Push(x) == contents' = <<x>> \o contents /\ UNCHANGED got

Pop(t) == /\ contents # << >>
          /\ got' = [got EXCEPT ![t] = Head(contents)]
          /\ contents' = Tail(contents)

PopNothing(t) == /\ contents = << >>
                 /\ got' = [got EXCEPT ![t] = Nothing]
                 /\ UNCHANGED contents

Next == \/ \E x \in Items : Push(x)
        \/ \E t \in Threads : Pop(t) \/ PopNothing(t)

Spec == Init /\ [][Next]_vars
=============================================================================
