---------------------------- MODULE BoundedFifo ----------------------------
(***************************************************************************)
(* What log_queue.h promises its callers: a first-in first-out queue of at *)
(* most Capacity items.  "reply" is what the last completed call handed    *)
(* back.  Two things are left open because the code leaves them open: the  *)
(* value push returns when it stored the item (the function has no return  *)
(* statement on that path), and the value front() reads.                   *)
(***************************************************************************)
EXTENDS Naturals, Sequences

CONSTANTS Items,     \* the values that can be queued
          Capacity,  \* how many of them fit
          Nothing    \* no value was handed back

VARIABLES q, reply

fifoVars == <<q, reply>>

Reply(op, ok, val) == [op |-> op, ok |-> ok, val |-> val]

Init == q = << >> /\ reply = Reply("none", FALSE, Nothing)

Put(v) == /\ Len(q) < Capacity
          /\ q' = Append(q, v)
          /\ \E ok \in BOOLEAN : reply' = Reply("push", ok, v)

Refuse(v) == /\ Len(q) = Capacity
             /\ reply' = Reply("push", FALSE, v)
             /\ UNCHANGED q

Take == /\ q # << >>
        /\ q' = Tail(q)
        /\ reply' = Reply("pop", TRUE, Head(q))

Miss == reply' = Reply("pop", FALSE, Nothing) /\ UNCHANGED q

Newest == /\ reply' = IF q = << >> THEN Reply("back", FALSE, Nothing)
                                   ELSE Reply("back", TRUE, q[Len(q)])
          /\ UNCHANGED q

Look == /\ reply'.op = "front"
        /\ reply'.ok = (q # << >>)
        /\ UNCHANGED q

Reset == q' = << >> /\ UNCHANGED reply

Next == \/ \E v \in Items : Put(v) \/ Refuse(v)
        \/ Take \/ Miss \/ Newest \/ Look \/ Reset

Spec == Init /\ [][Next]_fifoVars
=============================================================================
