---------------------------- MODULE MemoryOrders ----------------------------
(***************************************************************************)
(* The programs of "The C++ memory model and operations on atomic types/   *)
(* exp2.cpp": small sets of threads whose assertions hold or not with the  *)
(* memory orders they ask for.                                             *)
(*                                                                         *)
(* The memory keeps all the values written to each location, in order.  A  *)
(* thread has a view, the oldest write it may still read of each location; *)
(* a write carries the view it publishes and a read may join it to the     *)
(* reader's, as the orders say.  No location of these programs has two     *)
(* writers, and those with seq_cst use no other order.                     *)
(***************************************************************************)
EXTENDS Integers, Sequences, FiniteSets

CONSTANT Programs      \* the names of those to run

VARIABLES program,
          memory,       \* the writes to each location: values with the views they publish
          view,         \* what each thread has seen of each location
          acquired,     \* what an acquire fence would add to it
          released,     \* what a relaxed write publishes since the last release fence
          carried,      \* what is seen through a pointer read with consume
          pc,
          z,            \* the counter, changed with seq_cst only
          failed        \* the assertions that were found false

vars == <<program, memory, view, acquired, released, carried, pc, z, failed>>

Write(l, v, order) == [op |-> "write", loc |-> l, val |-> v, order |-> order]
Spin(l, order) == [op |-> "spin", loc |-> l, order |-> order]    \* while (!l.load(order));
Count(l, order) == [op |-> "count", loc |-> l, order |-> order]  \* if (l.load(order)) ++z;
Check(l, v, order) == [op |-> "check", loc |-> l, val |-> v, order |-> order]
Fence(order) == [op |-> "fence", loc |-> "x", order |-> order]

\* Two writers, and two readers that look at the flags in opposite orders
Opposite(w, r) == << <<Write("x", 1, w)>>, <<Write("y", 1, w)>>,
                     <<Spin("x", r), Count("y", r)>>, <<Spin("y", r), Count("x", r)>> >>
\* One writer of both flags, and a reader that waits for the second
Passing(w, r) == << <<Write("x", 1, "relaxed"), Write("y", 1, w)>>, <<Spin("y", r), Count("x", "relaxed")>> >>

RelaxedSync == << <<Write("a", 42, "relaxed"), Write("b", -141, "relaxed"), Write("x", 1, "relaxed")>>,    \* mutant
                  <<Spin("x", "acquire"), Write("y", 1, "release")>>,
                  <<Spin("y", "acquire"), Check("a", 42, "relaxed"), Check("b", 141, "relaxed")>> >>
TransitiveSync == << <<Write("a", 42, "relaxed"), Write("b", -141, "relaxed"), Write("x", 1, "release")>>,
                     <<Spin("x", "acquire"), Write("y", 1, "release")>>,
                     <<Spin("y", "acquire"), Check("a", 42, "relaxed"), Check("b", 141, "relaxed")>> >>

\* b is x->i, reached through the pointer y.
Consume == << <<Write("b", 42, "plain"), Write("a", 99, "relaxed"), Write("y", 1, "release")>>,
              <<Spin("y", "consume"), Check("b", 42, "depends"), Check("a", 99, "relaxed")>> >>

Fenced(w) == << <<Write("x", 1, w), Fence("release"), Write("y", 1, "relaxed")>>,
                <<Spin("y", "relaxed"), Fence("acquire"), Count("x", w)>> >>

Threads(p) == CASE p = "seq_cst" -> Opposite("seq_cst", "seq_cst")
                [] p = "relaxed" -> Passing("relaxed", "relaxed")
                [] p = "acq_rel_opposite" -> Opposite("release", "acquire")
                [] p = "acq_rel" -> Passing("release", "acquire")
                [] p = "transitive" -> TransitiveSync
                [] p = "consume" -> Consume
                [] p = "fences" -> Fenced("relaxed")
                [] p = "non_atomic" -> Fenced("plain")

Locations == {"x", "y", "a", "b"}
Ids == 1 .. 4
First == [l \in Locations |-> 1]
Join(v, w) == [l \in Locations |-> IF v[l] > w[l] THEN v[l] ELSE w[l]]

Init == /\ program \in Programs
        /\ memory = [l \in Locations |-> <<[val |-> 0, view |-> First]>>]
        /\ view = [t \in Ids |-> First] /\ acquired = view /\ released = view /\ carried = view
        /\ pc = [t \in Ids |-> 1] /\ z = 0 /\ failed = {}

Code(t) == IF t =< Len(Threads(program)) THEN Threads(program)[t] ELSE << >>
Running(t) == pc[t] =< Len(Code(t))
Instruction(t) == Code(t)[pc[t]]
At(t, ops) == Running(t) /\ Instruction(t).op \in ops
Step(t) == pc' = [pc EXCEPT ![t] = @ + 1]
-----------------------------------------------------------------------------
Store(t) ==
  /\ At(t, {"write"})
  /\ LET i == Instruction(t)
         seen == [view[t] EXCEPT ![i.loc] = Len(memory[i.loc]) + 1]
         published == IF i.order \in {"release", "seq_cst"} THEN seen ELSE released[t]
     IN  /\ view' = [view EXCEPT ![t] = seen]
         /\ memory' = [memory EXCEPT ![i.loc] = Append(@, [val |-> i.val, view |-> published])]
  /\ Step(t)
  /\ UNCHANGED <<program, acquired, released, carried, z, failed>>

\* The writes a load may read: with seq_cst the last one only.
Readable(t, i) ==
  LET oldest == IF i.order = "seq_cst" THEN Len(memory[i.loc])
                ELSE IF i.order = "depends" THEN Join(view[t], carried[t])[i.loc] ELSE view[t][i.loc]
  IN  oldest .. Len(memory[i.loc])

Seen(t, i, n) ==
  view' = [view EXCEPT ![t] = LET own == [@ EXCEPT ![i.loc] = n]
                              IN  IF i.order \in {"acquire", "seq_cst"} THEN Join(own, memory[i.loc][n].view) ELSE own]

Load(t) ==
  /\ At(t, {"spin", "count", "check"})
  /\ LET i == Instruction(t)
     IN  \E n \in Readable(t, i) :
           LET m == memory[i.loc][n]
           IN  /\ i.op = "spin" => m.val # 0
               /\ Seen(t, i, n)
               /\ acquired' = [acquired EXCEPT ![t] = Join(@, m.view)]
               /\ carried' = [carried EXCEPT ![t] = IF i.order = "consume" THEN Join(@, m.view) ELSE @]
               /\ z' = IF i.op = "count" /\ m.val # 0 THEN z + 1 ELSE z
               /\ failed' = failed \cup {w \in {<<i.loc, m.val>>} : i.op = "check" /\ m.val # i.val}
  /\ Step(t)
  /\ UNCHANGED <<program, memory, released>>

AtomicThreadFence(t) ==
  /\ At(t, {"fence"})
  /\ IF Instruction(t).order = "release"
     THEN released' = [released EXCEPT ![t] = view[t]] /\ UNCHANGED view
     ELSE view' = [view EXCEPT ![t] = Join(@, acquired[t])] /\ UNCHANGED released
  /\ Step(t)
  /\ UNCHANGED <<program, memory, acquired, carried, z, failed>>

Next == \E t \in Ids : Store(t) \/ Load(t) \/ AtomicThreadFence(t)
Spec == Init /\ [][Next]_vars
-----------------------------------------------------------------------------
Ended == \A t \in Ids : ~Running(t)
Counts == {"seq_cst", "acq_rel", "fences", "non_atomic"}

(* The assertions the programs end with (z is not 0, the data is what was    *)
(* written) hold where the orders promise it: not with relaxed writes, nor   *)
(* when two acquire readers look at independent writers, nor for what a      *)
(* consume reader does not reach through the pointer, nor for data[3], which *)
(* is compared with 141 and was given -141 (exp2.cpp 302 and 321).           *)
AssertionsHold ==
  /\ Ended /\ program \in Counts => z # 0
  /\ program = "transitive" => failed \subseteq {<<"b", -141>>}
  /\ program = "consume" => failed \subseteq {<<"a", 0>>}

(* The object behind y is read without a race: who reads a plain location    *)
(* has seen the last write to it.                                            *)
NoRace ==
  \A t \in Ids : Running(t) /\ Instruction(t).op # "write" /\ Instruction(t).order \in {"plain", "depends"} =>
    Readable(t, Instruction(t)) = {Len(memory[Instruction(t).loc])}
=============================================================================
