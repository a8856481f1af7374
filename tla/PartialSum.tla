----------------------------- MODULE PartialSum -----------------------------
(***************************************************************************)
(* The two parallel_partial_sum of "Designing concurrent code/exp2.cpp".   *)
(*   pairs   process_element: a thread for each element, in rounds that a  *)
(*           barrier separates; a thread that has no more rounds leaves it *)
(*   chunks  process_chunk: a thread for each block, which passes the sum  *)
(*           so far to the next through a promise, or its exception        *)
(* Main is the last thread of each.  An access to the barrier is a step.   *)
(***************************************************************************)
EXTENDS Integers, Sequences

CONSTANTS Length,       \* of the sequence that is summed
          Value,        \* its elements
          Blocks,       \* the threads of chunks; a block is its first and last index
          Schemes

VARIABLES scheme,
          elem, buffer,         \* the sequence, and the other one of pairs
          pc, round,            \* where each thread is, and in which round
          count, spaces, generation,    \* the barrier
          gen,                  \* the generation that a thread has read
          refill,               \* the count that it has read
          promise,              \* what each block has passed on, once it has
          bad                   \* the additions that throw: of a block and a place in it

vars == <<scheme, elem, buffer, pc, round, count, spaces, generation, gen, refill, promise, bad>>
barrier == <<count, spaces, generation, gen, refill>>
pairs == <<barrier, buffer, round>>

Elements == 1 .. Length
First(b) == Blocks[b][1]
Final(b) == Blocks[b][2]

\* The blocks follow each other from the first element to the last.
SumAssumption == /\ Length \in Nat \ {0} /\ Value \in [Elements -> Int]
                 /\ Blocks \in Seq(Elements \X Elements) /\ Blocks # << >>
                 /\ First(1) = 1 /\ Final(Len(Blocks)) = Length
                 /\ \A b \in DOMAIN Blocks : First(b) =< Final(b)
                 /\ \A b \in DOMAIN Blocks \ {1} : First(b) = Final(b - 1) + 1

Threads == IF scheme = "pairs" THEN Elements ELSE DOMAIN Blocks
Sent(v) == [kind |-> "value", value |-> v]
Unset == [kind |-> "none", value |-> 0]
Thrown == [kind |-> "exception", value |-> 0]

\* In a block, to the end value of the one before, and to the rest of the block.
Additions == {<<b, "start">> : b \in DOMAIN Blocks} \cup {<<b, "get">> : b \in DOMAIN Blocks \ {1}}
             \cup {<<b, "rest">> : b \in {d \in DOMAIN Blocks \ {1} : First(d) < Final(d)}}

Init == /\ scheme \in Schemes
        /\ elem = Value /\ buffer = [i \in Elements |-> 0]
        /\ pc = [t \in Threads |-> "start"] /\ round = [t \in Elements |-> 0]
        /\ count = Length /\ spaces = Length /\ generation = 0
        /\ gen = [t \in Elements |-> 0] /\ refill = [t \in Elements |-> 0]
        /\ promise = [b \in DOMAIN Blocks |-> Unset]
        /\ bad \in IF scheme = "chunks" THEN SUBSET Additions ELSE {{}}

Goto(t, p) == pc' = [pc EXCEPT ![t] = p]
-----------------------------------------------------------------------------
(* process_element *)

Stride(t) == 2 ^ round[t]
Even(t) == round[t] % 2 = 0

\* An even round reads the sequence and writes the buffer, an odd one the other way.
Add(t) ==
  /\ scheme = "pairs" /\ pc[t] = "start" /\ Stride(t) =< t - 1
  /\ IF Even(t) THEN /\ buffer' = [buffer EXCEPT ![t] = elem[t] + elem[t - Stride(t)]]
                     /\ UNCHANGED elem
                ELSE /\ elem' = [elem EXCEPT ![t] = buffer[t] + buffer[t - Stride(t)]]
                     /\ UNCHANGED buffer
  /\ Goto(t, "wait")
  /\ UNCHANGED <<scheme, round, barrier, promise, bad>>

\* No more rounds: the last sum goes to the sequence, and the barrier loses a member.
Leave(t) ==
  /\ scheme = "pairs" /\ pc[t] = "start" /\ Stride(t) > t - 1
  /\ elem' = [elem EXCEPT ![t] = IF round[t] > 0 /\ ~Even(t) THEN buffer[t] ELSE @]
  /\ Goto(t, "leave")
  /\ UNCHANGED <<scheme, pairs, promise, bad>>

ReadGeneration(t) == /\ pc[t] = "wait"
                     /\ gen' = [gen EXCEPT ![t] = generation]
                     /\ Goto(t, "arrive")
                     /\ UNCHANGED <<scheme, elem, buffer, round, count, spaces, generation, refill, promise, bad>>

CountDown == count - 1
DoneWaiting(t) == /\ pc[t] = "leave"
                  /\ count' = CountDown
                  /\ Goto(t, "depart")
                  /\ UNCHANGED <<scheme, elem, buffer, round, spaces, generation, gen, refill, promise, bad>>

\* --spaces: who takes the last one opens the next generation.
Arrive(t) ==
  /\ pc[t] \in {"arrive", "depart"}
  /\ spaces' = spaces - 1
  /\ Goto(t, IF pc[t] = "arrive" THEN IF spaces = 1 THEN "count" ELSE "spin"
             ELSE IF spaces = 1 THEN "last count" ELSE "done")
  /\ UNCHANGED <<scheme, elem, buffer, round, count, generation, gen, refill, promise, bad>>

ReadCount(t) == /\ pc[t] \in {"count", "last count"}
                /\ refill' = [refill EXCEPT ![t] = count]
                /\ Goto(t, IF pc[t] = "count" THEN "refill" ELSE "last refill")
                /\ UNCHANGED <<scheme, elem, buffer, round, count, spaces, generation, gen, promise, bad>>

Refill(t) == /\ pc[t] \in {"refill", "last refill"}
             /\ spaces' = refill[t]
             /\ Goto(t, IF pc[t] = "refill" THEN "open" ELSE "last open")
             /\ UNCHANGED <<scheme, elem, buffer, round, count, generation, gen, refill, promise, bad>>

Open(t) == /\ pc[t] \in {"open", "last open"}
           /\ generation' = generation + 1
           /\ IF pc[t] = "open" THEN round' = [round EXCEPT ![t] = @ + 1] /\ Goto(t, "start")
              ELSE UNCHANGED round /\ Goto(t, "done")
           /\ UNCHANGED <<scheme, elem, buffer, count, spaces, gen, refill, promise, bad>>

Spin(t) == /\ pc[t] = "spin" /\ generation # gen[t]
           /\ round' = [round EXCEPT ![t] = @ + 1]
           /\ Goto(t, "start")
           /\ UNCHANGED <<scheme, elem, buffer, barrier, promise, bad>>

Pairs(t) == \/ Add(t) \/ Leave(t) \/ ReadGeneration(t) \/ DoneWaiting(t) \/ Arrive(t)
            \/ ReadCount(t) \/ Refill(t) \/ Open(t) \/ Spin(t)
-----------------------------------------------------------------------------
(* process_chunk; the last block has no promise to keep *)

Pass(b, v) == promise' = IF b = Len(Blocks) THEN promise ELSE [promise EXCEPT ![b] = v]

Throws(b) == <<b, pc[b]>> \in bad

\* The handler.  A promise that has its value takes no exception: set_exception
\* throws out of the thread, and the process is terminated.
Swallow(b) == UNCHANGED promise /\ Goto(b, "done")    \* mutant
PassException(b) ==
  \/ b = Len(Blocks) /\ UNCHANGED promise /\ Goto(b, "thrown")
  \/ b # Len(Blocks) /\ promise[b] = Unset /\ Pass(b, Thrown) /\ Goto(b, "done")
  \/ b # Len(Blocks) /\ promise[b] # Unset /\ UNCHANGED promise /\ Goto(b, "terminated")

\* The sums within the block, whose last is the first block's end value.
Sums(b) == LET sum[i \in First(b) .. Final(b)] == IF i = First(b) THEN elem[i] ELSE sum[i - 1] + elem[i]
           IN  sum
SumBlock(b) ==
  /\ scheme = "chunks" /\ pc[b] = "start"
  /\ IF Throws(b) THEN UNCHANGED elem /\ PassException(b)
     ELSE /\ elem' = [i \in Elements |-> IF i \in First(b) .. Final(b) THEN Sums(b)[i] ELSE elem[i]]
          /\ IF b = 1 THEN Pass(b, Sent(elem'[Final(b)])) /\ Goto(b, "done")
             ELSE UNCHANGED promise /\ Goto(b, "get")
  /\ UNCHANGED <<scheme, pairs, bad>>

\* The end value before is added to the last element, which is passed on before the rest.
GetPrevious(b) ==
  /\ scheme = "chunks" /\ pc[b] = "get" /\ promise[b - 1] # Unset
  /\ IF promise[b - 1] = Thrown \/ Throws(b) THEN UNCHANGED elem /\ PassException(b)
     ELSE /\ elem' = [elem EXCEPT ![Final(b)] = @ + promise[b - 1].value]
          /\ Pass(b, Sent(elem'[Final(b)])) /\ Goto(b, "rest")
  /\ UNCHANGED <<scheme, pairs, bad>>

AddToRest(b) ==
  /\ scheme = "chunks" /\ pc[b] = "rest"
  /\ IF Throws(b) THEN UNCHANGED elem /\ PassException(b)
     ELSE /\ elem' = [i \in Elements |-> IF i \in First(b) .. Final(b) - 1 THEN elem[i] + promise[b - 1].value
                                         ELSE elem[i]]
          /\ Goto(b, "done") /\ UNCHANGED promise
  /\ UNCHANGED <<scheme, pairs, bad>>

Chunks(t) == SumBlock(t) \/ GetPrevious(t) \/ AddToRest(t)

Terminated == \E t \in Threads : pc[t] = "terminated"
Step(t) == ~Terminated /\ (Pairs(t) \/ Chunks(t))
Next == \E t \in Threads : Step(t)
Spec == Init /\ [][Next]_vars /\ \A t \in Elements : WF_vars(t \in Threads /\ Step(t))
-----------------------------------------------------------------------------
Ended == Terminated \/ \A t \in Threads : pc[t] \in {"done", "thrown"}
Prefix[i \in 0 .. Length] == IF i = 0 THEN 0 ELSE Prefix[i - 1] + Value[i]
PrefixSums == \A i \in Elements : elem[i] = Prefix[i]

(* In chunks every element is in the end the sum of those up to it, unless   *)
(* additions have thrown: then Main throws, whichever blocks they were in, or *)
(* the process is terminated, but that only by one which came after its       *)
(* thread had passed its sum on (exp2.cpp 222-236).                           *)
SumsOrThrows ==
  scheme = "chunks" /\ Ended =>
    IF bad = {} THEN PrefixSums
    ELSE \/ pc[Len(Blocks)] = "thrown"
         \/ Terminated /\ \E b \in 1 .. Len(Blocks) - 1 : <<b, "rest">> \in bad

(* In pairs the threads that go on are in step: none adds in a round before  *)
(* all the others have added in the one before, though members leave while   *)
(* the barrier is refilled.                                                  *)
InStep ==
  scheme = "pairs" =>
    \A t, u \in Elements : pc[t] = "start" /\ pc[u] \in {"start", "wait", "arrive"} => round[t] = round[u]

(* The barrier, that loses members, and the promises never leave a thread    *)
(* waiting.                                                                  *)
AllEnd == <>Ended

(* What pairs says it is, a partial_sum.                                     *)
PairsSum == scheme = "pairs" /\ Ended => PrefixSums
=============================================================================
