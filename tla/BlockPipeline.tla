--------------------------- MODULE BlockPipeline ---------------------------
(***************************************************************************)
(* The two process_data with barriers of "Synchronizing concurrent         *)
(* operations/exp5.cpp": blocks of a source are cut into one chunk for     *)
(* each thread, and the results of the chunks written together.            *)
(*   barrier  thread 0 takes the next block and writes its result, a       *)
(*            barrier before and after the chunks are processed            *)
(*   flex     the last to arrive at the one barrier does both              *)
(* A source is done when it has given its last block.                      *)
(***************************************************************************)
EXTENDS Integers, Sequences, FiniteSets

CONSTANTS N,            \* the threads are 0 .. N - 1
          MaxBlocks,
          Schemes

VARIABLES scheme, blocks,
          given,        \* how many blocks the source has given
          chunks,       \* the block whose chunks are at hand, 0 before the first
          result,       \* of each chunk, the block it is the result of
          sink,
          pc, arrived   \* where each thread is; who waits in the barrier

vars == <<scheme, blocks, given, chunks, result, sink, pc, arrived>>

PipelineAssumption == N \in Nat \ {0} /\ MaxBlocks \in Nat

Threads == 0 .. N - 1
Done == given = blocks

\* The caller's split_source, of flex, comes before its threads.
Init == /\ scheme \in Schemes /\ blocks \in 1 .. MaxBlocks
        /\ given = IF scheme = "flex" THEN 1 ELSE 0
        /\ chunks = given
        /\ result = [t \in Threads |-> 0] /\ sink = << >>
        /\ pc = [t \in Threads |-> "test"] /\ arrived = {}

Goto(t, p) == pc' = [pc EXCEPT ![t] = p]

\* while (!source.done())
Test(t) == /\ pc[t] = "test"
           /\ Goto(t, IF Done THEN "end" ELSE IF scheme = "flex" THEN "process" ELSE IF t = 0 THEN "split" ELSE "before")
           /\ UNCHANGED <<scheme, blocks, given, chunks, result, sink, arrived>>

\* get_next_data_block and divide_into_chunks
SplitSource == given' = given + 1 /\ chunks' = given + 1
Split(t) == /\ pc[t] = "split"
            /\ SplitSource
            /\ Goto(t, "before")
            /\ UNCHANGED <<scheme, blocks, result, sink, arrived>>

SetChunk(t) == /\ pc[t] = "process"
               /\ result' = [result EXCEPT ![t] = chunks]
               /\ Goto(t, "after")
               /\ UNCHANGED <<scheme, blocks, given, chunks, sink, arrived>>

WriteData == sink' = Append(sink, result)
\* What flex does between the last arrival and the release of the others.
Completion == WriteData /\ IF Done THEN UNCHANGED <<given, chunks>> ELSE SplitSource

\* arrive_and_wait, the barrier before the chunks or the one after them
Released(u) == IF pc[u] = "before" THEN "process" ELSE IF scheme = "barrier" /\ u = 0 THEN "write" ELSE "test"
ArriveAndWait(t) ==
  /\ pc[t] \in {"before", "after"} /\ t \notin arrived
  /\ IF arrived \cup {t} = Threads
     THEN /\ arrived' = {} /\ pc' = [u \in Threads |-> Released(u)]
          /\ IF scheme = "flex" THEN Completion ELSE UNCHANGED <<given, chunks, sink>>
     ELSE /\ arrived' = arrived \cup {t}
          /\ UNCHANGED <<pc, given, chunks, sink>>
  /\ UNCHANGED <<scheme, blocks, result>>

Write(t) == /\ pc[t] = "write"
            /\ WriteData
            /\ Goto(t, "test")
            /\ UNCHANGED <<scheme, blocks, given, chunks, result, arrived>>

Step(t) == Test(t) \/ Split(t) \/ SetChunk(t) \/ ArriveAndWait(t) \/ Write(t)
Next == \E t \in Threads : Step(t)
Spec == Init /\ [][Next]_vars /\ \A t \in Threads : WF_vars(Step(t))
-----------------------------------------------------------------------------
(* What is written is whole blocks, in the order of the source: no chunk of  *)
(* one block among those of another, and nothing lost but the last block in  *)
(* flex, whose threads find the source done when it has just been split.     *)
BlocksWhole ==
  /\ \A i \in DOMAIN sink : \A t \in Threads : sink[i][t] = i
  /\ (\A t \in Threads : pc[t] = "end") => Len(sink) = IF scheme = "flex" THEN blocks - 1 ELSE blocks

(* The threads end; with barriers a thread that finds the source done before *)
(* its last block is processed leaves the others in the barrier for ever.    *)
Stuck == scheme = "barrier" /\ Done /\ \E t \in Threads \ {0} : pc[t] = "end" /\ pc[0] # "end"
Ended == \A t \in Threads : pc[t] = "end"
AllEnd == <>(Ended \/ Stuck)
=============================================================================
