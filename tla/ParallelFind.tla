---------------------------- MODULE ParallelFind ----------------------------
(***************************************************************************)
(* The two parallel_find of "Designing concurrent code/exp2.cpp" and       *)
(* find_and_process_value of "Synchronizing concurrent operations".        *)
(*   promise  a thread for each block; who finds the value sets the result *)
(*            of all, once, and then the flag that stops the others        *)
(*   async    each half in a call of its own, whose results are put        *)
(*            together; the flag only stops the search                     *)
(*   any      a task for each block, and a continuation of when_any that   *)
(*            looks at one ready future after the other                    *)
(* Main is one of the threads and returns when all have ended.             *)
(***************************************************************************)
EXTENDS Integers, Sequences

CONSTANTS Blocks,       \* how many there are
          Size,         \* the elements of each
          Schemes

FindAssumption == Blocks \in Nat \ {0} /\ Size \in Nat \ {0}

VARIABLES scheme,
          matches, bad,     \* where the value is, and where its comparison throws
          done,             \* the flag
          result,           \* the promise of promise and any
          pc, begin,        \* where each thread is; the element it looks at
          found             \* async and any: what each block's call returned

vars == <<scheme, matches, bad, done, result, pc, begin, found>>

Threads == 1 .. Blocks
Elements == 1 .. Blocks * Size
First(b) == (b - 1) * Size + 1
End(b) == b * Size + 1      \* the last of a block, which stands for "not found" there
Unset == 0
Thrown == -1

Init == /\ scheme \in Schemes
        /\ matches \in SUBSET Elements /\ bad \in {{}} \cup {{e} : e \in Elements \ matches}
        /\ done = FALSE /\ result = Unset
        /\ pc = [b \in Threads |-> "test"] /\ begin = [b \in Threads |-> First(b)]
        /\ found = [b \in Threads |-> Unset]

Goto(b, p) == pc' = [pc EXCEPT ![b] = p]
Found(b, v) == found' = [found EXCEPT ![b] = v]

\* The loop's condition: the block's end, or the flag
Test(b) == /\ pc[b] = "test"
           /\ IF begin[b] = End(b) \/ done THEN Goto(b, "end") /\ Found(b, End(b))
              ELSE Goto(b, "compare") /\ UNCHANGED found
           /\ UNCHANGED <<scheme, matches, bad, done, result, begin>>

Compare(b) == /\ pc[b] = "compare"
              /\ IF begin[b] \in bad THEN Goto(b, "throw") /\ UNCHANGED begin
                 ELSE IF begin[b] \in matches THEN Goto(b, "set") /\ UNCHANGED begin
                 ELSE Goto(b, "test") /\ begin' = [begin EXCEPT ![b] = @ + 1]
              /\ UNCHANGED <<scheme, matches, bad, done, result, found>>

\* The flag is set, in any only by who finds, then the place is returned or the
\* exception thrown again.
SetFlag(b) == /\ scheme # "promise" /\ pc[b] \in {"set", "throw"}
              /\ done' = (done \/ scheme = "async" \/ pc[b] = "set")
              /\ Found(b, IF pc[b] = "set" THEN begin[b] ELSE Thrown)
              /\ Goto(b, "end")
              /\ UNCHANGED <<scheme, matches, bad, result, begin>>

\* A second set_value throws, and so does the set_exception that follows: both are swallowed.
SetResult(b) == /\ scheme = "promise" /\ pc[b] \in {"set", "throw"}
                /\ IF result = Unset
                   THEN /\ result' = IF pc[b] = "set" THEN begin[b] ELSE Thrown
                        /\ Goto(b, "flag")
                   ELSE UNCHANGED result /\ Goto(b, "end")
                /\ UNCHANGED <<scheme, matches, bad, done, begin, found>>

StoreFlag(b) == /\ pc[b] = "flag"
                /\ done' = TRUE
                /\ Goto(b, "end")
                /\ UNCHANGED <<scheme, matches, bad, result, begin, found>>

\* DoneCheck: a place, an exception (which breaks the promise) or the last future ends it.
DoneCheck(b) == /\ scheme = "any" /\ pc[b] = "end" /\ result = Unset
                /\ Goto(b, "seen")
                /\ result' = IF found[b] # End(b) THEN found[b]
                             ELSE IF \A c \in Threads \ {b} : pc[c] = "seen" THEN End(Blocks) ELSE Unset
                /\ UNCHANGED <<scheme, matches, bad, done, begin, found>>

Next == \E b \in Threads : \/ Test(b) \/ Compare(b) \/ SetFlag(b) \/ SetResult(b) \/ StoreFlag(b)
                           \/ DoneCheck(b)
Spec == Init /\ [][Next]_vars
-----------------------------------------------------------------------------
Ended == IF scheme = "any" THEN result # Unset ELSE \A b \in Threads : pc[b] = "end"

\* async: a call returns what its first half does, unless that found nothing; of
\* halves of halves it is the first block whose search says anything.
Tells(b) == found[b] # End(b)
FirstHalf(b) == Tells(b) /\ \A c \in 1 .. b - 1 : ~Tells(c)
Returned ==
  CASE scheme = "async" -> IF \E b \in Threads : Tells(b) THEN found[CHOOSE b \in Threads : FirstHalf(b)]
                           ELSE End(Blocks)
    [] scheme = "promise" -> IF done THEN result ELSE End(Blocks)
    [] scheme = "any" -> result

(* When the threads have ended, or the promise of any is set, a place that   *)
(* is returned holds the value, the end is returned only if there is no such *)
(* place, though the flag stops searches half way, and an exception is       *)
(* thrown only if a comparison threw.                                        *)
FindsIfThere ==
  Ended => CASE Returned = Thrown -> bad # {}
             [] Returned = End(Blocks) -> matches = {} /\ bad = {}
             [] OTHER -> Returned \in matches
=============================================================================
