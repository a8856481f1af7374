---------------------------- MODULE MatrixMemory ----------------------------
(***************************************************************************)
(* How the matrices and batches of MetaNN hold their elements.  Blocks of  *)
(* memory come from a pool per size class and go back to it with their     *)
(* last holder; a copy, a sub-matrix or an element of a batch is a view of *)
(* the same block.  SetValue asserts that its object is the block's only   *)
(* holder, which is what keeps the values that expressions have captured.  *)
(***************************************************************************)
EXTENDS Integers, Sequences, FiniteSets, SequencesExt

CONSTANTS Objects,    \* the variables that may hold a matrix or a batch
          Shapes,     \* <<batchNum, rowNum, colNum>> that may be constructed
          Unit,       \* the elements of the smallest size class (1024 bytes)
          MaxBlocks, MaxWrites

MatrixAssumption == /\ IsFiniteSet(Objects) /\ Shapes \subseteq Nat \X Nat \X Nat
                    /\ Unit \in Nat \ {0} /\ MaxBlocks \in Nat /\ MaxWrites \in Nat

VARIABLES objects,    \* what each variable holds, or Nothing
          memBuffer,  \* of each size class: the blocks given back, the last at the end
          memory,     \* the elements of every block allocated
          writes

vars == <<objects, memBuffer, memory, writes>>

Nothing == [blk |-> 0, off |-> 0, batch |-> 0, rows |-> 0, cols |-> 0, len |-> 0, size |-> 0]

\* The element b, i, j of an object is there in its block.
Place(o, b, i, j) == o.off + b * o.size + i * o.len + j
Indices(o) == {<<b, i, j>> : b \in 0 .. o.batch - 1, i \in 0 .. o.rows - 1, j \in 0 .. o.cols - 1}
Content(o) == [k \in Indices(o) |-> memory[o.blk][Place(o, k[1], k[2], k[3])]]

UseCount(blk) == Cardinality({x \in Objects : objects[x].blk = blk /\ objects[x] # Nothing})
InUse(o) == UseCount(o.blk) >= 1              \* mutant
AvailableForWrite(o) == UseCount(o.blk) = 1

SizeClass(n) == ((n + Unit - 1) \div Unit) * Unit

Init == /\ objects = [x \in Objects |-> Nothing]
        /\ memBuffer = << >> /\ memory = << >>
        /\ writes = 0

-----------------------------------------------------------------------------
\* What the pools are when x gives up what it holds: the last holder's block
\* goes back.
Given(x) ==
    LET blk == objects[x].blk
        class == Cardinality(DOMAIN memory[blk])
    IN  IF objects[x] = Nothing \/ UseCount(blk) > 1 THEN memBuffer
        ELSE [c \in DOMAIN memBuffer \cup {class} |->
                 (IF c \in DOMAIN memBuffer THEN memBuffer[c] ELSE << >>) \o
                 (IF c = class THEN <<blk>> ELSE << >>)]

\* A constructor takes the block that came back last, or a new one, and
\* leaves the elements as they are; x, of before, is destroyed first.
Construct(x, shape) ==
    LET n == shape[1] * shape[2] * shape[3]
        class == SizeClass(n)
        pool == IF class \in DOMAIN memBuffer THEN memBuffer[class] ELSE << >>
        blk == IF pool = << >> THEN Len(memory) + 1 ELSE Last(pool)
    IN  /\ objects[x] = Nothing
        /\ pool = << >> => Len(memory) < MaxBlocks
        /\ objects' = [objects EXCEPT ![x] =
               [blk |-> blk, off |-> 0, batch |-> shape[1], rows |-> shape[2], cols |-> shape[3],
                len |-> shape[3], size |-> shape[2] * shape[3]]]
        /\ memBuffer' = IF pool = << >> THEN memBuffer ELSE [memBuffer EXCEPT ![class] = Front(@)]
        /\ memory' = IF pool = << >> THEN Append(memory, [k \in 0 .. class - 1 |-> 0]) ELSE memory
        /\ UNCHANGED writes

Destroy(x) ==
    /\ objects[x] # Nothing
    /\ objects' = [objects EXCEPT ![x] = Nothing]
    /\ memBuffer' = Given(x)
    /\ UNCHANGED <<memory, writes>>

\* y gets a view of x's block, and gives up what it held.
View(x, y, view) ==
    /\ x # y /\ objects[x] # Nothing
    /\ objects' = [objects EXCEPT ![y] = view]
    /\ memBuffer' = IF objects[y].blk = objects[x].blk THEN memBuffer ELSE Given(y)
    /\ UNCHANGED <<memory, writes>>

Copy(x, y) == View(x, y, objects[x])

SubMatrix(x, y, rowB, rowE, colB, colE) ==
    /\ rowB < objects[x].rows /\ colB < objects[x].cols
    /\ rowE <= objects[x].rows /\ colE <= objects[x].cols
    /\ View(x, y, [objects[x] EXCEPT !.off = @ + rowB * objects[x].len + colB,
                                     !.rows = rowE - rowB, !.cols = colE - colB])

Element(x, y, b) ==
    /\ b < objects[x].batch
    /\ View(x, y, [objects[x] EXCEPT !.off = @ + b * objects[x].size, !.batch = 1])

\* (the element's value is 1 more than any before, up to the bound)
SetValue(x, b, i, j) ==
    /\ writes < MaxWrites
    /\ objects[x] # Nothing /\ AvailableForWrite(objects[x])
    /\ <<b, i, j>> \in Indices(objects[x])
    /\ memory' = [memory EXCEPT ![objects[x].blk][Place(objects[x], b, i, j)] = writes + 1]
    /\ writes' = writes + 1
    /\ UNCHANGED <<objects, memBuffer>>

Next == \E x \in Objects :
            \/ \E shape \in Shapes : Construct(x, shape)
            \/ Destroy(x)
            \/ \E b, i, j \in 0 .. 1 : SetValue(x, b, i, j)
            \/ \E y \in Objects :
                  \/ Copy(x, y)
                  \/ \E rowB, colB \in 0 .. 1 : \E rowE \in rowB + 1 .. 2, colE \in colB + 1 .. 2 :
                         SubMatrix(x, y, rowB, rowE, colB, colE)
                  \/ \E b \in 0 .. 1 : Element(x, y, b)

Spec == Init /\ [][Next]_vars

-----------------------------------------------------------------------------
(* A SetValue changes what one object holds: two objects that stay what they *)
(* are never see one write, however they came to share or reuse a block.     *)
OneChanges ==
    Cardinality({x \in Objects : /\ objects[x] # Nothing /\ objects'[x] = objects[x]
                                 /\ Content(objects[x])' # Content(objects[x])}) <= 1

PoolSlots == UNION {{c} \X DOMAIN memBuffer[c] : c \in DOMAIN memBuffer}

(* A block is in a pool exactly when nobody holds it, and once; views lie    *)
(* inside their block.                                                       *)
BlocksOwned ==
    /\ \A blk \in DOMAIN memory :
          LET in == {p \in PoolSlots : memBuffer[p[1]][p[2]] = blk}
          IN  Cardinality(in) = IF UseCount(blk) = 0 THEN 1 ELSE 0
    /\ \A x \in Objects : \A k \in Indices(objects[x]) :
          Place(objects[x], k[1], k[2], k[3]) \in DOMAIN memory[objects[x].blk]
=============================================================================
