------------------------------ MODULE SkipList ------------------------------
(***************************************************************************)
(* SkipList of utils/leveldb/skiplist.h: lists on several levels, each a   *)
(* part of the one below.  One writer inserts (the callers see to that);   *)
(* readers walk without a lock.  A reader may load a height that the       *)
(* writer stored earlier, for max_height_ is relaxed.                      *)
(*                                                                         *)
(* A node is named by its key, the head by 0.  Levels count from 1.  The   *)
(* code's slips of the pen (setNext, key for key_, a semicolon) are read   *)
(* as meant; it does not compile as it stands.                             *)
(***************************************************************************)
EXTENDS Integers, Sequences, FiniteSets

CONSTANTS Keys,         \* positive integers, compare_ is their order
          KMaxHeight,
          Readers

SkipAssumption == /\ IsFiniteSet(Keys) /\ Keys # {} /\ Keys \subseteq Nat \ {0}
                  /\ KMaxHeight \in Nat \ {0}

VARIABLES next_,        \* of each node, by level
          max_height_,
          heights,      \* the values that max_height_ has had
          insert,       \* the writer: [key, height, prev, level], level 0 between inserts
          find,         \* of each reader: [what, key, x, level], level 0 when it walks not
          node_,        \* of each reader, where its iterator is
          got           \* and the last answer: <<what, key, answer>>

vars == <<next_, max_height_, heights, insert, find, node_, got>>

Top == 0               \* head_
Nil == -1
Wild == -2              \* what memory of a new node holds
Levels == 1 .. KMaxHeight
Idle == [key |-> 0, height |-> 0, prev |-> << >>, level |-> 0]
Standing == [what |-> "none", key |-> 0, x |-> 0, level |-> 0]

Init == /\ next_ = [x \in Keys \cup {Top} |-> [l \in Levels |-> IF x = Top THEN Nil ELSE Wild]]
        /\ max_height_ = 1 /\ heights = {1}
        /\ insert = Idle
        /\ find = [r \in Readers |-> Standing]
        /\ node_ = [r \in Readers |-> Nil]
        /\ got = [r \in Readers |-> << >>]

KeyIsAfterNode(key, n) == n # Nil /\ n < key

-----------------------------------------------------------------------------
\* prev of FindGreaterOrEqual: on each level the last node before the key, from
\* the one found above it.  (Only the writer changes what this reads.)
Along(key, l, from) ==
    LET go[x \in {y \in Keys \cup {Top} : next_[y][l] # Wild}] ==
            IF KeyIsAfterNode(key, next_[x][l]) THEN go[next_[x][l]] ELSE x
    IN  go[from]
Preds(key) ==
    LET prev[l \in 1 .. max_height_] == Along(key, l, IF l = max_height_ THEN Top ELSE prev[l + 1])
    IN  prev

InsertBegin(key, height) ==
    /\ insert = Idle
    /\ LET prev == Preds(key)
       IN  /\ next_[prev[1]][1] # key       \* asserted: a key is inserted once
           /\ insert' = [key |-> key, height |-> height, level |-> 1,
                         prev |-> [l \in 1 .. height |-> IF l <= max_height_ THEN prev[l] ELSE Top]]
    /\ IF height > max_height_
       THEN max_height_' = height /\ heights' = heights \cup {height}
       ELSE UNCHANGED <<max_height_, heights>>
    /\ UNCHANGED <<next_, find, node_, got>>

\* One level after the other, from the lowest: the new node's link and then,
\* for all to see, the one to it.
InsertLink ==
    /\ insert # Idle
    /\ LET l == insert.level
           before == insert.prev[l]
       IN  next_' = [next_ EXCEPT ![insert.key][l] = next_[before][l], ![before][l] = insert.key]
    /\ insert' = IF insert.level = insert.height THEN Idle ELSE [insert EXCEPT !.level = @ + 1]
    /\ UNCHANGED <<max_height_, heights, find, node_, got>>

-----------------------------------------------------------------------------
\* FindGreaterOrEqual, FindLessThan and FindLast: from the head, as far as it
\* goes on each level and then down.
FindBegin(r, what, key, h) ==
    /\ find[r] = Standing
    /\ h \in heights
    /\ what = "Prev" => node_[r] = key
    /\ what = "SeekToLast" => key = CHOOSE k \in Keys : TRUE
    /\ find' = [find EXCEPT ![r] = [what |-> what, key |-> key, x |-> Top, level |-> h]]
    /\ UNCHANGED <<next_, max_height_, heights, insert, node_, got>>

Onward(f, n) == IF f.what = "SeekToLast" THEN n # Nil ELSE KeyIsAfterNode(f.key, n)

\* The iterator does not show the head.
Shown(x) == IF x = Top THEN Nil ELSE x
Found(f, n) ==
    CASE f.what = "Contains" -> n = f.key
      [] f.what = "Seek" -> n
      [] f.what \in {"Prev", "SeekToLast"} -> Shown(f.x)

Return(r, what, key, answer) ==
    /\ got' = [got EXCEPT ![r] = <<what, key, answer>>]
    /\ node_' = IF what = "Contains" THEN node_ ELSE [node_ EXCEPT ![r] = answer]

FindStep(r) ==
    LET f == find[r]
        n == next_[f.x][f.level]
    IN  /\ f # Standing
        /\ IF Onward(f, n)
           THEN find' = [find EXCEPT ![r].x = n] /\ UNCHANGED <<node_, got>>
           ELSE IF f.level > 1
           THEN find' = [find EXCEPT ![r].level = @ - 1] /\ UNCHANGED <<node_, got>>
           ELSE find' = [find EXCEPT ![r] = Standing] /\ Return(r, f.what, f.key, Found(f, n))
        /\ UNCHANGED <<next_, max_height_, heights, insert>>

\* SeekToFirst and Next follow one link.
Follow(r, what, x, key) ==
    /\ find[r] = Standing
    /\ Return(r, what, key, next_[x][1])
    /\ UNCHANGED <<next_, max_height_, heights, insert, find>>

SeekToFirst(r) == Follow(r, "SeekToFirst", Top, CHOOSE k \in Keys : TRUE)
IteratorNext(r) == node_[r] # Nil /\ Follow(r, "Next", node_[r], node_[r])

Next == \/ \E key \in Keys, height \in Levels : InsertBegin(key, height)
        \/ InsertLink
        \/ \E r \in Readers :
              \/ \E what \in {"Contains", "Seek", "Prev", "SeekToLast"}, key \in Keys, h \in Levels :
                    FindBegin(r, what, key, h)
              \/ FindStep(r)
              \/ SeekToFirst(r) \/ IteratorNext(r)

Spec == Init /\ [][Next]_vars

-----------------------------------------------------------------------------
On(l) == LET from[x \in Keys \cup {Top, Nil, Wild}] ==
                 IF x \in {Nil, Wild} THEN {} ELSE {x} \cup from[next_[x][l]]
         IN  from[next_[Top][l]]

(* Each answer to a reader is exact at the moment of its last load, whatever *)
(* the writer links meanwhile: the skip list is an ordered set.              *)
Set == INSTANCE OrderedSet WITH elems <- On(1)

(* No reader comes to a level that a node has no link on, and the levels lie *)
(* one within the other, in order.                                           *)
LevelsNested ==
    /\ \A r \in Readers : find[r] # Standing => next_[find[r].x][find[r].level] # Wild
    /\ \A l \in Levels : \A x \in On(l) : next_[x][l] = Nil \/ next_[x][l] > x
    /\ \A l \in Levels \ {1} : On(l) \subseteq On(l - 1)
=============================================================================
