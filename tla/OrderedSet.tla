----------------------------- MODULE OrderedSet -----------------------------
(***************************************************************************)
(* What a skip list promises: a set of keys in order, which grows by one   *)
(* key at a time and of which each reader gets an exact answer, taken at   *)
(* one moment, to each question: is the key there, which is the first key, *)
(* the last, the first from a key on, the one after or before a key.       *)
(***************************************************************************)
EXTENDS Naturals, FiniteSetsExt

CONSTANTS Keys, Readers, Nil

VARIABLES elems, got       \* of each reader: its last question and the answer

vars == <<elems, got>>

First(S) == IF S = {} THEN Nil ELSE Min(S)
Final(S) == IF S = {} THEN Nil ELSE Max(S)

Answer(what, key) ==
    CASE what = "Contains" -> key \in elems
      [] what = "Seek" -> First({k \in elems : k >= key})
      [] what = "SeekToFirst" -> First(elems)
      [] what = "SeekToLast" -> Final(elems)
      [] what = "Next" -> First({k \in elems : k > key})
      [] what = "Prev" -> Final({k \in elems : k < key})

Questions == {"Contains", "Seek", "SeekToFirst", "SeekToLast", "Next", "Prev"}

Init == elems = {} /\ got = [r \in Readers |-> << >>]

Insert == \E k \in Keys \ elems : elems' = elems \cup {k} /\ UNCHANGED got

Ask == \E r \in Readers, what \in Questions, key \in Keys :
           /\ got' = [got EXCEPT ![r] = <<what, key, Answer(what, key)>>]
           /\ UNCHANGED elems

Next == Insert \/ Ask

Spec == Init /\ [][Next]_vars
=============================================================================
