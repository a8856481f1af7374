------------------------------- MODULE LRUCache -------------------------------
(***************************************************************************)
(* LRUCache and LRUTable of utils/leveldb/cache.h and cache.cpp: entries   *)
(* counted by reference, found through a hash table of chains, and kept on *)
(* the list in_usage_ while a caller holds a handle and on lru_, coldest   *)
(* first, while only the cache does.  mutex_ is held over each operation,  *)
(* so an operation is one action, or one for each turn of its loop: while  *)
(* pc is not "idle" the mutex is taken.  Values and deleters are left out; *)
(* a deleter runs when its node's refs become 0, which frees the node.     *)
(***************************************************************************)
EXTENDS Integers, Sequences, FiniteSets, SequencesExt, FiniteSetsExt

CONSTANTS Keys, HashOf,     \* Hash(key)
          Charges, Capacities,
          MinLength,        \* the table's first length: 4 in the code
          MaxNodes,         \* bound: nodes alive at once
          MaxHandles        \* bound: handles callers hold at once

CacheAssumption == /\ HashOf \in [Keys -> Nat]
                   /\ Charges \subseteq Nat /\ Capacities \subseteq Nat
                   /\ MinLength \in Nat \ {0}
                   /\ MaxNodes \in Nat /\ MaxHandles \in Nat

VARIABLES capacity_, usage_,
          lru_, in_usage_,  \* the two lists, from next to prev
          node,             \* the nodes by address; one with refs = 0 is free memory
          list_, elems_,    \* LRUTable: the chains and their number of nodes
          handles,          \* of each node, the handles callers hold
          pc,               \* "idle", the loop that runs, "destroyed" or "aborted"
          made              \* the node Insert is about to return

vars == <<capacity_, usage_, lru_, in_usage_, node, list_, elems_, handles, pc, made>>

Addresses == 1 .. MaxNodes
Null == 0
Free == [key |-> CHOOSE k \in Keys : TRUE, charge |-> 0, refs |-> 0, in_cache |-> FALSE]
length_ == Cardinality(DOMAIN list_)
Chains(n) == [b \in 0 .. n - 1 |-> << >>]

Init == /\ capacity_ \in Capacities /\ usage_ = 0      \* and SetCapacity
        /\ lru_ = << >> /\ in_usage_ = << >>
        /\ node = [n \in Addresses |-> Free]
        /\ list_ = Chains(MinLength) /\ elems_ = 0
        /\ handles = [n \in Addresses |-> 0]
        /\ pc = "idle" /\ made = Null
-----------------------------------------------------------------------------
(* LRUTable *)

Bucket(k) == HashOf[k] % length_

\* FindPointer: the first place in the key's chain that has it, or its end.
Places(k) == {i \in 1 .. Len(list_[Bucket(k)]) : node[list_[Bucket(k)][i]].key = k}
FindPointer(k) == Min(Places(k) \cup {Len(list_[Bucket(k)]) + 1})
Find(k) == IF Places(k) = {} THEN Null ELSE list_[Bucket(k)][FindPointer(k)]

CutChain(k, e) == Append(SubSeq(list_[Bucket(k)], 1, FindPointer(k) - 1), e)    \* mutant
Linked(k, e) == IF Places(k) = {} THEN Append(list_[Bucket(k)], e)
                ELSE ReplaceAt(list_[Bucket(k)], FindPointer(k), e)

\* Resize: the length is doubled until the n nodes have a bucket each, and each
\* node goes to the head of the bucket the table's old length gives it.
Longer(n) == LET doubled[i \in 0 .. n] == IF i = 0 THEN MinLength ELSE 2 * doubled[i - 1]
             IN  doubled[Min({i \in 0 .. n : doubled[i] >= n})]

Moved(chain, table, nodes, old) ==
  LET moved[j \in 0 .. Len(chain)] ==
        IF j = 0 THEN table
        ELSE [moved[j - 1] EXCEPT ![HashOf[nodes[chain[j]].key] % old] = <<chain[j]>> \o @]
  IN moved[Len(chain)]

Resized(chains, nodes, n) ==
  LET old == Cardinality(DOMAIN chains)
      table[i \in 0 .. old] == IF i = 0 THEN Chains(Longer(n))
                               ELSE Moved(chains[i - 1], table[i - 1], nodes, old)
  IN table[old]

TableInsert(k, e) ==
  LET grown == elems_ + (IF Find(k) = Null THEN 1 ELSE 0)
      chains == [list_ EXCEPT ![Bucket(k)] = Linked(k, e)]
  IN /\ elems_' = grown
     /\ list_' = IF grown > length_ THEN Resized(chains, node', grown) ELSE chains

TableRemove(k) == /\ elems_' = elems_ - 1
                  /\ list_' = [list_ EXCEPT ![Bucket(k)] = RemoveAt(@, FindPointer(k))]
-----------------------------------------------------------------------------
(* The nodes' references and lists *)

MoveOnRef(e) == IF node[e].refs = 1 /\ node[e].in_cache
                THEN lru_' = RemoveFirst(lru_, e) /\ in_usage_' = Append(in_usage_, e)
                ELSE UNCHANGED <<lru_, in_usage_>>

Ref(e) == MoveOnRef(e) /\ node' = [node EXCEPT ![e].refs = @ + 1]

Dropped(n) == IF n.refs = 1 THEN Free ELSE [n EXCEPT !.refs = @ - 1]

UnusedEarly(e) == node[e].in_cache                  \* mutant
Unused(e) == node[e].in_cache /\ node[e].refs = 2

Unref(e) == /\ node' = [node EXCEPT ![e] = Dropped(@)]
            /\ IF Unused(e)
               THEN in_usage_' = RemoveFirst(in_usage_, e) /\ lru_' = Append(RemoveFirst(lru_, e), e)
               ELSE UNCHANGED <<lru_, in_usage_>>

\* FinishErase: what it does to a node and to usage_; a null e changes nothing.
Erased(n) == Dropped([n EXCEPT !.in_cache = FALSE])
Refund(e) == IF e = Null THEN 0 ELSE node[e].charge

FinishErase(e) == /\ node' = [node EXCEPT ![e] = Erased(@)]
                  /\ lru_' = RemoveFirst(lru_, e) /\ in_usage_' = RemoveFirst(in_usage_, e)
                  /\ usage_' = usage_ - Refund(e)
-----------------------------------------------------------------------------
(* The operations; a Lookup or an Erase that finds nothing changes nothing. *)

HandlesOut == Cardinality(UNION {{n} \X (1 .. handles[n]) : n \in Addresses})

Lookup(k) ==
  /\ pc = "idle" /\ Find(k) # Null /\ HandlesOut < MaxHandles
  /\ Ref(Find(k))
  /\ handles' = [handles EXCEPT ![Find(k)] = @ + 1]
  /\ UNCHANGED <<capacity_, usage_, list_, elems_, pc, made>>

Release(e) ==
  /\ pc = "idle" /\ handles[e] > 0
  /\ Unref(e)
  /\ handles' = [handles EXCEPT ![e] = @ - 1]
  /\ UNCHANGED <<capacity_, usage_, list_, elems_, pc, made>>

Erase(k) ==
  /\ pc = "idle" /\ Find(k) # Null
  /\ TableRemove(k) /\ FinishErase(Find(k))
  /\ UNCHANGED <<capacity_, handles, pc, made>>

\* Insert up to its loop: with capacity_ 0 the node is its caller's alone.
InsertCached(e, k, c) ==
  LET old == Find(k)
      new == [key |-> k, charge |-> c, refs |-> 2, in_cache |-> TRUE]
  IN /\ node' = [n \in Addresses |-> CASE n = e -> new
                                       [] n = old -> Erased(node[n])
                                       [] OTHER -> node[n]]
     /\ lru_' = RemoveFirst(lru_, old)
     /\ in_usage_' = Append(RemoveFirst(in_usage_, old), e)
     /\ usage_' = usage_ + c - Refund(old)
     /\ TableInsert(k, e)

InsertAlone(e, k, c) ==
  /\ node' = [node EXCEPT ![e] = [key |-> k, charge |-> c, refs |-> 1, in_cache |-> FALSE]]
  /\ UNCHANGED <<lru_, in_usage_, usage_, list_, elems_>>

Insert(k, c) ==
  /\ pc = "idle" /\ HandlesOut < MaxHandles
  /\ \E e \in Addresses :
       /\ node[e] = Free /\ \A n \in 1 .. e - 1 : node[n] # Free
       /\ IF capacity_ > 0 THEN InsertCached(e, k, c) ELSE InsertAlone(e, k, c)
       /\ made' = e
  /\ pc' = "evict"
  /\ UNCHANGED <<capacity_, handles>>

\* One turn of Insert's loop or of Prune's: both assert on what they erase.
EraseColdest ==
  LET old == Head(lru_) IN
  IF node[old].refs = 1 /\ Find(node[old].key) # Null
  THEN /\ TableRemove(node[old].key) /\ FinishErase(Find(node[old].key))
       /\ UNCHANGED <<capacity_, handles, pc, made>>
  ELSE /\ pc' = "aborted"
       /\ UNCHANGED <<capacity_, usage_, lru_, in_usage_, node, list_, elems_, handles, made>>

OverFull == usage_ > capacity_ /\ lru_ # << >>

Evict == pc = "evict" /\ OverFull /\ EraseColdest

InsertReturns ==
  /\ pc = "evict" /\ ~OverFull
  /\ handles' = [handles EXCEPT ![made] = @ + 1]
  /\ pc' = "idle" /\ made' = Null
  /\ UNCHANGED <<capacity_, usage_, lru_, in_usage_, node, list_, elems_>>

Prune ==
  /\ \/ pc = "idle" /\ lru_ # << >> /\ pc' = "prune"
     \/ pc = "prune" /\ lru_ = << >> /\ pc' = "idle"
  /\ UNCHANGED <<capacity_, usage_, lru_, in_usage_, node, list_, elems_, handles, made>>

PruneOne == pc = "prune" /\ lru_ # << >> /\ EraseColdest

\* ~LRUCache, once its callers have released every handle; the table and the
\* counts go with the object.
Destroy ==
  /\ pc = "idle" /\ HandlesOut = 0
  /\ pc' = IF in_usage_ = << >> /\ \A i \in 1 .. Len(lru_) : node[lru_[i]].refs = 1
           THEN "destroyed" ELSE "aborted"
  /\ node' = [n \in Addresses |-> IF Contains(lru_, n) THEN Erased(node[n]) ELSE node[n]]
  /\ lru_' = << >> /\ list_' = Chains(0) /\ elems_' = 0 /\ usage_' = 0
  /\ UNCHANGED <<capacity_, in_usage_, handles, made>>

Next == \/ \E k \in Keys : Lookup(k) \/ Erase(k) \/ \E c \in Charges : Insert(k, c)
        \/ \E e \in Addresses : Release(e)
        \/ Evict \/ InsertReturns \/ Prune \/ PruneOne \/ Destroy

Spec == Init /\ [][Next]_vars
-----------------------------------------------------------------------------
Cached == {n \in Addresses : node[n].in_cache}
InTable == UNION {ToSet(list_[b]) : b \in DOMAIN list_}
Holders(n) == handles[n] + (IF n = made THEN 1 ELSE 0)
Grown == length_ > MinLength

(* Whatever is looked up, replaced, erased, evicted and released, in any     *)
(* order: a node lives exactly as long as someone refers to it, and is on    *)
(* the list its references call for, once; the table holds the cached ones.  *)
ListsAndRefs ==
  /\ \A n \in Addresses : node[n].refs = Holders(n) + (IF node[n].in_cache THEN 1 ELSE 0)
  /\ ToSet(lru_) = {n \in Cached : node[n].refs = 1}
  /\ ToSet(in_usage_) = {n \in Cached : node[n].refs > 1}
  /\ IsInjective(lru_) /\ IsInjective(in_usage_)
  /\ InTable = Cached

(* TotalCharge is the charge of what is in the cache, neither of what was    *)
(* replaced nor of what is only held, whichever way an entry left.           *)
UsageExact == usage_ = Cardinality(UNION {{n} \X (1 .. node[n].charge) : n \in Cached})

(* Until the table first grows, every cached entry is found by its key, and  *)
(* no key has two: a replaced, erased or evicted entry takes no other with   *)
(* it from its chain.                                                        *)
TableFinds == ~Grown => /\ elems_ = Cardinality(Cached)
                        /\ \A n \in Cached : Find(node[n].key) = n

(* All three at once.                                                        *)
CacheConsistent == ListsAndRefs /\ UsageExact /\ TableFinds

(* Until the table first grows the loops of Insert and Prune find what they  *)
(* evict, and never evict what a caller holds or what is being inserted.     *)
Pinned == ~Grown /\ pc \in {"evict", "prune"} =>
            /\ pc' # "aborted"
            /\ \A n \in Cached : Holders(n) > 0 => n \in Cached'

(* "assert(erared)" (cache.cpp 95): the table has the node that is evicted.  *)
(* Resize puts nodes where the old length sends them, so it may not.         *)
EvictionFinds == pc # "aborted"

\* For the configuration: with the code's first length, the bucket of b changes
\* when a fifth node makes it 8.
HashAtFour == [k \in Keys |-> IF k = "b" THEN 4 ELSE 0]
=============================================================================
