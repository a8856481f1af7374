-------------------------------- MODULE Arena --------------------------------
(***************************************************************************)
(* Mem of utils/leveldb/mem.h and mem.cpp: memory for the nodes of a skip  *)
(* list, cut from blocks and freed all at once.  A request that does not   *)
(* fit the rest of the current block gets a block of its own if it is      *)
(* large, or else starts a new current block.                              *)
(***************************************************************************)
EXTENDS Integers

CONSTANTS KBlockSize,   \* 4096
          PointerSize,  \* sizeof(char*)
          Requests,     \* the sizes asked for
          Addresses     \* where new may place a block

VARIABLES alloc_ptr_, alloc_bytes_remaining_,
          blocks_,      \* a set of [at, size]
          memory_usage_,
          out           \* what was handed out: [at, size, aligned]

vars == <<alloc_ptr_, alloc_bytes_remaining_, blocks_, memory_usage_, out>>

ArenaAssumption == /\ KBlockSize \in Nat \ {0} /\ PointerSize \in Nat
                   /\ Requests \subseteq Nat \ {0} /\ Addresses \subseteq Nat

Align == 8              \* of pointers, at least 8

Inside(a, b) == b.at <= a.at /\ a.at + a.size <= b.at + b.size
Apart(a, b) == a.at + a.size <= b.at \/ b.at + b.size <= a.at

Init == /\ alloc_ptr_ = 0 /\ alloc_bytes_remaining_ = 0
        /\ blocks_ = {} /\ memory_usage_ = 0
        /\ out = {}

\* new gives memory that is not in use, at an aligned address.
AllocateNewBlock(at, size) ==
    LET block == [at |-> at, size |-> size]
    IN  /\ at % Align = 0
        /\ \A b \in blocks_ : Apart(b, block)
        /\ blocks_' = blocks_ \cup {block}
        /\ memory_usage_' = memory_usage_ + size + PointerSize

Returns(at, size, aligned) ==
    out' = out \cup {[at |-> at, size |-> size, aligned |-> aligned]}

\* The rest of the current block is given up, unless the request is large.
AllocateFallback(bytes, aligned, at) ==
    /\ Returns(at, bytes, aligned)
    /\ IF bytes > KBlockSize \div 4
       THEN /\ AllocateNewBlock(at, bytes)
            /\ UNCHANGED <<alloc_ptr_, alloc_bytes_remaining_>>
       ELSE /\ AllocateNewBlock(at, KBlockSize)
            /\ alloc_ptr_' = at + bytes
            /\ alloc_bytes_remaining_' = KBlockSize - bytes

FromBlock(slop, bytes, aligned) ==
    /\ Returns(alloc_ptr_ + slop, bytes, aligned)
    /\ alloc_ptr_' = alloc_ptr_ + slop + bytes
    /\ alloc_bytes_remaining_' = alloc_bytes_remaining_ - slop - bytes
    /\ UNCHANGED <<blocks_, memory_usage_>>

Allocate(bytes, at) ==
    IF bytes < alloc_bytes_remaining_ THEN FromBlock(0, bytes, FALSE)
    ELSE AllocateFallback(bytes, FALSE, at)

Slop == LET current_mod == alloc_ptr_ % Align
        IN  IF current_mod = 0 THEN 0 ELSE Align - current_mod

AllocateAligned(bytes, at) ==
    IF bytes + Slop <= alloc_bytes_remaining_ THEN FromBlock(Slop, bytes, TRUE)
    ELSE AllocateFallback(bytes, TRUE, at)

Next == \E bytes \in Requests, at \in Addresses :
            Allocate(bytes, at) \/ AllocateAligned(bytes, at)

Spec == Init /\ [][Next]_vars

-----------------------------------------------------------------------------
Rest == [at |-> alloc_ptr_, size |-> alloc_bytes_remaining_]

(* What was handed out lies in a block and overlaps nothing else, whatever   *)
(* large, small and aligned requests came before; aligned memory is; and the *)
(* rest of the current block is nobody's.                                    *)
Disjoint ==
    /\ \A a \in out : \E b \in blocks_ : Inside(a, b)
    /\ \A a, b \in out : a # b => Apart(a, b)
    /\ \A a \in out : a.aligned => a.at % Align = 0
    /\ alloc_bytes_remaining_ > 0 =>
          (\A a \in out : Apart(a, Rest)) /\ (\E b \in blocks_ : Inside(Rest, b))
=============================================================================
