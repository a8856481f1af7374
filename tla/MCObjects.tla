----------------------------- MODULE MCObjects -----------------------------
(***************************************************************************)
(* Objects that share memory, each checked on its own: the cache of        *)
(* leveldb, the buffers of the server over their pool, the matrices of     *)
(* MetaNN over theirs and the arena of the skip list.  subject says which  *)
(* one a behaviour is about, and keeps its first value.  Each has the      *)
(* variables of its module; those the subject has no use for stay None.    *)
(***************************************************************************)
EXTENDS Integers, Sequences

CONSTANTS None,
          Keys, HashOf, Charges, Capacities,            \* of the cache
          MinLength, MaxNodes, MaxHandles,
          Sizes, InitNum, MAX_POOL_SIZE,                \* of the buffers and their pool
          Conns, MaxBytes,
          Objects, Shapes, Unit, MaxBlocks, MaxWrites,  \* of the matrices
          KBlockSize, PointerSize, Requests, Heap       \* of the arena

\* Functions for the configuration: a and c have one hash, and b shares their
\* bucket until the table grows; one stream is longer than the other.
CollidingHash == [k \in Keys |-> IF k = "b" THEN 2 ELSE 0]
TwoStreams == <<3, 1>>
TwoShapes == {<<2, 2, 1>>, <<1, 1, 1>>}

VARIABLES subject,
          made,                                         \* of two
          capacity_, usage_, lru_, in_usage_, node, list_, elems_, handles, pc,
          mp_pool_, mp_total_, mp_left_, chunk, held, exited, ibuf, obuf,
          op, step, n, grown, inq, eof, sent, delivered, put, wire,
          objects, memBuffer, memory, writes,
          alloc_ptr_, alloc_bytes_remaining_, blocks_, memory_usage_, out

ofCache == <<capacity_, usage_, lru_, in_usage_, node, list_, elems_, handles, pc>>
ofBuffers == <<mp_pool_, mp_total_, mp_left_, chunk, held, exited, ibuf, obuf,
               op, step, n, grown, inq, eof, sent, delivered, put, wire>>
ofMatrices == <<objects, memBuffer, memory, writes>>
ofArena == <<alloc_ptr_, alloc_bytes_remaining_, blocks_, memory_usage_, out>>
vars == <<subject, made, ofCache, ofBuffers, ofMatrices, ofArena>>

NoCache == /\ capacity_ = None /\ usage_ = None /\ lru_ = None /\ in_usage_ = None
           /\ node = None /\ list_ = None /\ elems_ = None /\ handles = None
           /\ pc = None
NoBuffers == /\ mp_pool_ = None /\ mp_total_ = None /\ mp_left_ = None
             /\ chunk = None /\ held = None /\ exited = None /\ ibuf = None
             /\ obuf = None /\ op = None /\ step = None /\ n = None /\ grown = None
             /\ inq = None /\ eof = None /\ sent = None /\ delivered = None
             /\ put = None /\ wire = None
NoMatrices == /\ objects = None /\ memBuffer = None /\ memory = None /\ writes = None
NoArena == /\ alloc_ptr_ = None /\ alloc_bytes_remaining_ = None /\ blocks_ = None
           /\ memory_usage_ = None /\ out = None

Cache == INSTANCE LRUCache
Buffers == INSTANCE DataBuf WITH Requests <- {}, Data <- {}
Matrices == INSTANCE MatrixMemory
Arena == INSTANCE Arena WITH Addresses <- Heap

InitCache == /\ subject = "cache" /\ Cache!Init
             /\ NoBuffers /\ NoMatrices /\ NoArena
InitBuffers == /\ subject = "buffers" /\ Buffers!Init
               /\ NoCache /\ NoMatrices /\ NoArena
InitMatrices == /\ subject = "matrices" /\ Matrices!Init
                /\ NoCache /\ NoBuffers /\ NoArena /\ made = None
InitArena == /\ subject = "arena" /\ Arena!Init
             /\ NoCache /\ NoBuffers /\ NoMatrices /\ made = None
Init == InitCache \/ InitBuffers \/ InitMatrices \/ InitArena

NextCache == /\ subject = "cache" /\ Cache!Next
             /\ UNCHANGED <<subject, ofBuffers, ofMatrices, ofArena>>
NextBuffers == /\ subject = "buffers" /\ Buffers!Next
               /\ UNCHANGED <<subject, ofCache, ofMatrices, ofArena>>
NextMatrices == /\ subject = "matrices" /\ Matrices!Next
                /\ UNCHANGED <<subject, made, ofCache, ofBuffers, ofArena>>
NextArena == /\ subject = "arena" /\ Arena!Next
             /\ UNCHANGED <<subject, made, ofCache, ofBuffers, ofMatrices>>
Next == NextCache \/ NextBuffers \/ NextMatrices \/ NextArena

Spec == Init /\ [][Next]_vars

ASSUME Assumptions == /\ Cache!CacheAssumption /\ Buffers!BufferAssumption
                      /\ Matrices!MatrixAssumption /\ Arena!ArenaAssumption
-----------------------------------------------------------------------------
(* Every chunk, block and piece of memory has one owner, or is in its pool   *)
(* once, and nobody reaches beyond its own.                                  *)
OneOwner == /\ subject = "buffers" => Buffers!ChunksAccounted
            /\ subject = "matrices" => Matrices!BlocksOwned
            /\ subject = "arena" => Arena!Disjoint

(* Both directions of a connection are streams.                              *)
StreamsKept == subject = "buffers" => Buffers!StreamsKept

(* The cache's lists, counts, charges and table agree, whatever is looked    *)
(* up, replaced, erased, evicted and released.                               *)
CacheConsistent == subject = "cache" => Cache!CacheConsistent

(* What a caller holds or is inserting is not evicted.                       *)
PinnedStays == [][subject = "cache" => Cache!Pinned]_vars

(* A write changes what one matrix holds.                                    *)
ValuesKept == [][subject = "matrices" => Matrices!OneChanges]_vars
=============================================================================
