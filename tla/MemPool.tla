------------------------------- MODULE MemPool -------------------------------
(***************************************************************************)
(* MemPool of memory/mem_pool.h and mem_pool.cpp: chunks of a few sizes on *)
(* free lists, made when a list is empty, until the pool's limit ends the  *)
(* process.  A chunk is named by its size and its number, and stands for   *)
(* the length_ bytes it holds from head_ on.  The pool's kilobytes and the *)
(* chunks' bytes are one unit.  Both operations hold mp_mutex_ while they  *)
(* touch the pool, so each is an action.                                   *)
(***************************************************************************)
EXTENDS Integers, Sequences, FiniteSets

CONSTANTS Sizes,            \* m4K .. m4M
          InitNum,          \* chunks of each size made by the constructor
          MAX_POOL_SIZE,
          Requests,         \* the lengths callers ask for
          Data              \* what callers may leave in a chunk

PoolAssumption == /\ Sizes \subseteq Nat \ {0} /\ IsFiniteSet(Sizes)
                  /\ InitNum \in Nat \ {0} /\ MAX_POOL_SIZE \in Nat
                  /\ Requests \subseteq Nat

VARIABLES mp_pool_,         \* of each size, the free chunks, first to last
          mp_total_, mp_left_,
          made,             \* of each size, the number of chunks made
          chunk,            \* the bytes in each chunk
          held,             \* the chunks callers hold
          exited            \* exit(1) was called

poolVars == <<mp_pool_, mp_total_, mp_left_, made, chunk, held, exited>>

Chunks == Sizes \X (Nat \ {0})
Capacity(c) == c[1]

\* The kilobytes of some chunks.
Units(C) == UNION {{c} \X (1 .. Capacity(c)) : c \in C}
InitTotal == Cardinality(Units(Sizes \X (1 .. InitNum)))

PoolInit == /\ mp_pool_ = [z \in Sizes |-> [i \in 1 .. InitNum |-> <<z, i>>]]
            /\ mp_total_ = InitTotal /\ mp_left_ = InitTotal
            /\ made = [z \in Sizes |-> InitNum]
            /\ chunk = [c \in Sizes \X (1 .. MAX_POOL_SIZE + InitNum) |-> << >>]
            /\ held = {} /\ exited = FALSE
-----------------------------------------------------------------------------
(* allocChunk: a chunk of the smallest size that is large enough *)

Fit(n, z) == z \in Sizes /\ n <= z /\ \A y \in Sizes : n <= y => z <= y

NoFit(n) == \A z \in Sizes : z < n          \* allocChunk returns nullptr

TakeHead(z, c) == /\ c = Head(mp_pool_[z])
                  /\ mp_pool_' = [mp_pool_ EXCEPT ![z] = Tail(@)]

TakeFree(z, c) == /\ mp_pool_[z] # << >>
                  /\ TakeHead(z, c)
                  /\ mp_left_' = mp_left_ - z
                  /\ UNCHANGED <<mp_total_, made>>

LimitReached(z) == mp_total_ + z >= MAX_POOL_SIZE

LeftAfterMaking(z) == mp_left_

MakeNew(z, c) == /\ mp_pool_[z] = << >> /\ ~LimitReached(z)
                 /\ c = <<z, made[z] + 1>>
                 /\ made' = [made EXCEPT ![z] = @ + 1]
                 /\ mp_total_' = mp_total_ + z
                 /\ mp_left_' = LeftAfterMaking(z)
                 /\ UNCHANGED mp_pool_

AllocChunk(n, c) == /\ ~exited
                    /\ \E z \in Sizes : Fit(n, z) /\ (TakeFree(z, c) \/ MakeNew(z, c))
                    /\ held' = held \cup {c}
                    /\ UNCHANGED <<chunk, exited>>

Exit(n) == /\ ~exited
           /\ \E z \in Sizes : Fit(n, z) /\ mp_pool_[z] = << >> /\ LimitReached(z)
           /\ exited' = TRUE
           /\ UNCHANGED <<mp_pool_, mp_total_, mp_left_, made, chunk, held>>

Cleaned(c, contents) == [contents EXCEPT ![c] = << >>]

\* retrieve(c), when the chunks hold contents.
Retrieve(c, contents) ==
  /\ ~exited /\ c \in held
  /\ chunk' = Cleaned(c, contents)
  /\ mp_pool_' = [mp_pool_ EXCEPT ![Capacity(c)] = <<c>> \o @]
  /\ mp_left_' = mp_left_ + Capacity(c)
  /\ held' = held \ {c}
  /\ UNCHANGED <<mp_total_, made, exited>>

\* A caller writes into a chunk it holds.
Fill(c) == /\ ~exited /\ c \in held
           /\ \E d \in Data : chunk' = [chunk EXCEPT ![c] = d]
           /\ UNCHANGED <<mp_pool_, mp_total_, mp_left_, made, held, exited>>

PoolNext == \/ \E n \in Requests : Exit(n) \/ \E c \in DOMAIN chunk : AllocChunk(n, c)
            \/ \E c \in held : Retrieve(c, chunk) \/ Fill(c)

PoolSpec == PoolInit /\ [][PoolNext]_poolVars
-----------------------------------------------------------------------------
Free(z) == {mp_pool_[z][i] : i \in 1 .. Len(mp_pool_[z])}

PoolTypeOK == /\ mp_pool_ \in [Sizes -> Seq(Chunks)]
              /\ mp_total_ \in Nat /\ mp_left_ \in 0 .. mp_total_
              /\ made \in [Sizes -> Nat]
              /\ held \subseteq Chunks /\ exited \in BOOLEAN

(* A chunk is in one place: with one caller or once in the list of its size. *)
(* A chunk retrieved twice, or handed out and left in its list, is not.      *)
OnePlace == \A z \in Sizes :
  /\ \A i, j \in 1 .. Len(mp_pool_[z]) : mp_pool_[z][i] = mp_pool_[z][j] => i = j
  /\ \A i \in 1 .. Len(mp_pool_[z]) : Capacity(mp_pool_[z][i]) = z /\ mp_pool_[z][i] \notin held

(* No chunk is lost: every one that was made is in a list or held.           *)
NoneLost == \A z \in Sizes : \A k \in 1 .. made[z] : <<z, k>> \in Free(z) \cup held

(* A chunk comes clean from the pool: allocChunk does not clear it.          *)
FreeIsClean == \A z \in Sizes : \A c \in Free(z) : chunk[c] = << >>

(* What is left is the free chunks: chunks made beyond the first ones enter  *)
(* mp_left_kb_ when they come back, without having left it.                  *)
LeftIsFree == mp_left_ = Cardinality(Units(UNION {Free(z) : z \in Sizes}))

(* The pool never grows to its limit.                                        *)
BelowLimit == InitTotal < MAX_POOL_SIZE => mp_total_ < MAX_POOL_SIZE

(* The chunks of the pool, shared by every connection, are neither lost nor  *)
(* handed out twice nor dirty, and the accounts are exact, below the limit.  *)
PoolConsistent == OnePlace /\ NoneLost /\ FreeIsClean /\ LeftIsFree /\ BelowLimit
=============================================================================
