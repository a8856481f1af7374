---------------------------- MODULE ObjectsProofs ----------------------------
(***************************************************************************)
(* The objects of MCObjects, for any keys, nodes, chunks, connections,     *)
(* streams, shapes, blocks and addresses.  Each object has its inductive   *)
(* invariant under its own next-state relation; the last section puts them *)
(* together.                                                               *)
(***************************************************************************)
EXTENDS MCObjects, FiniteSets, SequenceTheorems, FiniteSetTheorems, WellFoundedInduction, TLAPS

-----------------------------------------------------------------------------
(* The arena: inductive with the types, and that every piece has a byte.     *)

ArenaTypeOK == /\ alloc_ptr_ \in Nat /\ alloc_bytes_remaining_ \in Nat
          /\ blocks_ \subseteq [at : Nat, size : Nat]
          /\ memory_usage_ \in Nat
          /\ out \subseteq [at : Nat, size : Nat \ {0}, aligned : BOOLEAN]

ArenaInv == ArenaTypeOK /\ Arena!Disjoint

\* A piece that lies in a block is apart from what that block is apart from.
LEMMA InsideApart ==
    ASSUME NEW a \in [at : Nat, size : Nat, aligned : BOOLEAN],
           NEW b \in [at : Nat, size : Nat], NEW c, c.at \in Nat, c.size \in Nat,
           Arena!Inside(a, b), Arena!Apart(b, c)
    PROVE  Arena!Apart(a, c)
  BY DEF Arena!Inside, Arena!Apart

\* Rounding up to a multiple of Align.
LEMMA SlopAligns ==
    ASSUME alloc_ptr_ \in Nat
    PROVE  Arena!Slop \in Nat /\ (alloc_ptr_ + Arena!Slop) % Arena!Align = 0
  BY DEF Arena!Slop, Arena!Align

\* A piece of the current block, after slop bytes.
LEMMA FromBlockKeeps ==
    ASSUME ArenaInv, NEW slop \in Nat, NEW bytes \in Nat \ {0}, NEW aligned \in BOOLEAN,
           slop + bytes <= alloc_bytes_remaining_,
           aligned => (alloc_ptr_ + slop) % Arena!Align = 0,
           Arena!FromBlock(slop, bytes, aligned)
    PROVE  ArenaInv'
  <1> DEFINE new == [at |-> alloc_ptr_ + slop, size |-> bytes, aligned |-> aligned]
  <1>1. /\ out' = out \cup {new} /\ blocks_' = blocks_
        /\ alloc_ptr_' = alloc_ptr_ + slop + bytes
        /\ alloc_bytes_remaining_' = alloc_bytes_remaining_ - slop - bytes
        /\ memory_usage_' = memory_usage_
    BY DEF Arena!FromBlock, Arena!Returns
  <1>2. ArenaTypeOK'
    BY <1>1 DEF ArenaInv, ArenaTypeOK
  <1>3. PICK b \in blocks_ : Arena!Inside(Arena!Rest, b)
    BY DEF ArenaInv, ArenaTypeOK, Arena!Disjoint
  <1>4. \A a \in out : Arena!Apart(a, Arena!Rest)
    BY DEF ArenaInv, ArenaTypeOK, Arena!Disjoint
  <1> HIDE DEF new
  <1>5. new.at = alloc_ptr_ + slop /\ new.size = bytes /\ new.aligned = aligned
    BY DEF new
  <1>6. \A a \in out : Arena!Apart(a, new) /\ Arena!Apart(new, a)
    BY <1>4, <1>5 DEF ArenaInv, ArenaTypeOK, Arena!Apart, Arena!Rest
  <1>7. Arena!Inside(new, b)
    BY <1>3, <1>5 DEF ArenaInv, ArenaTypeOK, Arena!Inside, Arena!Rest
  <1>8. (alloc_bytes_remaining_ > 0)' =>
            /\ \A a \in out' : Arena!Apart(a, Arena!Rest')
            /\ Arena!Inside(Arena!Rest', b)
    <2>1. \A a \in out : Arena!Apart(a, Arena!Rest')
      BY <1>1, <1>4 DEF ArenaInv, ArenaTypeOK, Arena!Apart, Arena!Rest
    <2>2. Arena!Apart(new, Arena!Rest')
      BY <1>1, <1>5 DEF ArenaInv, ArenaTypeOK, Arena!Apart, Arena!Rest
    <2>3. Arena!Inside(Arena!Rest', b)
      BY <1>1, <1>3 DEF ArenaInv, ArenaTypeOK, Arena!Inside, Arena!Rest
    <2> QED  BY <1>1, <2>1, <2>2, <2>3
  <1>9. Arena!Disjoint'
    BY <1>1, <1>3, <1>5, <1>6, <1>7, <1>8 DEF ArenaInv, Arena!Disjoint
  <1> QED  BY <1>2, <1>9 DEF ArenaInv

\* A piece at the beginning of a new block.
LEMMA NewBlockKeeps ==
    ASSUME Arena!ArenaAssumption, ArenaInv, NEW at \in Heap, NEW bytes \in Nat \ {0},
           NEW aligned \in BOOLEAN, Arena!AllocateFallback(bytes, aligned, at)
    PROVE  ArenaInv'
  <1> DEFINE large == bytes > KBlockSize \div 4
             block == [at |-> at, size |-> IF large THEN bytes ELSE KBlockSize]
             new == [at |-> at, size |-> bytes, aligned |-> aligned]
  <1>1. /\ out' = out \cup {new} /\ blocks_' = blocks_ \cup {block}
        /\ at % Arena!Align = 0
        /\ memory_usage_' = memory_usage_ + block.size + PointerSize
    BY DEF Arena!AllocateFallback, Arena!AllocateNewBlock, Arena!Returns
  <1>2. \A b \in blocks_ : Arena!Apart(b, block)
    BY DEF Arena!AllocateFallback, Arena!AllocateNewBlock
  <1>3. large => UNCHANGED <<alloc_ptr_, alloc_bytes_remaining_>>
    BY DEF Arena!AllocateFallback
  <1>4. ~large => alloc_ptr_' = at + bytes /\ alloc_bytes_remaining_' = KBlockSize - bytes
    BY DEF Arena!AllocateFallback
  <1>5. at \in Nat /\ KBlockSize \in Nat \ {0} /\ PointerSize \in Nat
    BY DEF Arena!ArenaAssumption
  <1>6. ~large => bytes <= KBlockSize
    BY <1>5
  <1>7. block \in [at : Nat, size : Nat] /\ new \in [at : Nat, size : Nat \ {0}, aligned : BOOLEAN]
    BY <1>5
  <1>8. ArenaTypeOK'
    BY <1>1, <1>3, <1>4, <1>5, <1>6, <1>7 DEF ArenaInv, ArenaTypeOK
  <1>9. Arena!Inside(new, block)
    BY <1>5, <1>6 DEF Arena!Inside
  <1>10. block.at = at /\ new.at = at /\ new.size = bytes /\ new.aligned = aligned
         /\ block.size = (IF large THEN bytes ELSE KBlockSize)
    OBVIOUS
  <1> HIDE DEF block, new
  <1>11. \A a \in out : Arena!Apart(a, block)
    BY <1>2, <1>5, <1>7, InsideApart DEF ArenaInv, ArenaTypeOK, Arena!Disjoint, Arena!Inside, Arena!Apart
  <1>12. \A a \in out : Arena!Apart(a, new) /\ Arena!Apart(new, a)
    BY <1>7, <1>9, <1>11 DEF ArenaInv, ArenaTypeOK, Arena!Inside, Arena!Apart
  <1>13. (alloc_bytes_remaining_ > 0)' =>
             (\A a \in out' : Arena!Apart(a, Arena!Rest')) /\ (\E b \in blocks_' : Arena!Inside(Arena!Rest', b))
    <2>1. CASE large
      <3> SUFFICES ASSUME alloc_bytes_remaining_ > 0
                   PROVE  (\A a \in out' : Arena!Apart(a, Arena!Rest)) /\ (\E b \in blocks_' : Arena!Inside(Arena!Rest, b))
        BY <1>3, <2>1 DEF Arena!Rest
      <3>1. PICK b \in blocks_ : Arena!Inside(Arena!Rest, b)
        BY DEF ArenaInv, Arena!Disjoint
      <3>2. Arena!Apart(new, Arena!Rest)
        BY <1>2, <1>7, <1>9, <3>1 DEF ArenaInv, ArenaTypeOK, Arena!Inside, Arena!Apart, Arena!Rest
      <3> QED  BY <1>1, <3>1, <3>2 DEF ArenaInv, Arena!Disjoint
    <2>2. CASE ~large
      <3>1. Arena!Rest'.at = at + bytes /\ Arena!Rest'.size = KBlockSize - bytes
        BY <1>4, <2>2 DEF Arena!Rest
      <3>2. Arena!Inside(Arena!Rest', block)
        BY <1>5, <1>6, <1>10, <2>2, <3>1 DEF Arena!Inside
      <3>3. Arena!Apart(new, Arena!Rest')
        BY <1>5, <1>10, <3>1 DEF Arena!Apart
      <3>4. \A a \in out : Arena!Apart(a, Arena!Rest')
        BY <1>5, <1>6, <1>10, <1>11, <2>2, <3>1 DEF ArenaInv, ArenaTypeOK, Arena!Apart
      <3> QED  BY <1>1, <3>2, <3>3, <3>4
    <2> QED  BY <2>1, <2>2
  <1>14. Arena!Disjoint'
    BY <1>1, <1>9, <1>10, <1>12, <1>13 DEF ArenaInv, Arena!Disjoint
  <1> QED  BY <1>8, <1>14 DEF ArenaInv

LEMMA ArenaBegins == Arena!Init => ArenaInv
  BY DEF Arena!Init, ArenaInv, ArenaTypeOK, Arena!Disjoint

LEMMA ArenaKept ==
    ASSUME Arena!ArenaAssumption, ArenaInv, [Arena!Next]_(Arena!vars)
    PROVE  ArenaInv'
  <1>1. CASE UNCHANGED Arena!vars
    BY <1>1 DEF Arena!vars, ArenaInv, ArenaTypeOK, Arena!Disjoint, Arena!Rest
  <1>2. ASSUME NEW bytes \in Requests, NEW at \in Heap, Arena!Allocate(bytes, at)
        PROVE  ArenaInv'
    <2>1. bytes \in Nat \ {0}
      BY DEF Arena!ArenaAssumption
    <2>2. CASE bytes < alloc_bytes_remaining_
      <3>1. Arena!FromBlock(0, bytes, FALSE)
        BY <1>2, <2>2 DEF Arena!Allocate
      <3>2. 0 + bytes <= alloc_bytes_remaining_ /\ 0 \in Nat /\ FALSE \in BOOLEAN
        BY <2>1, <2>2 DEF ArenaInv, ArenaTypeOK
      <3> QED  BY <2>1, <3>1, <3>2, FromBlockKeeps
    <2>3. CASE ~(bytes < alloc_bytes_remaining_)
      BY <1>2, <2>1, <2>3, NewBlockKeeps DEF Arena!Allocate
    <2> QED  BY <2>2, <2>3
  <1>3. ASSUME NEW bytes \in Requests, NEW at \in Heap, Arena!AllocateAligned(bytes, at)
        PROVE  ArenaInv'
    <2>1. bytes \in Nat \ {0} /\ Arena!Slop \in Nat /\ (alloc_ptr_ + Arena!Slop) % Arena!Align = 0
      BY SlopAligns DEF Arena!ArenaAssumption, ArenaInv, ArenaTypeOK
    <2>2. CASE bytes + Arena!Slop <= alloc_bytes_remaining_
      <3>1. Arena!FromBlock(Arena!Slop, bytes, TRUE)
        BY <1>3, <2>2 DEF Arena!AllocateAligned
      <3>2. Arena!Slop + bytes <= alloc_bytes_remaining_ /\ TRUE \in BOOLEAN
        BY <2>1, <2>2 DEF ArenaInv, ArenaTypeOK
      <3> QED  BY <2>1, <3>1, <3>2, FromBlockKeeps
    <2>3. CASE ~(bytes + Arena!Slop <= alloc_bytes_remaining_)
      BY <1>3, <2>1, <2>3, NewBlockKeeps DEF Arena!AllocateAligned
    <2> QED  BY <2>2, <2>3
  <1> QED  BY <1>1, <1>2, <1>3 DEF Arena!Next

-----------------------------------------------------------------------------
(* The matrices: inductive is that a block in a pool has the size of its     *)
(* class and no holder, which its next owner relies on, and that a block is  *)
(* in one pool, once, or has a holder.                                       *)

MatrixTypeOK ==
  /\ objects \in [Objects -> [blk : Nat, off : Nat, batch : Nat, rows : Nat, cols : Nat,
                              len : Nat, size : Nat]]
  /\ memory \in Seq(UNION {[0 .. k - 1 -> Nat] : k \in Nat})
  /\ DOMAIN memBuffer \subseteq Nat
  /\ memBuffer = [c \in DOMAIN memBuffer |-> memBuffer[c]]
  /\ \A c \in DOMAIN memBuffer : memBuffer[c] \in Seq(Nat)
  /\ writes \in Nat

HoldsBlock(x, blk) == objects[x] # Matrices!Nothing /\ objects[x].blk = blk
HeldBlock(blk) == \E x \in Objects : HoldsBlock(x, blk)
Pooled(blk) == \E c \in DOMAIN memBuffer : \E i \in 1 .. Len(memBuffer[c]) : memBuffer[c][i] = blk

InPools ==
  \A c \in DOMAIN memBuffer : \A i \in 1 .. Len(memBuffer[c]) :
    /\ memBuffer[c][i] \in DOMAIN memory
    /\ memory[memBuffer[c][i]] \in [0 .. c - 1 -> Nat]
    /\ ~HeldBlock(memBuffer[c][i])
    /\ \A d \in DOMAIN memBuffer : \A j \in 1 .. Len(memBuffer[d]) :
         memBuffer[c][i] = memBuffer[d][j] => c = d /\ i = j
Accounted == \A blk \in DOMAIN memory : HeldBlock(blk) \/ Pooled(blk)

\* What an object shows lies in its block.
ShowsOwn(x) ==
  LET o == objects[x]
  IN  /\ o.blk \in DOMAIN memory
      /\ \A b \in 0 .. o.batch - 1, i \in 0 .. o.rows - 1, j \in 0 .. o.cols - 1 :
           Matrices!Place(o, b, i, j) \in DOMAIN memory[o.blk]
Views == \A x \in Objects : objects[x] # Matrices!Nothing => ShowsOwn(x)

MatrixInv == MatrixTypeOK /\ InPools /\ Accounted /\ Views

\* The operators of FiniteSets are those of the instance.
LEMMA MatrixCounting == \A S : /\ Matrices!IsFiniteSet(S) <=> IsFiniteSet(S)
                               /\ Matrices!Cardinality(S) = Cardinality(S)
  BY DEF Matrices!IsFiniteSet, IsFiniteSet, Matrices!Cardinality, Cardinality

LEMMA SeveralElements ==
    ASSUME NEW S, IsFiniteSet(S), NEW x \in S
    PROVE  /\ Cardinality(S) \in Nat \ {0}
           /\ Cardinality(S) = 1 <=> S = {x}
           /\ Cardinality(S) > 1 <=> \E y \in S : y # x
  <1>1. Cardinality(S) \in Nat /\ Cardinality(S) # 0
    BY FS_CardinalityType, FS_EmptySet
  <1>2. Cardinality(S) = 1 <=> S = {x}
    BY FS_Singleton
  <1> QED  BY <1>1, <1>2

LEMMA UseCounts ==
    ASSUME Matrices!MatrixAssumption, NEW x \in Objects, objects[x] # Matrices!Nothing
    PROVE  /\ Matrices!UseCount(objects[x].blk) = 1 <=>
                \A y \in Objects \ {x} : ~HoldsBlock(y, objects[x].blk)
           /\ Matrices!UseCount(objects[x].blk) > 1 <=>
                \E y \in Objects \ {x} : HoldsBlock(y, objects[x].blk)
  <1> DEFINE S == {y \in Objects : objects[y].blk = objects[x].blk /\ objects[y] # Matrices!Nothing}
  <1>1. IsFiniteSet(S) /\ x \in S
    <2>1. IsFiniteSet(Objects)
      BY MatrixCounting DEF Matrices!MatrixAssumption
    <2> QED  BY <2>1, FS_Subset
  <1>2. Matrices!UseCount(objects[x].blk) = Cardinality(S)
    BY MatrixCounting DEF Matrices!UseCount
  <1>3. \A y \in Objects : y \in S <=> HoldsBlock(y, objects[x].blk)
    BY DEF HoldsBlock
  <1> HIDE DEF S
  <1>4. /\ Cardinality(S) = 1 <=> S = {x}
        /\ Cardinality(S) > 1 <=> \E y \in S : y # x
    BY <1>1, SeveralElements
  <1>5. S \subseteq Objects
    BY DEF S
  <1> QED  BY <1>1, <1>2, <1>3, <1>4, <1>5

LEMMA Unused ==
    ASSUME Matrices!MatrixAssumption, NEW blk
    PROVE  Matrices!UseCount(blk) = 0 <=> ~HeldBlock(blk)
  <1> DEFINE S == {y \in Objects : objects[y].blk = blk /\ objects[y] # Matrices!Nothing}
  <1>1. IsFiniteSet(S)
    BY MatrixCounting, FS_Subset DEF Matrices!MatrixAssumption
  <1>2. Matrices!UseCount(blk) = Cardinality(S)
    BY MatrixCounting DEF Matrices!UseCount
  <1>3. S = {} <=> ~HeldBlock(blk)
    BY DEF HeldBlock, HoldsBlock
  <1> QED  BY <1>1, <1>2, <1>3, FS_EmptySet

\* In row-major order the places of an element stay within the product.
LEMMA RowMajor ==
    ASSUME NEW p \in Nat, NEW q \in Nat, NEW a \in 0 .. p - 1, NEW r \in 0 .. q - 1
    PROVE  a * q + r \in 0 .. p * q - 1
  <1>1. a * q \in Nat /\ (a + 1) * q = a * q + q
    OBVIOUS
  <1>2. (a + 1) * q <= p * q
    <2>1. p - (a + 1) \in Nat
      OBVIOUS
    <2>2. (p - (a + 1)) * q \in Nat
      BY <2>1
    <2>3. p * q = (a + 1) * q + (p - (a + 1)) * q
      OBVIOUS
    <2> QED  BY <1>1, <2>2, <2>3
  <1> QED  BY <1>1, <1>2

LEMMA ClassFits ==
    ASSUME Matrices!MatrixAssumption, NEW k \in Nat
    PROVE  Matrices!SizeClass(k) \in Nat /\ k <= Matrices!SizeClass(k)
  <1> DEFINE q == (k + Unit - 1) \div Unit
             r == (k + Unit - 1) % Unit
  <1>1. Unit \in Nat \ {0} /\ k + Unit - 1 \in Nat
    BY DEF Matrices!MatrixAssumption
  <1>2. q \in Nat /\ r \in 0 .. Unit - 1 /\ k + Unit - 1 = q * Unit + r
    BY <1>1
  <1>3. Matrices!SizeClass(k) = q * Unit
    BY DEF Matrices!SizeClass
  <1> HIDE DEF q, r
  <1>4. q * Unit \in Nat
    BY <1>1, <1>2
  <1> QED  BY <1>1, <1>2, <1>3, <1>4

LEMMA BlockClass ==
    ASSUME NEW k \in Nat, NEW elems \in [0 .. k - 1 -> Nat]
    PROVE  Matrices!Cardinality(DOMAIN elems) = k
  <1>1. DOMAIN elems = 0 .. k - 1
    OBVIOUS
  <1>2. Cardinality(0 .. k - 1) = k
    <2>1. CASE k = 0
      BY <2>1, FS_Interval, 0 > k - 1
    <2>2. CASE k > 0
      BY <2>2, FS_Interval
    <2> QED  BY <2>1, <2>2
  <1> QED  BY <1>1, <1>2, MatrixCounting

LEMMA BlockHasSize ==
    ASSUME MatrixTypeOK, NEW blk \in DOMAIN memory
    PROVE  \E k \in Nat : memory[blk] \in [0 .. k - 1 -> Nat]
  <1> DEFINE Blocks == UNION {[0 .. k - 1 -> Nat] : k \in Nat}
  <1>1. memory \in Seq(Blocks)
    BY DEF MatrixTypeOK
  <1>2. memory[blk] \in Blocks
    <2> HIDE DEF Blocks
    <2> QED  BY <1>1
  <1> QED  BY <1>2

\* x gives up what it holds, and nobody else comes or goes.
OnlyHolder(x) == /\ objects[x] # Matrices!Nothing
                 /\ \A y \in Objects \ {x} : ~HoldsBlock(y, objects[x].blk)

LEMMA GiveBack ==
    ASSUME Matrices!MatrixAssumption, MatrixInv, NEW x \in Objects,
           memBuffer' = Matrices!Given(x), memory' = memory,
           \A blk : HeldBlock(blk)' <=> HeldBlock(blk) /\ ~(OnlyHolder(x) /\ blk = objects[x].blk)
    PROVE  /\ DOMAIN memBuffer' \subseteq Nat
           /\ memBuffer' = [c \in DOMAIN memBuffer' |-> memBuffer'[c]]
           /\ \A c \in DOMAIN memBuffer' : memBuffer'[c] \in Seq(Nat)
           /\ InPools' /\ Accounted'
  <1>1. CASE ~OnlyHolder(x)
    <2>1. memBuffer' = memBuffer
      BY <1>1, UseCounts DEF Matrices!Given, OnlyHolder
    <2>2. \A blk : HeldBlock(blk)' <=> HeldBlock(blk)
      BY <1>1
    <2>3. Accounted'
      BY <2>1, <2>2 DEF MatrixInv, Accounted, Pooled
    <2>4. InPools'
      <3> SUFFICES ASSUME NEW c \in DOMAIN memBuffer, NEW i \in 1 .. Len(memBuffer[c]),
                          NEW blk, blk = memBuffer[c][i]
                   PROVE  /\ blk \in DOMAIN memory /\ memory[blk] \in [0 .. c - 1 -> Nat]
                          /\ ~HeldBlock(blk)'
                          /\ \A d \in DOMAIN memBuffer : \A j \in 1 .. Len(memBuffer[d]) :
                               memBuffer[c][i] = memBuffer[d][j] => c = d /\ i = j
        BY <2>1 DEF InPools
      <3> QED  BY <2>2 DEF MatrixInv, InPools
    <2> QED  BY <2>1, <2>3, <2>4 DEF MatrixInv, MatrixTypeOK
  <1>2. CASE OnlyHolder(x)
    <2> DEFINE last == objects[x].blk
               class == Matrices!Cardinality(DOMAIN memory[last])
               old == IF class \in DOMAIN memBuffer THEN memBuffer[class] ELSE << >>
    <2>1. last \in DOMAIN memory /\ last \in Nat /\ HeldBlock(last)
      BY <1>2 DEF OnlyHolder, MatrixInv, MatrixTypeOK, Views, ShowsOwn, HeldBlock, HoldsBlock
    <2>2. class \in Nat /\ memory[last] \in [0 .. class - 1 -> Nat]
      <3>1. PICK k \in Nat : memory[last] \in [0 .. k - 1 -> Nat]
        BY <2>1, BlockHasSize DEF MatrixInv
      <3> QED  BY <3>1, BlockClass
    <2>3. ~Pooled(last)
      BY <2>1 DEF MatrixInv, InPools, Pooled
    <2>4. memBuffer' = [c \in DOMAIN memBuffer \cup {class} |->
                          (IF c \in DOMAIN memBuffer THEN memBuffer[c] ELSE << >>) \o
                          (IF c = class THEN <<last>> ELSE << >>)]
      BY <1>2, UseCounts DEF Matrices!Given, OnlyHolder
    <2> HIDE DEF class
    <2>5. old \in Seq(Nat) /\ \A c \in DOMAIN memBuffer : memBuffer[c] \in Seq(Nat)
      BY DEF MatrixInv, MatrixTypeOK
    <2>6. /\ DOMAIN memBuffer' = DOMAIN memBuffer \cup {class}
          /\ \A c \in DOMAIN memBuffer : c # class => memBuffer'[c] = memBuffer[c]
          /\ memBuffer'[class] = old \o <<last>>
      <3>1. \A c \in DOMAIN memBuffer : memBuffer[c] \o << >> = memBuffer[c]
        BY <2>5, ConcatEmptySeq
      <3> QED  BY <2>4, <3>1
    <2>7. memBuffer' = [c \in DOMAIN memBuffer' |-> memBuffer'[c]]
      BY <2>4
    <2>8. /\ memBuffer'[class] \in Seq(Nat) /\ Len(memBuffer'[class]) = Len(old) + 1
          /\ \A i \in 1 .. Len(old) : memBuffer'[class][i] = old[i]
          /\ memBuffer'[class][Len(old) + 1] = last
      BY <2>1, <2>5, <2>6
    <2> DEFINE Slot(c, i) == c \in DOMAIN memBuffer /\ i \in 1 .. Len(memBuffer[c])
    <2>9. \A c \in DOMAIN memBuffer' : \A i \in 1 .. Len(memBuffer'[c]) :
             \/ Slot(c, i) /\ memBuffer'[c][i] = memBuffer[c][i] /\ memBuffer[c][i] # last
             \/ c = class /\ i = Len(old) + 1 /\ memBuffer'[c][i] = last
      <3> SUFFICES ASSUME NEW c \in DOMAIN memBuffer', NEW i \in 1 .. Len(memBuffer'[c])
                   PROVE  \/ Slot(c, i) /\ memBuffer'[c][i] = memBuffer[c][i] /\ memBuffer[c][i] # last
                          \/ c = class /\ i = Len(old) + 1 /\ memBuffer'[c][i] = last
        OBVIOUS
      <3>1. CASE c # class
        BY <2>3, <2>6, <3>1 DEF Pooled
      <3>2. CASE c = class /\ i = Len(old) + 1
        BY <2>8, <3>2
      <3>3. CASE c = class /\ i # Len(old) + 1
        <4>1. i \in 1 .. Len(old)
          <5> HIDE DEF old
          <5>1. Len(old) \in Nat /\ i \in 1 .. Len(old) + 1
            BY <2>5, <2>8, <3>3
          <5> QED  BY <3>3, <5>1
        <4>2. class \in DOMAIN memBuffer
          BY <4>1
        <4> QED  BY <2>3, <2>8, <3>3, <4>1, <4>2 DEF Pooled
      <3> QED  BY <3>1, <3>2, <3>3
    <2>10. \A c, i : Slot(c, i) => /\ c \in DOMAIN memBuffer' /\ i \in 1 .. Len(memBuffer'[c])
                                   /\ memBuffer'[c][i] = memBuffer[c][i]
      <3> SUFFICES ASSUME NEW c, NEW i, Slot(c, i)
                   PROVE  /\ c \in DOMAIN memBuffer' /\ i \in 1 .. Len(memBuffer'[c])
                          /\ memBuffer'[c][i] = memBuffer[c][i]
        OBVIOUS
      <3>1. CASE c # class
        BY <2>6, <3>1
      <3>2. CASE c = class
        BY <2>5, <2>6, <2>8, <3>2
      <3> QED  BY <3>1, <3>2
    <2>11. InPools'
      <3> SUFFICES ASSUME NEW c \in DOMAIN memBuffer', NEW i \in 1 .. Len(memBuffer'[c]),
                          NEW blk, blk = memBuffer'[c][i]
                   PROVE  /\ blk \in DOMAIN memory /\ memory[blk] \in [0 .. c - 1 -> Nat]
                          /\ ~HeldBlock(blk)'
                          /\ \A d \in DOMAIN memBuffer' : \A j \in 1 .. Len(memBuffer'[d]) :
                               memBuffer'[c][i] = memBuffer'[d][j] => c = d /\ i = j
        BY DEF InPools
      <3>1. CASE Slot(c, i) /\ memBuffer'[c][i] = memBuffer[c][i] /\ memBuffer[c][i] # last
        <4>1. /\ memBuffer[c][i] \in DOMAIN memory
              /\ memory[memBuffer[c][i]] \in [0 .. c - 1 -> Nat]
              /\ ~HeldBlock(memBuffer[c][i])
              /\ \A d \in DOMAIN memBuffer : \A j \in 1 .. Len(memBuffer[d]) :
                    memBuffer[c][i] = memBuffer[d][j] => c = d /\ i = j
          BY <3>1 DEF MatrixInv, InPools
        <4>2. ~HeldBlock(blk)
          BY <3>1 DEF MatrixInv, InPools
        <4>3. \A d \in DOMAIN memBuffer' : \A j \in 1 .. Len(memBuffer'[d]) :
                 memBuffer'[c][i] = memBuffer'[d][j] => c = d /\ i = j
          BY <2>9, <3>1, <4>1
        <4> QED  BY <3>1, <4>1, <4>2, <4>3
      <3>2. CASE c = class /\ i = Len(old) + 1 /\ memBuffer'[c][i] = last
        <4>1. ~HeldBlock(blk)'
          BY <1>2, <3>2
        <4>2. \A d \in DOMAIN memBuffer' : \A j \in 1 .. Len(memBuffer'[d]) :
                 memBuffer'[c][i] = memBuffer'[d][j] => c = d /\ i = j
          BY <2>9, <3>2
        <4> QED  BY <2>1, <2>2, <3>2, <4>1, <4>2
      <3> QED  BY <2>9, <3>1, <3>2
    <2>12. Accounted'
      <3> SUFFICES ASSUME NEW blk \in DOMAIN memory, ~HeldBlock(blk)'
                   PROVE  Pooled(blk)'
        BY DEF Accounted
      <3>1. CASE blk = last
        BY <2>5, <2>6, <2>8, <3>1 DEF Pooled
      <3>2. CASE blk # last
        BY <2>10, <3>2 DEF MatrixInv, Accounted, Pooled
      <3> QED  BY <3>1, <3>2
    <2>13. /\ DOMAIN memBuffer' \subseteq Nat
           /\ \A c \in DOMAIN memBuffer' : memBuffer'[c] \in Seq(Nat)
      BY <2>2, <2>5, <2>6, <2>8 DEF MatrixInv, MatrixTypeOK
    <2> QED  BY <2>7, <2>11, <2>12, <2>13
  <1> QED  BY <1>1, <1>2

MatrixObjects == [blk : Nat, off : Nat, batch : Nat, rows : Nat, cols : Nat, len : Nat, size : Nat]

LEMMA NothingIsObject == Matrices!Nothing \in MatrixObjects /\ Matrices!Nothing.blk = 0
  BY DEF Matrices!Nothing, MatrixObjects

LEMMA DestroyKeeps ==
    ASSUME Matrices!MatrixAssumption, MatrixInv, NEW x \in Objects, Matrices!Destroy(x)
    PROVE  MatrixInv'
  <1>1. /\ objects[x] # Matrices!Nothing /\ memBuffer' = Matrices!Given(x)
        /\ objects' = [objects EXCEPT ![x] = Matrices!Nothing]
        /\ memory' = memory /\ writes' = writes
    BY DEF Matrices!Destroy
  <1>2. objects \in [Objects -> MatrixObjects]
    BY DEF MatrixInv, MatrixTypeOK, MatrixObjects
  <1>3. /\ objects' \in [Objects -> MatrixObjects] /\ objects'[x] = Matrices!Nothing
        /\ \A y \in Objects \ {x} : objects'[y] = objects[y]
    BY <1>1, <1>2, NothingIsObject
  <1>4. \A y \in Objects : \A blk : HoldsBlock(y, blk)' <=> y # x /\ HoldsBlock(y, blk)
    BY <1>3 DEF HoldsBlock
  <1>5. \A blk : HeldBlock(blk)' <=> HeldBlock(blk) /\ ~(OnlyHolder(x) /\ blk = objects[x].blk)
    BY <1>1, <1>4 DEF HeldBlock, OnlyHolder, HoldsBlock
  <1>6. /\ DOMAIN memBuffer' \subseteq Nat
        /\ memBuffer' = [c \in DOMAIN memBuffer' |-> memBuffer'[c]]
        /\ \A c \in DOMAIN memBuffer' : memBuffer'[c] \in Seq(Nat)
        /\ InPools' /\ Accounted'
    BY <1>1, <1>5, GiveBack
  <1>7. MatrixTypeOK'
    BY <1>1, <1>3, <1>6 DEF MatrixInv, MatrixTypeOK, MatrixObjects
  <1>8. Views'
    BY <1>1, <1>3 DEF MatrixInv, Views, ShowsOwn, Matrices!Place
  <1> QED  BY <1>6, <1>7, <1>8 DEF MatrixInv

\* y shows what lies in x's block.
LEMMA ViewKeeps ==
    ASSUME Matrices!MatrixAssumption, MatrixInv, NEW x \in Objects, NEW y \in Objects,
           NEW view \in MatrixObjects, view.blk = objects[x].blk,
           \A b \in 0 .. view.batch - 1, i \in 0 .. view.rows - 1, j \in 0 .. view.cols - 1 :
             Matrices!Place(view, b, i, j) \in DOMAIN memory[view.blk],
           Matrices!View(x, y, view)
    PROVE  MatrixInv'
  <1>1. /\ x # y /\ objects[x] # Matrices!Nothing
        /\ objects' = [objects EXCEPT ![y] = view]
        /\ memBuffer' = IF objects[y].blk = objects[x].blk THEN memBuffer ELSE Matrices!Given(y)
        /\ memory' = memory /\ writes' = writes
    BY DEF Matrices!View
  <1>2. objects \in [Objects -> MatrixObjects]
    BY DEF MatrixInv, MatrixTypeOK, MatrixObjects
  <1>3. /\ objects' \in [Objects -> MatrixObjects] /\ objects'[y] = view
        /\ \A z \in Objects \ {y} : objects'[z] = objects[z]
    BY <1>1, <1>2
  <1>4. /\ view.blk \in DOMAIN memory /\ view.blk # 0 /\ HoldsBlock(x, view.blk)
    <2>1. objects[x].blk \in DOMAIN memory
      BY <1>1 DEF MatrixInv, Views, ShowsOwn
    <2>2. DOMAIN memory = 1 .. Len(memory)
      BY DEF MatrixInv, MatrixTypeOK
    <2> QED  BY <1>1, <2>1, <2>2 DEF HoldsBlock
  <1>5. view # Matrices!Nothing
    BY <1>4, NothingIsObject
  <1>6. \A z \in Objects : \A blk : HoldsBlock(z, blk)' <=> IF z = y THEN blk = view.blk ELSE HoldsBlock(z, blk)
    BY <1>3, <1>5 DEF HoldsBlock
  <1>7. \A blk : HeldBlock(blk)' <=> \/ blk = view.blk
                                     \/ \E z \in Objects \ {y} : HoldsBlock(z, blk)
    BY <1>6 DEF HeldBlock
  <1>8. /\ DOMAIN memBuffer' \subseteq Nat
        /\ memBuffer' = [c \in DOMAIN memBuffer' |-> memBuffer'[c]]
        /\ \A c \in DOMAIN memBuffer' : memBuffer'[c] \in Seq(Nat)
        /\ InPools' /\ Accounted'
    <2>1. CASE objects[y].blk = objects[x].blk
      <3>1. memBuffer' = memBuffer
        BY <1>1, <2>1
      <3>2. \A blk : HeldBlock(blk)' <=> HeldBlock(blk)
        BY <1>4, <1>7, <2>1 DEF HeldBlock, HoldsBlock
      <3>3. Accounted'
        BY <1>1, <3>1, <3>2 DEF MatrixInv, Accounted, Pooled
      <3>4. InPools'
        <4> SUFFICES ASSUME NEW c \in DOMAIN memBuffer, NEW i \in 1 .. Len(memBuffer[c]),
                            NEW blk, blk = memBuffer[c][i]
                     PROVE  /\ blk \in DOMAIN memory /\ memory[blk] \in [0 .. c - 1 -> Nat]
                            /\ ~HeldBlock(blk)'
                            /\ \A d \in DOMAIN memBuffer : \A j \in 1 .. Len(memBuffer[d]) :
                                 memBuffer[c][i] = memBuffer[d][j] => c = d /\ i = j
          BY <1>1, <3>1 DEF InPools
        <4> QED  BY <3>2 DEF MatrixInv, InPools
      <3> QED  BY <3>1, <3>3, <3>4 DEF MatrixInv, MatrixTypeOK
    <2>2. CASE objects[y].blk # objects[x].blk
      <3>1. \A blk : HeldBlock(blk)' <=> HeldBlock(blk) /\ ~(OnlyHolder(y) /\ blk = objects[y].blk)
        <4>1. SUFFICES ASSUME NEW blk
                       PROVE  HeldBlock(blk)' <=> HeldBlock(blk) /\ ~(OnlyHolder(y) /\ blk = objects[y].blk)
          OBVIOUS
        <4>2. CASE blk = view.blk
          BY <1>4, <1>7, <2>2, <4>2 DEF HeldBlock
        <4>3. CASE blk # view.blk
          <5>1. HeldBlock(blk)' <=> \E z \in Objects \ {y} : HoldsBlock(z, blk)
            BY <1>7, <4>3
          <5> QED  BY <5>1 DEF HeldBlock, OnlyHolder, HoldsBlock
        <4> QED  BY <4>2, <4>3
      <3> QED  BY <1>1, <2>2, <3>1, GiveBack
    <2> QED  BY <2>1, <2>2
  <1>9. MatrixTypeOK'
    BY <1>1, <1>3, <1>8 DEF MatrixInv, MatrixTypeOK, MatrixObjects
  <1>10. Views'
    <2> SUFFICES ASSUME NEW z \in Objects, objects'[z] # Matrices!Nothing
                 PROVE  ShowsOwn(z)'
      BY DEF Views
    <2>1. CASE z = y
      BY <1>1, <1>3, <1>4, <2>1 DEF ShowsOwn, Matrices!Place
    <2>2. CASE z # y
      BY <1>1, <1>3, <2>2 DEF MatrixInv, Views, ShowsOwn, Matrices!Place
    <2> QED  BY <2>1, <2>2
  <1> QED  BY <1>8, <1>9, <1>10 DEF MatrixInv

LEMMA CopyKeeps ==
    ASSUME Matrices!MatrixAssumption, MatrixInv, NEW x \in Objects, NEW y \in Objects,
           Matrices!Copy(x, y)
    PROVE  MatrixInv'
  <1>1. Matrices!View(x, y, objects[x]) /\ objects[x] # Matrices!Nothing
    BY DEF Matrices!Copy, Matrices!View
  <1>2. objects[x] \in MatrixObjects
    BY DEF MatrixInv, MatrixTypeOK, MatrixObjects
  <1>3. ShowsOwn(x)
    BY <1>1 DEF MatrixInv, Views
  <1> QED  BY <1>1, <1>2, <1>3, ViewKeeps DEF ShowsOwn

\* The rectangle's element i, j is the element rowB + i, colB + j of x.
LEMMA SubMatrixKeeps ==
    ASSUME Matrices!MatrixAssumption, MatrixInv, NEW x \in Objects, NEW y \in Objects,
           NEW rowB \in Nat, NEW colB \in Nat, NEW rowE \in Nat, NEW colE \in Nat,
           rowB < rowE, colB < colE, Matrices!SubMatrix(x, y, rowB, rowE, colB, colE)
    PROVE  MatrixInv'
  <1> DEFINE o == objects[x]
             view == [o EXCEPT !.off = @ + rowB * o.len + colB,
                               !.rows = rowE - rowB, !.cols = colE - colB]
  <1>1. /\ Matrices!View(x, y, view) /\ o # Matrices!Nothing
        /\ rowE <= o.rows /\ colE <= o.cols
    BY DEF Matrices!SubMatrix, Matrices!View
  <1>2. o \in MatrixObjects
    BY DEF MatrixInv, MatrixTypeOK, MatrixObjects
  <1>3. ShowsOwn(x)
    BY <1>1 DEF MatrixInv, Views
  <1> HIDE DEF o
  <1>4. /\ o.off \in Nat /\ o.len \in Nat /\ o.size \in Nat /\ o.batch \in Nat
        /\ o.rows \in Nat /\ o.cols \in Nat /\ o.blk \in Nat
    BY <1>2 DEF MatrixObjects
  <1>5. rowB * o.len \in Nat
    BY <1>4
  <1>6. /\ view \in MatrixObjects /\ view.blk = o.blk /\ view.off = o.off + rowB * o.len + colB
        /\ view.batch = o.batch /\ view.rows = rowE - rowB /\ view.cols = colE - colB
        /\ view.len = o.len /\ view.size = o.size
    <2>1. o.off + rowB * o.len + colB \in Nat /\ rowE - rowB \in Nat /\ colE - colB \in Nat
      BY <1>4, <1>5
    <2> QED  BY <1>2, <1>4, <2>1 DEF MatrixObjects
  <1> HIDE DEF view
  <1>7. ASSUME NEW b \in 0 .. view.batch - 1, NEW i \in 0 .. view.rows - 1, NEW j \in 0 .. view.cols - 1
        PROVE  Matrices!Place(view, b, i, j) \in DOMAIN memory[view.blk]
    <2>1. i + rowB \in 0 .. o.rows - 1 /\ j + colB \in 0 .. o.cols - 1 /\ b \in 0 .. o.batch - 1
      BY <1>1, <1>4, <1>6
    <2>2. (i + rowB) * o.len = i * o.len + rowB * o.len
      BY <1>4
    <2>3. i * o.len \in Nat /\ b * o.size \in Nat /\ (i + rowB) * o.len \in Nat
      BY <1>4, <2>1
    <2>4. Matrices!Place(view, b, i, j) = Matrices!Place(o, b, i + rowB, j + colB)
      <3>1. Matrices!Place(view, b, i, j) = o.off + rowB * o.len + colB + b * o.size + i * o.len + j
        BY <1>6 DEF Matrices!Place
      <3>2. Matrices!Place(o, b, i + rowB, j + colB)
              = o.off + b * o.size + (i + rowB) * o.len + (j + colB)
        BY DEF Matrices!Place
      <3> QED  BY ONLY <1>4, <1>5, <2>2, <2>3, <3>1, <3>2, colB \in Nat, j \in Int
    <2> QED  BY <1>3, <1>6, <2>1, <2>4 DEF ShowsOwn, o
  <1> QED  BY <1>1, <1>6, <1>7, ViewKeeps DEF o

LEMMA ElementKeeps ==
    ASSUME Matrices!MatrixAssumption, MatrixInv, NEW x \in Objects, NEW y \in Objects,
           NEW e \in Nat, Matrices!Element(x, y, e)
    PROVE  MatrixInv'
  <1> DEFINE o == objects[x]
             view == [o EXCEPT !.off = @ + e * o.size, !.batch = 1]
  <1>1. Matrices!View(x, y, view) /\ o # Matrices!Nothing /\ e < o.batch
    BY DEF Matrices!Element, Matrices!View
  <1>2. o \in MatrixObjects
    BY DEF MatrixInv, MatrixTypeOK, MatrixObjects
  <1>3. ShowsOwn(x)
    BY <1>1 DEF MatrixInv, Views
  <1> HIDE DEF o
  <1>4. /\ o.off \in Nat /\ o.len \in Nat /\ o.size \in Nat /\ o.batch \in Nat
        /\ o.rows \in Nat /\ o.cols \in Nat /\ o.blk \in Nat
    BY <1>2 DEF MatrixObjects
  <1>5. e * o.size \in Nat
    BY <1>4
  <1>6. /\ view \in MatrixObjects /\ view.blk = o.blk /\ view.off = o.off + e * o.size
        /\ view.batch = 1 /\ view.rows = o.rows /\ view.cols = o.cols
        /\ view.len = o.len /\ view.size = o.size
    <2>1. o.off + e * o.size \in Nat
      BY <1>4, <1>5
    <2> QED  BY <1>2, <1>4, <2>1 DEF MatrixObjects
  <1> HIDE DEF view
  <1>7. ASSUME NEW b \in 0 .. view.batch - 1, NEW i \in 0 .. view.rows - 1, NEW j \in 0 .. view.cols - 1
        PROVE  Matrices!Place(view, b, i, j) \in DOMAIN memory[view.blk]
    <2>1. b = 0 /\ e \in 0 .. o.batch - 1 /\ i \in 0 .. o.rows - 1 /\ j \in 0 .. o.cols - 1
      BY <1>1, <1>4, <1>6
    <2>2. Matrices!Place(view, b, i, j) = Matrices!Place(o, e, i, j)
      <3>1. i * o.len \in Nat
        BY <1>4, <2>1
      <3>2. /\ Matrices!Place(view, b, i, j) = o.off + e * o.size + b * o.size + i * o.len + j
            /\ Matrices!Place(o, e, i, j) = o.off + e * o.size + i * o.len + j
        BY <1>6 DEF Matrices!Place
      <3>3. b * o.size = 0
        BY <1>4, <2>1
      <3> QED  BY ONLY <1>4, <1>5, <3>1, <3>2, <3>3, j \in Int
    <2> QED  BY <1>3, <1>6, <2>1, <2>2 DEF ShowsOwn, o
  <1> QED  BY <1>1, <1>6, <1>7, ViewKeeps DEF o

\* The places of a whole object are those of its block's first elements.
LEMMA WholeFits ==
    ASSUME NEW p \in Nat, NEW q \in Nat, NEW r \in Nat,
           NEW b \in 0 .. p - 1, NEW i \in 0 .. q - 1, NEW j \in 0 .. r - 1
    PROVE  0 + b * (q * r) + i * r + j \in 0 .. p * q * r - 1
  <1>1. i * r + j \in 0 .. q * r - 1
    BY RowMajor
  <1>2. q * r \in Nat
    OBVIOUS
  <1>3. \A s \in Nat : \A t \in 0 .. s - 1 : b * s + t \in 0 .. p * s - 1
    BY RowMajor
  <1>4. b * (q * r) + (i * r + j) \in 0 .. p * (q * r) - 1
    BY <1>1, <1>2, <1>3
  <1>5. p * (q * r) = p * q * r
    OBVIOUS
  <1>6. b * (q * r) \in Nat /\ i * r \in Nat
    BY <1>2
  <1> QED  BY <1>4, <1>5, <1>6

LEMMA ConstructKeeps ==
    ASSUME Matrices!MatrixAssumption, MatrixInv, NEW x \in Objects, NEW shape \in Shapes,
           Matrices!Construct(x, shape)
    PROVE  MatrixInv'
  <1> DEFINE count == shape[1] * shape[2] * shape[3]
             class == Matrices!SizeClass(count)
             pool == IF class \in DOMAIN memBuffer THEN memBuffer[class] ELSE << >>
             blk == IF pool = << >> THEN Len(memory) + 1 ELSE Matrices!Last(pool)
             new == [blk |-> blk, off |-> 0, batch |-> shape[1], rows |-> shape[2],
                     cols |-> shape[3], len |-> shape[3], size |-> shape[2] * shape[3]]
             zeros == [k \in 0 .. class - 1 |-> 0]
  <1>1. /\ objects[x] = Matrices!Nothing /\ objects' = [objects EXCEPT ![x] = new]
        /\ memBuffer' = IF pool = << >> THEN memBuffer
                        ELSE [memBuffer EXCEPT ![class] = Matrices!Front(@)]
        /\ memory' = IF pool = << >> THEN Append(memory, zeros) ELSE memory
        /\ writes' = writes
    BY DEF Matrices!Construct
  <1>2. /\ shape[1] \in Nat /\ shape[2] \in Nat /\ shape[3] \in Nat
        /\ shape[2] * shape[3] \in Nat /\ count \in Nat
    BY DEF Matrices!MatrixAssumption
  <1>3. class \in Nat /\ count <= class
    BY <1>2, ClassFits
  <1> HIDE DEF class
  <1>4. objects \in [Objects -> MatrixObjects]
    BY DEF MatrixInv, MatrixTypeOK, MatrixObjects
  <1>5. \A c \in DOMAIN memBuffer : c \in Nat /\ memBuffer[c] \in Seq(Nat)
    BY DEF MatrixInv, MatrixTypeOK
  <1>6. pool \in Seq(Nat)
    BY <1>5
  <1>7. Len(memory) \in Nat /\ DOMAIN memory = 1 .. Len(memory)
    BY DEF MatrixInv, MatrixTypeOK
  \* The block: of the right size, and nobody's.
  <1>8. /\ blk \in DOMAIN memory' /\ blk \in Nat \ {0} /\ memory'[blk] \in [0 .. class - 1 -> Nat]
        /\ ~HeldBlock(blk) /\ DOMAIN memory \subseteq DOMAIN memory'
        /\ DOMAIN memory' \subseteq DOMAIN memory \cup {blk}
        /\ \A k \in DOMAIN memory : memory'[k] = memory[k]
        /\ memory' \in Seq(UNION {[0 .. k - 1 -> Nat] : k \in Nat})
    <2>1. CASE pool = << >>
      <3> DEFINE Blocks == UNION {[0 .. k - 1 -> Nat] : k \in Nat}
      <3>1. zeros \in [0 .. class - 1 -> Nat] /\ zeros \in Blocks
        BY <1>3
      <3>2. memory \in Seq(Blocks)
        BY DEF MatrixInv, MatrixTypeOK
      <3> HIDE DEF Blocks, zeros
      <3>3. memory' = Append(memory, zeros) /\ blk = Len(memory) + 1
        BY <1>1, <2>1
      <3>4. /\ memory' \in Seq(Blocks) /\ Len(memory') = Len(memory) + 1
            /\ memory'[Len(memory) + 1] = zeros
            /\ \A k \in 1 .. Len(memory) : memory'[k] = memory[k]
        BY <3>1, <3>2, <3>3
      <3>5. ~HeldBlock(Len(memory) + 1)
        BY <1>7 DEF MatrixInv, Views, ShowsOwn, HeldBlock, HoldsBlock
      <3>6. DOMAIN memory' = 1 .. Len(memory) + 1
        BY <3>4
      <3>7. memory' \in Seq(UNION {[0 .. k - 1 -> Nat] : k \in Nat})
        BY <3>4 DEF Blocks
      <3> HIDE DEF blk, pool
      <3>8. memory'[blk] \in [0 .. class - 1 -> Nat] /\ ~HeldBlock(blk)
        BY <3>1, <3>3, <3>4, <3>5
      <3>9. /\ blk \in DOMAIN memory' /\ blk \in Nat \ {0} /\ DOMAIN memory \subseteq DOMAIN memory'
            /\ DOMAIN memory' \subseteq DOMAIN memory \cup {blk}
        BY <1>7, <3>3, <3>6
      <3>10. \A k \in DOMAIN memory : memory'[k] = memory[k]
        BY <1>7, <3>4
      <3> QED  BY <3>7, <3>8, <3>9, <3>10
    <2>2. CASE pool # << >>
      <3>1. class \in DOMAIN memBuffer /\ pool = memBuffer[class] /\ Len(pool) \in 1 .. Len(memBuffer[class])
        BY <1>6, <2>2
      <3>2. blk = memBuffer[class][Len(pool)] /\ memory' = memory
        BY <1>1, <2>2, <3>1 DEF Matrices!Last
      <3>3. /\ blk \in DOMAIN memory /\ memory[blk] \in [0 .. class - 1 -> Nat] /\ ~HeldBlock(blk)
        BY <3>1, <3>2 DEF MatrixInv, InPools
      <3>4. memory' \in Seq(UNION {[0 .. k - 1 -> Nat] : k \in Nat})
        BY <3>2 DEF MatrixInv, MatrixTypeOK
      <3> HIDE DEF blk, pool
      <3> QED  BY <1>7, <3>2, <3>3, <3>4
    <2> QED  BY <2>1, <2>2
  \* The pools keep the others.
  <1>9. /\ DOMAIN memBuffer' = DOMAIN memBuffer
        /\ memBuffer' = [c \in DOMAIN memBuffer' |-> memBuffer'[c]]
        /\ \A c \in DOMAIN memBuffer' : memBuffer'[c] \in Seq(Nat)
        /\ \A c \in DOMAIN memBuffer : \A i \in 1 .. Len(memBuffer'[c]) :
              /\ i \in 1 .. Len(memBuffer[c]) /\ memBuffer'[c][i] = memBuffer[c][i]
              /\ memBuffer'[c][i] # blk
        /\ \A c \in DOMAIN memBuffer : \A i \in 1 .. Len(memBuffer[c]) :
              memBuffer[c][i] # blk => i \in 1 .. Len(memBuffer'[c])
    <2>1. CASE pool = << >>
      <3>1. blk \notin DOMAIN memory
        BY <1>7, <2>1
      <3>2. memBuffer' = memBuffer
        BY <1>1, <2>1
      <3>3. memBuffer = [c \in DOMAIN memBuffer |-> memBuffer[c]]
        BY DEF MatrixInv, MatrixTypeOK
      <3>4. \A c \in DOMAIN memBuffer : \A i \in 1 .. Len(memBuffer[c]) : memBuffer[c][i] \in DOMAIN memory
        BY DEF MatrixInv, InPools
      <3> HIDE DEF blk, pool
      <3> QED  BY <1>5, <3>1, <3>2, <3>3, <3>4
    <2>2. CASE pool # << >>
      <3>1. class \in DOMAIN memBuffer /\ pool = memBuffer[class] /\ blk = pool[Len(pool)]
        BY <2>2 DEF Matrices!Last
      <3>2. memBuffer = [c \in DOMAIN memBuffer |-> memBuffer[c]]
        BY DEF MatrixInv, MatrixTypeOK
      <3> DEFINE front == SubSeq(pool, 1, Len(pool) - 1)
      <3>3. /\ DOMAIN memBuffer' = DOMAIN memBuffer
            /\ memBuffer' = [c \in DOMAIN memBuffer' |-> memBuffer'[c]]
            /\ memBuffer'[class] = front
            /\ \A c \in DOMAIN memBuffer : c # class => memBuffer'[c] = memBuffer[c]
        <4>1. memBuffer' = [memBuffer EXCEPT ![class] = front]
          BY <1>1, <2>2, <3>1 DEF Matrices!Front
        <4> HIDE DEF front, pool
        <4> QED  BY <3>1, <3>2, <4>1
      <3> HIDE DEF pool, blk
      <3>4. Len(pool) \in Nat \ {0}
        BY <1>6, <2>2
      <3>5. /\ front \in Seq(Nat) /\ Len(front) = Len(pool) - 1
            /\ \A i \in 1 .. Len(pool) - 1 : front[i] = pool[i]
        <4>1. \A i \in 1 .. Len(pool) - 1 : pool[i] \in Nat
          BY <1>6, <3>4
        <4> DEFINE last == Len(pool) - 1
        <4>2. last \in Int /\ 1 \in Int /\ last - 1 + 1 = last /\ (~(1 <= last) => last = 0)
          <5>1. \A l \in Nat \ {0} : l - 1 \in Int /\ l - 1 - 1 + 1 = l - 1 /\ (~(1 <= l - 1) => l - 1 = 0)
            OBVIOUS
          <5> QED  BY <3>4, <5>1
        <4>3. /\ front \in Seq(Nat) /\ Len(front) = IF 1 <= last THEN last - 1 + 1 ELSE 0
              /\ \A i \in 1 .. last - 1 + 1 : front[i] = pool[1 + i - 1]
          <5>1. front = SubSeq(pool, 1, last)
            OBVIOUS
          <5> HIDE DEF front, last
          <5> QED  BY <4>2, <4>1, <5>1, SubSeqProperties DEF last
        <4>4. Len(front) = last /\ \A i \in 1 .. last : front[i] = pool[i]
          <5> HIDE DEF front, last
          <5> QED  BY <4>2, <4>3
        <4> QED  BY <4>3, <4>4
      <3> HIDE DEF front
      <3>6. \A c \in DOMAIN memBuffer : \A i \in 1 .. Len(memBuffer[c]) :
              memBuffer[c][i] = blk => c = class /\ i = Len(pool)
        BY <3>1, <3>4 DEF MatrixInv, InPools
      <3>7. \A c \in DOMAIN memBuffer' : memBuffer'[c] \in Seq(Nat)
        BY <1>5, <3>3, <3>5
      <3>8. ASSUME NEW c \in DOMAIN memBuffer, NEW i \in 1 .. Len(memBuffer'[c])
            PROVE  /\ i \in 1 .. Len(memBuffer[c]) /\ memBuffer'[c][i] = memBuffer[c][i]
                   /\ memBuffer'[c][i] # blk
        <4>1. CASE c = class
          <5>1. i \in 1 .. Len(pool) - 1
            BY <3>3, <3>5, <4>1
          <5>2. i \in 1 .. Len(pool) /\ i # Len(pool)
            BY <3>4, <5>1
          <5> QED  BY <3>1, <3>3, <3>5, <3>6, <4>1, <5>1, <5>2
        <4>2. CASE c # class
          BY <3>3, <3>6, <4>2
        <4> QED  BY <4>1, <4>2
      <3>9. ASSUME NEW c \in DOMAIN memBuffer, NEW i \in 1 .. Len(memBuffer[c]), memBuffer[c][i] # blk
            PROVE  i \in 1 .. Len(memBuffer'[c])
        <4>1. CASE c = class
          <5>1. i \in 1 .. Len(pool) /\ i # Len(pool)
            BY <3>1, <3>9, <4>1
          <5> QED  BY <3>3, <3>4, <3>5, <4>1, <5>1
        <4>2. CASE c # class
          BY <3>3, <4>2
        <4> QED  BY <4>1, <4>2
      <3> QED  BY <3>3, <3>7, <3>8, <3>9
    <2> QED  BY <2>1, <2>2
  <1> HIDE DEF blk, pool
  <1>10. new \in MatrixObjects /\ new # Matrices!Nothing /\ new.blk = blk
    BY <1>2, <1>8, NothingIsObject DEF MatrixObjects
  <1>11. /\ objects' \in [Objects -> MatrixObjects] /\ objects'[x] = new
         /\ \A y \in Objects \ {x} : objects'[y] = objects[y]
    BY <1>1, <1>4, <1>10
  <1>12. \A y \in Objects : \A k : HoldsBlock(y, k)' <=> IF y = x THEN k = blk ELSE HoldsBlock(y, k)
    BY <1>10, <1>11 DEF HoldsBlock
  <1>13. \A k : HeldBlock(k)' <=> k = blk \/ HeldBlock(k)
    BY <1>1, <1>12 DEF HeldBlock, HoldsBlock
  <1>14. MatrixTypeOK'
    BY <1>1, <1>5, <1>8, <1>9, <1>11 DEF MatrixInv, MatrixTypeOK, MatrixObjects
  <1>15. InPools'
    <2> SUFFICES ASSUME NEW c \in DOMAIN memBuffer', NEW i \in 1 .. Len(memBuffer'[c]),
                        NEW k, k = memBuffer'[c][i]
                 PROVE  /\ k \in DOMAIN memory' /\ memory'[k] \in [0 .. c - 1 -> Nat]
                        /\ ~HeldBlock(k)'
                        /\ \A d \in DOMAIN memBuffer' : \A j \in 1 .. Len(memBuffer'[d]) :
                             k = memBuffer'[d][j] => c = d /\ i = j
      BY DEF InPools
    <2>1. c \in DOMAIN memBuffer /\ i \in 1 .. Len(memBuffer[c]) /\ k = memBuffer[c][i] /\ k # blk
      BY <1>9
    <2>2. /\ k \in DOMAIN memory /\ memory[k] \in [0 .. c - 1 -> Nat] /\ ~HeldBlock(k)
          /\ \A d \in DOMAIN memBuffer : \A j \in 1 .. Len(memBuffer[d]) :
               k = memBuffer[d][j] => c = d /\ i = j
      BY <2>1 DEF MatrixInv, InPools
    <2>3. k \in DOMAIN memory' /\ memory'[k] \in [0 .. c - 1 -> Nat]
      BY <1>8, <2>2
    <2>4. ~HeldBlock(k)'
      BY <1>13, <2>1, <2>2
    <2>5. ASSUME NEW d \in DOMAIN memBuffer', NEW j \in 1 .. Len(memBuffer'[d]), k = memBuffer'[d][j]
          PROVE  c = d /\ i = j
      BY <1>9, <2>2, <2>5
    <2> QED  BY <2>3, <2>4, <2>5
  <1>16. Accounted'
    <2> SUFFICES ASSUME NEW k \in DOMAIN memory', ~HeldBlock(k)'
                 PROVE  Pooled(k)'
      BY DEF Accounted
    <2>1. k # blk /\ ~HeldBlock(k) /\ k \in DOMAIN memory
      BY <1>8, <1>13
    <2> QED  BY <1>9, <2>1 DEF MatrixInv, Accounted, Pooled
  <1>17. Views'
    <2> SUFFICES ASSUME NEW y \in Objects, objects'[y] # Matrices!Nothing
                 PROVE  ShowsOwn(y)'
      BY DEF Views
    <2>1. CASE y = x
      <3>1. ASSUME NEW b \in 0 .. shape[1] - 1, NEW i \in 0 .. shape[2] - 1, NEW j \in 0 .. shape[3] - 1
            PROVE  Matrices!Place(new, b, i, j) \in 0 .. class - 1
        <4>1. 0 + b * (shape[2] * shape[3]) + i * shape[3] + j \in 0 .. count - 1
          BY <1>2, WholeFits
        <4> QED  BY <1>2, <1>3, <4>1 DEF Matrices!Place
      <3>2. DOMAIN memory'[blk] = 0 .. class - 1
        BY <1>8
      <3>3. /\ new.batch = shape[1] /\ new.rows = shape[2] /\ new.cols = shape[3]
        OBVIOUS
      <3> HIDE DEF new
      <3> QED  BY <1>8, <1>10, <1>11, <2>1, <3>1, <3>2, <3>3 DEF ShowsOwn, Matrices!Place
    <2>2. CASE y # x
      <3>1. objects'[y] = objects[y] /\ ShowsOwn(y)
        BY <1>11, <2>2 DEF MatrixInv, Views
      <3> QED  BY <1>8, <3>1 DEF ShowsOwn, Matrices!Place
    <2> QED  BY <2>1, <2>2
  <1> QED  BY <1>14, <1>15, <1>16, <1>17 DEF MatrixInv

LEMMA SetValueKeeps ==
    ASSUME MatrixInv, NEW x \in Objects, NEW b \in Nat, NEW i \in Nat, NEW j \in Nat,
           Matrices!SetValue(x, b, i, j)
    PROVE  MatrixInv'
  <1> DEFINE blk == objects[x].blk
             p == Matrices!Place(objects[x], b, i, j)
  <1>1. /\ objects[x] # Matrices!Nothing /\ writes' = writes + 1
        /\ memory' = [memory EXCEPT ![blk][p] = writes + 1]
        /\ objects' = objects /\ memBuffer' = memBuffer
    BY DEF Matrices!SetValue
  <1>2. writes + 1 \in Nat
    BY DEF MatrixInv, MatrixTypeOK
  <1> DEFINE Blocks == UNION {[0 .. k - 1 -> Nat] : k \in Nat}
  <1>3. memory \in Seq(Blocks)
    BY DEF MatrixInv, MatrixTypeOK
  <1>4. blk \in DOMAIN memory
    BY <1>1 DEF MatrixInv, Views, ShowsOwn
  <1>5. PICK size \in Nat : memory[blk] \in [0 .. size - 1 -> Nat]
    BY <1>4, BlockHasSize DEF MatrixInv
  <1> HIDE DEF p, blk
  <1> DEFINE new == [memory[blk] EXCEPT ![p] = writes + 1]
  <1>6. new \in [0 .. size - 1 -> Nat]
    BY <1>2, <1>5
  <1>7. new \in Blocks
    BY <1>6
  <1>8. memory' = [memory EXCEPT ![blk] = new]
    BY <1>1
  <1> HIDE DEF new, Blocks
  <1>9. memory' \in Seq(Blocks) /\ DOMAIN memory' = DOMAIN memory
    BY <1>3, <1>4, <1>7, <1>8, ExceptSeq
  <1>10. memory'[blk] = new /\ \A k \in DOMAIN memory : k # blk => memory'[k] = memory[k]
    BY <1>3, <1>4, <1>8
  <1>11. \A k \in DOMAIN memory : /\ DOMAIN memory'[k] = DOMAIN memory[k]
                                  /\ \A c : memory[k] \in [0 .. c - 1 -> Nat] => memory'[k] \in [0 .. c - 1 -> Nat]
    <2>1. DOMAIN new = DOMAIN memory[blk]
      BY DEF new
    <2>2. \A c : memory[blk] \in [0 .. c - 1 -> Nat] => new \in [0 .. c - 1 -> Nat]
      BY <1>2 DEF new
    <2> QED  BY <1>10, <2>1, <2>2
  <1>12. MatrixTypeOK'
    BY <1>1, <1>2, <1>9 DEF MatrixInv, MatrixTypeOK, Blocks
  <1>13. \A k : HeldBlock(k)' <=> HeldBlock(k)
    BY <1>1 DEF HeldBlock, HoldsBlock
  <1>14. InPools'
    <2> SUFFICES ASSUME NEW c \in DOMAIN memBuffer, NEW e \in 1 .. Len(memBuffer[c]),
                        NEW k, k = memBuffer[c][e]
                 PROVE  /\ k \in DOMAIN memory' /\ memory'[k] \in [0 .. c - 1 -> Nat]
                        /\ ~HeldBlock(k)'
                        /\ \A d \in DOMAIN memBuffer : \A f \in 1 .. Len(memBuffer[d]) :
                             k = memBuffer[d][f] => c = d /\ e = f
      BY <1>1 DEF InPools
    <2> QED  BY <1>9, <1>11, <1>13 DEF MatrixInv, InPools
  <1>15. Accounted'
    BY <1>1, <1>9, <1>13 DEF MatrixInv, Accounted, Pooled
  <1>16. Views'
    BY <1>1, <1>9, <1>11 DEF MatrixInv, Views, ShowsOwn, Matrices!Place
  <1> QED  BY <1>12, <1>14, <1>15, <1>16 DEF MatrixInv

LEMMA MatrixBegins == Matrices!Init => MatrixInv
  <1> SUFFICES ASSUME Matrices!Init
               PROVE  MatrixInv
    OBVIOUS
  <1>1. /\ objects = [x \in Objects |-> Matrices!Nothing] /\ memBuffer = << >>
        /\ memory = << >> /\ writes = 0
    BY DEF Matrices!Init
  <1>2. DOMAIN memBuffer = {} /\ DOMAIN memory = {}
    BY <1>1
  <1>3. MatrixTypeOK
    <2>1. objects \in [Objects -> MatrixObjects]
      BY <1>1, NothingIsObject
    <2>2. memBuffer = [c \in DOMAIN memBuffer |-> memBuffer[c]]
      BY <1>1
    <2> QED  BY <1>1, <1>2, <2>1, <2>2 DEF MatrixTypeOK, MatrixObjects
  <1> QED  BY <1>1, <1>2, <1>3 DEF MatrixInv, InPools, Accounted, Views

LEMMA MatrixKept ==
    ASSUME Matrices!MatrixAssumption, MatrixInv, [Matrices!Next]_(Matrices!vars)
    PROVE  MatrixInv'
  <1>1. CASE UNCHANGED Matrices!vars
    <2>1. /\ objects' = objects /\ memBuffer' = memBuffer /\ memory' = memory /\ writes' = writes
      BY <1>1 DEF Matrices!vars
    <2>2. MatrixTypeOK'
      BY <2>1 DEF MatrixInv, MatrixTypeOK
    <2>3. InPools' /\ Accounted'
      BY <2>1 DEF MatrixInv, InPools, Accounted, Pooled, HeldBlock, HoldsBlock
    <2>4. Views'
      BY <2>1 DEF MatrixInv, Views, ShowsOwn, Matrices!Place
    <2> QED  BY <2>2, <2>3, <2>4 DEF MatrixInv
  <1>2. ASSUME NEW x \in Objects, NEW y \in Objects, NEW rowB \in 0 .. 1, NEW colB \in 0 .. 1,
               NEW rowE \in rowB + 1 .. 2, NEW colE \in colB + 1 .. 2,
               Matrices!SubMatrix(x, y, rowB, rowE, colB, colE)
        PROVE  MatrixInv'
    BY <1>2, SubMatrixKeeps
  <1> QED  BY <1>1, <1>2, ConstructKeeps, DestroyKeeps, CopyKeeps, ElementKeeps, SetValueKeeps
           DEF Matrices!Next

LEMMA InvGivesOwned ==
    ASSUME Matrices!MatrixAssumption, MatrixInv
    PROVE  Matrices!BlocksOwned
  <1>1. ASSUME NEW blk \in DOMAIN memory
        PROVE  Matrices!Cardinality({p \in Matrices!PoolSlots : memBuffer[p[1]][p[2]] = blk})
                 = IF Matrices!UseCount(blk) = 0 THEN 1 ELSE 0
    <2> DEFINE in == {p \in Matrices!PoolSlots : memBuffer[p[1]][p[2]] = blk}
    <2>1. \A c \in DOMAIN memBuffer : DOMAIN memBuffer[c] = 1 .. Len(memBuffer[c])
      BY DEF MatrixInv, MatrixTypeOK
    <2>2. CASE HeldBlock(blk)
      <3>1. ASSUME NEW p \in in
            PROVE  FALSE
        <4>1. PICK c \in DOMAIN memBuffer : p \in {c} \X DOMAIN memBuffer[c]
          BY DEF Matrices!PoolSlots
        <4>2. p[1] = c /\ p[2] \in 1 .. Len(memBuffer[c]) /\ memBuffer[c][p[2]] = blk
          BY <2>1, <4>1
        <4> QED  BY <2>2, <4>2 DEF MatrixInv, InPools
      <3>2. in = {}
        BY <3>1
      <3>3. Matrices!UseCount(blk) # 0
        BY <2>2, Unused
      <3> QED  BY <3>2, <3>3, MatrixCounting, FS_EmptySet
    <2>3. CASE ~HeldBlock(blk)
      <3>1. PICK c \in DOMAIN memBuffer : \E i \in 1 .. Len(memBuffer[c]) : memBuffer[c][i] = blk
        BY <2>3 DEF MatrixInv, Accounted, Pooled
      <3>2. PICK i \in 1 .. Len(memBuffer[c]) : memBuffer[c][i] = blk
        BY <3>1
      <3>3. \A d \in DOMAIN memBuffer : \A j \in 1 .. Len(memBuffer[d]) :
               memBuffer[d][j] = blk => d = c /\ j = i
        BY <3>2 DEF MatrixInv, InPools
      <3>4. <<c, i>> \in in
        <4>1. <<c, i>> \in {c} \X DOMAIN memBuffer[c]
          BY <2>1, <3>2
        <4> QED  BY <3>2, <4>1 DEF Matrices!PoolSlots
      <3>5. ASSUME NEW p \in in
            PROVE  p = <<c, i>>
        <4>1. PICK d \in DOMAIN memBuffer : p \in {d} \X DOMAIN memBuffer[d]
          BY DEF Matrices!PoolSlots
        <4>2. p = <<d, p[2]>> /\ p[2] \in 1 .. Len(memBuffer[d]) /\ memBuffer[d][p[2]] = blk
          BY <2>1, <4>1
        <4> QED  BY <3>3, <4>2
      <3>6. in = {<<c, i>>}
        BY <3>4, <3>5
      <3>7. Cardinality({<<c, i>>}) = 1
        BY FS_Singleton
      <3>8. Matrices!UseCount(blk) = 0
        BY <2>3, Unused
      <3> QED  BY <3>6, <3>7, <3>8, MatrixCounting
    <2> QED  BY <2>2, <2>3
  <1>2. ASSUME NEW x \in Objects, NEW k \in Matrices!Indices(objects[x])
        PROVE  Matrices!Place(objects[x], k[1], k[2], k[3]) \in DOMAIN memory[objects[x].blk]
    <2>1. PICK b \in 0 .. objects[x].batch - 1, i \in 0 .. objects[x].rows - 1,
               j \in 0 .. objects[x].cols - 1 : k = <<b, i, j>>
      BY DEF Matrices!Indices
    <2>2. objects[x] # Matrices!Nothing
      <3>1. Matrices!Nothing.batch = 0
        BY DEF Matrices!Nothing
      <3> QED  BY <2>1, <3>1
    <2>3. ShowsOwn(x)
      BY <2>2 DEF MatrixInv, Views
    <2> QED  BY <2>1, <2>3 DEF ShowsOwn
  <1> QED  BY <1>1, <1>2 DEF Matrices!BlocksOwned

\* What an object that stays holds is in its block.
LEMMA BlockHasContent ==
    ASSUME NEW x \in Objects, objects'[x] = objects[x],
           memory'[objects[x].blk] = memory[objects[x].blk]
    PROVE  Matrices!Content(objects[x])' = Matrices!Content(objects[x])
  BY DEF Matrices!Content, Matrices!Indices, Matrices!Place

Changed == {x \in Objects : /\ objects[x] # Matrices!Nothing /\ objects'[x] = objects[x]
                            /\ Matrices!Content(objects[x])' # Matrices!Content(objects[x])}

LEMMA OldBlocksStay ==
    ASSUME MatrixInv, \A blk \in DOMAIN memory : memory'[blk] = memory[blk]
    PROVE  Changed = {}
  BY BlockHasContent DEF Changed, MatrixInv, Views, ShowsOwn

LEMMA MatrixStep ==
    ASSUME Matrices!MatrixAssumption, MatrixInv, Matrices!Next
    PROVE  Matrices!OneChanges
  <1>1. SUFFICES \E S : IsFiniteSet(S) /\ Changed \subseteq S /\ Cardinality(S) <= 1
    <2>1. PICK S : IsFiniteSet(S) /\ Changed \subseteq S /\ Cardinality(S) <= 1
      BY <1>1
    <2>2. Cardinality(Changed) <= Cardinality(S) /\ IsFiniteSet(Changed)
      BY <2>1, FS_Subset
    <2>3. Cardinality(Changed) \in Nat /\ Cardinality(S) \in Nat
      BY <2>1, <2>2, FS_CardinalityType
    <2>4. Cardinality(Changed) <= 1
      BY <2>1, <2>2, <2>3
    <2> QED  BY <2>4, MatrixCounting DEF Matrices!OneChanges, Changed
  <1>2. ASSUME \A blk \in DOMAIN memory : memory'[blk] = memory[blk]
        PROVE  \E S : IsFiniteSet(S) /\ Changed \subseteq S /\ Cardinality(S) <= 1
    <2>1. Changed \subseteq {} /\ IsFiniteSet({}) /\ Cardinality({}) <= 1
      BY <1>2, OldBlocksStay, FS_EmptySet
    <2> QED  BY <2>1
  <1>3. ASSUME NEW x \in Objects, NEW b, NEW i, NEW j, Matrices!SetValue(x, b, i, j)
        PROVE  \E S : IsFiniteSet(S) /\ Changed \subseteq S /\ Cardinality(S) <= 1
    <2>1. /\ objects[x] # Matrices!Nothing /\ Matrices!UseCount(objects[x].blk) = 1
          /\ objects' = objects
          /\ memory' = [memory EXCEPT ![objects[x].blk][Matrices!Place(objects[x], b, i, j)] = writes + 1]
      BY <1>3 DEF Matrices!SetValue, Matrices!AvailableForWrite
    <2>2. \A y \in Objects \ {x} : objects[y] # Matrices!Nothing => objects[y].blk # objects[x].blk
      BY <2>1, UseCounts DEF HoldsBlock
    <2>3. \A blk \in DOMAIN memory : blk # objects[x].blk => memory'[blk] = memory[blk]
      BY <2>1
    <2>4. \A y \in Objects \ {x} : y \notin Changed
      BY <2>2, <2>3, BlockHasContent DEF Changed, MatrixInv, Views, ShowsOwn
    <2>5. Changed \subseteq {x} /\ IsFiniteSet({x}) /\ Cardinality({x}) <= 1
      BY <2>4, FS_Singleton DEF Changed
    <2> QED  BY <2>5
  <1>4. ASSUME NEW x \in Objects, NEW shape \in Shapes, Matrices!Construct(x, shape)
        PROVE  \A blk \in DOMAIN memory : memory'[blk] = memory[blk]
    <2>1. \/ memory' = memory
          \/ \E e : memory' = Append(memory, e)
      BY <1>4 DEF Matrices!Construct
    <2>2. \A e : \A blk \in DOMAIN memory : Append(memory, e)[blk] = memory[blk]
      BY DEF MatrixInv, MatrixTypeOK
    <2> QED  BY <2>1, <2>2
  <1>5. ASSUME NEW x \in Objects, Matrices!Destroy(x)
        PROVE  memory' = memory
    BY <1>5 DEF Matrices!Destroy
  <1>6. ASSUME NEW x \in Objects, NEW y \in Objects, NEW view, Matrices!View(x, y, view)
        PROVE  memory' = memory
    BY <1>6 DEF Matrices!View
  <1>7. ASSUME NEW x \in Objects, NEW y \in Objects, Matrices!Copy(x, y)
        PROVE  memory' = memory
    BY <1>6, <1>7 DEF Matrices!Copy
  <1>8. ASSUME NEW x \in Objects, NEW y \in Objects, NEW e, Matrices!Element(x, y, e)
        PROVE  memory' = memory
    BY <1>6, <1>8 DEF Matrices!Element
  <1>9. ASSUME NEW x \in Objects, NEW y \in Objects, NEW rowB, NEW rowE, NEW colB, NEW colE,
               Matrices!SubMatrix(x, y, rowB, rowE, colB, colE)
        PROVE  memory' = memory
    BY <1>6, <1>9 DEF Matrices!SubMatrix
  <1>10. CASE \E x \in Objects : \E shape \in Shapes : Matrices!Construct(x, shape)
    BY <1>2, <1>4, <1>10
  <1>11. CASE \E x \in Objects : \E b, i, j \in 0 .. 1 : Matrices!SetValue(x, b, i, j)
    BY <1>3, <1>11
  <1>12. CASE memory' = memory
    BY <1>2, <1>12
  <1> QED  BY <1>5, <1>7, <1>8, <1>9, <1>10, <1>11, <1>12 DEF Matrices!Next

-----------------------------------------------------------------------------
(* The buffers and their pool.                                               *)

ChunkNames == Sizes \X (1 .. MAX_POOL_SIZE + InitNum)

PoolTypes == /\ mp_pool_ \in [Sizes -> Seq(ChunkNames)]
             /\ mp_total_ \in Int
             /\ made \in [Sizes -> Nat]
             /\ chunk \in [ChunkNames -> Seq(Nat)]
             /\ held \subseteq ChunkNames

\* A chunk's number is among those made.
Numbered == /\ \A z \in Sizes : \A c \in Buffers!Free(z) : c[2] <= made[z]
            /\ \A c \in held : c[2] <= made[c[1]]

PoolLists == PoolTypes /\ Buffers!OnePlace /\ Buffers!NoneLost /\ Numbered
             /\ Buffers!LeftIsFree /\ Buffers!BelowLimit

Clean == \A c \in ChunkNames \ held : chunk[c] = << >>

LEMMA BufferCounting == \A S : /\ Buffers!IsFiniteSet(S) <=> IsFiniteSet(S)
                               /\ Buffers!Cardinality(S) = Cardinality(S)
  BY DEF Buffers!IsFiniteSet, IsFiniteSet, Buffers!Cardinality, Cardinality

LEMMA PoolConstants ==
    ASSUME Buffers!BufferAssumption
    PROVE  /\ Sizes \subseteq Nat \ {0} /\ IsFiniteSet(Sizes)
           /\ InitNum \in Nat \ {0} /\ MAX_POOL_SIZE \in Nat /\ MaxBytes \in [Conns -> Nat]
  BY BufferCounting DEF Buffers!BufferAssumption, Buffers!PoolAssumption

\* The elements of a list without repetition.
Elems(q) == {q[i] : i \in 1 .. Len(q)}
Distinct(q) == \A i, j \in 1 .. Len(q) : q[i] = q[j] => i = j

LEMMA TailElems ==
    ASSUME NEW S, NEW q \in Seq(S), q # << >>, Distinct(q)
    PROVE  /\ Tail(q) \in Seq(S) /\ Distinct(Tail(q)) /\ Head(q) \in S
           /\ Elems(Tail(q)) = Elems(q) \ {Head(q)} /\ Head(q) \in Elems(q)
  <1>1. Len(q) \in Nat \ {0} /\ Tail(q) \in Seq(S) /\ Len(Tail(q)) = Len(q) - 1 /\ Head(q) = q[1]
        /\ q[1] \in S
    OBVIOUS
  <1>2. \A i \in 1 .. Len(q) - 1 : Tail(q)[i] = q[i + 1]
    OBVIOUS
  <1>3. \A i \in 1 .. Len(q) - 1 : i + 1 \in 1 .. Len(q) /\ i + 1 # 1
    BY <1>1
  <1>4. \A i \in 1 .. Len(q) : i # 1 => i - 1 \in 1 .. Len(q) - 1 /\ i - 1 + 1 = i
    BY <1>1
  <1>5. 1 \in 1 .. Len(q)
    BY <1>1
  <1>6. Distinct(Tail(q))
    BY <1>1, <1>2, <1>3 DEF Distinct
  <1>7. Elems(Tail(q)) \subseteq Elems(q) \ {Head(q)}
    BY <1>1, <1>2, <1>3, <1>5 DEF Elems, Distinct
  <1>8. ASSUME NEW e \in Elems(q) \ {Head(q)}
        PROVE  e \in Elems(Tail(q))
    <2>1. PICK i \in 1 .. Len(q) : e = q[i]
      BY DEF Elems
    <2>2. i # 1
      BY <1>1, <2>1
    <2>3. i - 1 \in 1 .. Len(q) - 1 /\ Tail(q)[i - 1] = q[i]
      BY <1>2, <1>4, <2>2
    <2> QED  BY <1>1, <2>1, <2>3 DEF Elems
  <1> QED  BY <1>1, <1>5, <1>6, <1>7, <1>8 DEF Elems

LEMMA PushElems ==
    ASSUME NEW S, NEW q \in Seq(S), Distinct(q), NEW c \in S, c \notin Elems(q)
    PROVE  /\ <<c>> \o q \in Seq(S) /\ Distinct(<<c>> \o q)
           /\ Elems(<<c>> \o q) = Elems(q) \cup {c}
  <1> DEFINE p == <<c>> \o q
  <1>1. /\ p \in Seq(S) /\ Len(p) = Len(q) + 1 /\ Len(q) \in Nat /\ p[1] = c
        /\ \A i \in 1 .. Len(q) : p[i + 1] = q[i]
    OBVIOUS
  <1> HIDE DEF p
  <1>2. \A i \in 1 .. Len(p) : i = 1 \/ (i - 1 \in 1 .. Len(q) /\ p[i] = q[i - 1])
    <2>1. \A i \in 1 .. Len(p) : i # 1 => i - 1 \in 1 .. Len(q) /\ i - 1 + 1 = i
      BY <1>1
    <2> QED  BY <1>1, <2>1
  <1>3. \A i \in 1 .. Len(q) : i + 1 \in 1 .. Len(p)
    BY <1>1
  <1>4. 1 \in 1 .. Len(p)
    BY <1>1
  <1>5. Distinct(p)
    <2> SUFFICES ASSUME NEW i \in 1 .. Len(p), NEW j \in 1 .. Len(p), p[i] = p[j]
                 PROVE  i = j
      BY DEF Distinct
    <2>1. CASE i = 1 \/ j = 1
      BY <1>1, <1>2, <2>1 DEF Elems
    <2>2. CASE i # 1 /\ j # 1
      <3>1. i - 1 \in 1 .. Len(q) /\ j - 1 \in 1 .. Len(q) /\ q[i - 1] = q[j - 1]
        BY <1>2, <2>2
      <3>2. i - 1 = j - 1
        BY <3>1 DEF Distinct
      <3> QED  BY <3>2
    <2> QED  BY <2>1, <2>2
  <1>6. Elems(p) = Elems(q) \cup {c}
    <2>1. \A e \in Elems(p) : e \in Elems(q) \cup {c}
      <3> SUFFICES ASSUME NEW i \in 1 .. Len(p)
                   PROVE  p[i] \in Elems(q) \cup {c}
        BY DEF Elems
      <3> QED  BY <1>1, <1>2 DEF Elems
    <2>2. \A e \in Elems(q) : e \in Elems(p)
      <3> SUFFICES ASSUME NEW i \in 1 .. Len(q)
                   PROVE  q[i] \in Elems(p)
        BY DEF Elems
      <3>1. i + 1 \in 1 .. Len(p) /\ p[i + 1] = q[i]
        BY <1>1, <1>3
      <3> QED  BY <3>1 DEF Elems
    <2>3. c \in Elems(p)
      BY <1>1, <1>4 DEF Elems
    <2> QED  BY <2>1, <2>2, <2>3
  <1> QED  BY <1>1, <1>5, <1>6 DEF p

LEMMA RangeFinite ==
    ASSUME NEW S, IsFiniteSet(S), NEW f
    PROVE  IsFiniteSet({f[s] : s \in S})
  <1> DEFINE T == {f[s] : s \in S}
             g == [s \in S |-> f[s]]
  <1>1. g \in Surjection(S, T)
    BY DEF Surjection
  <1> QED  BY <1>1, FS_Surjection

LEMMA ElemsFinite ==
    ASSUME NEW S, NEW q \in Seq(S)
    PROVE  IsFiniteSet(Elems(q)) /\ Elems(q) \subseteq S
  <1>1. IsFiniteSet(1 .. Len(q))
    BY FS_Interval
  <1>2. IsFiniteSet({q[i] : i \in 1 .. Len(q)})
    BY <1>1, RangeFinite
  <1> QED  BY <1>2 DEF Elems

\* As many units of each element of a set as f says.
Weights(f, C) == UNION {{c} \X (1 .. f[c]) : c \in C}

LEMMA WeightsAdd ==
    ASSUME NEW A, NEW f \in [A -> Nat], NEW C \in SUBSET A, IsFiniteSet(C)
    PROVE  /\ IsFiniteSet(Weights(f, C)) /\ Cardinality(Weights(f, C)) \in Nat
           /\ \A c \in A \ C : Cardinality(Weights(f, C \cup {c})) = Cardinality(Weights(f, C)) + f[c]
  <1> DEFINE U(c) == {c} \X (1 .. f[c])
  <1>1. ASSUME NEW c \in A
        PROVE  IsFiniteSet(U(c)) /\ Cardinality(U(c)) = f[c]
    <2>1. IsFiniteSet({c}) /\ Cardinality({c}) = 1
      BY FS_Singleton
    <2>2. IsFiniteSet(1 .. f[c]) /\ Cardinality(1 .. f[c]) = f[c]
      <3>1. PICK k \in Nat : k = f[c]
        OBVIOUS
      <3>2. IsFiniteSet(1 .. k) /\ Cardinality(1 .. k) = k
        <4>1. 1 \in Int /\ k \in Int /\ k - 1 + 1 = k
          OBVIOUS
        <4>2. 1 > k => k = 0
          OBVIOUS
        <4> QED  BY <4>1, <4>2, FS_Interval
      <3> QED  BY <3>1, <3>2
    <2>3. IsFiniteSet(U(c)) /\ Cardinality(U(c)) = 1 * f[c]
      BY <2>1, <2>2, FS_Product
    <2> QED  BY <2>3
  <1>2. \A D \in SUBSET A : Weights(f, D) = UNION {U(c) : c \in D}
    BY DEF Weights
  <1>3. IsFiniteSet(Weights(f, C))
    <2> DEFINE g == [c \in C |-> U(c)]
    <2>0. IsFiniteSet({g[c] : c \in C}) /\ \A c \in C : g[c] = U(c)
      <3>1. \A c \in C : g[c] = U(c)
        OBVIOUS
      <3>2. IsFiniteSet({g[c] : c \in C})
        <4> HIDE DEF g
        <4> QED  BY RangeFinite
      <3> QED  BY <3>1, <3>2
    <2>1. IsFiniteSet({U(c) : c \in C})
      <3> HIDE DEF g, U
      <3>1. {U(c) : c \in C} = {g[c] : c \in C}
        BY <2>0
      <3> QED  BY <2>0, <3>1
    <2>2. \A s \in {U(c) : c \in C} : IsFiniteSet(s)
      BY <1>1
    <2>3. IsFiniteSet(UNION {U(c) : c \in C})
      <3> HIDE DEF U
      <3> QED  BY <2>1, <2>2, FS_UNION
    <2> QED  BY <1>2, <2>3
  <1>4. ASSUME NEW c \in A \ C
        PROVE  Cardinality(Weights(f, C \cup {c})) = Cardinality(Weights(f, C)) + f[c]
    <2>1. Weights(f, C \cup {c}) = Weights(f, C) \cup U(c)
      BY <1>2
    <2>2. Weights(f, C) \cap U(c) = {}
      BY <1>2
    <2>3. Cardinality(Weights(f, C) \cup U(c))
             = Cardinality(Weights(f, C)) + Cardinality(U(c)) - Cardinality(Weights(f, C) \cap U(c))
      BY <1>1, <1>3, FS_Union
    <2>4. Cardinality(Weights(f, C) \cap U(c)) = 0
      BY <2>2, FS_EmptySet
    <2>5. Cardinality(Weights(f, C)) \in Nat
      BY <1>3, FS_CardinalityType
    <2>6. Cardinality(U(c)) = f[c] /\ f[c] \in Nat
      BY <1>1
    <2>7. Cardinality(Weights(f, C) \cup U(c)) = Cardinality(Weights(f, C)) + f[c] - 0
      BY <2>3, <2>4, <2>6
    <2>8. PICK m \in Nat : m = Cardinality(Weights(f, C))
      BY <2>5
    <2>9. PICK k \in Nat : k = f[c]
      BY <2>6
    <2>10. Cardinality(Weights(f, C) \cup U(c)) = m + k
      BY <2>7, <2>8, <2>9
    <2> QED  BY <2>1, <2>8, <2>9, <2>10
  <1> QED  BY <1>3, <1>4, FS_CardinalityType

\* What a chunk adds to a set of them.
LEMMA UnitsAdd ==
    ASSUME Buffers!BufferAssumption, NEW C \in SUBSET ChunkNames, IsFiniteSet(C)
    PROVE  /\ IsFiniteSet(Buffers!Units(C)) /\ Cardinality(Buffers!Units(C)) \in Nat
           /\ \A c \in ChunkNames \ C :
                 Cardinality(Buffers!Units(C \cup {c})) = Cardinality(Buffers!Units(C)) + c[1]
  <1> DEFINE f == [c \in ChunkNames |-> c[1]]
  <1>1. f \in [ChunkNames -> Nat]
    BY PoolConstants DEF ChunkNames
  <1>2. \A c \in ChunkNames : f[c] = c[1]
    OBVIOUS
  <1> HIDE DEF f
  <1>3. \A D \in SUBSET ChunkNames : Buffers!Units(D) = Weights(f, D)
    BY <1>2 DEF Buffers!Units, Buffers!Capacity, Weights
  <1>4. /\ IsFiniteSet(Weights(f, C)) /\ Cardinality(Weights(f, C)) \in Nat
        /\ \A c \in ChunkNames \ C : Cardinality(Weights(f, C \cup {c})) = Cardinality(Weights(f, C)) + f[c]
    BY <1>1, WeightsAdd
  <1>5. ASSUME NEW c \in ChunkNames \ C
        PROVE  Cardinality(Buffers!Units(C \cup {c})) = Cardinality(Buffers!Units(C)) + c[1]
    <2>1. Buffers!Units(C \cup {c}) = Weights(f, C \cup {c}) /\ Buffers!Units(C) = Weights(f, C)
      BY <1>3
    <2> QED  BY <1>2, <1>4, <2>1
  <1> QED  BY <1>3, <1>4, <1>5

FreeChunks == UNION {Buffers!Free(z) : z \in Sizes}

LEMMA FreeIsElems == \A z : Buffers!Free(z) = Elems(mp_pool_[z])
  BY DEF Buffers!Free, Elems

LEMMA FreeFinite ==
    ASSUME Buffers!BufferAssumption, PoolTypes
    PROVE  IsFiniteSet(FreeChunks) /\ FreeChunks \subseteq ChunkNames
  <1>1. \A z \in Sizes : IsFiniteSet(Buffers!Free(z)) /\ Buffers!Free(z) \subseteq ChunkNames
    BY FreeIsElems, ElemsFinite DEF PoolTypes
  <1>2. IsFiniteSet({Buffers!Free(z) : z \in Sizes})
    <2> DEFINE f == [z \in Sizes |-> Buffers!Free(z)]
    <2>1. IsFiniteSet({f[z] : z \in Sizes}) /\ \A z \in Sizes : f[z] = Buffers!Free(z)
      BY PoolConstants, RangeFinite
    <2>2. {Buffers!Free(z) : z \in Sizes} = {f[z] : z \in Sizes}
      <3> HIDE DEF f
      <3> QED  BY <2>1
    <2> QED  BY <2>1, <2>2
  <1>3. \A s \in {Buffers!Free(z) : z \in Sizes} : IsFiniteSet(s)
    BY <1>1
  <1>4. IsFiniteSet(FreeChunks)
    BY <1>2, <1>3, FS_UNION DEF FreeChunks
  <1> QED  BY <1>1, <1>4 DEF FreeChunks

\* The accounts as sets.
LEMMA OnePlaceAsSets ==
    Buffers!OnePlace <=> \A z \in Sizes : /\ Distinct(mp_pool_[z])
                                          /\ \A c \in Buffers!Free(z) : c[1] = z /\ c \notin held
  BY DEF Buffers!OnePlace, Distinct, Buffers!Free, Buffers!Capacity

LEMMA LeftAsSets == Buffers!LeftIsFree <=> mp_left_ = Cardinality(Buffers!Units(FreeChunks))
  BY BufferCounting DEF Buffers!LeftIsFree, FreeChunks

Listed(p) == UNION {Elems(p[z]) : z \in Sizes}

\* What the lists of the next state have to satisfy.
LEMMA PoolListsNext ==
    ASSUME PoolTypes',
           \A z \in Sizes : /\ Distinct(mp_pool_'[z])
                            /\ \A d \in Elems(mp_pool_'[z]) : d[1] = z /\ d \notin held' /\ d[2] <= made'[z]
                            /\ \A k \in 1 .. made'[z] : <<z, k>> \in Elems(mp_pool_'[z]) \cup held',
           \A d \in held' : d[2] <= made'[d[1]],
           mp_left_' = Cardinality(Buffers!Units(Listed(mp_pool_'))),
           Buffers!InitTotal < MAX_POOL_SIZE => mp_total_' < MAX_POOL_SIZE
    PROVE  PoolLists'
  <1>1. \A z : Buffers!Free(z)' = Elems(mp_pool_'[z])
    BY DEF Buffers!Free, Elems
  <1>2. Buffers!OnePlace'
    BY DEF Buffers!OnePlace, Distinct, Elems, Buffers!Capacity
  <1>3. Buffers!NoneLost'
    BY <1>1 DEF Buffers!NoneLost
  <1>4. Numbered'
    BY <1>1 DEF Numbered
  <1>5. Buffers!LeftIsFree'
    <2>1. UNION {Buffers!Free(z)' : z \in Sizes} = Listed(mp_pool_')
      BY <1>1 DEF Listed
    <2> QED  BY <2>1, BufferCounting DEF Buffers!LeftIsFree, Buffers!Units, Buffers!Capacity
  <1>6. Buffers!BelowLimit'
    BY DEF Buffers!BelowLimit
  <1> QED  BY <1>2, <1>3, <1>4, <1>5, <1>6 DEF PoolLists

\* And of this one.
LEMMA PoolListsNow ==
    ASSUME Buffers!BufferAssumption, PoolLists
    PROVE  /\ \A z \in Sizes :
                /\ mp_pool_[z] \in Seq(ChunkNames) /\ Distinct(mp_pool_[z])
                /\ \A d \in Elems(mp_pool_[z]) :
                     d \in ChunkNames /\ d[1] = z /\ d \notin held /\ d[2] <= made[z]
                /\ \A k \in 1 .. made[z] : <<z, k>> \in Elems(mp_pool_[z]) \cup held
           /\ \A d \in held : d \in ChunkNames /\ d[2] <= made[d[1]]
           /\ mp_left_ = Cardinality(Buffers!Units(Listed(mp_pool_)))
           /\ Listed(mp_pool_) \in SUBSET ChunkNames /\ IsFiniteSet(Listed(mp_pool_))
  <1>1. FreeChunks = Listed(mp_pool_)
    BY FreeIsElems DEF FreeChunks, Listed
  <1>2. mp_left_ = Cardinality(Buffers!Units(Listed(mp_pool_)))
    BY <1>1, LeftAsSets DEF PoolLists
  <1>3. Listed(mp_pool_) \in SUBSET ChunkNames /\ IsFiniteSet(Listed(mp_pool_))
    BY <1>1, FreeFinite DEF PoolLists
  <1>4. ASSUME NEW z \in Sizes
        PROVE  /\ mp_pool_[z] \in Seq(ChunkNames) /\ Distinct(mp_pool_[z])
               /\ \A d \in Elems(mp_pool_[z]) :
                     d \in ChunkNames /\ d[1] = z /\ d \notin held /\ d[2] <= made[z]
               /\ \A k \in 1 .. made[z] : <<z, k>> \in Elems(mp_pool_[z]) \cup held
    <2>1. mp_pool_[z] \in Seq(ChunkNames)
      BY DEF PoolLists, PoolTypes
    <2>2. Elems(mp_pool_[z]) \subseteq ChunkNames
      BY <2>1, ElemsFinite
    <2> QED  BY <2>1, <2>2, FreeIsElems, OnePlaceAsSets DEF PoolLists, Numbered, Buffers!NoneLost
  <1>5. \A d \in held : d \in ChunkNames /\ d[2] <= made[d[1]]
    BY DEF PoolLists, PoolTypes, Numbered
  <1> QED  BY <1>2, <1>3, <1>4, <1>5

LEMMA TakeFreeKeeps ==
    ASSUME Buffers!BufferAssumption, PoolLists, NEW z \in Sizes, NEW c \in ChunkNames,
           Buffers!TakeFree(z, c), held' = held \cup {c}, chunk' = chunk
    PROVE  PoolLists' /\ c \notin held /\ c[1] = z
  <1> DEFINE q == mp_pool_[z]
  <1>1. /\ q # << >> /\ c = Head(q) /\ mp_pool_' = [mp_pool_ EXCEPT ![z] = Tail(q)]
        /\ mp_left_' = mp_left_ - z /\ mp_total_' = mp_total_ /\ made' = made
    BY DEF Buffers!TakeFree, Buffers!TakeHead
  <1>2. q \in Seq(ChunkNames) /\ Distinct(q)
    BY PoolListsNow
  <1> HIDE DEF q
  <1>3. /\ Tail(q) \in Seq(ChunkNames) /\ Distinct(Tail(q))
        /\ Elems(Tail(q)) = Elems(q) \ {c} /\ c \in Elems(q)
    BY <1>1, <1>2, TailElems
  <1>4. c[1] = z /\ c \notin held /\ c[2] <= made[z] /\ c \in ChunkNames
    BY <1>3, PoolListsNow DEF q
  <1>5. mp_pool_ \in [Sizes -> Seq(ChunkNames)]
    BY DEF PoolLists, PoolTypes
  <1>6. /\ mp_pool_' \in [Sizes -> Seq(ChunkNames)] /\ mp_pool_'[z] = Tail(q)
        /\ \A y \in Sizes : y # z => mp_pool_'[y] = mp_pool_[y]
    BY <1>1, <1>3, <1>5
  <1>7. PoolTypes'
    BY <1>1, <1>4, <1>6 DEF PoolLists, PoolTypes
  <1>8. \A y \in Sizes : Elems(mp_pool_'[y]) = Elems(mp_pool_[y]) \ {c}
    <2> SUFFICES ASSUME NEW y \in Sizes
                 PROVE  Elems(mp_pool_'[y]) = Elems(mp_pool_[y]) \ {c}
      OBVIOUS
    <2>1. CASE y = z
      BY <1>3, <1>6, <2>1 DEF q
    <2>2. CASE y # z
      <3>1. c \notin Elems(mp_pool_[y])
        BY <1>4, <2>2, PoolListsNow
      <3> QED  BY <1>6, <2>2, <3>1
    <2> QED  BY <2>1, <2>2
  <1>9. /\ Listed(mp_pool_') = Listed(mp_pool_) \ {c}
        /\ c \in Listed(mp_pool_)
    <2>1. c \in Listed(mp_pool_)
      BY <1>3 DEF Listed, q
    <2>2. \A d : (\E y \in Sizes : d \in Elems(mp_pool_'[y]))
                    <=> (d # c /\ \E y \in Sizes : d \in Elems(mp_pool_[y]))
      BY <1>8
    <2> QED  BY <2>1, <2>2 DEF Listed
  <1>10. mp_left_' = Cardinality(Buffers!Units(Listed(mp_pool_')))
    <2> DEFINE L == Listed(mp_pool_) \ {c}
    <2>1. L \in SUBSET ChunkNames /\ IsFiniteSet(L) /\ c \in ChunkNames \ L
      BY PoolListsNow, FS_RemoveElement
    <2>2. L \cup {c} = Listed(mp_pool_)
      BY <1>9
    <2> HIDE DEF L
    <2>3. /\ Cardinality(Buffers!Units(L)) \in Nat
          /\ Cardinality(Buffers!Units(L \cup {c})) = Cardinality(Buffers!Units(L)) + c[1]
      BY <2>1, UnitsAdd
    <2>4. mp_left_ = Cardinality(Buffers!Units(L)) + z
      BY <1>4, <2>2, <2>3, PoolListsNow
    <2>5. z \in Nat
      BY PoolConstants
    <2>6. mp_left_' = Cardinality(Buffers!Units(L))
      BY <1>1, <2>3, <2>4, <2>5
    <2> QED  BY <1>9, <2>6 DEF L
  <1>11. \A y \in Sizes : /\ Distinct(mp_pool_'[y])
                          /\ \A d \in Elems(mp_pool_'[y]) : d[1] = y /\ d \notin held' /\ d[2] <= made'[y]
                          /\ \A k \in 1 .. made'[y] : <<y, k>> \in Elems(mp_pool_'[y]) \cup held'
    <2> SUFFICES ASSUME NEW y \in Sizes
                 PROVE  /\ Distinct(mp_pool_'[y])
                        /\ \A d \in Elems(mp_pool_'[y]) : d[1] = y /\ d \notin held' /\ d[2] <= made'[y]
                        /\ \A k \in 1 .. made'[y] : <<y, k>> \in Elems(mp_pool_'[y]) \cup held'
      OBVIOUS
    <2>1. Distinct(mp_pool_'[y])
      BY <1>3, <1>6, PoolListsNow
    <2>2. /\ \A d \in Elems(mp_pool_[y]) : d[1] = y /\ d \notin held /\ d[2] <= made[y]
          /\ \A k \in 1 .. made[y] : <<y, k>> \in Elems(mp_pool_[y]) \cup held
      BY PoolListsNow
    <2> QED  BY <1>1, <1>8, <2>1, <2>2
  <1>12. \A d \in held' : d[2] <= made'[d[1]]
    BY <1>1, <1>4, PoolListsNow
  <1>13. Buffers!InitTotal < MAX_POOL_SIZE => mp_total_' < MAX_POOL_SIZE
    BY <1>1 DEF PoolLists, Buffers!BelowLimit
  <1> QED  BY <1>4, <1>7, <1>10, <1>11, <1>12, <1>13, PoolListsNext

LEMMA MakeNewKeeps ==
    ASSUME Buffers!BufferAssumption, PoolLists, NEW z \in Sizes, NEW c \in ChunkNames,
           Buffers!MakeNew(z, c), held' = held \cup {c}, chunk' = chunk
    PROVE  PoolLists' /\ c \notin held /\ c[1] = z
  <1>1. /\ mp_pool_[z] = << >> /\ ~(mp_total_ + z >= MAX_POOL_SIZE) /\ c = <<z, made[z] + 1>>
        /\ made' = [made EXCEPT ![z] = @ + 1] /\ mp_total_' = mp_total_ + z
        /\ mp_left_' = mp_left_ /\ mp_pool_' = mp_pool_
    BY DEF Buffers!MakeNew, Buffers!LimitReached, Buffers!LeftAfterMaking
  <1>2. /\ made \in [Sizes -> Nat] /\ mp_total_ \in Int /\ held \subseteq ChunkNames
    BY DEF PoolLists, PoolTypes
  <1>3. /\ made' \in [Sizes -> Nat] /\ made'[z] = made[z] + 1
        /\ \A y \in Sizes : y # z => made'[y] = made[y]
    BY <1>1, <1>2
  <1>4. z \in Nat \ {0} /\ MAX_POOL_SIZE \in Nat
    BY PoolConstants
  <1>5. c[1] = z /\ c[2] = made[z] + 1 /\ made[z] \in Nat
    BY <1>1, <1>2
  <1>6. c \notin held
    BY <1>5, PoolListsNow
  <1>7. PoolTypes'
    <2>1. held' \subseteq ChunkNames /\ mp_total_' \in Int
      BY <1>1, <1>2, <1>4
    <2> QED  BY <1>1, <1>3, <2>1 DEF PoolLists, PoolTypes
  <1>8. \A y \in Sizes : \A e \in Int : e <= made[y] => e <= made'[y]
    BY <1>2, <1>3
  <1>9. \A d \in ChunkNames : d[2] \in Int /\ d[1] \in Sizes
    BY PoolConstants DEF ChunkNames
  <1>10. Elems(mp_pool_[z]) = {}
    BY <1>1 DEF Elems
  <1>11. ASSUME NEW y \in Sizes
         PROVE  /\ Distinct(mp_pool_'[y])
                /\ \A d \in Elems(mp_pool_'[y]) : d[1] = y /\ d \notin held' /\ d[2] <= made'[y]
                /\ \A k \in 1 .. made'[y] : <<y, k>> \in Elems(mp_pool_'[y]) \cup held'
    <2>1. /\ Distinct(mp_pool_[y])
          /\ \A d \in Elems(mp_pool_[y]) :
                d \in ChunkNames /\ d[1] = y /\ d \notin held /\ d[2] <= made[y]
          /\ \A k \in 1 .. made[y] : <<y, k>> \in Elems(mp_pool_[y]) \cup held
      BY PoolListsNow
    <2>2. \A d \in Elems(mp_pool_[y]) : d # c
      BY <1>5, <1>10, <2>1
    <2>3. \A k \in 1 .. made'[y] : k \in 1 .. made[y] \/ <<y, k>> = c
      BY <1>1, <1>2, <1>3
    <2> QED  BY <1>1, <1>8, <1>9, <2>1, <2>2, <2>3
  <1>12. \A d \in held' : d[2] <= made'[d[1]]
    <2> SUFFICES ASSUME NEW d \in held'
                 PROVE  d[2] <= made'[d[1]]
      OBVIOUS
    <2>1. CASE d = c
      BY <1>3, <1>5, <2>1
    <2>2. CASE d # c
      BY <1>8, <1>9, <2>2, PoolListsNow
    <2> QED  BY <2>1, <2>2
  <1>13. mp_left_' = Cardinality(Buffers!Units(Listed(mp_pool_')))
    BY <1>1, PoolListsNow
  <1>14. mp_total_' < MAX_POOL_SIZE
    BY <1>1, <1>2, <1>4
  <1> QED  BY <1>5, <1>6, <1>7, <1>11, <1>12, <1>13, <1>14, PoolListsNext

LEMMA AllocKeeps ==
    ASSUME Buffers!BufferAssumption, PoolLists, Clean, NEW m, NEW c \in ChunkNames,
           Buffers!AllocChunk(m, c)
    PROVE  /\ PoolLists' /\ Clean' /\ c \notin held /\ m <= c[1] /\ chunk[c] = << >>
           /\ held' = held \cup {c} /\ chunk' = chunk
  <1>1. held' = held \cup {c} /\ chunk' = chunk
    BY DEF Buffers!AllocChunk
  <1>2. PICK z \in Sizes : m <= z /\ (Buffers!TakeFree(z, c) \/ Buffers!MakeNew(z, c))
    BY DEF Buffers!AllocChunk, Buffers!Fit
  <1>3. PoolLists' /\ c \notin held /\ c[1] = z
    BY <1>1, <1>2, TakeFreeKeeps, MakeNewKeeps
  <1> QED  BY <1>1, <1>2, <1>3 DEF Clean

LEMMA RetrieveKeeps ==
    ASSUME Buffers!BufferAssumption, PoolLists, NEW c,
           NEW contents \in [ChunkNames -> Seq(Nat)],
           \A d \in ChunkNames \ held : contents[d] = << >>, Buffers!Retrieve(c, contents)
    PROVE  /\ PoolLists' /\ Clean' /\ c \in held /\ held' = held \ {c}
           /\ \A d \in ChunkNames \ {c} : chunk'[d] = contents[d]
  <1>1. /\ c \in held /\ chunk' = [contents EXCEPT ![c] = << >>]
        /\ mp_pool_' = [mp_pool_ EXCEPT ![c[1]] = <<c>> \o mp_pool_[c[1]]]
        /\ mp_left_' = mp_left_ + c[1] /\ held' = held \ {c}
        /\ mp_total_' = mp_total_ /\ made' = made
    BY DEF Buffers!Retrieve, Buffers!Cleaned, Buffers!Capacity
  <1> DEFINE z == c[1]
             q == mp_pool_[z]
  <1>2. c \in ChunkNames /\ z \in Sizes /\ c[2] <= made[z]
    BY <1>1, PoolListsNow DEF ChunkNames
  <1>3. /\ chunk' \in [ChunkNames -> Seq(Nat)] /\ chunk'[c] = << >>
        /\ \A d \in ChunkNames \ {c} : chunk'[d] = contents[d]
    BY <1>1, <1>2
  <1>4. q \in Seq(ChunkNames) /\ Distinct(q) /\ c \notin Elems(q)
    BY <1>1, <1>2, PoolListsNow
  <1>5. /\ <<c>> \o q \in Seq(ChunkNames) /\ Distinct(<<c>> \o q)
        /\ Elems(<<c>> \o q) = Elems(q) \cup {c}
    <2> HIDE DEF q
    <2> QED  BY <1>2, <1>4, PushElems
  <1>6. mp_pool_ \in [Sizes -> Seq(ChunkNames)]
    BY DEF PoolLists, PoolTypes
  <1>7. /\ mp_pool_' \in [Sizes -> Seq(ChunkNames)] /\ mp_pool_'[z] = <<c>> \o q
        /\ \A y \in Sizes : y # z => mp_pool_'[y] = mp_pool_[y]
    <2>1. mp_pool_' = [mp_pool_ EXCEPT ![z] = <<c>> \o q]
      BY <1>1
    <2> HIDE DEF z, q
    <2> QED  BY <1>2, <1>5, <1>6, <2>1
  <1>8. PoolTypes'
    BY <1>1, <1>3, <1>7 DEF PoolLists, PoolTypes
  <1>9. \A y \in Sizes : Elems(mp_pool_'[y]) = IF y = z THEN Elems(mp_pool_[y]) \cup {c} ELSE Elems(mp_pool_[y])
    BY <1>5, <1>7
  <1>10. Listed(mp_pool_') = Listed(mp_pool_) \cup {c} /\ c \notin Listed(mp_pool_)
    <2>1. c \notin Listed(mp_pool_)
      BY <1>1, PoolListsNow DEF Listed
    <2>2. \A d : (\E y \in Sizes : d \in Elems(mp_pool_'[y])) <=> (d = c \/ \E y \in Sizes : d \in Elems(mp_pool_[y]))
      <3> HIDE DEF z
      <3> QED  BY <1>2, <1>9
    <2> QED  BY <2>1, <2>2 DEF Listed
  <1>11. mp_left_' = Cardinality(Buffers!Units(Listed(mp_pool_')))
    <2> DEFINE L == Listed(mp_pool_)
    <2>1. L \in SUBSET ChunkNames /\ IsFiniteSet(L) /\ mp_left_ = Cardinality(Buffers!Units(L))
      BY PoolListsNow
    <2>2. c \in ChunkNames \ L /\ Listed(mp_pool_') = L \cup {c}
      BY <1>2, <1>10
    <2> HIDE DEF L
    <2>3. Cardinality(Buffers!Units(L \cup {c})) = Cardinality(Buffers!Units(L)) + c[1]
      BY <2>1, <2>2, UnitsAdd
    <2> QED  BY <1>1, <2>1, <2>2, <2>3
  <1>12. ASSUME NEW y \in Sizes
         PROVE  /\ Distinct(mp_pool_'[y])
                /\ \A d \in Elems(mp_pool_'[y]) : d[1] = y /\ d \notin held' /\ d[2] <= made'[y]
                /\ \A k \in 1 .. made'[y] : <<y, k>> \in Elems(mp_pool_'[y]) \cup held'
    <2>1. /\ Distinct(mp_pool_[y])
          /\ \A d \in Elems(mp_pool_[y]) : d[1] = y /\ d \notin held /\ d[2] <= made[y]
          /\ \A k \in 1 .. made[y] : <<y, k>> \in Elems(mp_pool_[y]) \cup held
      BY PoolListsNow
    <2>2. Distinct(mp_pool_'[y])
      BY <1>5, <1>7, <2>1
    <2>4. (\A k : <<y, k>> = c => y = z) /\ c[1] = z
      OBVIOUS
    <2> HIDE DEF z, q
    <2>3. \A d \in Elems(mp_pool_'[y]) : d[1] = y /\ d \notin held' /\ d[2] <= made'[y]
      <3> SUFFICES ASSUME NEW d \in Elems(mp_pool_'[y])
                   PROVE  d[1] = y /\ d \notin held' /\ d[2] <= made'[y]
        OBVIOUS
      <3>1. CASE d = c /\ y = z
        BY <1>1, <1>2, <2>4, <3>1
      <3>2. CASE d \in Elems(mp_pool_[y])
        BY <1>1, <2>1, <3>2
      <3> QED  BY <1>9, <3>1, <3>2
    <2>5. \A k \in 1 .. made'[y] : <<y, k>> \in Elems(mp_pool_'[y]) \cup held'
      <3> SUFFICES ASSUME NEW k \in 1 .. made[y]
                   PROVE  <<y, k>> \in Elems(mp_pool_'[y]) \cup held'
        BY <1>1
      <3>1. CASE <<y, k>> = c
        BY <1>9, <2>4, <3>1
      <3>2. CASE <<y, k>> # c
        <4>1. Elems(mp_pool_[y]) \subseteq Elems(mp_pool_'[y])
          BY <1>9
        <4>2. <<y, k>> \in Elems(mp_pool_[y]) \cup held
          BY <2>1
        <4> QED  BY <1>1, <3>2, <4>1, <4>2
      <3> QED  BY <3>1, <3>2
    <2> QED  BY <2>2, <2>3, <2>5
  <1>13. \A d \in held' : d[2] <= made'[d[1]]
    BY <1>1, PoolListsNow
  <1>14. Buffers!InitTotal < MAX_POOL_SIZE => mp_total_' < MAX_POOL_SIZE
    BY <1>1 DEF PoolLists, Buffers!BelowLimit
  <1>15. PoolLists'
    BY <1>8, <1>11, <1>12, <1>13, <1>14, PoolListsNext
  <1>16. Clean'
    BY <1>1, <1>3 DEF Clean
  <1> QED  BY <1>1, <1>3, <1>15, <1>16

\* Who holds what, for any holders.
Owns(hold, S) == /\ S = {hold[b] : b \in DOMAIN hold} \ {Buffers!Null}
                 /\ \A a, b \in DOMAIN hold : hold[a] = hold[b] /\ hold[a] # Buffers!Null => a = b

LEMMA Gains ==
    ASSUME NEW I, NEW T, NEW hold \in [I -> T], NEW S, Owns(hold, S),
           NEW b \in I, NEW c \in T \ S, c # Buffers!Null, hold[b] = Buffers!Null
    PROVE  Owns([hold EXCEPT ![b] = c], S \cup {c})
  <1> DEFINE new == [hold EXCEPT ![b] = c]
  <1>1. /\ DOMAIN hold = I /\ DOMAIN new = I /\ new[b] = c
        /\ \A a \in I : a # b => new[a] = hold[a]
    OBVIOUS
  <1>2. \A a \in I : hold[a] # c
    BY <1>1 DEF Owns
  <1> HIDE DEF new
  <1>3. \A e : e \in S \cup {c} <=> e # Buffers!Null /\ \E a \in I : new[a] = e
    <2>1. ASSUME NEW e, e \in S
          PROVE  e # Buffers!Null /\ \E a \in I : new[a] = e
      <3>1. PICK a \in I : hold[a] = e /\ e # Buffers!Null
        BY <1>1, <2>1 DEF Owns
      <3> QED  BY <1>1, <3>1
    <2>2. ASSUME NEW a \in I, new[a] # Buffers!Null
          PROVE  new[a] \in S \cup {c}
      BY <1>1, <2>2 DEF Owns
    <2> QED  BY <1>1, <2>1, <2>2
  <1>4. S \cup {c} = {new[a] : a \in DOMAIN new} \ {Buffers!Null}
    BY <1>1, <1>3
  <1>5. \A a, d \in I : new[a] = new[d] /\ new[a] # Buffers!Null => a = d
    BY <1>1, <1>2 DEF Owns
  <1> QED  BY <1>1, <1>4, <1>5 DEF Owns, new

LEMMA Loses ==
    ASSUME NEW I, NEW T, NEW hold \in [I -> T], NEW S, Owns(hold, S),
           NEW b \in I, hold[b] # Buffers!Null
    PROVE  Owns([hold EXCEPT ![b] = Buffers!Null], S \ {hold[b]})
  <1> DEFINE new == [hold EXCEPT ![b] = Buffers!Null]
  <1>1. /\ DOMAIN hold = I /\ DOMAIN new = I /\ new[b] = Buffers!Null
        /\ \A a \in I : a # b => new[a] = hold[a]
    OBVIOUS
  <1>2. \A a \in I : a # b => hold[a] # hold[b]
    BY <1>1 DEF Owns
  <1> HIDE DEF new
  <1>3. \A e : e \in S \ {hold[b]} <=> e # Buffers!Null /\ \E a \in I : new[a] = e
    <2>1. ASSUME NEW e, e \in S, e # hold[b]
          PROVE  e # Buffers!Null /\ \E a \in I : new[a] = e
      <3>1. PICK a \in I : hold[a] = e /\ e # Buffers!Null
        BY <1>1, <2>1 DEF Owns
      <3> QED  BY <1>1, <2>1, <3>1
    <2>2. ASSUME NEW a \in I, new[a] # Buffers!Null
          PROVE  new[a] \in S \ {hold[b]}
      BY <1>1, <1>2, <2>2 DEF Owns
    <2> QED  BY <2>1, <2>2
  <1>4. S \ {hold[b]} = {new[a] : a \in DOMAIN new} \ {Buffers!Null}
    BY <1>1, <1>3
  <1>5. \A a, d \in I : new[a] = new[d] /\ new[a] # Buffers!Null => a = d
    BY <1>1 DEF Owns
  <1> QED  BY <1>1, <1>4, <1>5 DEF Owns, new

\* b gives up its own for what d has.
LEMMA Trades ==
    ASSUME NEW I, NEW T, NEW hold \in [I -> T], NEW S, Owns(hold, S),
           NEW b \in I, NEW d \in I, b # d, hold[b] # Buffers!Null, hold[d] # Buffers!Null
    PROVE  Owns([[hold EXCEPT ![b] = hold[d]] EXCEPT ![d] = Buffers!Null], S \ {hold[b]})
  <1> DEFINE new == [[hold EXCEPT ![b] = hold[d]] EXCEPT ![d] = Buffers!Null]
  <1>1. /\ DOMAIN hold = I /\ DOMAIN new = I /\ new[b] = hold[d] /\ new[d] = Buffers!Null
        /\ \A a \in I : a # b /\ a # d => new[a] = hold[a]
    OBVIOUS
  <1>2. \A a \in I : /\ a # b => hold[a] # hold[b]
                     /\ a # d => hold[a] # hold[d]
    BY <1>1 DEF Owns
  <1> HIDE DEF new
  <1>3. \A e : e \in S \ {hold[b]} <=> e # Buffers!Null /\ \E a \in I : new[a] = e
    <2>1. ASSUME NEW e, e \in S, e # hold[b]
          PROVE  e # Buffers!Null /\ \E a \in I : new[a] = e
      <3>1. PICK a \in I : hold[a] = e /\ e # Buffers!Null
        BY <1>1, <2>1 DEF Owns
      <3> QED  BY <1>1, <2>1, <3>1
    <2>2. ASSUME NEW a \in I, new[a] # Buffers!Null
          PROVE  new[a] \in S \ {hold[b]}
      BY <1>1, <1>2, <2>2 DEF Owns
    <2> QED  BY <2>1, <2>2
  <1>4. S \ {hold[b]} = {new[a] : a \in DOMAIN new} \ {Buffers!Null}
    BY <1>1, <1>3
  <1>5. \A a, e \in I : new[a] = new[e] /\ new[a] # Buffers!Null => a = e
    BY <1>1, <1>2 DEF Owns
  <1> QED  BY <1>1, <1>4, <1>5 DEF Owns, new

-----------------------------------------------------------------------------
(* Numbered bytes.                                                           *)

LEMMA UptoSeq ==
    ASSUME NEW a \in Nat, NEW b \in Nat, a <= b
    PROVE  /\ Buffers!Upto(a, b) \in Seq(Nat) /\ Len(Buffers!Upto(a, b)) = b - a
           /\ \A i \in 1 .. b - a : Buffers!Upto(a, b)[i] = a + i
  <1>1. b - a \in Nat
    OBVIOUS
  <1>2. \A k \in Nat : LET q == [i \in 1 .. k |-> a + i]
                       IN  q \in Seq(Nat) /\ Len(q) = k /\ \A i \in 1 .. k : q[i] = a + i
    OBVIOUS
  <1> QED  BY <1>1, <1>2 DEF Buffers!Upto

LEMMA UptoEqual ==
    ASSUME NEW a \in Nat, NEW b \in Nat, a <= b, NEW q \in Seq(Nat), Len(q) = b - a,
           \A i \in 1 .. b - a : q[i] = a + i
    PROVE  q = Buffers!Upto(a, b)
  <1>1. \A i \in 1 .. Len(q) : q[i] = Buffers!Upto(a, b)[i]
    BY UptoSeq
  <1>2. Buffers!Upto(a, b) \in Seq(Nat) /\ Len(Buffers!Upto(a, b)) = Len(q)
    BY UptoSeq
  <1> QED  BY <1>1, <1>2, SeqEqual

LEMMA UptoConcat ==
    ASSUME NEW a \in Nat, NEW b \in Nat, NEW c \in Nat, a <= b, b <= c
    PROVE  Buffers!Upto(a, b) \o Buffers!Upto(b, c) = Buffers!Upto(a, c)
  <1> DEFINE p == Buffers!Upto(a, b)
             q == Buffers!Upto(b, c)
  <1>1. /\ p \in Seq(Nat) /\ Len(p) = b - a /\ \A i \in 1 .. b - a : p[i] = a + i
        /\ q \in Seq(Nat) /\ Len(q) = c - b /\ \A i \in 1 .. c - b : q[i] = b + i
    BY UptoSeq
  <1> HIDE DEF p, q
  <1>2. /\ p \o q \in Seq(Nat) /\ Len(p \o q) = Len(p) + Len(q)
        /\ \A i \in 1 .. Len(p) + Len(q) : (p \o q)[i] = IF i <= Len(p) THEN p[i] ELSE q[i - Len(p)]
    BY <1>1, ConcatProperties
  <1>3. Len(p) + Len(q) = c - a
    BY <1>1
  <1>4. ASSUME NEW i \in 1 .. c - a
        PROVE  (p \o q)[i] = a + i
    <2>1. CASE i <= b - a
      BY <1>1, <1>2, <1>3, <2>1
    <2>2. CASE ~(i <= b - a)
      <3>1. i - (b - a) \in 1 .. c - b /\ b + (i - (b - a)) = a + i
        BY <2>2
      <3> QED  BY <1>1, <1>2, <1>3, <2>2, <3>1
    <2> QED  BY <2>1, <2>2
  <1>5. a <= c
    OBVIOUS
  <1> QED  BY <1>2, <1>3, <1>4, <1>5, UptoEqual DEF p, q

LEMMA UptoTake ==
    ASSUME NEW a \in Nat, NEW b \in Nat, a <= b, NEW k \in 0 .. b - a
    PROVE  /\ SubSeq(Buffers!Upto(a, b), 1, k) = Buffers!Upto(a, a + k)
           /\ SubSeq(Buffers!Upto(a, b), k + 1, Len(Buffers!Upto(a, b))) = Buffers!Upto(a + k, b)
  <1> DEFINE p == Buffers!Upto(a, b)
  <1>1. p \in Seq(Nat) /\ Len(p) = b - a /\ \A i \in 1 .. b - a : p[i] = a + i
    BY UptoSeq
  <1> HIDE DEF p
  <1>2. /\ k \in Nat /\ a + k \in Nat /\ a <= a + k /\ a + k <= b /\ k <= b - a
        /\ b - a \in Nat /\ a + k - a = k /\ b - (a + k) = b - a - k
    OBVIOUS
  <1>3. SubSeq(p, 1, k) = Buffers!Upto(a, a + k)
    <2> DEFINE q == SubSeq(p, 1, k)
    <2>1. q \in Seq(Nat) /\ Len(q) = k /\ \A i \in 1 .. k : q[i] = p[i]
      BY <1>1, <1>2
    <2>2. \A i \in 1 .. a + k - a : q[i] = a + i
      BY <1>1, <1>2, <2>1
    <2>3. Len(q) = a + k - a
      BY <1>2, <2>1
    <2> HIDE DEF q
    <2>4. \A e \in Nat : a <= e /\ Len(q) = e - a /\ (\A i \in 1 .. e - a : q[i] = a + i)
                         => q = Buffers!Upto(a, e)
      BY <2>1, UptoEqual
    <2>5. q = Buffers!Upto(a, a + k)
      BY <1>2, <2>2, <2>3, <2>4
    <2> QED  BY <2>5 DEF q
  <1>4. SubSeq(p, k + 1, Len(p)) = Buffers!Upto(a + k, b)
    <2> DEFINE q == SubSeq(p, k + 1, Len(p))
    <2>1. q \in Seq(Nat) /\ Len(q) = b - a - k /\ \A i \in 1 .. b - a - k : q[i] = p[k + i]
      BY <1>1, <1>2
    <2>2. \A i \in 1 .. b - (a + k) : q[i] = a + k + i
      <3>1. \A i \in 1 .. b - a - k : k + i \in 1 .. b - a /\ a + (k + i) = a + k + i
        BY <1>2
      <3> QED  BY <1>1, <1>2, <2>1, <3>1
    <2>3. Len(q) = b - (a + k)
      BY <1>2, <2>1
    <2> HIDE DEF q
    <2>4. \A e \in Nat : e <= b /\ Len(q) = b - e /\ (\A i \in 1 .. b - e : q[i] = e + i)
                         => q = Buffers!Upto(e, b)
      BY <2>1, UptoEqual
    <2>5. q = Buffers!Upto(a + k, b)
      BY <1>2, <2>2, <2>3, <2>4
    <2> QED  BY <2>5 DEF q
  <1> QED  BY <1>3, <1>4 DEF p

LEMMA UptoEmpty == \A a \in Nat : Buffers!Upto(a, a) = << >>
  <1> SUFFICES ASSUME NEW a \in Nat
               PROVE  Buffers!Upto(a, a) = << >>
    OBVIOUS
  <1>1. Buffers!Upto(a, a) \in Seq(Nat) /\ Len(Buffers!Upto(a, a)) = 0
    BY UptoSeq
  <1> QED  BY <1>1, EmptySeq

-----------------------------------------------------------------------------
(* A connection: what it is about to do is possible, and its bytes are those *)
(* of its streams.                                                           *)

Steps == {"idle", "room", "copy", "move", "user", "clearIn", "clearOut", "closed"}
MaybeChunk == ChunkNames \cup {Buffers!Null}

ConnTypes == /\ ibuf \in [Conns -> MaybeChunk] /\ obuf \in [Conns -> MaybeChunk]
             /\ grown \in [Conns -> MaybeChunk]
             /\ op \in [Conns -> {"none", "read", "write"}] /\ step \in [Conns -> Steps]
             /\ n \in [Conns -> Nat] /\ inq \in [Conns -> Seq(Nat)]
             /\ sent \in [Conns -> Nat] /\ delivered \in [Conns -> Nat]
             /\ put \in [Conns -> Nat] /\ wire \in [Conns -> Nat]

\* The chunk grown holds the bytes to come beside those of the old one; and
\* no more is read than is there.
Ready(x) ==
  /\ grown[x] # Buffers!Null <=> step[x] = "copy"
  /\ step[x] \in {"room", "copy", "move"} => op[x] \in {"read", "write"}
  /\ step[x] \in {"copy", "move"} => Buffers!Buf(x) # Buffers!Null
  /\ step[x] = "user" => ibuf[x] # Buffers!Null
  /\ step[x] = "copy" => n[x] + Len(chunk[Buffers!Buf(x)]) <= grown[x][1]
  /\ step[x] = "move" => n[x] + Len(chunk[Buffers!Buf(x)]) <= Buffers!Buf(x)[1]
  /\ step[x] \in {"room", "copy", "move"} /\ op[x] = "read" => n[x] <= Len(inq[x])

\* The bytes of the peer, up to those the socket still has.
InOK(x) ==
  step[x] \notin {"clearOut", "closed"} =>
    LET got == delivered[x] + Len(Buffers!Contents(ibuf[x]))
    IN  /\ got <= sent[x]
        /\ Buffers!Contents(ibuf[x]) = Buffers!Upto(delivered[x], got)
        /\ inq[x] = Buffers!Upto(got, sent[x])

OutOK(x) ==
  step[x] # "closed" =>
    wire[x] <= put[x] /\ Buffers!Contents(obuf[x]) = Buffers!Upto(wire[x], put[x])

ConnOK(x) == Ready(x) /\ InOK(x) /\ OutOK(x)

BufferInv == /\ PoolLists /\ Clean /\ Buffers!WithinCapacity
             /\ ConnTypes /\ Buffers!OneOwner
             /\ \A x \in Conns : ConnOK(x)

Slots == Conns \X {"in", "out", "grown"}

LEMMA NullIsNoChunk == Buffers!Null \notin ChunkNames
  BY DEF Buffers!Null, ChunkNames

LEMMA HoldingsNow ==
    ASSUME ConnTypes
    PROVE  /\ Buffers!Holdings \in [Slots -> MaybeChunk]
           /\ \A y \in Conns : /\ Buffers!Holdings[<<y, "in">>] = ibuf[y]
                               /\ Buffers!Holdings[<<y, "out">>] = obuf[y]
                               /\ Buffers!Holdings[<<y, "grown">>] = grown[y]
  <1>1. \A y \in Conns : /\ Buffers!Holdings[<<y, "in">>] = ibuf[y]
                         /\ Buffers!Holdings[<<y, "out">>] = obuf[y]
                         /\ Buffers!Holdings[<<y, "grown">>] = grown[y]
    BY DEF Buffers!Holdings
  <1>2. DOMAIN Buffers!Holdings = Slots /\ Buffers!Holdings = [b \in Slots |-> Buffers!Holdings[b]]
    BY DEF Buffers!Holdings, Slots
  <1>3. ASSUME NEW b \in Slots
        PROVE  Buffers!Holdings[b] \in MaybeChunk
    <2>1. PICK y \in Conns, s \in {"in", "out", "grown"} : b = <<y, s>>
      BY DEF Slots
    <2> QED  BY <1>1, <2>1 DEF ConnTypes
  <1> QED  BY <1>1, <1>2, <1>3

LEMMA OwnedOnce == Buffers!OneOwner <=> Owns(Buffers!Holdings, held)
  BY DEF Buffers!OneOwner, Owns

LEMMA OwnedNext ==
    ASSUME NEW f \in [Slots -> MaybeChunk], Owns(f, held'),
           \A y \in Conns : /\ f[<<y, "in">>] = ibuf'[y] /\ f[<<y, "out">>] = obuf'[y]
                            /\ f[<<y, "grown">>] = grown'[y]
    PROVE  Buffers!OneOwner'
  <1> DEFINE H == [b \in Slots |-> CASE b[2] = "in" -> ibuf'[b[1]] [] b[2] = "out" -> obuf'[b[1]]
                                      [] OTHER -> grown'[b[1]]]
  <1>1. ASSUME NEW b \in Slots
        PROVE  H[b] = f[b]
    <2>1. PICK y \in Conns, s \in {"in", "out", "grown"} : b = <<y, s>>
      BY DEF Slots
    <2> QED  BY <2>1
  <1>2. H = f
    <2>1. f = [b \in Slots |-> f[b]] /\ H = [b \in Slots |-> H[b]]
      OBVIOUS
    <2> HIDE DEF H
    <2> QED  BY <1>1, <2>1
  <1>3. Buffers!Holdings' = H
    BY DEF Buffers!Holdings, Slots
  <1> QED  BY <1>2, <1>3 DEF Buffers!OneOwner, Owns

\* A connection's chunks are held, and nobody else's.
LEMMA Mine ==
    ASSUME BufferInv, NEW x \in Conns
    PROVE  /\ \A c \in {ibuf[x], obuf[x], grown[x]} : c # Buffers!Null => c \in held /\ c \in ChunkNames
           /\ \A y \in Conns \ {x} : \A c \in {ibuf[y], obuf[y], grown[y]} :
                 c # Buffers!Null => c \in held /\ c \notin {ibuf[x], obuf[x], grown[x]}
           /\ ibuf[x] # Buffers!Null => ibuf[x] # obuf[x] /\ ibuf[x] # grown[x]
           /\ obuf[x] # Buffers!Null => obuf[x] # grown[x]
  <1>1. /\ Buffers!Holdings \in [Slots -> MaybeChunk]
        /\ \A y \in Conns : /\ Buffers!Holdings[<<y, "in">>] = ibuf[y]
                            /\ Buffers!Holdings[<<y, "out">>] = obuf[y]
                            /\ Buffers!Holdings[<<y, "grown">>] = grown[y]
    BY HoldingsNow DEF BufferInv
  <1>2. Owns(Buffers!Holdings, held)
    BY OwnedOnce DEF BufferInv
  <1>3. \A y \in Conns : <<y, "in">> \in Slots /\ <<y, "out">> \in Slots /\ <<y, "grown">> \in Slots
    BY DEF Slots
  <1>4. held \subseteq ChunkNames
    BY DEF BufferInv, PoolLists, PoolTypes
  <1>5. \A b \in Slots : Buffers!Holdings[b] # Buffers!Null => Buffers!Holdings[b] \in held
    BY <1>1, <1>2 DEF Owns
  <1>6. \A a, b \in Slots : Buffers!Holdings[a] = Buffers!Holdings[b]
                              /\ Buffers!Holdings[a] # Buffers!Null => a = b
    BY <1>1, <1>2 DEF Owns
  <1>7. \A y \in Conns : \A c \in {ibuf[y], obuf[y], grown[y]} :
           \E s \in {"in", "out", "grown"} : <<y, s>> \in Slots /\ c = Buffers!Holdings[<<y, s>>]
    BY <1>1, <1>3
  <1>8. ASSUME NEW y \in Conns, NEW c \in {ibuf[y], obuf[y], grown[y]}, c # Buffers!Null
        PROVE  c \in held /\ c \in ChunkNames
    <2>1. PICK s \in {"in", "out", "grown"} : <<y, s>> \in Slots /\ c = Buffers!Holdings[<<y, s>>]
      BY <1>7
    <2> QED  BY <1>4, <1>5, <1>8, <2>1
  <1>9. ASSUME NEW y \in Conns \ {x}, NEW c \in {ibuf[y], obuf[y], grown[y]}, c # Buffers!Null
        PROVE  c \notin {ibuf[x], obuf[x], grown[x]}
    <2>1. PICK s \in {"in", "out", "grown"} : <<y, s>> \in Slots /\ c = Buffers!Holdings[<<y, s>>]
      BY <1>7
    <2>2. ASSUME NEW t \in {"in", "out", "grown"}, <<x, t>> \in Slots, c = Buffers!Holdings[<<x, t>>]
          PROVE  FALSE
      <3>1. <<y, s>> = <<x, t>>
        BY <1>6, <1>9, <2>1, <2>2
      <3> QED  BY <3>1
    <2> QED  BY <1>7, <2>2
  <1>10. ibuf[x] # Buffers!Null => ibuf[x] # obuf[x] /\ ibuf[x] # grown[x]
    <2>1. <<x, "in">> # <<x, "grown">> /\ <<x, "in">> # <<x, "out">>
      OBVIOUS
    <2>2. ibuf[x] # Buffers!Null => ibuf[x] # obuf[x]
      BY <1>1, <1>3, <1>6, <2>1
    <2>3. ibuf[x] # Buffers!Null => ibuf[x] # grown[x]
      BY <1>1, <1>3, <1>6, <2>1
    <2> QED  BY <2>2, <2>3
  <1>11. obuf[x] # Buffers!Null => obuf[x] # grown[x]
    <2>1. <<x, "out">> # <<x, "grown">>
      OBVIOUS
    <2> QED  BY <1>1, <1>3, <1>6, <2>1
  <1> QED  BY <1>8, <1>9, <1>10, <1>11

SameConn(y) == /\ ibuf'[y] = ibuf[y] /\ obuf'[y] = obuf[y] /\ grown'[y] = grown[y]
               /\ op'[y] = op[y] /\ step'[y] = step[y] /\ n'[y] = n[y]
               /\ inq'[y] = inq[y] /\ sent'[y] = sent[y] /\ delivered'[y] = delivered[y]
               /\ put'[y] = put[y] /\ wire'[y] = wire[y]

\* What x does with its chunks is nothing to the others.
LEMMA OthersKeep ==
    ASSUME BufferInv, NEW x \in Conns,
           \A c \in held \ {ibuf[x], obuf[x], grown[x]} : chunk'[c] = chunk[c]
    PROVE  \A y \in Conns \ {x} : SameConn(y) => ConnOK(y)'
  <1> SUFFICES ASSUME NEW y \in Conns \ {x}, SameConn(y)
               PROVE  ConnOK(y)'
    OBVIOUS
  <1>1. \A c \in {ibuf[y], obuf[y], grown[y]} : c # Buffers!Null => chunk'[c] = chunk[c]
    BY Mine
  <1>2. Ready(y) /\ InOK(y) /\ OutOK(y)
    BY DEF BufferInv, ConnOK
  <1>3. Ready(y)'
    BY <1>1, <1>2 DEF SameConn, Ready, Buffers!Buf
  <1>4. /\ Buffers!Contents(ibuf[y])' = Buffers!Contents(ibuf[y])
        /\ Buffers!Contents(obuf[y])' = Buffers!Contents(obuf[y])
    BY <1>1 DEF SameConn, Buffers!Contents
  <1>5. InOK(y)'
    BY <1>2, <1>4 DEF SameConn, InOK, Buffers!Upto
  <1>6. OutOK(y)'
    BY <1>2, <1>4 DEF SameConn, OutOK, Buffers!Upto
  <1> QED  BY <1>3, <1>5, <1>6 DEF ConnOK

ListsStay == /\ mp_pool_' = mp_pool_ /\ mp_total_' = mp_total_ /\ mp_left_' = mp_left_
             /\ made' = made /\ held' = held

LEMMA ListsStayKeeps ==
    ASSUME PoolLists, ListsStay, chunk' \in [ChunkNames -> Seq(Nat)]
    PROVE  PoolLists'
  <1>1. PoolTypes'
    BY DEF PoolLists, ListsStay, PoolTypes
  <1>2. Buffers!OnePlace'
    BY DEF PoolLists, ListsStay, Buffers!OnePlace, Buffers!Capacity
  <1>3. Buffers!NoneLost' /\ Numbered'
    BY DEF PoolLists, ListsStay, Buffers!NoneLost, Numbered, Buffers!Free
  <1>4. Buffers!LeftIsFree'
    BY DEF PoolLists, ListsStay, Buffers!LeftIsFree, Buffers!Free, Buffers!Units, Buffers!Capacity
  <1>5. Buffers!BelowLimit'
    BY DEF PoolLists, ListsStay, Buffers!BelowLimit
  <1> QED  BY <1>1, <1>2, <1>3, <1>4, <1>5 DEF PoolLists

\* A step of x that moves no chunk, and changes the bytes of one of its own.
LEMMA InPlaceKeeps ==
    ASSUME BufferInv, NEW x \in Conns, ListsStay, ibuf' = ibuf, obuf' = obuf, grown' = grown,
           NEW own \in {ibuf[x], obuf[x]}, NEW bytes \in Seq(Nat),
           chunk' = chunk \/ (own # Buffers!Null /\ chunk' = [chunk EXCEPT ![own] = bytes]
                                                 /\ Len(bytes) <= own[1]),
           ConnTypes', \A y \in Conns \ {x} : SameConn(y), ConnOK(x)'
    PROVE  BufferInv'
  <1>1. own # Buffers!Null => own \in held /\ own \in ChunkNames
    BY Mine
  <1>2. PoolLists /\ Clean /\ Buffers!WithinCapacity /\ chunk \in [ChunkNames -> Seq(Nat)]
        /\ held \subseteq ChunkNames
    BY DEF BufferInv, PoolLists, PoolTypes
  <1>3. /\ chunk' \in [ChunkNames -> Seq(Nat)]
        /\ \A c \in ChunkNames \ {own} : chunk'[c] = chunk[c]
        /\ chunk'[own] = chunk[own] \/ (chunk'[own] = bytes /\ Len(bytes) <= own[1] /\ own \in held)
    BY <1>1, <1>2
  <1>4. PoolLists'
    BY <1>2, <1>3, ListsStayKeeps
  <1>5. Clean'
    <2>1. \A c \in ChunkNames \ held : chunk'[c] = chunk[c]
      BY <1>1, <1>3
    <2> QED  BY <1>2, <2>1 DEF Clean, ListsStay
  <1>6. Buffers!WithinCapacity'
    <2> SUFFICES ASSUME NEW c \in held
                 PROVE  Len(chunk'[c]) <= c[1]
      BY DEF ListsStay, Buffers!WithinCapacity, Buffers!Capacity
    <2>1. Len(chunk[c]) <= c[1]
      BY <1>2 DEF Buffers!WithinCapacity, Buffers!Capacity
    <2> QED  BY <1>2, <1>3, <2>1
  <1>7. Buffers!OneOwner'
    BY HoldingsNow, OwnedOnce, OwnedNext DEF BufferInv, ListsStay
  <1>8. \A y \in Conns \ {x} : ConnOK(y)'
    BY <1>2, <1>3, OthersKeep
  <1> QED  BY <1>4, <1>5, <1>6, <1>7, <1>8 DEF BufferInv

LEMMA PeerSendsKeeps ==
    ASSUME Buffers!BufferAssumption, BufferInv, NEW x \in Conns, Buffers!PeerSends(x)
    PROVE  BufferInv'
  <1>1. PICK b \in sent[x] + 1 .. MaxBytes[x] :
           /\ inq' = [inq EXCEPT ![x] = inq[x] \o Buffers!Upto(sent[x], b)]
           /\ sent' = [sent EXCEPT ![x] = b]
    BY DEF Buffers!PeerSends
  <1>2. /\ ListsStay /\ chunk' = chunk /\ ibuf' = ibuf /\ obuf' = obuf /\ grown' = grown
        /\ op' = op /\ step' = step /\ n' = n
        /\ delivered' = delivered /\ put' = put /\ wire' = wire
    BY DEF Buffers!PeerSends, Buffers!poolVars, Buffers!place, Buffers!users, ListsStay
  <1>3. ConnTypes
    BY DEF BufferInv
  <1>4. sent[x] \in Nat /\ b \in Nat /\ sent[x] <= b
    BY <1>3, PoolConstants DEF ConnTypes
  <1> DEFINE more == Buffers!Upto(sent[x], b)
  <1>5. inq[x] \in Seq(Nat) /\ more \in Seq(Nat)
    BY <1>3, <1>4, UptoSeq DEF ConnTypes
  <1> HIDE DEF more
  <1>6. inq[x] \o more \in Seq(Nat) /\ Len(inq[x]) <= Len(inq[x] \o more)
    BY <1>5
  <1>7. ConnTypes'
    BY <1>1, <1>2, <1>3, <1>4, <1>6 DEF ConnTypes, more
  <1>8. \A y \in Conns \ {x} : SameConn(y)
    BY <1>1, <1>2, <1>3 DEF ConnTypes, SameConn
  <1>9. inq'[x] = inq[x] \o more /\ sent'[x] = b
    BY <1>1, <1>3 DEF ConnTypes, more
  <1>10. Ready(x) /\ InOK(x) /\ OutOK(x)
    BY DEF BufferInv, ConnOK
  <1>11. Ready(x)'
    <2>1. Ready(x)!1' /\ Ready(x)!2' /\ Ready(x)!3' /\ Ready(x)!4' /\ Ready(x)!5' /\ Ready(x)!6'
      BY <1>2, <1>10 DEF Ready, Buffers!Buf
    <2>2. step[x] \in {"room", "copy", "move"} /\ op[x] = "read" => n[x] <= Len(inq'[x])
      <3>1. Len(inq[x]) \in Nat /\ Len(inq[x] \o more) \in Nat /\ n[x] \in Nat
        BY <1>3, <1>5, <1>6 DEF ConnTypes
      <3> QED  BY <1>6, <1>9, <1>10, <3>1 DEF Ready
    <2> QED  BY <1>2, <2>1, <2>2 DEF Ready
  <1>12. OutOK(x)'
    BY <1>2, <1>10 DEF OutOK, Buffers!Contents, Buffers!Upto
  <1>13. InOK(x)'
    <2> SUFFICES ASSUME step[x] \notin {"clearOut", "closed"}
                 PROVE  InOK(x)'
      BY <1>2 DEF InOK
    <2> DEFINE got == delivered[x] + Len(Buffers!Contents(ibuf[x]))
    <2>1. /\ got <= sent[x] /\ inq[x] = Buffers!Upto(got, sent[x])
          /\ Buffers!Contents(ibuf[x]) = Buffers!Upto(delivered[x], got)
      BY <1>10 DEF InOK
    <2>2. got \in Nat
      <3>1. Buffers!Contents(ibuf[x]) \in Seq(Nat)
        BY <1>3 DEF ConnTypes, MaybeChunk, Buffers!Contents, BufferInv, PoolLists, PoolTypes
      <3> QED  BY <1>3, <3>1 DEF ConnTypes
    <2> HIDE DEF got
    <2>3. inq'[x] = Buffers!Upto(got, b) /\ got <= b
      <3>1. inq'[x] = Buffers!Upto(got, sent[x]) \o Buffers!Upto(sent[x], b)
        BY <1>9, <2>1 DEF more
      <3>2. got <= b
        BY <1>4, <2>1, <2>2
      <3> QED  BY <1>4, <2>1, <2>2, <3>1, <3>2, UptoConcat
    <2>4. Buffers!Contents(ibuf[x])' = Buffers!Contents(ibuf[x]) /\ delivered'[x] = delivered[x]
      BY <1>2 DEF Buffers!Contents
    <2> QED  BY <1>2, <1>9, <2>1, <2>3, <2>4 DEF InOK, got, Buffers!Upto
  <1>14. BufferInv'
    BY <1>2, <1>7, <1>8, <1>11, <1>12, <1>13, InPlaceKeeps, << >> \in Seq(Nat) DEF ConnOK
  <1> QED  BY <1>14

LEMMA ContentsSeq ==
    ASSUME Buffers!BufferAssumption, BufferInv, NEW c \in MaybeChunk
    PROVE  /\ Buffers!Contents(c) \in Seq(Nat) /\ Len(Buffers!Contents(c)) \in Nat
           /\ c # Buffers!Null => chunk[c] \in Seq(Nat) /\ Len(chunk[c]) \in Nat /\ c[1] \in Nat
  <1>1. chunk \in [ChunkNames -> Seq(Nat)]
    BY DEF BufferInv, PoolLists, PoolTypes
  <1>2. CASE c = Buffers!Null
    BY <1>2 DEF Buffers!Contents
  <1>3. CASE c # Buffers!Null
    <2>1. c \in ChunkNames /\ chunk[c] \in Seq(Nat)
      BY <1>1, <1>3 DEF MaybeChunk
    <2>2. Buffers!Contents(c) = chunk[c]
      BY <1>3 DEF Buffers!Contents
    <2>3. c[1] \in Nat
      BY <2>1, PoolConstants DEF ChunkNames
    <2> QED  BY <2>1, <2>2, <2>3
  <1> QED  BY <1>2, <1>3

\* A step of x that changes only what it does next.
LEMMA GotoKeeps ==
    ASSUME BufferInv, NEW x \in Conns, ListsStay, chunk' = chunk,
           ibuf' = ibuf, obuf' = obuf, grown' = grown, inq' = inq, sent' = sent,
           delivered' = delivered, put' = put, wire' = wire,
           op' \in [Conns -> {"none", "read", "write"}], step' \in [Conns -> Steps],
           n' \in [Conns -> Nat], \A y \in Conns \ {x} : SameConn(y),
           step[x] \notin {"clearOut", "closed"}, step'[x] \notin {"clearOut", "closed"},
           Ready(x)'
    PROVE  BufferInv'
  <1>1. ConnTypes /\ InOK(x) /\ OutOK(x)
    BY DEF BufferInv, ConnOK
  <1>2. ConnTypes'
    BY <1>1 DEF ConnTypes
  <1>3. InOK(x)' /\ OutOK(x)'
    BY <1>1 DEF InOK, OutOK, Buffers!Contents, Buffers!Upto
  <1> QED  BY <1>2, <1>3, InPlaceKeeps, << >> \in Seq(Nat) DEF ConnOK

\* A step that the buffers and their connections do not see.
LEMMA IdleKeeps ==
    ASSUME BufferInv, ListsStay, chunk' = chunk, ibuf' = ibuf, obuf' = obuf, grown' = grown,
           op' = op, step' = step, n' = n, inq' = inq, sent' = sent,
           delivered' = delivered, put' = put, wire' = wire
    PROVE  BufferInv'
  <1>1. PoolLists'
    BY ListsStayKeeps DEF BufferInv, PoolLists, PoolTypes
  <1>2. Clean' /\ Buffers!WithinCapacity' /\ ConnTypes'
    BY DEF BufferInv, ListsStay, Clean, Buffers!WithinCapacity, Buffers!Capacity, ConnTypes
  <1>3. Buffers!OneOwner'
    BY HoldingsNow, OwnedOnce, OwnedNext DEF BufferInv, ListsStay
  <1>4. ASSUME NEW x \in Conns
        PROVE  ConnOK(x)'
    <2>1. Ready(x) /\ InOK(x) /\ OutOK(x)
      BY DEF BufferInv, ConnOK
    <2>2. Ready(x)'
      BY <2>1 DEF Ready, Buffers!Buf
    <2>3. InOK(x)' /\ OutOK(x)'
      BY <2>1 DEF InOK, OutOK, Buffers!Contents, Buffers!Upto
    <2> QED  BY <2>2, <2>3 DEF ConnOK
  <1> QED  BY <1>1, <1>2, <1>3, <1>4 DEF BufferInv

LEMMA PeerClosesKeeps ==
    ASSUME BufferInv, NEW x \in Conns, Buffers!PeerCloses(x)
    PROVE  BufferInv'
  <1>1. /\ ListsStay /\ chunk' = chunk /\ ibuf' = ibuf /\ obuf' = obuf /\ grown' = grown
        /\ op' = op /\ step' = step /\ n' = n /\ inq' = inq /\ sent' = sent
        /\ delivered' = delivered /\ put' = put /\ wire' = wire
    BY DEF Buffers!PeerCloses, Buffers!poolVars, Buffers!place, Buffers!users, ListsStay
  <1> QED  BY <1>1, IdleKeeps

LEMMA BeginKeeps ==
    ASSUME BufferInv, NEW x \in Conns, NEW what \in {"read", "write"}, NEW amount \in Nat,
           what = "read" => amount = Len(inq[x]), Buffers!Begin(x, what, amount)
    PROVE  BufferInv'
  <1>1. /\ step[x] = "idle" /\ op' = [op EXCEPT ![x] = what]
        /\ n' = [n EXCEPT ![x] = amount] /\ step' = [step EXCEPT ![x] = "room"]
        /\ ListsStay /\ chunk' = chunk /\ ibuf' = ibuf /\ obuf' = obuf /\ grown' = grown
        /\ inq' = inq /\ sent' = sent /\ delivered' = delivered /\ put' = put /\ wire' = wire
    BY DEF Buffers!Begin, Buffers!At, Buffers!Goto, Buffers!poolVars, Buffers!users, Buffers!socket,
           ListsStay
  <1>2. ConnTypes /\ Ready(x)
    BY DEF BufferInv, ConnOK
  <1>3. /\ op' \in [Conns -> {"none", "read", "write"}] /\ step' \in [Conns -> Steps]
        /\ n' \in [Conns -> Nat]
        /\ op'[x] = what /\ n'[x] = amount /\ step'[x] = "room"
    BY <1>1, <1>2 DEF ConnTypes, Steps
  <1>4. \A y \in Conns \ {x} : SameConn(y)
    BY <1>1, <1>2 DEF ConnTypes, SameConn
  <1>5. inq[x] \in Seq(Nat)
    BY <1>2 DEF ConnTypes
  <1>6. Ready(x)'
    BY <1>1, <1>2, <1>3, <1>5 DEF Ready
  <1> QED  BY <1>1, <1>3, <1>4, <1>6, GotoKeeps

LEMMA RoomEnoughKeeps ==
    ASSUME Buffers!BufferAssumption, BufferInv, NEW x \in Conns, Buffers!RoomEnough(x)
    PROVE  BufferInv'
  <1>1. /\ step[x] = "room" /\ step' = [step EXCEPT ![x] = "move"]
        /\ Buffers!Buf(x) # Buffers!Null /\ Buffers!HasRoom(x)
        /\ ListsStay /\ chunk' = chunk /\ ibuf' = ibuf /\ obuf' = obuf /\ grown' = grown
        /\ op' = op /\ n' = n
        /\ inq' = inq /\ sent' = sent /\ delivered' = delivered /\ put' = put /\ wire' = wire
    BY DEF Buffers!RoomEnough, Buffers!At, Buffers!Goto, Buffers!poolVars, Buffers!users,
           Buffers!socket, ListsStay
  <1>2. ConnTypes /\ Ready(x)
    BY DEF BufferInv, ConnOK
  <1>3. step' \in [Conns -> Steps] /\ step'[x] = "move"
    BY <1>1, <1>2 DEF ConnTypes, Steps
  <1>4. \A y \in Conns \ {x} : SameConn(y)
    BY <1>1, <1>2 DEF ConnTypes, SameConn
  <1>5. Buffers!Buf(x) \in MaybeChunk /\ Buffers!Buf(x)' = Buffers!Buf(x)
    BY <1>1, <1>2 DEF ConnTypes, Buffers!Buf
  <1>6. n[x] + Len(chunk[Buffers!Buf(x)]) <= Buffers!Buf(x)[1]
    <2>1. n[x] \in Nat
      BY <1>2 DEF ConnTypes
    <2>2. Len(chunk[Buffers!Buf(x)]) \in Nat /\ Buffers!Buf(x)[1] \in Nat
      BY <1>1, <1>5, ContentsSeq
    <2> QED  BY <1>1, <2>1, <2>2 DEF Buffers!HasRoom, Buffers!Capacity
  <1>7. Ready(x)'
    BY <1>1, <1>2, <1>3, <1>5, <1>6 DEF Ready
  <1> QED  BY <1>1, <1>2, <1>3, <1>4, <1>7, GotoKeeps DEF ConnTypes

LEMMA AllocFailsKeeps ==
    ASSUME BufferInv, NEW x \in Conns, Buffers!AllocFails(x)
    PROVE  BufferInv'
  <1>1. /\ step[x] = "room"
        /\ IF op[x] = "read" THEN step' = [step EXCEPT ![x] = "clearIn"] /\ op' = op /\ n' = n
           ELSE /\ step' = [step EXCEPT ![x] = "idle"]
                /\ op' = [op EXCEPT ![x] = "none"] /\ n' = [n EXCEPT ![x] = 0]
        /\ ListsStay /\ chunk' = chunk /\ ibuf' = ibuf /\ obuf' = obuf /\ grown' = grown
        /\ inq' = inq /\ sent' = sent /\ delivered' = delivered /\ put' = put /\ wire' = wire
    BY DEF Buffers!AllocFails, Buffers!Lacking, Buffers!At, Buffers!Goto, Buffers!Return,
           Buffers!poolVars, Buffers!users, Buffers!socket, ListsStay
  <1>2. ConnTypes /\ Ready(x)
    BY DEF BufferInv, ConnOK
  <1>3. /\ op' \in [Conns -> {"none", "read", "write"}] /\ step' \in [Conns -> Steps]
        /\ n' \in [Conns -> Nat] /\ step'[x] \in {"clearIn", "idle"}
    <2>1. CASE op[x] = "read"
      BY <1>1, <1>2, <2>1 DEF ConnTypes, Steps
    <2>2. CASE op[x] # "read"
      <3>1. /\ step' = [step EXCEPT ![x] = "idle"] /\ op' = [op EXCEPT ![x] = "none"]
            /\ n' = [n EXCEPT ![x] = 0]
        BY <1>1, <2>2
      <3> QED  BY <1>2, <3>1 DEF ConnTypes, Steps
    <2> QED  BY <2>1, <2>2
  <1>4. \A y \in Conns \ {x} : SameConn(y)
    BY <1>1, <1>2 DEF ConnTypes, SameConn
  <1>5. Ready(x)'
    BY <1>1, <1>2, <1>3 DEF Ready
  <1> QED  BY <1>1, <1>3, <1>4, <1>5, GotoKeeps

LEMMA AllocExitsKeeps ==
    ASSUME BufferInv, NEW x \in Conns, Buffers!AllocExits(x)
    PROVE  BufferInv'
  <1>1. /\ ListsStay /\ chunk' = chunk /\ ibuf' = ibuf /\ obuf' = obuf /\ grown' = grown
        /\ op' = op /\ step' = step /\ n' = n /\ inq' = inq /\ sent' = sent
        /\ delivered' = delivered /\ put' = put /\ wire' = wire
    BY DEF Buffers!AllocExits, Buffers!Exit, Buffers!place, Buffers!socket, Buffers!users, ListsStay
  <1> QED  BY <1>1, IdleKeeps

\* What is read goes from the socket to the end of the buffer.
LEMMA MoveInKeeps ==
    ASSUME Buffers!BufferAssumption, BufferInv, NEW x \in Conns, Buffers!MoveIn(x)
    PROVE  BufferInv'
  <1> DEFINE own == ibuf[x]
             k == n[x]
             taken == SubSeq(inq[x], 1, k)
             left == SubSeq(inq[x], k + 1, Len(inq[x]))
             bytes == chunk[own] \o taken
  <1>1. /\ step[x] = "move" /\ op[x] = "read"
        /\ chunk' = [chunk EXCEPT ![own] = bytes]
        /\ inq' = [inq EXCEPT ![x] = left]
        /\ step' = [step EXCEPT ![x] = IF k = 0 THEN "clearIn" ELSE "user"]
        /\ ListsStay /\ ibuf' = ibuf /\ obuf' = obuf /\ grown' = grown
        /\ op' = op /\ n' = n
        /\ sent' = sent /\ delivered' = delivered /\ put' = put /\ wire' = wire
    BY DEF Buffers!MoveIn, Buffers!At, Buffers!Goto, Buffers!Append_, Buffers!Buf, Buffers!ReadSize,
           Buffers!users, ListsStay
  <1>2. ConnTypes /\ Ready(x) /\ InOK(x) /\ OutOK(x)
    BY DEF BufferInv, ConnOK
  <1>3. /\ own # Buffers!Null /\ own \in MaybeChunk /\ k \in Nat /\ k <= Len(inq[x])
        /\ k + Len(chunk[own]) <= own[1] /\ inq[x] \in Seq(Nat)
        /\ delivered[x] \in Nat /\ sent[x] \in Nat
    BY <1>1, <1>2 DEF Ready, ConnTypes, Buffers!Buf
  <1>4. chunk[own] \in Seq(Nat) /\ Len(chunk[own]) \in Nat /\ own[1] \in Nat
    BY <1>3, ContentsSeq
  <1> DEFINE got == delivered[x] + Len(chunk[own])
  <1>5. got <= sent[x] /\ chunk[own] = Buffers!Upto(delivered[x], got) /\ inq[x] = Buffers!Upto(got, sent[x])
    BY <1>1, <1>2, <1>3 DEF InOK, Buffers!Contents
  <1>6. got \in Nat /\ delivered[x] <= got
    BY <1>3, <1>4
  <1> HIDE DEF got
  <1>7. Len(inq[x]) = sent[x] - got
    BY <1>3, <1>5, <1>6, UptoSeq
  <1>8. k \in 0 .. sent[x] - got /\ got + k \in Nat /\ got <= got + k /\ got + k <= sent[x]
    BY <1>3, <1>5, <1>6, <1>7
  <1>9. taken = Buffers!Upto(got, got + k) /\ left = Buffers!Upto(got + k, sent[x])
    <2> HIDE DEF k
    <2>1. /\ SubSeq(Buffers!Upto(got, sent[x]), 1, k) = Buffers!Upto(got, got + k)
          /\ SubSeq(Buffers!Upto(got, sent[x]), k + 1, Len(Buffers!Upto(got, sent[x])))
               = Buffers!Upto(got + k, sent[x])
      BY <1>3, <1>5, <1>6, <1>8, UptoTake
    <2> QED  BY <1>5, <2>1
  <1>10. bytes = Buffers!Upto(delivered[x], got + k)
    <2> HIDE DEF k, taken
    <2>1. Buffers!Upto(delivered[x], got) \o Buffers!Upto(got, got + k) = Buffers!Upto(delivered[x], got + k)
      BY <1>3, <1>6, <1>8, UptoConcat
    <2> QED  BY <1>5, <1>9, <2>1
  <1>11. /\ bytes \in Seq(Nat) /\ Len(bytes) = got + k - delivered[x]
         /\ left \in Seq(Nat)
    <2>1. delivered[x] <= got + k
      BY <1>3, <1>6, <1>8
    <2> HIDE DEF bytes, left, k
    <2>2. /\ Buffers!Upto(delivered[x], got + k) \in Seq(Nat)
          /\ Len(Buffers!Upto(delivered[x], got + k)) = got + k - delivered[x]
      <3>1. \A e \in Nat : delivered[x] <= e =>
               /\ Buffers!Upto(delivered[x], e) \in Seq(Nat)
               /\ Len(Buffers!Upto(delivered[x], e)) = e - delivered[x]
        BY <1>3, UptoSeq
      <3>2. PICK e \in Nat : e = got + k /\ delivered[x] <= e
        BY <1>8, <2>1
      <3>3. Buffers!Upto(delivered[x], e) \in Seq(Nat) /\ Len(Buffers!Upto(delivered[x], e)) = e - delivered[x]
        BY <3>1, <3>2
      <3> QED  BY <1>3, <1>6, <3>2, <3>3
    <2>3. Buffers!Upto(got + k, sent[x]) \in Seq(Nat)
      BY <1>3, <1>8, UptoSeq
    <2> QED  BY <1>9, <1>10, <2>2, <2>3
  <1>12. Len(bytes) = Len(chunk[own]) + k
    BY <1>3, <1>4, <1>11 DEF got
  <1> HIDE DEF bytes, left, taken
  <1>13. own \in ChunkNames /\ chunk \in [ChunkNames -> Seq(Nat)]
    BY <1>3 DEF MaybeChunk, BufferInv, PoolLists, PoolTypes
  <1>14. chunk'[own] = bytes /\ Buffers!Contents(ibuf[x])' = bytes
    BY <1>1, <1>3, <1>13 DEF Buffers!Contents
  <1>15. Buffers!Contents(obuf[x])' = Buffers!Contents(obuf[x])
    BY <1>1, <1>3, <1>13, Mine DEF Buffers!Contents
  <1>16. /\ inq'[x] = left /\ step'[x] \in {"clearIn", "user"}
         /\ step' \in [Conns -> Steps] /\ inq' \in [Conns -> Seq(Nat)]
    BY <1>1, <1>2, <1>11 DEF ConnTypes, Steps
  <1>17. ConnTypes'
    BY <1>1, <1>2, <1>16 DEF ConnTypes
  <1>18. \A y \in Conns \ {x} : SameConn(y)
    BY <1>1, <1>2 DEF ConnTypes, SameConn
  <1>19. Ready(x)'
    BY <1>1, <1>2, <1>3, <1>16 DEF Ready
  <1>20. OutOK(x)'
    BY <1>1, <1>2, <1>15, <1>16 DEF OutOK, Buffers!Upto
  <1>21. InOK(x)'
    <2>1. delivered[x] + Len(bytes) = got + k
      BY <1>3, <1>6, <1>8, <1>11
    <2>2. /\ delivered[x] + Len(bytes) <= sent[x]
          /\ bytes = Buffers!Upto(delivered[x], delivered[x] + Len(bytes))
          /\ left = Buffers!Upto(delivered[x] + Len(bytes), sent[x])
      BY <1>8, <1>9, <1>10, <2>1
    <2> QED  BY <1>1, <1>14, <1>16, <2>2 DEF InOK, Buffers!Upto
  <1>22. Len(bytes) <= own[1]
    BY <1>3, <1>4, <1>12
  <1> QED  BY <1>1, <1>3, <1>11, <1>17, <1>18, <1>19, <1>20, <1>21, <1>22, InPlaceKeeps DEF ConnOK

\* What is written goes to the end of the buffer.
LEMMA MoveOutKeeps ==
    ASSUME Buffers!BufferAssumption, BufferInv, NEW x \in Conns, Buffers!MoveOut(x)
    PROVE  BufferInv'
  <1> DEFINE own == obuf[x]
             k == n[x]
             bytes == chunk[own] \o Buffers!Upto(put[x], put[x] + k)
  <1>1. /\ step[x] = "move" /\ op[x] = "write"
        /\ chunk' = [chunk EXCEPT ![own] = bytes]
        /\ put' = [put EXCEPT ![x] = put[x] + k]
        /\ step' = [step EXCEPT ![x] = "idle"]
        /\ op' = [op EXCEPT ![x] = "none"] /\ n' = [n EXCEPT ![x] = 0]
        /\ ListsStay /\ ibuf' = ibuf /\ obuf' = obuf /\ grown' = grown
        /\ inq' = inq /\ sent' = sent /\ delivered' = delivered /\ wire' = wire
    BY DEF Buffers!MoveOut, Buffers!At, Buffers!Goto, Buffers!Return, Buffers!Append_, Buffers!Buf,
           Buffers!socket, ListsStay
  <1>2. ConnTypes /\ Ready(x) /\ InOK(x) /\ OutOK(x)
    BY DEF BufferInv, ConnOK
  <1>3. /\ own # Buffers!Null /\ own \in MaybeChunk /\ k \in Nat
        /\ k + Len(chunk[own]) <= own[1] /\ put[x] \in Nat /\ wire[x] \in Nat
    BY <1>1, <1>2 DEF Ready, ConnTypes, Buffers!Buf
  <1>4. chunk[own] \in Seq(Nat) /\ Len(chunk[own]) \in Nat /\ own[1] \in Nat
    BY <1>3, ContentsSeq
  <1>5. wire[x] <= put[x] /\ chunk[own] = Buffers!Upto(wire[x], put[x])
    BY <1>1, <1>2, <1>3 DEF OutOK, Buffers!Contents
  <1>6. put[x] + k \in Nat /\ put[x] <= put[x] + k /\ wire[x] <= put[x] + k
    BY <1>3, <1>5
  <1>7. bytes = Buffers!Upto(wire[x], put[x] + k)
    <2> HIDE DEF k
    <2>1. Buffers!Upto(wire[x], put[x]) \o Buffers!Upto(put[x], put[x] + k) = Buffers!Upto(wire[x], put[x] + k)
      BY <1>3, <1>5, <1>6, UptoConcat
    <2> QED  BY <1>5, <2>1
  <1>8. bytes \in Seq(Nat) /\ Len(bytes) = put[x] + k - wire[x]
    <2> HIDE DEF bytes, k
    <2>1. /\ Buffers!Upto(wire[x], put[x] + k) \in Seq(Nat)
          /\ Len(Buffers!Upto(wire[x], put[x] + k)) = put[x] + k - wire[x]
      <3>1. \A e \in Nat : wire[x] <= e =>
               /\ Buffers!Upto(wire[x], e) \in Seq(Nat)
               /\ Len(Buffers!Upto(wire[x], e)) = e - wire[x]
        BY <1>3, UptoSeq
      <3>2. PICK e \in Nat : e = put[x] + k /\ wire[x] <= e
        BY <1>6
      <3>3. Buffers!Upto(wire[x], e) \in Seq(Nat) /\ Len(Buffers!Upto(wire[x], e)) = e - wire[x]
        BY <3>1, <3>2
      <3> QED  BY <1>3, <3>2, <3>3
    <2> QED  BY <1>7, <2>1
  <1>9. Len(chunk[own]) = put[x] - wire[x]
    BY <1>3, <1>5, UptoSeq
  <1> HIDE DEF bytes
  <1>10. Len(bytes) <= own[1]
    BY <1>3, <1>4, <1>8, <1>9
  <1>11. own \in ChunkNames /\ chunk \in [ChunkNames -> Seq(Nat)]
    BY <1>3 DEF MaybeChunk, BufferInv, PoolLists, PoolTypes
  <1>12. Buffers!Contents(obuf[x])' = bytes
    BY <1>1, <1>3, <1>11 DEF Buffers!Contents
  <1>13. Buffers!Contents(ibuf[x])' = Buffers!Contents(ibuf[x])
    BY <1>1, <1>3, <1>11, Mine DEF Buffers!Contents
  <1>14. /\ put'[x] = put[x] + k /\ step'[x] = "idle" /\ op'[x] = "none" /\ n'[x] = 0
    BY <1>1, <1>2 DEF ConnTypes
  <1>15. ConnTypes'
    BY <1>1, <1>2, <1>6 DEF ConnTypes, Steps
  <1>16. \A y \in Conns \ {x} : SameConn(y)
    BY <1>1, <1>2 DEF ConnTypes, SameConn
  <1>17. Ready(x)'
    BY <1>1, <1>2, <1>14 DEF Ready
  <1>18. OutOK(x)'
    BY <1>1, <1>6, <1>7, <1>12, <1>14 DEF OutOK, Buffers!Upto
  <1>19. InOK(x)'
    BY <1>1, <1>2, <1>13, <1>14 DEF InOK, Buffers!Upto
  <1> QED  BY <1>1, <1>3, <1>8, <1>10, <1>15, <1>16, <1>17, <1>18, <1>19, InPlaceKeeps DEF ConnOK

LEMMA PopSomeKeeps ==
    ASSUME Buffers!BufferAssumption, BufferInv, NEW x \in Conns, Buffers!PopSome(x)
    PROVE  BufferInv'
  <1> DEFINE own == ibuf[x]
  <1>1. PICK k \in 0 .. Len(chunk[own]) - 1 :
           /\ chunk' = [chunk EXCEPT ![own] = SubSeq(chunk[own], k + 1, Len(chunk[own]))]
           /\ delivered' = [delivered EXCEPT ![x] = delivered[x] + k]
    BY DEF Buffers!PopSome
  <1> DEFINE bytes == SubSeq(chunk[own], k + 1, Len(chunk[own]))
  <1>2. /\ step[x] = "user"
        /\ step' = [step EXCEPT ![x] = "idle"]
        /\ op' = [op EXCEPT ![x] = "none"] /\ n' = [n EXCEPT ![x] = 0]
        /\ ListsStay /\ ibuf' = ibuf /\ obuf' = obuf /\ grown' = grown
        /\ inq' = inq /\ sent' = sent /\ put' = put /\ wire' = wire
    BY DEF Buffers!PopSome, Buffers!At, Buffers!Goto, Buffers!Return, Buffers!socket, ListsStay
  <1>3. ConnTypes /\ Ready(x) /\ InOK(x) /\ OutOK(x)
    BY DEF BufferInv, ConnOK
  <1>4. /\ own # Buffers!Null /\ own \in MaybeChunk /\ delivered[x] \in Nat /\ sent[x] \in Nat
    BY <1>2, <1>3 DEF Ready, ConnTypes
  <1>5. chunk[own] \in Seq(Nat) /\ Len(chunk[own]) \in Nat /\ own[1] \in Nat
    BY <1>4, ContentsSeq
  <1> DEFINE got == delivered[x] + Len(chunk[own])
  <1>6. got <= sent[x] /\ chunk[own] = Buffers!Upto(delivered[x], got) /\ inq[x] = Buffers!Upto(got, sent[x])
    BY <1>2, <1>3, <1>4 DEF InOK, Buffers!Contents
  <1>7. /\ got \in Nat /\ delivered[x] <= got /\ k \in 0 .. got - delivered[x] /\ k \in Nat
        /\ delivered[x] + k \in Nat /\ delivered[x] + k <= got
    <2> HIDE DEF own
    <2>1. PICK l \in Nat : l = Len(chunk[own])
      BY <1>5
    <2>2. k \in 0 .. l
      BY <2>1
    <2> QED  BY <1>4, <2>1, <2>2
  <1>8. bytes = Buffers!Upto(delivered[x] + k, got)
    <2> HIDE DEF got, own
    <2>1. SubSeq(Buffers!Upto(delivered[x], got), k + 1, Len(Buffers!Upto(delivered[x], got)))
               = Buffers!Upto(delivered[x] + k, got)
      BY <1>4, <1>7, UptoTake
    <2> QED  BY <1>6, <2>1
  <1>9. bytes \in Seq(Nat) /\ Len(bytes) = got - (delivered[x] + k)
    <2> HIDE DEF bytes, got
    <2> QED  BY <1>7, <1>8, UptoSeq
  <1>10. Len(bytes) <= own[1]
    <2>1. Len(chunk[own]) <= own[1]
      BY <1>4, Mine DEF BufferInv, Buffers!WithinCapacity, Buffers!Capacity
    <2>2. Len(bytes) = Len(chunk[own]) - k
      <3> HIDE DEF bytes, own
      <3> QED  BY <1>4, <1>5, <1>9
    <2> HIDE DEF bytes, own
    <2> QED  BY <1>5, <2>1, <2>2
  <1> HIDE DEF bytes
  <1>11. own \in ChunkNames /\ chunk \in [ChunkNames -> Seq(Nat)]
    BY <1>4 DEF MaybeChunk, BufferInv, PoolLists, PoolTypes
  <1>12. chunk' = [chunk EXCEPT ![own] = bytes]
    BY <1>1 DEF bytes
  <1>13. Buffers!Contents(ibuf[x])' = bytes
    BY <1>2, <1>4, <1>11, <1>12 DEF Buffers!Contents
  <1>14. Buffers!Contents(obuf[x])' = Buffers!Contents(obuf[x])
    BY <1>2, <1>4, <1>11, <1>12, Mine DEF Buffers!Contents
  <1>15. /\ delivered'[x] = delivered[x] + k /\ step'[x] = "idle" /\ op'[x] = "none" /\ n'[x] = 0
    BY <1>1, <1>2, <1>3 DEF ConnTypes
  <1>16. ConnTypes'
    BY <1>1, <1>2, <1>3, <1>7 DEF ConnTypes, Steps
  <1>17. \A y \in Conns \ {x} : SameConn(y)
    BY <1>1, <1>2, <1>3 DEF ConnTypes, SameConn
  <1>18. Ready(x)'
    BY <1>2, <1>3, <1>15 DEF Ready
  <1>19. OutOK(x)'
    BY <1>2, <1>3, <1>14, <1>15 DEF OutOK, Buffers!Upto
  <1>20. InOK(x)'
    <2>1. delivered'[x] + Len(bytes) = got
      <3> HIDE DEF got
      <3> QED  BY <1>4, <1>7, <1>9, <1>15
    <2>2. /\ delivered'[x] + Len(bytes) <= sent'[x]
          /\ bytes = Buffers!Upto(delivered'[x], delivered'[x] + Len(bytes))
          /\ inq'[x] = Buffers!Upto(delivered'[x] + Len(bytes), sent'[x])
      BY <1>2, <1>6, <1>8, <1>15, <2>1
    <2> QED  BY <1>13, <2>2 DEF InOK, Buffers!Upto
  <1> QED  BY <1>2, <1>9, <1>10, <1>12, <1>16, <1>17, <1>18, <1>19, <1>20, InPlaceKeeps,
              <1>4 DEF ConnOK

LEMMA Write2fdKeeps ==
    ASSUME Buffers!BufferAssumption, BufferInv, NEW x \in Conns, Buffers!Write2fd(x)
    PROVE  BufferInv'
  <1> DEFINE own == obuf[x]
  <1>1. PICK k \in 1 .. Len(chunk[own]) :
           /\ chunk' = [chunk EXCEPT ![own] = SubSeq(chunk[own], k + 1, Len(chunk[own]))]
           /\ wire' = [wire EXCEPT ![x] = wire[x] + k]
    BY DEF Buffers!Write2fd
  <1> DEFINE bytes == SubSeq(chunk[own], k + 1, Len(chunk[own]))
  <1>2. /\ step[x] = "idle" /\ own # Buffers!Null
        /\ ListsStay /\ ibuf' = ibuf /\ obuf' = obuf /\ grown' = grown
        /\ op' = op /\ step' = step /\ n' = n
        /\ inq' = inq /\ sent' = sent /\ put' = put /\ delivered' = delivered
    BY DEF Buffers!Write2fd, Buffers!At, Buffers!socket, Buffers!place, ListsStay
  <1>3. ConnTypes /\ Ready(x) /\ InOK(x) /\ OutOK(x)
    BY DEF BufferInv, ConnOK
  <1>4. own \in MaybeChunk /\ wire[x] \in Nat /\ put[x] \in Nat
    BY <1>3 DEF ConnTypes
  <1>5. chunk[own] \in Seq(Nat) /\ Len(chunk[own]) \in Nat /\ own[1] \in Nat
    BY <1>2, <1>4, ContentsSeq
  <1>6. wire[x] <= put[x] /\ chunk[own] = Buffers!Upto(wire[x], put[x])
    BY <1>2, <1>3, <1>4 DEF OutOK, Buffers!Contents
  <1>7. Len(chunk[own]) = put[x] - wire[x]
    BY <1>4, <1>6, UptoSeq
  <1>8. k \in 0 .. put[x] - wire[x] /\ wire[x] + k \in Nat /\ wire[x] + k <= put[x]
    <2> HIDE DEF own
    <2> QED  BY <1>4, <1>5, <1>7
  <1>9. bytes = Buffers!Upto(wire[x] + k, put[x])
    <2> HIDE DEF own
    <2>1. SubSeq(Buffers!Upto(wire[x], put[x]), k + 1, Len(Buffers!Upto(wire[x], put[x])))
               = Buffers!Upto(wire[x] + k, put[x])
      BY <1>4, <1>6, <1>8, UptoTake
    <2> QED  BY <1>6, <2>1
  <1>10. bytes \in Seq(Nat) /\ Len(bytes) = put[x] - (wire[x] + k)
    <2> HIDE DEF bytes
    <2> QED  BY <1>4, <1>8, <1>9, UptoSeq
  <1>11. Len(bytes) <= own[1]
    <2>1. Len(chunk[own]) <= own[1]
      BY <1>2, Mine DEF BufferInv, Buffers!WithinCapacity, Buffers!Capacity
    <2> HIDE DEF bytes, own
    <2>2. Len(bytes) <= Len(chunk[own])
      <3>1. k \in Nat
        BY <1>5
      <3>2. put[x] - (wire[x] + k) <= put[x] - wire[x]
        BY <1>4, <3>1
      <3> QED  BY <1>7, <1>10, <3>2
    <2>3. Len(bytes) \in Nat
      BY <1>10
    <2> QED  BY <1>5, <2>1, <2>2, <2>3
  <1> HIDE DEF bytes
  <1>12. own \in ChunkNames /\ chunk \in [ChunkNames -> Seq(Nat)]
    BY <1>2, <1>4 DEF MaybeChunk, BufferInv, PoolLists, PoolTypes
  <1>13. chunk' = [chunk EXCEPT ![own] = bytes]
    BY <1>1 DEF bytes
  <1>14. Buffers!Contents(obuf[x])' = bytes
    BY <1>2, <1>12, <1>13 DEF Buffers!Contents
  <1>15. Buffers!Contents(ibuf[x])' = Buffers!Contents(ibuf[x])
    BY <1>2, <1>12, <1>13, Mine DEF Buffers!Contents
  <1>16. wire'[x] = wire[x] + k /\ ConnTypes'
    BY <1>1, <1>2, <1>3, <1>8 DEF ConnTypes
  <1>17. \A y \in Conns \ {x} : SameConn(y)
    BY <1>1, <1>2, <1>3 DEF ConnTypes, SameConn
  <1>18. Ready(x)'
    BY <1>2, <1>3 DEF Ready
  <1>19. OutOK(x)'
    BY <1>2, <1>8, <1>9, <1>14, <1>16 DEF OutOK, Buffers!Upto
  <1>20. InOK(x)'
    BY <1>2, <1>3, <1>15 DEF InOK, Buffers!Upto
  <1> QED  BY <1>2, <1>10, <1>11, <1>13, <1>16, <1>17, <1>18, <1>19, <1>20, InPlaceKeeps DEF ConnOK

Slot(x) == <<x, IF op[x] = "read" THEN "in" ELSE "out">>

\* Giving Buf(x) a value.
LEMMA SetBufHolds ==
    ASSUME ConnTypes, NEW x \in Conns, NEW c \in MaybeChunk, Buffers!SetBuf(x, c)
    PROVE  /\ ibuf' \in [Conns -> MaybeChunk] /\ obuf' \in [Conns -> MaybeChunk]
           /\ \A y \in Conns \ {x} : ibuf'[y] = ibuf[y] /\ obuf'[y] = obuf[y]
           /\ op[x] = "read" => ibuf'[x] = c /\ obuf'[x] = obuf[x]
           /\ op[x] # "read" => obuf'[x] = c /\ ibuf'[x] = ibuf[x]
           /\ Slot(x) \in Slots /\ Buffers!Holdings[Slot(x)] = Buffers!Buf(x)
           /\ LET f == [Buffers!Holdings EXCEPT ![Slot(x)] = c]
              IN  /\ f \in [Slots -> MaybeChunk]
                  /\ \A y \in Conns : f[<<y, "in">>] = ibuf'[y] /\ f[<<y, "out">>] = obuf'[y]
                                      /\ f[<<y, "grown">>] = grown[y]
  <1>1. /\ Buffers!Holdings \in [Slots -> MaybeChunk]
        /\ \A y \in Conns : /\ Buffers!Holdings[<<y, "in">>] = ibuf[y]
                            /\ Buffers!Holdings[<<y, "out">>] = obuf[y]
                            /\ Buffers!Holdings[<<y, "grown">>] = grown[y]
    BY HoldingsNow
  <1>2. \A y \in Conns : <<y, "in">> \in Slots /\ <<y, "out">> \in Slots /\ <<y, "grown">> \in Slots
    BY DEF Slots
  <1>3. Slot(x) \in Slots /\ Buffers!Holdings[Slot(x)] = Buffers!Buf(x)
    BY <1>1, <1>2 DEF Slot, Buffers!Buf
  <1> DEFINE f == [Buffers!Holdings EXCEPT ![Slot(x)] = c]
  <1>4. /\ f \in [Slots -> MaybeChunk] /\ f[Slot(x)] = c
        /\ \A b \in Slots : b # Slot(x) => f[b] = Buffers!Holdings[b]
    BY <1>1, <1>3
  <1> HIDE DEF f
  <1>5. \A y \in Conns : <<y, "grown">> # Slot(x)
    BY DEF Slot
  <1>6. CASE op[x] = "read"
    <2>1. ibuf' = [ibuf EXCEPT ![x] = c] /\ obuf' = obuf
      BY <1>6 DEF Buffers!SetBuf
    <2>2. Slot(x) = <<x, "in">> /\ \A y \in Conns : /\ <<y, "out">> # Slot(x)
                                                    /\ <<y, "in">> = Slot(x) => y = x
      BY <1>6 DEF Slot
    <2>3. /\ ibuf' \in [Conns -> MaybeChunk] /\ ibuf'[x] = c
          /\ \A y \in Conns \ {x} : ibuf'[y] = ibuf[y]
      BY <2>1 DEF ConnTypes
    <2>4. \A y \in Conns : f[<<y, "in">>] = ibuf'[y]
      BY <1>1, <1>2, <1>4, <2>2, <2>3
    <2>5. \A y \in Conns : f[<<y, "out">>] = obuf'[y] /\ f[<<y, "grown">>] = grown[y]
      BY <1>1, <1>2, <1>4, <1>5, <2>1, <2>2
    <2> QED  BY <1>3, <1>4, <1>6, <2>1, <2>3, <2>4, <2>5 DEF f, ConnTypes
  <1>7. CASE op[x] # "read"
    <2>1. obuf' = [obuf EXCEPT ![x] = c] /\ ibuf' = ibuf
      BY <1>7 DEF Buffers!SetBuf
    <2>2. Slot(x) = <<x, "out">> /\ \A y \in Conns : /\ <<y, "in">> # Slot(x)
                                                     /\ <<y, "out">> = Slot(x) => y = x
      BY <1>7 DEF Slot
    <2>3. /\ obuf' \in [Conns -> MaybeChunk] /\ obuf'[x] = c
          /\ \A y \in Conns \ {x} : obuf'[y] = obuf[y]
      BY <2>1 DEF ConnTypes
    <2>4. \A y \in Conns : f[<<y, "out">>] = obuf'[y]
      BY <1>1, <1>2, <1>4, <2>2, <2>3
    <2>5. \A y \in Conns : f[<<y, "in">>] = ibuf'[y] /\ f[<<y, "grown">>] = grown[y]
      BY <1>1, <1>2, <1>4, <1>5, <2>1, <2>2
    <2> QED  BY <1>3, <1>4, <1>7, <2>1, <2>3, <2>4, <2>5 DEF f, ConnTypes
  <1> QED  BY <1>6, <1>7

LEMMA MovedKeeps ==
    ASSUME BufferInv, NEW x \in Conns, PoolLists', Clean', ConnTypes',
           \A c \in held' : Len(chunk'[c]) <= c[1], Buffers!OneOwner',
           \A c \in held \ {ibuf[x], obuf[x], grown[x]} : chunk'[c] = chunk[c],
           \A y \in Conns \ {x} : SameConn(y), ConnOK(x)'
    PROVE  BufferInv'
  <1>1. Buffers!WithinCapacity'
    BY DEF Buffers!WithinCapacity, Buffers!Capacity
  <1> QED  BY <1>1, OthersKeep DEF BufferInv

\* The first chunk of a buffer, or one beside the chunk that is too small.
LEMMA AllocatesKeeps ==
    ASSUME Buffers!BufferAssumption, BufferInv, NEW x \in Conns, Buffers!Alloc(x)
    PROVE  BufferInv'
  <1>1. PICK c \in DOMAIN chunk :
           /\ Buffers!AllocChunk(Buffers!Need(x), c)
           /\ IF Buffers!Buf(x) = Buffers!Null
              THEN Buffers!SetBuf(x, c) /\ step' = [step EXCEPT ![x] = "move"] /\ grown' = grown
              ELSE /\ grown' = [grown EXCEPT ![x] = c] /\ step' = [step EXCEPT ![x] = "copy"]
                   /\ ibuf' = ibuf /\ obuf' = obuf
    BY DEF Buffers!Alloc, Buffers!Goto
  <1>2. /\ step[x] = "room" /\ op' = op /\ n' = n /\ inq' = inq /\ sent' = sent
        /\ delivered' = delivered /\ put' = put /\ wire' = wire
    BY DEF Buffers!Alloc, Buffers!Lacking, Buffers!At, Buffers!socket, Buffers!users
  <1>3. c \in ChunkNames /\ chunk \in [ChunkNames -> Seq(Nat)]
    BY DEF BufferInv, PoolLists, PoolTypes
  <1>4. ConnTypes /\ Ready(x) /\ InOK(x) /\ OutOK(x)
    BY DEF BufferInv, ConnOK
  <1>5. /\ PoolLists' /\ Clean' /\ c \notin held /\ Buffers!Need(x) <= c[1]
        /\ chunk[c] = << >> /\ held' = held \cup {c} /\ chunk' = chunk
    BY <1>1, <1>3, AllocKeeps DEF BufferInv
  <1>6. c \in MaybeChunk /\ c # Buffers!Null /\ c[1] \in Nat
    BY <1>3, NullIsNoChunk, PoolConstants DEF MaybeChunk, ChunkNames
  <1>7. \A d \in held' : Len(chunk'[d]) <= d[1]
    <2>1. \A d \in held : Len(chunk[d]) <= d[1]
      BY DEF BufferInv, Buffers!WithinCapacity, Buffers!Capacity
    <2>2. Len(chunk[c]) <= c[1]
      BY <1>5, <1>6
    <2> QED  BY <1>5, <2>1, <2>2
  <1>8. Owns(Buffers!Holdings, held)
    BY OwnedOnce DEF BufferInv
  <1>9. Buffers!Holdings \in [Slots -> MaybeChunk]
    BY <1>4, HoldingsNow
  <1>10. CASE Buffers!Buf(x) = Buffers!Null
    <2>1. Buffers!SetBuf(x, c) /\ step' = [step EXCEPT ![x] = "move"] /\ grown' = grown
      BY <1>1, <1>10
    <2>2. /\ ibuf' \in [Conns -> MaybeChunk] /\ obuf' \in [Conns -> MaybeChunk]
          /\ \A y \in Conns \ {x} : ibuf'[y] = ibuf[y] /\ obuf'[y] = obuf[y]
          /\ op[x] = "read" => ibuf'[x] = c /\ obuf'[x] = obuf[x]
          /\ op[x] # "read" => obuf'[x] = c /\ ibuf'[x] = ibuf[x]
          /\ Slot(x) \in Slots /\ Buffers!Holdings[Slot(x)] = Buffers!Buf(x)
      BY <1>4, <1>6, <2>1, SetBufHolds
    <2> DEFINE f == [Buffers!Holdings EXCEPT ![Slot(x)] = c]
    <2>3. /\ f \in [Slots -> MaybeChunk]
          /\ \A y \in Conns : f[<<y, "in">>] = ibuf'[y] /\ f[<<y, "out">>] = obuf'[y]
                              /\ f[<<y, "grown">>] = grown[y]
      BY <1>4, <1>6, <2>1, SetBufHolds
    <2>4. Owns(f, held')
      BY <1>5, <1>6, <1>8, <1>9, <1>10, <2>2, Gains
    <2> HIDE DEF f
    <2>5. Buffers!OneOwner'
      BY <2>1, <2>3, <2>4, OwnedNext
    <2>6. /\ step' \in [Conns -> Steps] /\ step'[x] = "move"
          /\ \A y \in Conns \ {x} : step'[y] = step[y]
      BY <1>4, <2>1 DEF ConnTypes, Steps
    <2>7. ConnTypes'
      BY <1>2, <1>4, <2>1, <2>2, <2>6 DEF ConnTypes
    <2>8. \A y \in Conns \ {x} : SameConn(y)
      BY <1>2, <2>1, <2>2, <2>6 DEF SameConn
    <2>9. Buffers!Buf(x)' = c /\ n[x] \in Nat
      BY <1>2, <1>4, <2>2 DEF Buffers!Buf, ConnTypes
    <2>10. n[x] + Len(chunk[c]) <= c[1]
      BY <1>5, <1>6, <1>10, <2>9 DEF Buffers!Need
    <2>11. Ready(x)'
      BY <1>2, <1>4, <1>5, <1>6, <2>1, <2>6, <2>9, <2>10 DEF Ready
    <2>12. /\ Buffers!Contents(ibuf[x])' = Buffers!Contents(ibuf[x])
           /\ Buffers!Contents(obuf[x])' = Buffers!Contents(obuf[x])
      BY <1>5, <1>6, <1>10, <2>2 DEF Buffers!Contents, Buffers!Buf
    <2>13. InOK(x)' /\ OutOK(x)'
      BY <1>2, <1>4, <2>6, <2>12 DEF InOK, OutOK, Buffers!Upto
    <2> QED  BY <1>5, <1>7, <2>5, <2>7, <2>8, <2>11, <2>13, MovedKeeps DEF ConnOK
  <1>11. CASE Buffers!Buf(x) # Buffers!Null
    <2>1. /\ grown' = [grown EXCEPT ![x] = c] /\ step' = [step EXCEPT ![x] = "copy"]
          /\ ibuf' = ibuf /\ obuf' = obuf
      BY <1>1, <1>11
    <2>2. /\ grown' \in [Conns -> MaybeChunk] /\ step' \in [Conns -> Steps]
          /\ grown'[x] = c /\ step'[x] = "copy"
          /\ \A y \in Conns \ {x} : grown'[y] = grown[y] /\ step'[y] = step[y]
      BY <1>4, <1>6, <2>1 DEF ConnTypes, Steps
    <2> DEFINE f == [Buffers!Holdings EXCEPT ![<<x, "grown">>] = c]
    <2>3. <<x, "grown">> \in Slots /\ Buffers!Holdings[<<x, "grown">>] = Buffers!Null
      BY <1>2, <1>4, HoldingsNow DEF Slots, Ready
    <2>4. /\ f \in [Slots -> MaybeChunk] /\ f[<<x, "grown">>] = c
          /\ \A b \in Slots : b # <<x, "grown">> => f[b] = Buffers!Holdings[b]
      BY <1>6, <1>9, <2>3
    <2>5. Owns(f, held')
      BY <1>5, <1>6, <1>8, <1>9, <2>3, Gains
    <2> HIDE DEF f
    <2>6. \A y \in Conns : /\ f[<<y, "in">>] = ibuf'[y] /\ f[<<y, "out">>] = obuf'[y]
                           /\ f[<<y, "grown">>] = grown'[y]
      <3>1. \A y \in Conns : /\ <<y, "in">> \in Slots /\ <<y, "out">> \in Slots /\ <<y, "grown">> \in Slots
                             /\ <<y, "in">> # <<x, "grown">> /\ <<y, "out">> # <<x, "grown">>
                             /\ <<y, "grown">> = <<x, "grown">> => y = x
        BY DEF Slots
      <3> QED  BY <1>4, <2>1, <2>2, <2>4, <3>1, HoldingsNow
    <2>7. Buffers!OneOwner'
      BY <2>4, <2>5, <2>6, OwnedNext
    <2>8. ConnTypes'
      BY <1>2, <1>4, <2>1, <2>2 DEF ConnTypes
    <2>9. \A y \in Conns \ {x} : SameConn(y)
      BY <1>2, <2>1, <2>2 DEF SameConn
    <2>10. Buffers!Buf(x)' = Buffers!Buf(x)
      BY <1>2, <2>1 DEF Buffers!Buf
    <2>11. n[x] + Len(chunk[Buffers!Buf(x)]) <= c[1]
      BY <1>5, <1>11 DEF Buffers!Need
    <2>12. Ready(x)'
      BY <1>2, <1>4, <1>5, <1>6, <1>11, <2>2, <2>10, <2>11 DEF Ready
    <2>13. InOK(x)' /\ OutOK(x)'
      BY <1>2, <1>4, <1>5, <2>1, <2>2 DEF InOK, OutOK, Buffers!Upto, Buffers!Contents
    <2> QED  BY <1>5, <1>7, <2>7, <2>8, <2>9, <2>12, <2>13, MovedKeeps DEF ConnOK
  <1> QED  BY <1>10, <1>11

\* The bytes move to the larger chunk and the old one goes back.
LEMMA CopyAndRetrieveKeeps ==
    ASSUME Buffers!BufferAssumption, BufferInv, NEW x \in Conns, Buffers!CopyAndRetrieve(x)
    PROVE  BufferInv'
  <1> DEFINE old == Buffers!Buf(x)
             new == grown[x]
             copy == [chunk EXCEPT ![new] = chunk[old]]
  <1>1. /\ step[x] = "copy" /\ Buffers!Retrieve(old, copy) /\ Buffers!SetBuf(x, new)
        /\ grown' = [grown EXCEPT ![x] = Buffers!Null] /\ step' = [step EXCEPT ![x] = "move"]
        /\ op' = op /\ n' = n /\ inq' = inq /\ sent' = sent
        /\ delivered' = delivered /\ put' = put /\ wire' = wire
    BY DEF Buffers!CopyAndRetrieve, Buffers!Copied, Buffers!At, Buffers!Goto, Buffers!socket,
           Buffers!users
  <1>2. ConnTypes /\ Ready(x) /\ InOK(x) /\ OutOK(x)
    BY DEF BufferInv, ConnOK
  <1>3. /\ new # Buffers!Null /\ old # Buffers!Null /\ new \in MaybeChunk /\ old \in {ibuf[x], obuf[x]}
        /\ n[x] + Len(chunk[old]) <= new[1]
    BY <1>1, <1>2 DEF Ready, ConnTypes, Buffers!Buf
  <1>4. /\ new \in held /\ old \in held /\ new # old /\ new \in ChunkNames /\ old \in ChunkNames
        /\ chunk \in [ChunkNames -> Seq(Nat)]
    BY <1>3, Mine DEF BufferInv, PoolLists, PoolTypes
  <1>5. /\ copy \in [ChunkNames -> Seq(Nat)] /\ copy[new] = chunk[old]
        /\ \A d \in ChunkNames \ {new} : copy[d] = chunk[d]
    BY <1>4
  <1>6. \A d \in ChunkNames \ held : copy[d] = << >>
    BY <1>4, <1>5 DEF BufferInv, Clean
  <1> HIDE DEF copy, old, new
  <1>7. /\ PoolLists' /\ Clean' /\ held' = held \ {old}
        /\ \A d \in ChunkNames \ {old} : chunk'[d] = copy[d]
    BY <1>1, <1>5, <1>6, RetrieveKeeps DEF BufferInv
  <1>8. /\ chunk'[new] = chunk[old]
        /\ \A d \in ChunkNames \ {old, new} : chunk'[d] = chunk[d]
    BY <1>4, <1>5, <1>7
  <1>9. held \subseteq ChunkNames /\ \A d \in held : Len(chunk[d]) <= d[1]
    BY DEF BufferInv, PoolLists, PoolTypes, Buffers!WithinCapacity, Buffers!Capacity
  <1>10. /\ n[x] \in Nat /\ Len(chunk[old]) \in Nat /\ new[1] \in Nat
    BY <1>2, <1>4, PoolConstants DEF ConnTypes, ChunkNames
  <1>11. \A d \in held' : Len(chunk'[d]) <= d[1]
    <2>1. Len(chunk'[new]) <= new[1]
      BY <1>3, <1>8, <1>10
    <2> QED  BY <1>7, <1>8, <1>9, <2>1
  <1>12. /\ ibuf' \in [Conns -> MaybeChunk] /\ obuf' \in [Conns -> MaybeChunk]
         /\ \A y \in Conns \ {x} : ibuf'[y] = ibuf[y] /\ obuf'[y] = obuf[y]
         /\ op[x] = "read" => ibuf'[x] = new /\ obuf'[x] = obuf[x]
         /\ op[x] # "read" => obuf'[x] = new /\ ibuf'[x] = ibuf[x]
         /\ Slot(x) \in Slots /\ Buffers!Holdings[Slot(x)] = old
    BY <1>1, <1>2, <1>3, SetBufHolds DEF old
  <1> DEFINE f == [Buffers!Holdings EXCEPT ![Slot(x)] = new]
             g == [f EXCEPT ![<<x, "grown">>] = Buffers!Null]
  <1>13. /\ f \in [Slots -> MaybeChunk]
         /\ \A y \in Conns : f[<<y, "in">>] = ibuf'[y] /\ f[<<y, "out">>] = obuf'[y]
                             /\ f[<<y, "grown">>] = grown[y]
    BY <1>1, <1>2, <1>3, SetBufHolds
  <1>14. Buffers!Holdings \in [Slots -> MaybeChunk] /\ Buffers!Holdings[<<x, "grown">>] = new
    BY <1>2, HoldingsNow DEF new
  <1>15. <<x, "grown">> \in Slots /\ <<x, "grown">> # Slot(x)
    BY DEF Slots, Slot
  <1>16. Owns(g, held')
    <2>1. Owns(Buffers!Holdings, held)
      BY OwnedOnce DEF BufferInv
    <2>2. g = [[Buffers!Holdings EXCEPT ![Slot(x)] = Buffers!Holdings[<<x, "grown">>]]
                  EXCEPT ![<<x, "grown">>] = Buffers!Null]
      BY <1>14
    <2> HIDE DEF f, g
    <2> QED  BY <1>3, <1>7, <1>12, <1>14, <1>15, <2>1, <2>2, Trades
  <1> HIDE DEF f
  <1>17. Buffers!Null \in MaybeChunk
    BY DEF MaybeChunk
  <1>18. /\ g \in [Slots -> MaybeChunk] /\ g[<<x, "grown">>] = Buffers!Null
         /\ \A b \in Slots : b # <<x, "grown">> => g[b] = f[b]
    BY <1>13, <1>15, <1>17
  <1> HIDE DEF g
  <1>19. /\ grown' \in [Conns -> MaybeChunk] /\ step' \in [Conns -> Steps]
         /\ grown'[x] = Buffers!Null /\ step'[x] = "move"
         /\ \A y \in Conns \ {x} : grown'[y] = grown[y] /\ step'[y] = step[y]
    BY <1>1, <1>2, <1>17 DEF ConnTypes, Steps
  <1>20. Buffers!OneOwner'
    <2>1. \A y \in Conns : /\ <<y, "in">> \in Slots /\ <<y, "out">> \in Slots /\ <<y, "grown">> \in Slots
                           /\ <<y, "in">> # <<x, "grown">> /\ <<y, "out">> # <<x, "grown">>
                           /\ <<y, "grown">> = <<x, "grown">> => y = x
      BY DEF Slots
    <2>2. \A y \in Conns : /\ g[<<y, "in">>] = ibuf'[y] /\ g[<<y, "out">>] = obuf'[y]
                           /\ g[<<y, "grown">>] = grown'[y]
      BY <1>13, <1>18, <1>19, <2>1
    <2> QED  BY <1>16, <1>18, <2>2, OwnedNext
  <1>21. ConnTypes'
    BY <1>1, <1>2, <1>12, <1>19 DEF ConnTypes
  <1>22. \A y \in Conns \ {x} : SameConn(y)
    BY <1>1, <1>12, <1>19 DEF SameConn
  <1>23. Buffers!Buf(x)' = new
    BY <1>1, <1>12 DEF Buffers!Buf
  <1>24. Ready(x)'
    BY <1>1, <1>2, <1>3, <1>8, <1>10, <1>19, <1>23 DEF Ready
  <1>25. /\ Buffers!Contents(ibuf[x])' = Buffers!Contents(ibuf[x])
         /\ Buffers!Contents(obuf[x])' = Buffers!Contents(obuf[x])
    <2>1. CASE op[x] = "read"
      <3>1. old = ibuf[x] /\ ibuf'[x] = new /\ obuf'[x] = obuf[x]
        BY <1>12, <2>1 DEF old, Buffers!Buf
      <3>2. obuf[x] # Buffers!Null => obuf[x] \in ChunkNames \ {old, new}
        BY <1>3, <3>1, Mine DEF new
      <3> QED  BY <1>3, <1>8, <3>1, <3>2 DEF Buffers!Contents
    <2>2. CASE op[x] # "read"
      <3>1. old = obuf[x] /\ obuf'[x] = new /\ ibuf'[x] = ibuf[x]
        BY <1>12, <2>2 DEF old, Buffers!Buf
      <3>2. ibuf[x] # Buffers!Null => ibuf[x] \in ChunkNames \ {old, new}
        BY <1>3, <3>1, Mine DEF new
      <3> QED  BY <1>3, <1>8, <3>1, <3>2 DEF Buffers!Contents
    <2> QED  BY <2>1, <2>2
  <1>26. InOK(x)' /\ OutOK(x)'
    BY <1>1, <1>2, <1>19, <1>25 DEF InOK, OutOK, Buffers!Upto
  <1>27. \A c \in held \ {ibuf[x], obuf[x], grown[x]} : chunk'[c] = chunk[c]
    BY <1>3, <1>8, <1>9 DEF new
  <1> QED  BY <1>7, <1>11, <1>20, <1>21, <1>22, <1>24, <1>26, <1>27, MovedKeeps DEF ConnOK

\* A buffer of x gives its chunk back.
LEMMA ReturnsChunk ==
    ASSUME Buffers!BufferAssumption, BufferInv, NEW x \in Conns, NEW side \in {"in", "out"},
           NEW c, c # Buffers!Null, c = Buffers!Holdings[<<x, side>>], Buffers!Retrieve(c, chunk),
           ibuf' = IF side = "in" THEN [ibuf EXCEPT ![x] = Buffers!Null] ELSE ibuf,
           obuf' = IF side = "out" THEN [obuf EXCEPT ![x] = Buffers!Null] ELSE obuf,
           grown' = grown
    PROVE  /\ PoolLists' /\ Clean' /\ Buffers!OneOwner'
           /\ \A d \in held' : Len(chunk'[d]) <= d[1]
           /\ \A d \in ChunkNames \ {c} : chunk'[d] = chunk[d]
           /\ ibuf' \in [Conns -> MaybeChunk] /\ obuf' \in [Conns -> MaybeChunk]
           /\ \A y \in Conns \ {x} : ibuf'[y] = ibuf[y] /\ obuf'[y] = obuf[y]
           /\ side = "in" => c = ibuf[x] /\ ibuf'[x] = Buffers!Null /\ obuf' = obuf
           /\ side = "out" => c = obuf[x] /\ obuf'[x] = Buffers!Null /\ ibuf' = ibuf
  <1>1. ConnTypes /\ Clean /\ PoolLists /\ chunk \in [ChunkNames -> Seq(Nat)] /\ held \subseteq ChunkNames
    BY DEF BufferInv, PoolLists, PoolTypes
  <1>2. /\ PoolLists' /\ Clean' /\ c \in held /\ held' = held \ {c}
        /\ \A d \in ChunkNames \ {c} : chunk'[d] = chunk[d]
    BY <1>1, RetrieveKeeps DEF Clean
  <1>3. \A d \in held' : Len(chunk'[d]) <= d[1]
    BY <1>1, <1>2 DEF BufferInv, Buffers!WithinCapacity, Buffers!Capacity
  <1>4. Buffers!Null \in MaybeChunk
    BY DEF MaybeChunk
  <1>5. /\ Buffers!Holdings \in [Slots -> MaybeChunk]
        /\ \A y \in Conns : /\ Buffers!Holdings[<<y, "in">>] = ibuf[y]
                            /\ Buffers!Holdings[<<y, "out">>] = obuf[y]
                            /\ Buffers!Holdings[<<y, "grown">>] = grown[y]
    BY <1>1, HoldingsNow
  <1> DEFINE b == <<x, side>>
             f == [Buffers!Holdings EXCEPT ![b] = Buffers!Null]
  <1>6. b \in Slots
    BY DEF Slots
  <1>7. Owns(f, held')
    <2>1. Owns(Buffers!Holdings, held)
      BY OwnedOnce DEF BufferInv
    <2> HIDE DEF b
    <2> QED  BY <1>2, <1>5, <1>6, <2>1, Loses DEF b
  <1>8. /\ f \in [Slots -> MaybeChunk] /\ f[b] = Buffers!Null
        /\ \A d \in Slots : d # b => f[d] = Buffers!Holdings[d]
    <2> HIDE DEF b
    <2> QED  BY <1>4, <1>5, <1>6
  <1> HIDE DEF f
  <1>9. CASE side = "in"
    <2>1. /\ ibuf' \in [Conns -> MaybeChunk] /\ ibuf'[x] = Buffers!Null /\ obuf' = obuf /\ c = ibuf[x]
          /\ \A y \in Conns \ {x} : ibuf'[y] = ibuf[y]
      BY <1>1, <1>4, <1>5, <1>9 DEF ConnTypes
    <2>2. \A y \in Conns : /\ <<y, "in">> \in Slots /\ <<y, "out">> \in Slots /\ <<y, "grown">> \in Slots
                           /\ <<y, "out">> # b /\ <<y, "grown">> # b
                           /\ <<y, "in">> = b => y = x
                           /\ <<x, "in">> = b
      BY <1>9 DEF Slots
    <2> HIDE DEF b
    <2>3. \A y \in Conns : f[<<y, "in">>] = ibuf'[y] /\ f[<<y, "out">>] = obuf'[y]
                           /\ f[<<y, "grown">>] = grown'[y]
      BY <1>5, <1>8, <2>1, <2>2
    <2>4. Buffers!OneOwner'
      BY <1>7, <1>8, <2>3, OwnedNext
    <2> QED  BY <1>1, <1>2, <1>3, <1>9, <2>1, <2>4 DEF ConnTypes
  <1>10. CASE side = "out"
    <2>1. /\ obuf' \in [Conns -> MaybeChunk] /\ obuf'[x] = Buffers!Null /\ ibuf' = ibuf /\ c = obuf[x]
          /\ \A y \in Conns \ {x} : obuf'[y] = obuf[y]
      BY <1>1, <1>4, <1>5, <1>10 DEF ConnTypes
    <2>2. \A y \in Conns : /\ <<y, "in">> \in Slots /\ <<y, "out">> \in Slots /\ <<y, "grown">> \in Slots
                           /\ <<y, "in">> # b /\ <<y, "grown">> # b
                           /\ <<y, "out">> = b => y = x
                           /\ <<x, "out">> = b
      BY <1>10 DEF Slots
    <2> HIDE DEF b
    <2>3. \A y \in Conns : f[<<y, "in">>] = ibuf'[y] /\ f[<<y, "out">>] = obuf'[y]
                           /\ f[<<y, "grown">>] = grown'[y]
      BY <1>5, <1>8, <2>1, <2>2
    <2>4. Buffers!OneOwner'
      BY <1>7, <1>8, <2>3, OwnedNext
    <2> QED  BY <1>1, <1>2, <1>3, <1>10, <2>1, <2>4 DEF ConnTypes
  <1> QED  BY <1>9, <1>10

LEMMA PopAllKeepsInv ==
    ASSUME Buffers!BufferAssumption, BufferInv, NEW x \in Conns, Buffers!PopAll(x)
    PROVE  BufferInv'
  <1> DEFINE c == ibuf[x]
             got == delivered[x] + Len(chunk[c])
  <1>1. /\ step[x] = "user" /\ delivered' = [delivered EXCEPT ![x] = got]
        /\ Buffers!Retrieve(c, chunk) /\ ibuf' = [ibuf EXCEPT ![x] = Buffers!Null]
        /\ step' = [step EXCEPT ![x] = "idle"]
        /\ op' = [op EXCEPT ![x] = "none"] /\ n' = [n EXCEPT ![x] = 0]
        /\ obuf' = obuf /\ grown' = grown
        /\ inq' = inq /\ sent' = sent /\ put' = put /\ wire' = wire
    BY DEF Buffers!PopAll, Buffers!At, Buffers!DropBuf, Buffers!Return, Buffers!Goto, Buffers!socket
  <1>2. ConnTypes /\ Ready(x) /\ InOK(x) /\ OutOK(x)
    BY DEF BufferInv, ConnOK
  <1>3. c # Buffers!Null /\ c = Buffers!Holdings[<<x, "in">>] /\ c \in MaybeChunk
    BY <1>1, <1>2, HoldingsNow DEF Ready, ConnTypes
  <1>4. /\ PoolLists' /\ Clean' /\ Buffers!OneOwner'
        /\ \A d \in held' : Len(chunk'[d]) <= d[1]
        /\ \A d \in ChunkNames \ {c} : chunk'[d] = chunk[d]
        /\ ibuf' \in [Conns -> MaybeChunk] /\ ibuf'[x] = Buffers!Null
        /\ \A y \in Conns \ {x} : ibuf'[y] = ibuf[y]
    <2>1. "in" \in {"in", "out"} /\ "in" # "out"
      OBVIOUS
    <2> QED  BY <1>1, <1>3, <2>1, ReturnsChunk
  <1>5. /\ delivered[x] \in Nat /\ sent[x] \in Nat /\ Len(chunk[c]) \in Nat
    BY <1>2, <1>3, ContentsSeq DEF ConnTypes
  <1>6. got \in Nat /\ got <= sent[x] /\ inq[x] = Buffers!Upto(got, sent[x])
    BY <1>1, <1>2, <1>3, <1>5 DEF InOK, Buffers!Contents
  <1>7. held \subseteq ChunkNames
    BY DEF BufferInv, PoolLists, PoolTypes
  <1> HIDE DEF got
  <1>8. ConnTypes'
    BY <1>1, <1>2, <1>4, <1>6 DEF ConnTypes, Steps
  <1>9. \A y \in Conns \ {x} : SameConn(y)
    BY <1>1, <1>2, <1>4 DEF ConnTypes, SameConn
  <1>10. /\ delivered'[x] = got /\ step'[x] = "idle" /\ op'[x] = "none"
    BY <1>1, <1>2 DEF ConnTypes
  <1>11. Ready(x)'
    BY <1>1, <1>2, <1>10 DEF Ready
  <1>12. Buffers!Contents(ibuf[x])' = << >>
    BY <1>4 DEF Buffers!Contents
  <1>13. InOK(x)'
    <2>1. Buffers!Upto(got, got) = << >> /\ got + Len(<< >>) = got
      BY <1>6, UptoEmpty
    <2> QED  BY <1>1, <1>6, <1>10, <1>12, <2>1 DEF InOK, Buffers!Upto
  <1>14. Buffers!Contents(obuf[x])' = Buffers!Contents(obuf[x])
    <2>1. obuf[x] # Buffers!Null => obuf[x] \in ChunkNames \ {c}
      BY <1>3, Mine
    <2> QED  BY <1>1, <1>4, <2>1 DEF Buffers!Contents
  <1>15. OutOK(x)'
    BY <1>1, <1>2, <1>10, <1>14 DEF OutOK, Buffers!Upto
  <1>16. \A d \in held \ {ibuf[x], obuf[x], grown[x]} : chunk'[d] = chunk[d]
    BY <1>4, <1>7
  <1> QED  BY <1>4, <1>8, <1>9, <1>11, <1>13, <1>15, <1>16, MovedKeeps DEF ConnOK

LEMMA ClearInKeeps ==
    ASSUME Buffers!BufferAssumption, BufferInv, NEW x \in Conns, Buffers!ClearIn(x)
    PROVE  BufferInv'
  <1> DEFINE c == ibuf[x]
  <1>1. /\ step[x] = "clearIn" /\ step' = [step EXCEPT ![x] = "clearOut"]
        /\ op' = op /\ n' = n /\ obuf' = obuf /\ grown' = grown /\ inq' = inq /\ sent' = sent
        /\ delivered' = delivered /\ put' = put /\ wire' = wire
    BY DEF Buffers!ClearIn, Buffers!At, Buffers!Goto, Buffers!socket, Buffers!users
  <1>2. ConnTypes /\ Ready(x) /\ InOK(x) /\ OutOK(x)
    BY DEF BufferInv, ConnOK
  <1>3. /\ step' \in [Conns -> Steps] /\ step'[x] = "clearOut"
        /\ \A y \in Conns \ {x} : step'[y] = step[y]
    BY <1>1, <1>2 DEF ConnTypes, Steps
  <1>4. Ready(x)'
    BY <1>1, <1>2, <1>3 DEF Ready
  <1>5. InOK(x)'
    BY <1>3 DEF InOK
  <1>6. CASE c = Buffers!Null
    <2>1. ListsStay /\ chunk' = chunk /\ ibuf' = ibuf
      BY <1>6 DEF Buffers!ClearIn, Buffers!Clear, Buffers!poolVars, ListsStay
    <2>2. ConnTypes' /\ \A y \in Conns \ {x} : SameConn(y)
      BY <1>1, <1>2, <1>3, <2>1 DEF ConnTypes, SameConn
    <2>3. OutOK(x)'
      BY <1>1, <1>2, <1>3, <2>1 DEF OutOK, Buffers!Upto, Buffers!Contents
    <2> QED  BY <1>1, <1>4, <1>5, <2>1, <2>2, <2>3, InPlaceKeeps, << >> \in Seq(Nat) DEF ConnOK
  <1>7. CASE c # Buffers!Null
    <2>1. Buffers!Retrieve(c, chunk) /\ ibuf' = [ibuf EXCEPT ![x] = Buffers!Null]
      BY <1>7 DEF Buffers!ClearIn, Buffers!Clear
    <2>2. c = Buffers!Holdings[<<x, "in">>] /\ "in" \in {"in", "out"} /\ "in" # "out"
      BY <1>2, HoldingsNow
    <2>3. /\ PoolLists' /\ Clean' /\ Buffers!OneOwner'
          /\ \A d \in held' : Len(chunk'[d]) <= d[1]
          /\ \A d \in ChunkNames \ {c} : chunk'[d] = chunk[d]
          /\ ibuf' \in [Conns -> MaybeChunk]
          /\ \A y \in Conns \ {x} : ibuf'[y] = ibuf[y]
      BY <1>1, <1>7, <2>1, <2>2, ReturnsChunk
    <2>4. ConnTypes' /\ \A y \in Conns \ {x} : SameConn(y)
      BY <1>1, <1>2, <1>3, <2>3 DEF ConnTypes, SameConn
    <2>5. Buffers!Contents(obuf[x])' = Buffers!Contents(obuf[x])
      <3>1. obuf[x] # Buffers!Null => obuf[x] \in ChunkNames \ {c}
        BY <1>7, Mine
      <3> QED  BY <1>1, <2>3, <3>1 DEF Buffers!Contents
    <2>6. OutOK(x)'
      BY <1>1, <1>2, <1>3, <2>5 DEF OutOK, Buffers!Upto
    <2>7. \A d \in held \ {ibuf[x], obuf[x], grown[x]} : chunk'[d] = chunk[d]
      BY <2>3 DEF BufferInv, PoolLists, PoolTypes
    <2> QED  BY <1>4, <1>5, <2>3, <2>4, <2>6, <2>7, MovedKeeps DEF ConnOK
  <1> QED  BY <1>6, <1>7

LEMMA ClearOutKeeps ==
    ASSUME Buffers!BufferAssumption, BufferInv, NEW x \in Conns, Buffers!ClearOut(x)
    PROVE  BufferInv'
  <1> DEFINE c == obuf[x]
  <1>1. /\ step[x] = "clearOut" /\ step' = [step EXCEPT ![x] = "closed"]
        /\ op' = op /\ n' = n /\ ibuf' = ibuf /\ grown' = grown /\ inq' = inq /\ sent' = sent
        /\ delivered' = delivered /\ put' = put /\ wire' = wire
    BY DEF Buffers!ClearOut, Buffers!At, Buffers!Goto, Buffers!socket, Buffers!users
  <1>2. ConnTypes /\ Ready(x)
    BY DEF BufferInv, ConnOK
  <1>3. /\ step' \in [Conns -> Steps] /\ step'[x] = "closed"
        /\ \A y \in Conns \ {x} : step'[y] = step[y]
    BY <1>1, <1>2 DEF ConnTypes, Steps
  <1>4. Ready(x)'
    BY <1>1, <1>2, <1>3 DEF Ready
  <1>5. InOK(x)' /\ OutOK(x)'
    BY <1>3 DEF InOK, OutOK
  <1>6. CASE c = Buffers!Null
    <2>1. ListsStay /\ chunk' = chunk /\ obuf' = obuf
      BY <1>6 DEF Buffers!ClearOut, Buffers!Clear, Buffers!poolVars, ListsStay
    <2>2. ConnTypes' /\ \A y \in Conns \ {x} : SameConn(y)
      BY <1>1, <1>2, <1>3, <2>1 DEF ConnTypes, SameConn
    <2> QED  BY <1>1, <1>4, <1>5, <2>1, <2>2, InPlaceKeeps, << >> \in Seq(Nat) DEF ConnOK
  <1>7. CASE c # Buffers!Null
    <2>1. Buffers!Retrieve(c, chunk) /\ obuf' = [obuf EXCEPT ![x] = Buffers!Null]
      BY <1>7 DEF Buffers!ClearOut, Buffers!Clear
    <2>2. c = Buffers!Holdings[<<x, "out">>] /\ "out" \in {"in", "out"} /\ "out" # "in"
      BY <1>2, HoldingsNow
    <2>3. /\ PoolLists' /\ Clean' /\ Buffers!OneOwner'
          /\ \A d \in held' : Len(chunk'[d]) <= d[1]
          /\ \A d \in ChunkNames \ {c} : chunk'[d] = chunk[d]
          /\ obuf' \in [Conns -> MaybeChunk]
          /\ \A y \in Conns \ {x} : obuf'[y] = obuf[y]
      BY <1>1, <1>7, <2>1, <2>2, ReturnsChunk
    <2>4. ConnTypes' /\ \A y \in Conns \ {x} : SameConn(y)
      BY <1>1, <1>2, <1>3, <2>3 DEF ConnTypes, SameConn
    <2>5. \A d \in held \ {ibuf[x], obuf[x], grown[x]} : chunk'[d] = chunk[d]
      BY <2>3 DEF BufferInv, PoolLists, PoolTypes
    <2> QED  BY <1>4, <1>5, <2>3, <2>4, <2>5, MovedKeeps DEF ConnOK
  <1> QED  BY <1>6, <1>7

LEMMA BufferKept ==
    ASSUME Buffers!BufferAssumption, BufferInv, [Buffers!Next]_(Buffers!vars)
    PROVE  BufferInv'
  <1>1. CASE UNCHANGED Buffers!vars
    <2>1. /\ ListsStay /\ chunk' = chunk /\ ibuf' = ibuf /\ obuf' = obuf /\ grown' = grown
          /\ op' = op /\ step' = step /\ n' = n /\ inq' = inq /\ sent' = sent
          /\ delivered' = delivered /\ put' = put /\ wire' = wire
      BY <1>1 DEF Buffers!vars, Buffers!poolVars, Buffers!place, Buffers!socket, Buffers!users,
                  ListsStay
    <2> QED  BY <2>1, IdleKeeps
  <1>2. ASSUME NEW x \in Conns, Buffers!BeginRead(x)
        PROVE  BufferInv'
    <2>1. Buffers!Begin(x, "read", Len(inq[x]))
      BY <1>2 DEF Buffers!BeginRead
    <2>2. Len(inq[x]) \in Nat
      BY DEF BufferInv, ConnTypes
    <2> QED  BY <2>1, <2>2, BeginKeeps
  <1>3. ASSUME NEW x \in Conns, Buffers!BeginWrite(x)
        PROVE  BufferInv'
    <2>1. PICK k \in 1 .. MaxBytes[x] - put[x] : Buffers!Begin(x, "write", k)
      BY <1>3 DEF Buffers!BeginWrite
    <2>2. k \in Nat
      BY PoolConstants DEF BufferInv, ConnTypes
    <2>3. "write" \in {"read", "write"} /\ "write" # "read"
      OBVIOUS
    <2> QED  BY <2>1, <2>2, <2>3, BeginKeeps
  <1>4. ASSUME NEW x \in Conns,
               Buffers!PeerSends(x) \/ Buffers!PeerCloses(x) \/ Buffers!RoomEnough(x)
               \/ Buffers!AllocFails(x) \/ Buffers!AllocExits(x) \/ Buffers!MoveIn(x)
               \/ Buffers!MoveOut(x) \/ Buffers!PopSome(x) \/ Buffers!Write2fd(x)
        PROVE  BufferInv'
    BY <1>4, PeerSendsKeeps, PeerClosesKeeps, RoomEnoughKeeps, AllocFailsKeeps, AllocExitsKeeps,
       MoveInKeeps, MoveOutKeeps, PopSomeKeeps, Write2fdKeeps
  <1>5. ASSUME NEW x \in Conns,
               Buffers!Alloc(x) \/ Buffers!CopyAndRetrieve(x) \/ Buffers!PopAll(x)
               \/ Buffers!ClearIn(x) \/ Buffers!ClearOut(x)
        PROVE  BufferInv'
    BY <1>5, AllocatesKeeps, CopyAndRetrieveKeeps, PopAllKeepsInv, ClearInKeeps, ClearOutKeeps
  <1> QED  BY <1>1, <1>2, <1>3, <1>4, <1>5 DEF Buffers!Next

LEMMA BufferBegins ==
    ASSUME Buffers!BufferAssumption, Buffers!Init
    PROVE  BufferInv
  <1>1. /\ mp_pool_ = [z \in Sizes |-> [i \in 1 .. InitNum |-> <<z, i>>]]
        /\ mp_total_ = Buffers!InitTotal /\ mp_left_ = Buffers!InitTotal
        /\ made = [z \in Sizes |-> InitNum] /\ chunk = [c \in ChunkNames |-> << >>] /\ held = {}
    BY DEF Buffers!Init, Buffers!PoolInit, ChunkNames
  <1>2. /\ ibuf = [x \in Conns |-> Buffers!Null] /\ obuf = [x \in Conns |-> Buffers!Null]
        /\ grown = [x \in Conns |-> Buffers!Null]
        /\ op = [x \in Conns |-> "none"] /\ step = [x \in Conns |-> "idle"]
        /\ n = [x \in Conns |-> 0] /\ inq = [x \in Conns |-> << >>]
        /\ sent = [x \in Conns |-> 0] /\ delivered = [x \in Conns |-> 0]
        /\ put = [x \in Conns |-> 0] /\ wire = [x \in Conns |-> 0]
    BY DEF Buffers!Init
  <1>3. InitNum \in Nat \ {0} /\ MAX_POOL_SIZE \in Nat /\ IsFiniteSet(Sizes) /\ Sizes \subseteq Nat \ {0}
    BY PoolConstants
  <1>4. ASSUME NEW z \in Sizes
        PROVE  /\ mp_pool_[z] \in Seq(ChunkNames) /\ Distinct(mp_pool_[z])
               /\ Elems(mp_pool_[z]) = {z} \X (1 .. InitNum)
    <2> DEFINE q == [i \in 1 .. InitNum |-> <<z, i>>]
    <2>1. \A i \in 1 .. InitNum : <<z, i>> \in ChunkNames
      BY <1>3 DEF ChunkNames
    <2>2. q \in Seq(ChunkNames) /\ Len(q) = InitNum
      BY <1>3, <2>1
    <2>3. Distinct(q)
      BY <2>2 DEF Distinct
    <2>4. Elems(q) = {z} \X (1 .. InitNum)
      <3>1. \A i \in 1 .. InitNum : q[i] = <<z, i>>
        OBVIOUS
      <3>2. ASSUME NEW e \in Elems(q)
            PROVE  e \in {z} \X (1 .. InitNum)
        <4> HIDE DEF q
        <4>1. PICK i \in 1 .. InitNum : e = q[i]
          BY <2>2 DEF Elems
        <4> QED  BY <3>1, <4>1
      <3>3. ASSUME NEW e \in {z} \X (1 .. InitNum)
            PROVE  e \in Elems(q)
        <4>1. PICK i \in 1 .. InitNum : e = <<z, i>>
          OBVIOUS
        <4> HIDE DEF q
        <4> QED  BY <2>2, <3>1, <4>1 DEF Elems
      <3> HIDE DEF q
      <3> QED  BY <3>2, <3>3
    <2>5. mp_pool_[z] = q
      BY <1>1
    <2> HIDE DEF q
    <2> QED  BY <2>2, <2>3, <2>4, <2>5
  <1>5. Listed(mp_pool_) = Sizes \X (1 .. InitNum)
    BY <1>4 DEF Listed
  <1>6. PoolTypes
    <2>1. mp_pool_ \in [Sizes -> Seq(ChunkNames)]
      <3>1. mp_pool_ = [z \in Sizes |-> mp_pool_[z]]
        BY <1>1
      <3> QED  BY <1>4, <3>1
    <2>2. mp_total_ \in Int
      <3>1. FreeChunks = Listed(mp_pool_)
        BY FreeIsElems DEF FreeChunks, Listed
      <3>2. IsFiniteSet(Sizes \X (1 .. InitNum)) /\ Sizes \X (1 .. InitNum) \in SUBSET ChunkNames
        <4>1. IsFiniteSet(1 .. InitNum)
          BY <1>3, FS_Interval
        <4> QED  BY <1>3, <4>1, FS_Product DEF ChunkNames
      <3>3. Cardinality(Buffers!Units(Sizes \X (1 .. InitNum))) \in Nat
        BY <3>2, UnitsAdd
      <3> QED  BY <1>1, <3>3, BufferCounting DEF Buffers!InitTotal
    <2>3. chunk \in [ChunkNames -> Seq(Nat)] /\ made \in [Sizes -> Nat]
      BY <1>1, <1>3
    <2> QED  BY <1>1, <2>1, <2>2, <2>3 DEF PoolTypes
  <1>12. ASSUME NEW z \in Sizes
         PROVE  /\ Buffers!Free(z) = {z} \X (1 .. InitNum)
                /\ \A c \in Buffers!Free(z) : c[1] = z /\ c[2] \in 1 .. InitNum
                /\ \A i \in 1 .. InitNum : <<z, i>> \in Buffers!Free(z)
    <2>1. Buffers!Free(z) = {z} \X (1 .. InitNum)
      BY <1>4, FreeIsElems
    <2>2. \A c \in {z} \X (1 .. InitNum) : c[1] = z /\ c[2] \in 1 .. InitNum
      OBVIOUS
    <2>3. \A i \in 1 .. InitNum : <<z, i>> \in {z} \X (1 .. InitNum)
      OBVIOUS
    <2> QED  BY <2>1, <2>2, <2>3
  <1>7. PoolLists
    <2>1. Buffers!OnePlace
      <3>1. \A z \in Sizes : \A c \in Buffers!Free(z) : c[1] = z /\ c \notin held
        BY <1>1, <1>12
      <3> QED  BY <1>4, <3>1, OnePlaceAsSets
    <2>2. Buffers!NoneLost
      BY <1>1, <1>12 DEF Buffers!NoneLost
    <2>5. Numbered
      BY <1>1, <1>3, <1>12 DEF Numbered
    <2>3. Buffers!LeftIsFree
      <3>1. FreeChunks = Listed(mp_pool_)
        BY FreeIsElems DEF FreeChunks, Listed
      <3> QED  BY <1>1, <1>5, <3>1, LeftAsSets, BufferCounting DEF Buffers!InitTotal
    <2>4. Buffers!BelowLimit
      BY <1>1 DEF Buffers!BelowLimit
    <2> QED  BY <1>6, <2>1, <2>2, <2>3, <2>4, <2>5 DEF PoolLists
  <1>8. Clean /\ Buffers!WithinCapacity
    BY <1>1 DEF Clean, Buffers!WithinCapacity
  <1>9. ConnTypes
    <2>1. << >> \in Seq(Nat) /\ Buffers!Null \in MaybeChunk /\ "idle" \in Steps
      BY DEF MaybeChunk, Steps
    <2> QED  BY <1>2, <2>1 DEF ConnTypes
  <1>10. Buffers!OneOwner
    <2>1. \A b \in Slots : Buffers!Holdings[b] = Buffers!Null
      <3> SUFFICES ASSUME NEW b \in Slots
                   PROVE  Buffers!Holdings[b] = Buffers!Null
        OBVIOUS
      <3>1. PICK y \in Conns, s \in {"in", "out", "grown"} : b = <<y, s>>
        BY DEF Slots
      <3> QED  BY <1>2, <1>9, <3>1, HoldingsNow
    <2>2. DOMAIN Buffers!Holdings = Slots
      BY <1>9, HoldingsNow
    <2> QED  BY <1>1, <2>1, <2>2 DEF Buffers!OneOwner
  <1>11. ASSUME NEW x \in Conns
         PROVE  ConnOK(x)
    <2>1. Buffers!Upto(0, 0) = << >>
      BY UptoEmpty
    <2>2. Ready(x)
      BY <1>2 DEF Ready
    <2>3. Buffers!Contents(ibuf[x]) = << >> /\ Buffers!Contents(obuf[x]) = << >>
      BY <1>2 DEF Buffers!Contents
    <2>4. InOK(x) /\ OutOK(x)
      BY <1>2, <2>1, <2>3 DEF InOK, OutOK
    <2> QED  BY <2>2, <2>4 DEF ConnOK
  <1> QED  BY <1>7, <1>8, <1>9, <1>10, <1>11 DEF BufferInv

LEMMA InvGivesChunks ==
    ASSUME Buffers!BufferAssumption, BufferInv
    PROVE  Buffers!ChunksAccounted
  <1>1. Buffers!FreeIsClean
    BY PoolListsNow, FreeIsElems DEF BufferInv, Clean, Buffers!FreeIsClean
  <1> QED  BY <1>1 DEF BufferInv, PoolLists, Buffers!ChunksAccounted, Buffers!PoolConsistent

LEMMA InvGivesStreams ==
    ASSUME Buffers!BufferAssumption, BufferInv
    PROVE  Buffers!StreamsKept
  <1>1. ASSUME NEW x \in Conns, step[x] \notin {"clearOut", "closed"}
        PROVE  Buffers!Contents(ibuf[x]) \o inq[x] = Buffers!Upto(delivered[x], sent[x])
    <2> DEFINE got == delivered[x] + Len(Buffers!Contents(ibuf[x]))
    <2>1. /\ got <= sent[x] /\ inq[x] = Buffers!Upto(got, sent[x])
          /\ Buffers!Contents(ibuf[x]) = Buffers!Upto(delivered[x], got)
      BY <1>1 DEF BufferInv, ConnOK, InOK
    <2>2. delivered[x] \in Nat /\ sent[x] \in Nat /\ ibuf[x] \in MaybeChunk
      BY DEF BufferInv, ConnTypes
    <2>3. got \in Nat /\ delivered[x] <= got
      <3>1. Len(Buffers!Contents(ibuf[x])) \in Nat
        BY <2>2, ContentsSeq
      <3> QED  BY <2>2, <3>1
    <2> HIDE DEF got
    <2>4. Buffers!Upto(delivered[x], got) \o Buffers!Upto(got, sent[x]) = Buffers!Upto(delivered[x], sent[x])
      BY <2>1, <2>2, <2>3, UptoConcat
    <2> QED  BY <2>1, <2>4
  <1>2. Buffers!InputStream
    BY <1>1 DEF Buffers!InputStream
  <1>3. Buffers!OutputStream
    BY DEF BufferInv, ConnOK, OutOK, Buffers!OutputStream
  <1> QED  BY <1>2, <1>3 DEF Buffers!StreamsKept

-----------------------------------------------------------------------------
(* Induction over the natural numbers, for sets, and what it gives.          *)

LEMMA Least ==
    ASSUME NEW T, T \subseteq Nat, T # {}
    PROVE  \E x \in T : \A y \in T : x <= y
  <1> DEFINE R == OpToRel(<, Nat)
  <1>1. IsWellFoundedOn(R, Nat)
    BY NatLessThanWellFounded
  <1>2. \A y, z \in Nat : y < z => <<y, z>> \in R
    BY DEF OpToRel
  <1> HIDE DEF R
  <1>3. PICK x \in T : \A y \in T : ~ (<<y, x>> \in R)
    BY <1>1, WFMin
  <1>4. ASSUME NEW y \in T
        PROVE  x <= y
    <2>1. x \in Nat /\ y \in Nat
      OBVIOUS
    <2>2. ~ (y < x)
      BY <1>2, <1>3, <2>1
    <2> QED  BY <2>1, <2>2
  <1> QED  BY <1>4

LEMMA Induction ==
    ASSUME NEW S, 0 \in S, \A m \in Nat : m \in S => m + 1 \in S
    PROVE  Nat \subseteq S
  <1> DEFINE T == {m \in Nat : m \notin S}
  <1> SUFFICES ASSUME T # {}
               PROVE  FALSE
    OBVIOUS
  <1>1. PICK x \in T : \A y \in T : x <= y
    BY Least
  <1>2. x # 0 /\ x - 1 \in Nat /\ x - 1 + 1 = x
    BY <1>1
  <1>3. x - 1 \notin T
    BY <1>1, <1>2
  <1>4. x - 1 \in S
    BY <1>2, <1>3
  <1> QED  BY <1>2, <1>4

\* The values of m turns from a first one.
Turns(g, first, Turn, m) == g[0] = first /\ \A j \in 1 .. m : g[j] = Turn[<<g[j - 1], j>>]

LEMMA Recursion ==
    ASSUME NEW X, NEW first \in X, NEW m \in Nat, NEW Turn \in [X \X (1 .. m) -> X]
    PROVE  \E g \in [0 .. m -> X] : Turns(g, first, Turn, m)
  <1> DEFINE Upon(g, k) == /\ g \in [0 .. k -> X] /\ g[0] = first
                           /\ \A j \in 1 .. k : g[j] = Turn[<<g[j - 1], j>>]
             S == {k \in Nat : k <= m => \E g : Upon(g, k)}
  <1>1. 0 \in S
    <2>1. Upon([j \in 0 .. 0 |-> first], 0)
      OBVIOUS
    <2> QED  BY <2>1
  <1>2. ASSUME NEW k \in Nat, k \in S
        PROVE  k + 1 \in S
    <2> SUFFICES ASSUME k + 1 <= m
                 PROVE  \E g : Upon(g, k + 1)
      OBVIOUS
    <2>1. PICK g : Upon(g, k)
      BY <1>2
    <2>2. g[k] \in X /\ k + 1 \in 1 .. m
      BY <2>1
    <2> DEFINE next == Turn[<<g[k], k + 1>>]
               h == [j \in 0 .. k + 1 |-> IF j <= k THEN g[j] ELSE next]
    <2>3. next \in X
      BY <2>2
    <2> HIDE DEF next
    <2>4. h \in [0 .. k + 1 -> X] /\ h[0] = first
      BY <2>1, <2>3
    <2>5. \A j \in 1 .. k : h[j] = Turn[<<h[j - 1], j>>]
      BY <2>1
    <2>6. h[k + 1] = next /\ h[k] = g[k]
      OBVIOUS
    <2>7. \A j \in 1 .. k + 1 : h[j] = Turn[<<h[j - 1], j>>]
      <3> SUFFICES ASSUME NEW j \in 1 .. k + 1
                   PROVE  h[j] = Turn[<<h[j - 1], j>>]
        OBVIOUS
      <3> HIDE DEF h
      <3>1. CASE j \in 1 .. k
        BY <2>5, <3>1
      <3>2. CASE j = k + 1
        <4>1. j - 1 = k
          BY <3>2
        <4> QED  BY <2>6, <3>2, <4>1 DEF next
      <3> QED  BY <3>1, <3>2
    <2> HIDE DEF h
    <2> QED  BY <2>4, <2>7
  <1> HIDE DEF Upon
  <1>3. Nat \subseteq S
    <2> HIDE DEF S
    <2> QED  BY <1>1, <1>2, Induction
  <1>4. m \in S
    BY <1>3
  <1>5. PICK g : Upon(g, m)
    BY <1>4
  <1> QED  BY <1>5 DEF Upon, Turns


-----------------------------------------------------------------------------
(* The cache's table: growing moves each node once.                          *)

LEMMA CacheCounting == \A S : /\ Cache!IsFiniteSet(S) <=> IsFiniteSet(S)
                              /\ Cache!Cardinality(S) = Cardinality(S)
  BY DEF Cache!IsFiniteSet, IsFiniteSet, Cache!Cardinality, Cardinality

LEMMA MinIsIn ==
    ASSUME NEW T, T \subseteq Nat, T # {}
    PROVE  Cache!Min(T) \in T /\ \A y \in T : Cache!Min(T) <= y
  BY Least DEF Cache!Min

LEMMA LongerSuffices ==
    ASSUME Cache!CacheAssumption, NEW k \in Nat
    PROVE  Cache!Longer(k) \in Nat /\ Cache!Longer(k) >= k
  <1> DEFINE Doubling(g) == [i \in 0 .. k |-> IF i = 0 THEN MinLength ELSE 2 * g[i - 1]]
             doubled == CHOOSE g : g = Doubling(g)
             big == {i \in 0 .. k : doubled[i] >= k}
             Turn == [p \in Nat \X (1 .. k) |-> 2 * p[1]]
  <1>1. MinLength \in Nat \ {0}
    BY DEF Cache!CacheAssumption
  <1>2. \E g : g = Doubling(g)
    <2>1. Turn \in [Nat \X (1 .. k) -> Nat]
      OBVIOUS
    <2>2. \E g \in [0 .. k -> Nat] : Turns(g, MinLength, Turn, k)
      <3> HIDE DEF Turn
      <3>1. MinLength \in Nat
        BY <1>1
      <3> QED  BY <2>1, <3>1, Recursion
    <2>6. PICK g \in [0 .. k -> Nat] : g[0] = MinLength /\ \A j \in 1 .. k : g[j] = Turn[<<g[j - 1], j>>]
      BY <2>2 DEF Turns
    <2>3. \A j \in 1 .. k : g[j - 1] \in Nat /\ g[j] = 2 * g[j - 1]
      <3> SUFFICES ASSUME NEW j \in 1 .. k
                   PROVE  g[j - 1] \in Nat /\ g[j] = 2 * g[j - 1]
        OBVIOUS
      <3>1. j - 1 \in 0 .. k /\ g[j - 1] \in Nat
        BY <2>6
      <3>2. Turn[<<g[j - 1], j>>] = 2 * g[j - 1]
        BY <3>1
      <3> QED  BY <2>6, <3>1, <3>2
    <2>4. \A j \in 0 .. k : g[j] = IF j = 0 THEN MinLength ELSE 2 * g[j - 1]
      BY <2>6, <2>3
    <2>5. g = Doubling(g)
      BY <2>4
    <2> QED  BY <2>5
  <1>3. doubled = Doubling(doubled)
    <2> HIDE DEF Doubling
    <2> QED  BY <1>2
  <1> HIDE DEF doubled
  <1>4. \A i \in 0 .. k : doubled[i] \in Nat /\ doubled[i] >= i + 1
    <2> DEFINE S == {i \in Nat : i <= k => doubled[i] \in Nat /\ doubled[i] >= i + 1}
    <2>1. 0 \in S
      BY <1>1, <1>3
    <2>2. ASSUME NEW i \in Nat, i \in S
          PROVE  i + 1 \in S
      <3> SUFFICES ASSUME i + 1 <= k
                   PROVE  doubled[i + 1] \in Nat /\ doubled[i + 1] >= i + 2
        OBVIOUS
      <3>1. doubled[i] \in Nat /\ doubled[i] >= i + 1
        BY <2>2
      <3>2. doubled[i + 1] = 2 * doubled[i]
        <4>1. i + 1 \in 0 .. k /\ i + 1 # 0 /\ i + 1 - 1 = i
          OBVIOUS
        <4> QED  BY <1>3, <4>1
      <3> QED  BY <3>1, <3>2
    <2>3. Nat \subseteq S
      <3> HIDE DEF S
      <3> QED  BY <2>1, <2>2, Induction
    <2> QED  BY <2>3
  <1>5. big \subseteq Nat /\ k \in big
    BY <1>4
  <1>6. Cache!Min(big) \in big
    BY <1>5, MinIsIn
  <1>7. Cache!Longer(k) = doubled[Cache!Min(big)]
    BY DEF Cache!Longer, doubled
  <1> QED  BY <1>4, <1>6, <1>7


\* Each entry is in one chain, once.
Spread(t) == /\ \A b \in DOMAIN t : Distinct(t[b])
             /\ \A b, c \in DOMAIN t : Elems(t[b]) \cap Elems(t[c]) # {} => b = c
Entries(t) == UNION {Elems(t[b]) : b \in DOMAIN t}

\* e is put before a chain.
AtHead(t, b, e) == [t EXCEPT ![b] = <<e>> \o t[b]]

\* e is put where it was not.
Joined(t, r, e) == Spread(t) /\ e \notin Entries(t) => Spread(r) /\ Entries(r) = Entries(t) \cup {e}

LEMMA PutHead ==
    ASSUME NEW A, NEW D, NEW t \in [D -> Seq(A)], NEW b \in D, NEW e \in A
    PROVE  AtHead(t, b, e) \in [D -> Seq(A)] /\ Joined(t, AtHead(t, b, e), e)
  <1> DEFINE long == <<e>> \o t[b]
             r == [t EXCEPT ![b] = long]
  <1>1. t[b] \in Seq(A) /\ long \in Seq(A)
    OBVIOUS
  <1>2. r \in [D -> Seq(A)] /\ r[b] = long /\ \A c \in D \ {b} : r[c] = t[c]
    <2> HIDE DEF long
    <2> QED  BY <1>1
  <1>3. ASSUME Spread(t), e \notin Entries(t)
        PROVE  Spread(r) /\ Entries(r) = Entries(t) \cup {e}
    <2>1. \A c \in D : e \notin Elems(t[c])
      BY <1>3 DEF Entries
    <2>2. Distinct(long) /\ Elems(long) = Elems(t[b]) \cup {e}
      BY <1>1, <1>3, <2>1, PushElems DEF Spread
    <2> HIDE DEF long, r
    <2>3. \A c \in D : Distinct(r[c])
      BY <1>2, <1>3, <2>2 DEF Spread
    <2>4. ASSUME NEW c \in D, NEW d \in D, c # d, NEW x \in Elems(r[c]), x \in Elems(r[d])
          PROVE  FALSE
      <3>1. \A y \in D : Elems(r[y]) = IF y = b THEN Elems(t[b]) \cup {e} ELSE Elems(t[y])
        BY <1>2, <2>2
      <3>2. x # e
        BY <2>1, <2>4, <3>1
      <3>3. x \in Elems(t[c]) /\ x \in Elems(t[d])
        BY <2>4, <3>1, <3>2
      <3> QED  BY <1>3, <2>4, <3>3 DEF Spread
    <2>5. \A c, d \in D : Elems(r[c]) \cap Elems(r[d]) # {} => c = d
      BY <2>4
    <2>6. DOMAIN r = D /\ DOMAIN t = D
      BY <1>2
    <2>7. Spread(r)
      BY <2>3, <2>5, <2>6 DEF Spread
    <2>8. ASSUME NEW x
          PROVE  x \in Entries(r) <=> x \in Entries(t) \cup {e}
      <3>1. x \in Entries(r) <=> \E c \in D : x \in Elems(r[c])
        BY <2>6 DEF Entries
      <3>2. x \in Entries(t) <=> \E c \in D : x \in Elems(t[c])
        BY <2>6 DEF Entries
      <3>3. \A c \in D : x \in Elems(r[c]) <=> x \in Elems(t[c]) \/ (c = b /\ x = e)
        BY <1>2, <2>2
      <3> QED  BY <3>1, <3>2, <3>3
    <2> QED  BY <2>7, <2>8
  <1>4. r = AtHead(t, b, e)
    BY DEF AtHead
  <1> HIDE DEF r
  <1> QED  BY <1>2, <1>3, <1>4 DEF Joined

\* The entries of a chain are put where they were not.
Poured(t, r, chain) == Spread(t) /\ Distinct(chain) /\ Elems(chain) \cap Entries(t) = {} =>
                         Spread(r) /\ Entries(r) = Entries(t) \cup Elems(chain)

LEMMA PouringKeeps ==
    ASSUME NEW A, NEW nodes, NEW w \in Nat, NEW old \in Nat \ {0}, old <= w,
           \A e \in A : HashOf[nodes[e].key] \in Nat,
           NEW chain \in Seq(A), NEW t \in [0 .. w - 1 -> Seq(A)]
    PROVE  /\ Cache!Moved(chain, t, nodes, old) \in [0 .. w - 1 -> Seq(A)]
           /\ Poured(t, Cache!Moved(chain, t, nodes, old), chain)
  <1> DEFINE X == [0 .. w - 1 -> Seq(A)]
             B(e) == HashOf[nodes[e].key] % old
             Put(s, e) == AtHead(s, B(e), e)
             k == Len(chain)
             Moving(g) == [j \in 0 .. k |-> IF j = 0 THEN t ELSE Put(g[j - 1], chain[j])]
             moved == CHOOSE g : g = Moving(g)
             Turn == [p \in X \X (1 .. k) |-> Put(p[1], chain[p[2]])]
  <1>1. k \in Nat /\ \A j \in 1 .. k : chain[j] \in A
    OBVIOUS
  <1>2. \A e \in A : B(e) \in 0 .. w - 1
    <2> SUFFICES ASSUME NEW e \in A
                 PROVE  B(e) \in 0 .. w - 1
      OBVIOUS
    <2>1. PICK h \in Nat : h = HashOf[nodes[e].key]
      OBVIOUS
    <2>2. h % old \in 0 .. old - 1
      OBVIOUS
    <2> QED  BY <2>1, <2>2
  <1> HIDE DEF B
  <1>3. \A s \in X : \A e \in A : Put(s, e) \in X
    BY <1>2, PutHead
  <1>12. \A s \in X : \A e \in A : Joined(s, Put(s, e), e)
    <2> SUFFICES ASSUME NEW s \in X, NEW e \in A
                 PROVE  Joined(s, Put(s, e), e)
      OBVIOUS
    <2>1. B(e) \in 0 .. w - 1
      BY <1>2
    <2> QED  BY <2>1, PutHead
  <1>4. \E g : g = Moving(g)
    <2>1. Turn \in [X \X (1 .. k) -> X]
      <3> HIDE DEF X, Put
      <3> QED  BY <1>1, <1>3
    <2>2. \A s \in X : \A j \in 1 .. k : Turn[<<s, j>>] = Put(s, chain[j])
      <3> HIDE DEF X, Put, k
      <3> QED  OBVIOUS
    <2> HIDE DEF X, Put, Turn, k
    <2>3. \E g \in [0 .. k -> X] : Turns(g, t, Turn, k)
      <3>1. t \in X
        BY DEF X
      <3> QED  BY <1>1, <2>1, <3>1, Recursion
    <2>4. PICK g \in [0 .. k -> X] : g[0] = t /\ \A j \in 1 .. k : g[j] = Turn[<<g[j - 1], j>>]
      BY <2>3 DEF Turns
    <2>5. \A j \in 1 .. k : g[j] = Put(g[j - 1], chain[j])
      <3> SUFFICES ASSUME NEW j \in 1 .. k
                   PROVE  g[j] = Put(g[j - 1], chain[j])
        OBVIOUS
      <3>1. j - 1 \in 0 .. k
        BY <1>1
      <3>2. g[j - 1] \in X
        BY <3>1
      <3> QED  BY <2>2, <2>4, <3>2
    <2>6. g = [j \in 0 .. k |-> IF j = 0 THEN t ELSE Put(g[j - 1], chain[j])]
      <3>1. \A j \in 0 .. k : g[j] = IF j = 0 THEN t ELSE Put(g[j - 1], chain[j])
        BY <1>1, <2>4, <2>5
      <3> QED  BY <3>1
    <2> QED  BY <2>6
  <1>5. moved = Moving(moved)
    <2> HIDE DEF Moving
    <2> QED  BY <1>4
  <1>6. Cache!Moved(chain, t, nodes, old) = moved[k]
    BY DEF Cache!Moved, B, AtHead
  <1> HIDE DEF moved
  <1>7. moved[0] = t /\ \A j \in 1 .. k : moved[j] = Put(moved[j - 1], chain[j])
    <2>1. \A j \in 0 .. k : moved[j] = IF j = 0 THEN t ELSE Put(moved[j - 1], chain[j])
      <3> HIDE DEF Put, k
      <3> QED  BY <1>5
    <2> HIDE DEF Put, k
    <2> QED  BY <1>1, <2>1
  <1> DEFINE Before(j) == {chain[i] : i \in 1 .. j}
             Good(j) == /\ moved[j] \in X
                        /\ Spread(t) /\ Distinct(chain) /\ Elems(chain) \cap Entries(t) = {} =>
                             Spread(moved[j]) /\ Entries(moved[j]) = Entries(t) \cup Before(j)
             S == {j \in Nat : j <= k => Good(j)}
  <1> HIDE DEF k
  <1>8. 0 \in S
    <2>1. Before(0) = {}
      OBVIOUS
    <2> QED  BY <1>7, <2>1
  <1>9. ASSUME NEW j \in Nat, j \in S
        PROVE  j + 1 \in S
    <2> SUFFICES ASSUME j + 1 <= k
                 PROVE  Good(j + 1)
      OBVIOUS
    <2>1. j + 1 \in 1 .. k /\ j + 1 - 1 = j
      BY <1>1
    <2>9. PICK elt : elt = chain[j + 1]
      OBVIOUS
    <2>2. elt \in A /\ moved[j + 1] = Put(moved[j], elt)
      <3> HIDE DEF Put
      <3>1. moved[j + 1] = Put(moved[j + 1 - 1], chain[j + 1])
        BY <1>7, <2>1
      <3>2. chain[j + 1] \in A
        BY <1>1, <2>1
      <3> QED  BY <2>1, <2>9, <3>1, <3>2
    <2>3. Good(j)
      <3>1. j <= k
        BY <1>1
      <3> HIDE DEF X, Before, Put
      <3> QED  BY <1>9, <3>1
    <2>4. Before(j + 1) = Before(j) \cup {elt}
      <3>1. \A i : i \in 1 .. j + 1 <=> i \in 1 .. j \/ i = j + 1
        OBVIOUS
      <3> QED  BY <2>9, <3>1
    <2>5. ASSUME Spread(t), Distinct(chain), Elems(chain) \cap Entries(t) = {}
          PROVE  elt \notin Entries(t) \cup Before(j)
      <3>1. elt \in Elems(chain)
        BY <2>1, <2>9 DEF Elems, k
      <3>2. \A i \in 1 .. j : chain[i] # elt
        <4> SUFFICES ASSUME NEW i \in 1 .. j, chain[i] = elt
                     PROVE  FALSE
          OBVIOUS
        <4>1. i \in 1 .. k /\ i # j + 1
          BY <1>1, <2>1, <2>9
        <4> QED  BY <2>1, <2>9, <2>5, <4>1 DEF Distinct, k
      <3> QED  BY <2>5, <3>1, <3>2
    <2> HIDE DEF Before
    <2>6. B(elt) \in 0 .. w - 1
      BY <1>2, <2>2
    <2>7. moved[j + 1] \in X
      <3> HIDE DEF Put, X
      <3> QED  BY <1>3, <2>2, <2>3
    <2>8. ASSUME Spread(t), Distinct(chain), Elems(chain) \cap Entries(t) = {}
          PROVE  Spread(moved[j + 1]) /\ Entries(moved[j + 1]) = Entries(t) \cup Before(j + 1)
      <3>1. Spread(moved[j]) /\ Entries(moved[j]) = Entries(t) \cup Before(j) /\ elt \notin Entries(moved[j])
        BY <2>3, <2>5, <2>8
      <3>2. Spread(Put(moved[j], elt)) /\ Entries(Put(moved[j], elt)) = Entries(moved[j]) \cup {elt}
        <4> HIDE DEF Put, X
        <4> QED  BY <1>12, <2>2, <2>3, <3>1 DEF Joined
      <3> HIDE DEF Put
      <3> QED  BY <2>2, <2>4, <3>1, <3>2
    <2> QED  BY <2>7, <2>8
  <1>10. Nat \subseteq S
    <2> HIDE DEF S
    <2> QED  BY <1>8, <1>9, Induction
  <1>11. Good(k) /\ Before(k) = Elems(chain)
    BY <1>1, <1>10 DEF Elems, k
  <1> QED  BY <1>6, <1>11 DEF Poured

LEMMA ResizedKeeps ==
    ASSUME Cache!CacheAssumption, NEW A, NEW nodes, \A e \in A : nodes[e].key \in Keys,
           NEW old \in Nat \ {0}, NEW chains \in [0 .. old - 1 -> Seq(A)], NEW k \in Nat, old <= k
    PROVE  /\ Cache!Longer(k) \in Nat /\ Cache!Longer(k) >= k
           /\ Cache!Resized(chains, nodes, k) \in [0 .. Cache!Longer(k) - 1 -> Seq(A)]
           /\ Spread(chains) => /\ Spread(Cache!Resized(chains, nodes, k))
                                /\ Entries(Cache!Resized(chains, nodes, k)) = Entries(chains)
  <1>1. PICK w : w = Cache!Longer(k)
    OBVIOUS
  <1>2. w \in Nat /\ w >= k /\ old <= w
    BY <1>1, LongerSuffices
  <1> DEFINE X == [0 .. w - 1 -> Seq(A)]
             empty == Cache!Chains(w)
             Next1(s, i) == Cache!Moved(chains[i - 1], s, nodes, old)
             Filling(g) == [i \in 0 .. old |-> IF i = 0 THEN empty ELSE Next1(g[i - 1], i)]
             table == CHOOSE g : g = Filling(g)
             Turn == [p \in X \X (1 .. old) |-> Next1(p[1], p[2])]
  <1>3. Cache!Cardinality(DOMAIN chains) = old
    <2>1. DOMAIN chains = 0 .. old - 1
      OBVIOUS
    <2>2. Cardinality(0 .. old - 1) = old
      BY FS_Interval
    <2> QED  BY <2>1, <2>2, CacheCounting
  <1>4. \A i \in 1 .. old : chains[i - 1] \in Seq(A)
    OBVIOUS
  <1>5. \A e \in A : HashOf[nodes[e].key] \in Nat
    BY DEF Cache!CacheAssumption
  <1>6. \A s \in X : \A i \in 1 .. old : Next1(s, i) \in X /\ Poured(s, Next1(s, i), chains[i - 1])
    BY <1>2, <1>4, <1>5, PouringKeeps
  <1>7. empty \in X /\ Spread(empty) /\ Entries(empty) = {}
    <2>1. empty = [b \in 0 .. w - 1 |-> << >>]
      BY DEF Cache!Chains
    <2>2. Elems(<< >>) = {} /\ Distinct(<< >>)
      BY DEF Elems, Distinct
    <2>3. \A b \in 0 .. w - 1 : empty[b] = << >>
      BY <2>1
    <2> HIDE DEF empty
    <2>4. DOMAIN empty = 0 .. w - 1 /\ empty \in X
      BY <2>1
    <2> QED  BY <2>2, <2>3, <2>4 DEF Spread, Entries
  <1> HIDE DEF empty
  <1>8. \E g : g = Filling(g)
    <2>1. Turn \in [X \X (1 .. old) -> X]
      <3> HIDE DEF X, Next1
      <3> QED  BY <1>6
    <2>2. \A s \in X : \A i \in 1 .. old : Turn[<<s, i>>] = Next1(s, i)
      <3> HIDE DEF X, Next1
      <3> QED  OBVIOUS
    <2> HIDE DEF X, Next1, Turn
    <2>3. \E g \in [0 .. old -> X] : Turns(g, empty, Turn, old)
      BY <1>7, <2>1, Recursion
    <2>4. PICK g \in [0 .. old -> X] : g[0] = empty /\ \A i \in 1 .. old : g[i] = Turn[<<g[i - 1], i>>]
      BY <2>3 DEF Turns
    <2>5. \A i \in 1 .. old : g[i] = Next1(g[i - 1], i)
      <3> SUFFICES ASSUME NEW i \in 1 .. old
                   PROVE  g[i] = Next1(g[i - 1], i)
        OBVIOUS
      <3>1. i - 1 \in 0 .. old
        OBVIOUS
      <3>2. g[i - 1] \in X
        BY <3>1
      <3> QED  BY <2>2, <2>4, <3>2
    <2>6. g = [i \in 0 .. old |-> IF i = 0 THEN empty ELSE Next1(g[i - 1], i)]
      <3>1. \A i \in 0 .. old : g[i] = IF i = 0 THEN empty ELSE Next1(g[i - 1], i)
        BY <2>4, <2>5
      <3> QED  BY <3>1
    <2> QED  BY <2>6
  <1>9. table = Filling(table)
    <2> HIDE DEF Filling
    <2> QED  BY <1>8
  <1>10. Cache!Resized(chains, nodes, k) = table[old]
    BY <1>1, <1>3 DEF Cache!Resized, empty
  <1> HIDE DEF table
  <1>11. table[0] = empty /\ \A i \in 1 .. old : table[i] = Next1(table[i - 1], i)
    <2>1. \A i \in 0 .. old : table[i] = IF i = 0 THEN empty ELSE Next1(table[i - 1], i)
      <3> HIDE DEF Next1
      <3> QED  BY <1>9
    <2> HIDE DEF Next1
    <2> QED  BY <2>1
  <1> DEFINE Upto(i) == UNION {Elems(chains[b]) : b \in 0 .. i - 1}
             Good(i) == /\ table[i] \in X
                        /\ Spread(chains) => Spread(table[i]) /\ Entries(table[i]) = Upto(i)
             S == {i \in Nat : i <= old => Good(i)}
  <1>12. 0 \in S
    <2>1. Upto(0) = {}
      OBVIOUS
    <2> HIDE DEF X, Upto
    <2> QED  BY <1>7, <1>11, <2>1
  <1>13. ASSUME NEW i \in Nat, i \in S
         PROVE  i + 1 \in S
    <2> SUFFICES ASSUME i + 1 <= old
                 PROVE  Good(i + 1)
      OBVIOUS
    <2>1. i + 1 \in 1 .. old /\ i + 1 - 1 = i /\ i \in 0 .. old - 1
      OBVIOUS
    <2>2. Good(i)
      <3> HIDE DEF X, Upto
      <3> QED  BY <1>13
    <2>3. PICK chain : chain = chains[i]
      OBVIOUS
    <2>4. table[i + 1] \in X /\ Poured(table[i], table[i + 1], chain)
      <3> HIDE DEF X, Next1, Upto
      <3>1. table[i + 1] = Next1(table[i], i + 1)
        BY <1>11, <2>1
      <3>2. Next1(table[i], i + 1) \in X /\ Poured(table[i], Next1(table[i], i + 1), chains[i + 1 - 1])
        BY <1>6, <2>1, <2>2
      <3> QED  BY <2>1, <2>3, <3>1, <3>2
    <2>5. Upto(i + 1) = Upto(i) \cup Elems(chain)
      <3>1. \A b : b \in 0 .. i + 1 - 1 <=> b \in 0 .. i - 1 \/ b = i
        OBVIOUS
      <3> QED  BY <2>3, <3>1
    <2>6. ASSUME Spread(chains)
          PROVE  Distinct(chain) /\ Elems(chain) \cap Upto(i) = {}
      <3>1. \A b \in 0 .. i - 1 : b \in 0 .. old - 1 /\ b # i
        OBVIOUS
      <3>2. DOMAIN chains = 0 .. old - 1
        OBVIOUS
      <3>3. \A b \in 0 .. i - 1 : Elems(chains[b]) \cap Elems(chain) = {}
        BY <2>1, <2>3, <2>6, <3>1, <3>2 DEF Spread
      <3> QED  BY <2>1, <2>3, <2>6, <3>2, <3>3 DEF Spread
    <2> HIDE DEF X, Upto
    <2> QED  BY <2>2, <2>4, <2>5, <2>6 DEF Poured
  <1>14. Nat \subseteq S
    <2> HIDE DEF S
    <2> QED  BY <1>12, <1>13, Induction
  <1>15. Good(old)
    <2> HIDE DEF X, Upto
    <2> QED  BY <1>14
  <1>16. Upto(old) = Entries(chains)
    <2>1. DOMAIN chains = 0 .. old - 1
      OBVIOUS
    <2> QED  BY <2>1 DEF Entries
  <1> HIDE DEF Upto
  <1> QED  BY <1>1, <1>2, <1>10, <1>15, <1>16
-----------------------------------------------------------------------------
(* The cache's chains and lists: an entry taken out, added or replaced.      *)

\* What is left of q without e, and with e.
Without(q, r, e) == Distinct(r) /\ Elems(r) = Elems(q) \ {e}
With(q, r, e) == Distinct(r) /\ Elems(r) = Elems(q) \cup {e}

LEMMA RemoveAtElems ==
    ASSUME NEW S, NEW q \in Seq(S), NEW i \in 1 .. Len(q)
    PROVE  /\ Cache!RemoveAt(q, i) \in Seq(S)
           /\ Distinct(q) => Without(q, Cache!RemoveAt(q, i), q[i])
  <1> DEFINE left == SubSeq(q, 1, i - 1)
             right == SubSeq(q, i + 1, Len(q))
             r == left \o right
  <1>1. Len(q) \in Nat /\ i \in Nat /\ i <= Len(q) /\ i >= 1
    OBVIOUS
  <1>2. left \in Seq(S) /\ Len(left) = i - 1 /\ \A j \in 1 .. i - 1 : left[j] = q[j]
    <2>1. \A j \in 1 .. i - 1 : q[j] \in S
      BY <1>1
    <2> QED  BY <1>1, <2>1, SubSeqProperties
  <1>3. /\ right \in Seq(S) /\ Len(right) = Len(q) - i
        /\ \A j \in 1 .. Len(q) - i : right[j] = q[j + i]
    <2>1. \A j \in i + 1 .. Len(q) : q[j] \in S
      BY <1>1
    <2> QED  BY <1>1, <2>1, SubSeqProperties
  <1> HIDE DEF left, right
  <1>4. r \in Seq(S) /\ Len(r) = Len(q) - 1
    <2>1. r \in Seq(S) /\ Len(r) = Len(left) + Len(right)
      BY <1>2, <1>3, ConcatProperties
    <2> QED  BY <1>1, <1>2, <1>3, <2>1
  <1>5. \A j \in 1 .. Len(q) - 1 : r[j] = IF j < i THEN q[j] ELSE q[j + 1]
    <2> SUFFICES ASSUME NEW j \in 1 .. Len(q) - 1
                 PROVE  r[j] = IF j < i THEN q[j] ELSE q[j + 1]
      OBVIOUS
    <2>1. CASE j < i
      <3>1. j \in 1 .. i - 1
        BY <1>1, <2>1
      <3> QED  BY <1>2, <1>3, <2>1, <3>1
    <2>2. CASE ~ (j < i)
      <3>1. j - (i - 1) \in 1 .. Len(q) - i /\ j - (i - 1) + i = j + 1
        BY <1>1, <2>2
      <3>2. r[j] = right[j - (i - 1)]
        BY <1>1, <1>2, <1>3, <2>2
      <3> QED  BY <1>3, <2>2, <3>1, <3>2
    <2> QED  BY <2>1, <2>2
  <1>6. Cache!RemoveAt(q, i) = r
    BY DEF Cache!RemoveAt, left, right
  <1> HIDE DEF r
  <1>7. ASSUME Distinct(q)
        PROVE  Without(q, r, q[i])
    <2> DEFINE at(j) == IF j < i THEN j ELSE j + 1
    <2>1. \A j \in 1 .. Len(r) : at(j) \in 1 .. Len(q) /\ at(j) # i /\ r[j] = q[at(j)]
      BY <1>1, <1>4, <1>5
    <2>2. \A j, k \in 1 .. Len(r) : at(j) = at(k) => j = k
      BY <1>1
    <2>3. \A m \in 1 .. Len(q) : m # i => \E j \in 1 .. Len(r) : at(j) = m
      <3> SUFFICES ASSUME NEW m \in 1 .. Len(q), m # i
                   PROVE  \E j \in 1 .. Len(r) : at(j) = m
        OBVIOUS
      <3>1. CASE m < i
        BY <1>1, <1>4, <3>1
      <3>2. CASE m > i
        <4>1. m - 1 \in 1 .. Len(r) /\ at(m - 1) = m
          BY <1>1, <1>4, <3>2
        <4> QED  BY <4>1
      <3> QED  BY <1>1, <3>1, <3>2
    <2> HIDE DEF at
    <2>4. Distinct(r)
      BY <1>7, <2>1, <2>2 DEF Distinct
    <2>5. \A x \in Elems(r) : x \in Elems(q) /\ x # q[i]
      <3> SUFFICES ASSUME NEW j \in 1 .. Len(r)
                   PROVE  r[j] \in Elems(q) /\ r[j] # q[i]
        BY DEF Elems
      <3> QED  BY <1>7, <2>1 DEF Elems, Distinct
    <2>6. \A x \in Elems(q) : x # q[i] => x \in Elems(r)
      <3> SUFFICES ASSUME NEW m \in 1 .. Len(q), m # i
                   PROVE  q[m] \in Elems(r)
        BY DEF Elems
      <3>1. PICK j \in 1 .. Len(r) : at(j) = m
        BY <2>3
      <3> QED  BY <2>1, <3>1 DEF Elems
    <2> QED  BY <2>4, <2>5, <2>6 DEF Without
  <1> QED  BY <1>4, <1>6, <1>7

LEMMA RemoveFirstElems ==
    ASSUME NEW S, NEW q \in Seq(S), Distinct(q), NEW e
    PROVE  /\ Cache!RemoveFirst(q, e) \in Seq(S)
           /\ Without(q, Cache!RemoveFirst(q, e), e)
  <1> DEFINE I == {i \in 1 .. Len(q) : q[i] = e}
  <1>1. CASE I = {}
    <2>1. Cache!RemoveFirst(q, e) = q
      BY <1>1 DEF Cache!RemoveFirst
    <2>2. e \notin Elems(q)
      BY <1>1 DEF Elems
    <2> QED  BY <2>1, <2>2 DEF Without
  <1>2. CASE I # {}
    <2>1. PICK i : i = Cache!Min(I)
      OBVIOUS
    <2>2. i \in I
      <3>1. I \subseteq Nat
        OBVIOUS
      <3> HIDE DEF I
      <3> QED  BY <1>2, <2>1, <3>1, MinIsIn
    <2>3. Cache!SelectInSeq(q, LAMBDA v : v = e) = i
      BY <1>2, <2>1 DEF Cache!SelectInSeq
    <2>4. Cache!RemoveFirst(q, e) = Cache!RemoveAt(q, i)
      BY <2>2, <2>3 DEF Cache!RemoveFirst
    <2> QED  BY <2>2, <2>4, RemoveAtElems
  <1> QED  BY <1>1, <1>2

LEMMA AppendElems ==
    ASSUME NEW S, NEW q \in Seq(S), Distinct(q), NEW e \in S, e \notin Elems(q)
    PROVE  Append(q, e) \in Seq(S) /\ With(q, Append(q, e), e)
  <1> DEFINE r == Append(q, e)
  <1>1. /\ r \in Seq(S) /\ Len(q) \in Nat /\ Len(r) = Len(q) + 1 /\ r[Len(q) + 1] = e
        /\ \A i \in 1 .. Len(q) : r[i] = q[i]
    OBVIOUS
  <1> HIDE DEF r
  <1>2. \A i : i \in 1 .. Len(r) <=> i \in 1 .. Len(q) \/ i = Len(q) + 1
    BY <1>1
  <1>3. \A i \in 1 .. Len(q) : q[i] # e
    BY DEF Elems
  <1>4. Distinct(r)
    BY <1>1, <1>2, <1>3 DEF Distinct
  <1>5. \A x : x \in Elems(r) <=> x \in Elems(q) \cup {e}
    BY <1>1, <1>2 DEF Elems
  <1> QED  BY <1>1, <1>4, <1>5 DEF With, r

LEMMA ReplaceElems ==
    ASSUME NEW S, NEW q \in Seq(S), Distinct(q), NEW e \in S, e \notin Elems(q), NEW i \in 1 .. Len(q)
    PROVE  /\ Cache!ReplaceAt(q, i, e) \in Seq(S) /\ Distinct(Cache!ReplaceAt(q, i, e))
           /\ Elems(Cache!ReplaceAt(q, i, e)) = (Elems(q) \ {q[i]}) \cup {e}
  <1>1. Len(q) \in Nat /\ DOMAIN q = 1 .. Len(q) /\ q \in [1 .. Len(q) -> S]
    OBVIOUS
  <1>2. PICK r : r = Cache!ReplaceAt(q, i, e)
    OBVIOUS
  <1>3. r \in [1 .. Len(q) -> S] /\ \A j \in 1 .. Len(q) : r[j] = IF j = i THEN e ELSE q[j]
    BY <1>1, <1>2 DEF Cache!ReplaceAt
  <1>4. r \in Seq(S) /\ Len(r) = Len(q)
    BY <1>1, <1>3
  <1>5. \A j \in 1 .. Len(q) : q[j] # e
    BY DEF Elems
  <1>6. Distinct(r)
    BY <1>3, <1>4, <1>5 DEF Distinct
  <1>7. \A x : x \in Elems(r) <=> x \in (Elems(q) \ {q[i]}) \cup {e}
    BY <1>3, <1>4 DEF Elems, Distinct
  <1> QED  BY <1>2, <1>4, <1>6, <1>7

\* A chain is put in the place of another.
ChainAt(t, b, c) == [t EXCEPT ![b] = c]

LEMMA ChainPut ==
    ASSUME NEW A, NEW D, NEW t \in [D -> Seq(A)], NEW b \in D, NEW c \in Seq(A), Spread(t),
           Distinct(c), Elems(c) \cap (Entries(t) \ Elems(t[b])) = {}
    PROVE  /\ ChainAt(t, b, c) \in [D -> Seq(A)] /\ Spread(ChainAt(t, b, c))
           /\ Entries(ChainAt(t, b, c)) = (Entries(t) \ Elems(t[b])) \cup Elems(c)
  <1> DEFINE r == [t EXCEPT ![b] = c]
  <1>1. r \in [D -> Seq(A)] /\ r[b] = c /\ \A x \in D \ {b} : r[x] = t[x]
    OBVIOUS
  <1>2. DOMAIN r = D /\ DOMAIN t = D
    OBVIOUS
  <1> HIDE DEF r
  <1>3. \A x \in D \ {b} : Elems(t[x]) \cap Elems(t[b]) = {}
    BY <1>2 DEF Spread
  <1>4. \A x \in D \ {b} : Elems(t[x]) \subseteq Entries(t) \ Elems(t[b])
    BY <1>2, <1>3 DEF Entries
  <1>5. \A x \in D : Distinct(r[x])
    BY <1>1, <1>2 DEF Spread
  <1>6. \A x, y \in D : Elems(r[x]) \cap Elems(r[y]) # {} => x = y
    <2> SUFFICES ASSUME NEW x \in D, NEW y \in D, x # y, Elems(r[x]) \cap Elems(r[y]) # {}
                 PROVE  FALSE
      OBVIOUS
    <2>1. CASE x = b
      BY <1>1, <1>4, <2>1
    <2>2. CASE y = b
      BY <1>1, <1>4, <2>2
    <2>3. CASE x # b /\ y # b
      BY <1>1, <1>2, <2>3 DEF Spread
    <2> QED  BY <2>1, <2>2, <2>3
  <1>7. Spread(r)
    BY <1>2, <1>5, <1>6 DEF Spread
  <1>8. \A e : e \in Entries(r) <=> e \in (Entries(t) \ Elems(t[b])) \cup Elems(c)
    <2> SUFFICES ASSUME NEW e
                 PROVE  e \in Entries(r) <=> e \in (Entries(t) \ Elems(t[b])) \cup Elems(c)
      OBVIOUS
    <2>1. e \in Entries(r) <=> \E x \in D : e \in Elems(r[x])
      BY <1>2 DEF Entries
    <2>2. e \in Entries(t) <=> \E x \in D : e \in Elems(t[x])
      BY <1>2 DEF Entries
    <2>3. ASSUME NEW x \in D \ {b}, e \in Elems(r[x])
          PROVE  e \in Entries(t) \ Elems(t[b])
      BY <1>1, <1>4, <2>3
    <2>4. ASSUME NEW x \in D, e \in Elems(t[x]), e \notin Elems(t[b])
          PROVE  x # b /\ e \in Elems(r[x])
      BY <1>1, <2>4
    <2> QED  BY <1>1, <2>1, <2>2, <2>3, <2>4
  <1> QED  BY <1>1, <1>7, <1>8 DEF r, ChainAt
-----------------------------------------------------------------------------
(* The cache's invariant, over what its variables hold.                      *)

CachedIn(nodes) == {x \in Cache!Addresses : nodes[x].in_cache}
Nodes == [key : Keys \cup {Cache!Free.key}, charge : Nat, refs : Nat, in_cache : BOOLEAN]

\* A node lives as long as someone refers to it, on the list its references call for.
Counted(nodes, hands, mk) ==
  \A x \in Cache!Addresses :
     nodes[x].refs = hands[x] + (IF x = mk THEN 1 ELSE 0) + (IF nodes[x].in_cache THEN 1 ELSE 0)
OnLists(lru, used, nodes) ==
  /\ Elems(lru) = {x \in CachedIn(nodes) : nodes[x].refs = 1}
  /\ Elems(used) = {x \in CachedIn(nodes) : nodes[x].refs > 1}
  /\ Distinct(lru) /\ Distinct(used)

ListsGood(lru, used, nodes, hands, mk) ==
  /\ lru \in Seq(Cache!Addresses) /\ used \in Seq(Cache!Addresses)
  /\ nodes \in [Cache!Addresses -> Nodes] /\ hands \in [Cache!Addresses -> Nat]
  /\ Counted(nodes, hands, mk) /\ OnLists(lru, used, nodes)

\* The chains hold the cached nodes; until they grow, each where its key says.
Buckets(w) == 0 .. w - 1
InPlace(list, w, nodes, x) ==
  /\ x \in Elems(list[HashOf[nodes[x].key] % w])
  /\ \A y \in CachedIn(nodes) : nodes[y].key = nodes[x].key => y = x

TableGood(list, w, elems, nodes) ==
  /\ w \in Nat /\ list \in [Buckets(w) -> Seq(Cache!Addresses)]
  /\ Spread(list) /\ Entries(list) = CachedIn(nodes)
  /\ elems = Cardinality(CachedIn(nodes))
  /\ \A x \in CachedIn(nodes) : nodes[x].key \in Keys
  /\ w <= MinLength => \A x \in CachedIn(nodes) : InPlace(list, w, nodes, x)

UsageGood(usage, nodes) ==
  usage = Cardinality(Weights([x \in Cache!Addresses |-> nodes[x].charge], CachedIn(nodes)))

CacheInv ==
  /\ capacity_ \in Nat
  /\ ListsGood(lru_, in_usage_, node, handles, made)
  /\ \E w \in Nat : TableGood(list_, w, elems_, node) /\ (pc \in {"idle", "evict", "prune"} => w >= MinLength)
  /\ UsageGood(usage_, node)
  /\ IF pc = "evict" THEN made \in Cache!Addresses ELSE pc # "aborted" => made = Cache!Null
  /\ pc \in {"idle", "evict", "prune", "destroyed", "aborted"}

LEMMA CacheSets == \A nodes : IsFiniteSet(CachedIn(nodes)) /\ Cardinality(CachedIn(nodes)) \in Nat
                              /\ CachedIn(nodes) \subseteq Cache!Addresses
  <1>1. IsFiniteSet(1 .. MaxNodes)
    BY Assumptions, FS_Interval DEF Cache!CacheAssumption
  <1> QED  BY <1>1, FS_Subset, FS_CardinalityType DEF CachedIn, Cache!Addresses

LEMMA NodeFacts ==
    /\ Cache!Null \notin Cache!Addresses /\ Cache!Free \in Nodes
    /\ Cache!Free.refs = 0 /\ Cache!Free.in_cache = FALSE
  <1>1. Cache!Null = 0 /\ 0 \notin 1 .. MaxNodes
    BY DEF Cache!Null
  <1> QED  BY <1>1 DEF Cache!Addresses, Nodes, Cache!Free

\* A node is erased.
Off(nodes, e) == [nodes EXCEPT ![e] = Cache!Erased(nodes[e])]

\* What is erased is off its list and has one reference less.
LEMMA EraseLists ==
    ASSUME NEW lru, NEW used, NEW nodes, NEW hands, NEW mk, ListsGood(lru, used, nodes, hands, mk),
           NEW e \in CachedIn(nodes)
    PROVE  /\ ListsGood(Cache!RemoveFirst(lru, e), Cache!RemoveFirst(used, e),
                        Off(nodes, e), hands, mk)
           /\ CachedIn(Off(nodes, e)) = CachedIn(nodes) \ {e}
  <1> DEFINE A == Cache!Addresses
             gone == Cache!Erased(nodes[e])
             later == [nodes EXCEPT ![e] = gone]
  <1>1. e \in A /\ nodes[e] \in Nodes /\ nodes[e].in_cache /\ nodes[e].refs \in Nat
    BY DEF CachedIn, ListsGood, Nodes
  <1>2. nodes[e].refs >= 1
    <2>1. nodes[e].refs = hands[e] + (IF e = mk THEN 1 ELSE 0) + 1
      BY <1>1 DEF ListsGood, Counted
    <2>2. hands[e] \in Nat
      BY <1>1 DEF ListsGood
    <2> QED  BY <2>1, <2>2
  <1>3. gone \in Nodes /\ gone.in_cache = FALSE /\ gone.refs = nodes[e].refs - 1
    <2>1. PICK off : off = [nodes[e] EXCEPT !.in_cache = FALSE]
      OBVIOUS
    <2>2. off \in Nodes /\ off.in_cache = FALSE /\ off.refs = nodes[e].refs
      BY <1>1, <2>1 DEF Nodes
    <2>3. CASE off.refs = 1
      BY <2>1, <2>2, <2>3, NodeFacts DEF Cache!Erased, Cache!Dropped
    <2>4. CASE off.refs # 1
      <3>1. PICK less : less = [off EXCEPT !.refs = @ - 1]
        OBVIOUS
      <3>2. off.refs - 1 \in Nat
        BY <1>1, <1>2, <2>2
      <3>3. less \in Nodes /\ less.in_cache = FALSE /\ less.refs = off.refs - 1
        BY <2>2, <3>1, <3>2 DEF Nodes
      <3> QED  BY <2>1, <2>2, <2>4, <3>1, <3>3 DEF Cache!Erased, Cache!Dropped
    <2> QED  BY <2>3, <2>4
  <1> HIDE DEF gone
  <1>4. later \in [A -> Nodes] /\ later[e] = gone /\ \A x \in A \ {e} : later[x] = nodes[x]
    BY <1>1, <1>3 DEF ListsGood
  <1> HIDE DEF later
  <1>5. CachedIn(later) = CachedIn(nodes) \ {e}
    BY <1>1, <1>3, <1>4 DEF CachedIn
  <1>6. Counted(later, hands, mk)
    <2> SUFFICES ASSUME NEW x \in A
                 PROVE  later[x].refs = hands[x] + (IF x = mk THEN 1 ELSE 0) + (IF later[x].in_cache THEN 1 ELSE 0)
      BY DEF Counted
    <2>1. /\ nodes[x].refs = hands[x] + (IF x = mk THEN 1 ELSE 0) + (IF nodes[x].in_cache THEN 1 ELSE 0)
          /\ hands[x] \in Nat
      BY DEF ListsGood, Counted
    <2>2. CASE x = e
      BY <1>1, <1>3, <1>4, <2>1, <2>2
    <2>3. CASE x # e
      BY <1>4, <2>1, <2>3
    <2> QED  BY <2>2, <2>3
  <1>7. /\ Cache!RemoveFirst(lru, e) \in Seq(A) /\ Without(lru, Cache!RemoveFirst(lru, e), e)
        /\ Cache!RemoveFirst(used, e) \in Seq(A) /\ Without(used, Cache!RemoveFirst(used, e), e)
    <2>1. lru \in Seq(A) /\ used \in Seq(A) /\ Distinct(lru) /\ Distinct(used)
      BY DEF ListsGood, OnLists
    <2> HIDE DEF A
    <2> QED  BY <2>1, RemoveFirstElems
  <1>8. OnLists(Cache!RemoveFirst(lru, e), Cache!RemoveFirst(used, e), later)
    <2>1. \A x \in CachedIn(later) : later[x].refs = nodes[x].refs
      BY <1>4, <1>5, CacheSets
    <2>2. Elems(Cache!RemoveFirst(lru, e)) = {x \in CachedIn(later) : later[x].refs = 1}
      BY <1>5, <1>7, <2>1 DEF ListsGood, OnLists, Without
    <2>3. Elems(Cache!RemoveFirst(used, e)) = {x \in CachedIn(later) : later[x].refs > 1}
      BY <1>5, <1>7, <2>1 DEF ListsGood, OnLists, Without
    <2> QED  BY <1>7, <2>2, <2>3 DEF OnLists, Without
  <1>9. ListsGood(Cache!RemoveFirst(lru, e), Cache!RemoveFirst(used, e), later, hands, mk)
    BY <1>4, <1>6, <1>7, <1>8 DEF ListsGood
  <1> QED  BY <1>5, <1>9 DEF later, gone, Off

\* The same entries are cached but e, and they are what they were.
CachedWithout(nodes, later, e) == /\ CachedIn(later) = CachedIn(nodes) \ {e}
                                  /\ \A x \in CachedIn(later) : later[x] = nodes[x]

LEMMA UsageErase ==
    ASSUME NEW nodes \in [Cache!Addresses -> Nodes], NEW later \in [Cache!Addresses -> Nodes],
           NEW e \in CachedIn(nodes), CachedWithout(nodes, later, e), NEW usage, UsageGood(usage, nodes)
    PROVE  UsageGood(usage - nodes[e].charge, later)
  <1> DEFINE A == Cache!Addresses
             f == [x \in A |-> nodes[x].charge]
             g == [x \in A |-> later[x].charge]
             C == CachedIn(later)
  <1>1. f \in [A -> Nat] /\ g \in [A -> Nat] /\ e \in A
    BY DEF Nodes, CachedIn
  <1>2. C \subseteq A /\ IsFiniteSet(C) /\ CachedIn(nodes) = C \cup {e} /\ e \in A \ C
    BY <1>1, CacheSets DEF CachedWithout
  <1>3. \A x \in C : g[x] = f[x]
    BY <1>2 DEF CachedWithout
  <1>4. f[e] = nodes[e].charge
    BY <1>1
  <1> HIDE DEF f, g, C
  <1>5. Weights(f, C) = Weights(g, C)
    BY <1>3 DEF Weights
  <1>6. /\ Cardinality(Weights(f, C)) \in Nat
        /\ Cardinality(Weights(f, C \cup {e})) = Cardinality(Weights(f, C)) + f[e]
    BY <1>1, <1>2, WeightsAdd
  <1>7. usage = Cardinality(Weights(f, C)) + f[e] /\ f[e] \in Nat
    BY <1>1, <1>2, <1>6 DEF UsageGood, f
  <1>8. usage - f[e] = Cardinality(Weights(g, C))
    BY <1>5, <1>6, <1>7
  <1> QED  BY <1>4, <1>8 DEF UsageGood, g, C

LEMMA UsageInsert ==
    ASSUME NEW nodes \in [Cache!Addresses -> Nodes], NEW later \in [Cache!Addresses -> Nodes],
           NEW e \in CachedIn(later), CachedWithout(later, nodes, e), NEW usage, UsageGood(usage, nodes)
    PROVE  UsageGood(usage + later[e].charge, later)
  <1> DEFINE A == Cache!Addresses
             f == [x \in A |-> nodes[x].charge]
             g == [x \in A |-> later[x].charge]
             C == CachedIn(nodes)
  <1>1. f \in [A -> Nat] /\ g \in [A -> Nat] /\ e \in A
    BY DEF Nodes, CachedIn
  <1>2. C \subseteq A /\ IsFiniteSet(C) /\ CachedIn(later) = C \cup {e} /\ e \in A \ C
    BY <1>1, CacheSets DEF CachedWithout
  <1>3. \A x \in C : g[x] = f[x]
    BY <1>2 DEF CachedWithout
  <1>4. g[e] = later[e].charge
    BY <1>1
  <1> HIDE DEF f, g, C
  <1>5. Weights(f, C) = Weights(g, C)
    BY <1>3 DEF Weights
  <1>6. Cardinality(Weights(g, C \cup {e})) = Cardinality(Weights(g, C)) + g[e]
    BY <1>1, <1>2, WeightsAdd
  <1>7. usage = Cardinality(Weights(f, C))
    BY DEF UsageGood, f, C
  <1>8. usage + g[e] = Cardinality(Weights(g, C \cup {e}))
    BY <1>5, <1>6, <1>7
  <1> QED  BY <1>2, <1>4, <1>8 DEF UsageGood, g, C

LEMMA CachedErase ==
    ASSUME NEW nodes, NEW later, NEW e \in CachedIn(nodes), CachedWithout(nodes, later, e)
    PROVE  Cardinality(CachedIn(later)) = Cardinality(CachedIn(nodes)) - 1
  BY CacheSets, FS_RemoveElement DEF CachedWithout

\* An entry is taken out of its chain.
LEMMA TableErase ==
    ASSUME NEW list, NEW w, NEW elems, NEW nodes, TableGood(list, w, elems, nodes),
           NEW b \in Buckets(w), NEW i \in 1 .. Len(list[b]), NEW e, e = list[b][i],
           NEW later, CachedWithout(nodes, later, e)
    PROVE  TableGood([list EXCEPT ![b] = Cache!RemoveAt(list[b], i)], w, elems - 1, later)
  <1> DEFINE A == Cache!Addresses
             c == Cache!RemoveAt(list[b], i)
             t == ChainAt(list, b, c)
  <1>1. /\ w \in Nat /\ list \in [Buckets(w) -> Seq(A)] /\ Spread(list)
        /\ Entries(list) = CachedIn(nodes) /\ elems = Cardinality(CachedIn(nodes))
    BY DEF TableGood
  <1>2. DOMAIN list = Buckets(w) /\ list[b] \in Seq(A)
    BY <1>1
  <1>3. Distinct(list[b]) /\ e \in Elems(list[b])
    BY <1>1, <1>2 DEF Spread, Elems
  <1>4. c \in Seq(A) /\ Without(list[b], c, e)
    <2> HIDE DEF A
    <2> QED  BY <1>2, <1>3, RemoveAtElems
  <1>5. e \in CachedIn(nodes)
    BY <1>1, <1>2, <1>3 DEF Entries
  <1> HIDE DEF c
  <1>6. /\ t \in [Buckets(w) -> Seq(A)] /\ Spread(t)
        /\ Entries(t) = (Entries(list) \ Elems(list[b])) \cup Elems(c)
    <2>1. Distinct(c) /\ Elems(c) \cap (Entries(list) \ Elems(list[b])) = {}
      BY <1>4 DEF Without
    <2> HIDE DEF A
    <2> QED  BY <1>1, <1>4, <2>1, ChainPut
  <1>7. Entries(t) = CachedIn(later)
    <2>1. Elems(list[b]) \subseteq Entries(list)
      BY <1>2 DEF Entries
    <2>2. Elems(c) = Elems(list[b]) \ {e}
      BY <1>4 DEF Without
    <2>3. Entries(t) = Entries(list) \ {e}
      <3> HIDE DEF t
      <3> QED  BY <1>3, <1>6, <2>1, <2>2
    <2> QED  BY <1>1, <2>3 DEF CachedWithout
  <1>8. \A d \in Buckets(w) : Elems(t[d]) = Elems(list[d]) \ {e}
    <2>1. t[b] = c /\ \A d \in Buckets(w) \ {b} : t[d] = list[d]
      BY <1>1 DEF ChainAt
    <2>2. \A d \in Buckets(w) \ {b} : e \notin Elems(list[d])
      BY <1>1, <1>2, <1>3 DEF Spread
    <2> QED  BY <1>4, <2>1, <2>2 DEF Without
  <1>9. elems - 1 = Cardinality(CachedIn(later))
    BY <1>1, <1>5, CachedErase
  <1>10. \A x \in CachedIn(later) : later[x].key \in Keys
    BY DEF TableGood, CachedWithout
  <1>11. ASSUME w <= MinLength, NEW x \in CachedIn(later)
         PROVE  InPlace(t, w, later, x)
    <2>1. x \in CachedIn(nodes) \ {e} /\ later[x] = nodes[x] /\ InPlace(list, w, nodes, x)
      BY <1>11 DEF CachedWithout, TableGood
    <2>2. \A y \in CachedIn(later) : y \in CachedIn(nodes) /\ later[y] = nodes[y]
      BY DEF CachedWithout
    <2>3. HashOf[nodes[x].key] % w \in Buckets(w)
      <3>1. PICK h \in Nat : h = HashOf[nodes[x].key]
        BY <1>10, <1>11, <2>1, Assumptions DEF Cache!CacheAssumption
      <3>2. w > 0
        BY <1>1 DEF Buckets
      <3>3. h % w \in 0 .. w - 1
        BY <1>1, <3>2
      <3> QED  BY <3>1, <3>3 DEF Buckets
    <2>4. x \in Elems(t[HashOf[nodes[x].key] % w])
      BY <1>8, <2>1, <2>3 DEF InPlace
    <2> QED  BY <2>1, <2>2, <2>4 DEF InPlace
  <1> HIDE DEF t
  <1>12. TableGood(t, w, elems - 1, later)
    BY <1>1, <1>6, <1>7, <1>9, <1>10, <1>11 DEF TableGood
  <1> QED  BY <1>12 DEF t, c, ChainAt

\* FindPointer and Find over a chain.
PlacesIn(c, nodes, k) == {i \in 1 .. Len(c) : nodes[c[i]].key = k}
FirstIn(c, nodes, k) == Cache!Min(PlacesIn(c, nodes, k) \cup {Len(c) + 1})
FoundIn(c, nodes, k) == IF PlacesIn(c, nodes, k) = {} THEN Cache!Null ELSE c[FirstIn(c, nodes, k)]

LEMMA Found ==
    ASSUME NEW A, Cache!Null \notin A, NEW c \in Seq(A), NEW nodes, NEW k
    PROVE  IF FoundIn(c, nodes, k) = Cache!Null
           THEN PlacesIn(c, nodes, k) = {} /\ \A x \in Elems(c) : nodes[x].key # k
           ELSE /\ FirstIn(c, nodes, k) \in 1 .. Len(c) /\ PlacesIn(c, nodes, k) # {}
                /\ FoundIn(c, nodes, k) = c[FirstIn(c, nodes, k)]
                /\ FoundIn(c, nodes, k) \in Elems(c) /\ nodes[FoundIn(c, nodes, k)].key = k
  <1>1. Len(c) \in Nat /\ \A i \in 1 .. Len(c) : c[i] \in A
    OBVIOUS
  <1>2. CASE PlacesIn(c, nodes, k) = {}
    BY <1>2 DEF PlacesIn, FoundIn, Elems
  <1>3. CASE PlacesIn(c, nodes, k) # {}
    <2> DEFINE P == PlacesIn(c, nodes, k)
               T == P \cup {Len(c) + 1}
    <2>1. P \subseteq 1 .. Len(c) /\ \A i \in P : nodes[c[i]].key = k
      BY DEF PlacesIn
    <2>2. T \subseteq Nat /\ T # {}
      BY <1>1, <2>1
    <2>3. PICK f : f = Cache!Min(T)
      OBVIOUS
    <2>4. f \in T /\ \A y \in T : f <= y
      <3> HIDE DEF T
      <3> QED  BY <2>2, <2>3, MinIsIn
    <2>5. f \in P
      <3>1. PICK y \in P : TRUE
        BY <1>3
      <3>2. f <= y /\ y <= Len(c) /\ y \in Nat
        BY <1>1, <2>1, <2>4, <3>1
      <3>3. f # Len(c) + 1
        BY <1>1, <3>2
      <3> QED  BY <2>4, <3>3
    <2>6. f = FirstIn(c, nodes, k)
      BY <2>3 DEF FirstIn
    <2>7. FoundIn(c, nodes, k) = c[f]
      BY <1>3, <2>6 DEF FoundIn
    <2>8. f \in 1 .. Len(c) /\ nodes[c[f]].key = k /\ c[f] \in A /\ c[f] \in Elems(c)
      BY <1>1, <2>1, <2>5 DEF Elems
    <2> QED  BY <1>3, <2>6, <2>7, <2>8
  <1> QED  BY <1>2, <1>3

LEMMA FindNow ==
    ASSUME NEW w \in Nat \ {0}, NEW A, list_ \in [Buckets(w) -> Seq(A)], NEW k \in Keys
    PROVE  /\ Cache!length_ = w /\ Cache!Bucket(k) = HashOf[k] % w /\ HashOf[k] % w \in Buckets(w)
           /\ Cache!Places(k) = PlacesIn(list_[HashOf[k] % w], node, k)
           /\ Cache!FindPointer(k) = FirstIn(list_[HashOf[k] % w], node, k)
           /\ Cache!Find(k) = FoundIn(list_[HashOf[k] % w], node, k)
  <1>1. Cardinality(0 .. w - 1) = w
    BY FS_Interval
  <1>2. DOMAIN list_ = 0 .. w - 1
    BY DEF Buckets
  <1>3. Cache!length_ = w
    BY <1>1, <1>2, CacheCounting DEF Cache!length_
  <1>4. Cache!Bucket(k) = HashOf[k] % w
    BY <1>3 DEF Cache!Bucket
  <1>5. HashOf[k] % w \in Buckets(w)
    <2>1. PICK h \in Nat : h = HashOf[k]
      BY Assumptions DEF Cache!CacheAssumption
    <2>2. h % w \in 0 .. w - 1
      OBVIOUS
    <2> QED  BY <2>1, <2>2 DEF Buckets
  <1>6. PICK b : b = HashOf[k] % w
    OBVIOUS
  <1>7. Cache!Places(k) = PlacesIn(list_[b], node, k)
    BY <1>4, <1>6 DEF Cache!Places, PlacesIn
  <1>8. Cache!FindPointer(k) = FirstIn(list_[b], node, k)
    BY <1>4, <1>6, <1>7 DEF Cache!FindPointer, FirstIn
  <1>9. Cache!Find(k) = FoundIn(list_[b], node, k)
    BY <1>4, <1>6, <1>7, <1>8 DEF Cache!Find, FoundIn
  <1> QED  BY <1>3, <1>4, <1>5, <1>6, <1>7, <1>8, <1>9
-----------------------------------------------------------------------------
(* The cache's operations keep its invariant.                                *)

InvParts(w) == /\ w \in Nat /\ TableGood(list_, w, elems_, node)
               /\ pc \in {"idle", "evict", "prune"} => w >= MinLength

LEMMA MinLengthFact == MinLength \in Nat \ {0} /\ \A k \in Keys : HashOf[k] \in Nat
  BY Assumptions DEF Cache!CacheAssumption

LEMMA FoundIsCached ==
    ASSUME CacheInv, pc \in {"idle", "evict", "prune"}, NEW w \in Nat, InvParts(w), NEW k \in Keys
    PROVE  /\ w > 0 /\ list_ \in [Buckets(w) -> Seq(Cache!Addresses)] /\ Spread(list_)
           /\ Entries(list_) = CachedIn(node)
           /\ HashOf[k] % w \in Buckets(w)
           /\ Cache!length_ = w /\ Cache!Bucket(k) = HashOf[k] % w
           /\ Cache!Places(k) = PlacesIn(list_[HashOf[k] % w], node, k)
           /\ Cache!FindPointer(k) = FirstIn(list_[HashOf[k] % w], node, k)
           /\ IF Cache!Find(k) = Cache!Null
              THEN /\ Cache!Places(k) = {}
                   /\ \A x \in Elems(list_[HashOf[k] % w]) : node[x].key # k
              ELSE /\ Cache!Places(k) # {} /\ Cache!FindPointer(k) \in 1 .. Len(list_[HashOf[k] % w])
                   /\ Cache!Find(k) = list_[HashOf[k] % w][Cache!FindPointer(k)]
                   /\ Cache!Find(k) \in CachedIn(node) /\ node[Cache!Find(k)].key = k
  <1> DEFINE A == Cache!Addresses
  <1>1. w > 0 /\ list_ \in [Buckets(w) -> Seq(A)] /\ Spread(list_) /\ Entries(list_) = CachedIn(node)
    BY MinLengthFact DEF InvParts, TableGood
  <1>2. Cache!Null \notin A
    BY NodeFacts
  <1> HIDE DEF A
  <1>3. /\ Cache!length_ = w /\ Cache!Bucket(k) = HashOf[k] % w /\ HashOf[k] % w \in Buckets(w)
        /\ Cache!Places(k) = PlacesIn(list_[HashOf[k] % w], node, k)
        /\ Cache!FindPointer(k) = FirstIn(list_[HashOf[k] % w], node, k)
        /\ Cache!Find(k) = FoundIn(list_[HashOf[k] % w], node, k)
    BY <1>1, FindNow
  <1>4. PICK c : c = list_[HashOf[k] % w]
    OBVIOUS
  <1>5. c \in Seq(A) /\ Elems(c) \subseteq CachedIn(node)
    BY <1>1, <1>3, <1>4 DEF Entries
  <1>6. IF FoundIn(c, node, k) = Cache!Null
        THEN PlacesIn(c, node, k) = {} /\ \A x \in Elems(c) : node[x].key # k
        ELSE /\ FirstIn(c, node, k) \in 1 .. Len(c) /\ PlacesIn(c, node, k) # {}
             /\ FoundIn(c, node, k) = c[FirstIn(c, node, k)]
             /\ FoundIn(c, node, k) \in Elems(c) /\ node[FoundIn(c, node, k)].key = k
    BY <1>2, <1>5, Found
  <1> QED  BY <1>1, <1>3, <1>4, <1>5, <1>6 DEF A

LEMMA EraseKeeps ==
    ASSUME CacheInv, pc \in {"idle", "evict", "prune"}, NEW k \in Keys, Cache!Find(k) # Cache!Null,
           Cache!TableRemove(k), Cache!FinishErase(Cache!Find(k)),
           UNCHANGED <<capacity_, handles, pc, made>>
    PROVE  /\ CacheInv'
           /\ Cache!Find(k) \in CachedIn(node) /\ node[Cache!Find(k)].key = k
           /\ CachedWithout(node, node', Cache!Find(k))
  <1>1. PICK w \in Nat : InvParts(w)
    BY DEF CacheInv, InvParts
  <1>2. PICK e : e = Cache!Find(k)
    OBVIOUS
  <1>3. PICK b : b = HashOf[k] % w
    OBVIOUS
  <1>4. PICK i : i = Cache!FindPointer(k)
    OBVIOUS
  <1>5. /\ b \in Buckets(w) /\ Cache!Bucket(k) = b /\ i \in 1 .. Len(list_[b]) /\ e = list_[b][i]
        /\ e \in CachedIn(node) /\ node[e].key = k /\ list_ \in [Buckets(w) -> Seq(Cache!Addresses)]
    BY <1>1, <1>2, <1>3, <1>4, FoundIsCached
  <1>6. /\ ListsGood(lru_, in_usage_, node, handles, made) /\ UsageGood(usage_, node)
        /\ node \in [Cache!Addresses -> Nodes]
    BY DEF CacheInv, ListsGood
  <1>7. /\ node' = [node EXCEPT ![e] = Cache!Erased(node[e])]
        /\ lru_' = Cache!RemoveFirst(lru_, e) /\ in_usage_' = Cache!RemoveFirst(in_usage_, e)
        /\ usage_' = usage_ - Cache!Refund(e)
    BY <1>2 DEF Cache!FinishErase
  <1>8. Cache!Refund(e) = node[e].charge
    BY <1>2 DEF Cache!Refund
  <1>9. elems_' = elems_ - 1 /\ list_' = [list_ EXCEPT ![b] = Cache!RemoveAt(list_[b], i)]
    BY <1>4, <1>5 DEF Cache!TableRemove
  <1>10. ListsGood(lru_', in_usage_', node', handles', made') /\ CachedIn(node') = CachedIn(node) \ {e}
    <2>1. node' = Off(node, e) /\ handles' = handles /\ made' = made
      BY <1>7 DEF Off
    <2>2. /\ ListsGood(Cache!RemoveFirst(lru_, e), Cache!RemoveFirst(in_usage_, e), Off(node, e), handles, made)
          /\ CachedIn(Off(node, e)) = CachedIn(node) \ {e}
      BY <1>5, <1>6, EraseLists
    <2> QED  BY <1>7, <2>1, <2>2
  <1>11. CachedWithout(node, node', e) /\ node' \in [Cache!Addresses -> Nodes]
    <2>1. node' \in [Cache!Addresses -> Nodes]
      BY <1>10 DEF ListsGood
    <2>2. \A x \in CachedIn(node') : node'[x] = node[x]
      BY <1>6, <1>7, <1>10, CacheSets
    <2> QED  BY <1>10, <2>1, <2>2 DEF CachedWithout
  <1>12. TableGood(list_', w, elems_', node')
    BY <1>1, <1>5, <1>9, <1>11, TableErase DEF InvParts
  <1>13. UsageGood(usage_', node')
    BY <1>5, <1>6, <1>7, <1>8, <1>11, UsageErase
  <1>14. \E v \in Nat : TableGood(list_', v, elems_', node') /\ (pc' \in {"idle", "evict", "prune"} => v >= MinLength)
    BY <1>1, <1>12 DEF InvParts
  <1>15. /\ capacity_' \in Nat /\ pc' \in {"idle", "evict", "prune", "destroyed", "aborted"}
         /\ IF pc' = "evict" THEN made' \in Cache!Addresses ELSE pc' # "aborted" => made' = Cache!Null
    BY DEF CacheInv
  <1>16. CacheInv'
    BY <1>10, <1>13, <1>14, <1>15 DEF CacheInv
  <1> QED  BY <1>2, <1>5, <1>11, <1>16

LEMMA EraseActKeeps ==
    ASSUME CacheInv, NEW k \in Keys, Cache!Erase(k)
    PROVE  CacheInv'
  BY EraseKeeps DEF Cache!Erase

LEMMA ColdestIsCached ==
    ASSUME CacheInv, lru_ # << >>
    PROVE  /\ Head(lru_) \in CachedIn(node) /\ node[Head(lru_)].refs = 1
           /\ node[Head(lru_)].key \in Keys
  <1>1. lru_ \in Seq(Cache!Addresses) /\ Elems(lru_) = {x \in CachedIn(node) : node[x].refs = 1}
    BY DEF CacheInv, ListsGood, OnLists
  <1>2. Head(lru_) = lru_[1] /\ 1 \in 1 .. Len(lru_)
    BY <1>1
  <1>3. Head(lru_) \in Elems(lru_)
    BY <1>2 DEF Elems
  <1> QED  BY <1>1, <1>3 DEF CacheInv, TableGood

LEMMA EraseColdestKeeps ==
    ASSUME CacheInv, lru_ # << >>, pc \in {"evict", "prune"}, Cache!EraseColdest
    PROVE  CacheInv'
  <1>1. PICK k : k = node[Head(lru_)].key
    OBVIOUS
  <1>2. k \in Keys /\ node[Head(lru_)].refs = 1
    BY <1>1, ColdestIsCached
  <1>3. CASE Cache!Find(k) # Cache!Null
    BY <1>1, <1>2, <1>3, EraseKeeps DEF Cache!EraseColdest
  <1>4. CASE Cache!Find(k) = Cache!Null
    <2>1. /\ pc' = "aborted"
          /\ UNCHANGED <<capacity_, usage_, lru_, in_usage_, node, list_, elems_, handles, made>>
      BY <1>1, <1>4 DEF Cache!EraseColdest
    <2> QED  BY <2>1 DEF CacheInv
  <1> QED  BY <1>3, <1>4

LEMMA LoopsKeep ==
    ASSUME CacheInv, Cache!Evict \/ Cache!PruneOne \/ Cache!Prune
    PROVE  CacheInv'
  <1>1. CASE Cache!Evict
    BY <1>1, EraseColdestKeeps DEF Cache!Evict, Cache!OverFull
  <1>2. CASE Cache!PruneOne
    BY <1>2, EraseColdestKeeps DEF Cache!PruneOne
  <1>3. CASE Cache!Prune
    <2>1. /\ pc \in {"idle", "prune"} /\ pc' \in {"idle", "prune"}
          /\ UNCHANGED <<capacity_, usage_, lru_, in_usage_, node, list_, elems_, handles, made>>
      BY <1>3 DEF Cache!Prune
    <2> QED  BY <2>1 DEF CacheInv
  <1> QED  BY <1>1, <1>2, <1>3

\* The tables of cached nodes do not tell apart nodes that differ elsewhere.
LEMMA SameCached ==
    ASSUME NEW nodes \in [Cache!Addresses -> Nodes], NEW later \in [Cache!Addresses -> Nodes],
           CachedIn(later) = CachedIn(nodes),
           \A x \in CachedIn(nodes) : later[x].key = nodes[x].key /\ later[x].charge = nodes[x].charge
    PROVE  /\ \A usage : UsageGood(usage, nodes) => UsageGood(usage, later)
           /\ \A list, w, elems : TableGood(list, w, elems, nodes) => TableGood(list, w, elems, later)
  <1> DEFINE A == Cache!Addresses
             f == [x \in A |-> nodes[x].charge]
             g == [x \in A |-> later[x].charge]
  <1>1. \A x \in CachedIn(nodes) : f[x] = g[x]
    BY CacheSets
  <1> HIDE DEF f, g
  <1>2. Weights(f, CachedIn(nodes)) = Weights(g, CachedIn(later))
    BY <1>1 DEF Weights
  <1>3. \A usage : UsageGood(usage, nodes) => UsageGood(usage, later)
    BY <1>2 DEF UsageGood, f, g
  <1>4. ASSUME NEW list, NEW w, NEW elems, TableGood(list, w, elems, nodes)
        PROVE  TableGood(list, w, elems, later)
    <2>1. ASSUME w <= MinLength, NEW x \in CachedIn(later)
          PROVE  InPlace(list, w, later, x)
      <3>1. InPlace(list, w, nodes, x)
        BY <1>4, <2>1 DEF TableGood
      <3> QED  BY <3>1 DEF InPlace
    <2>2. \A x \in CachedIn(later) : later[x].key \in Keys
      BY <1>4 DEF TableGood
    <2> QED  BY <1>4, <2>1, <2>2 DEF TableGood
  <1> QED  BY <1>3, <1>4

LEMMA NodeChanges ==
    ASSUME CacheInv, NEW e \in Cache!Addresses, NEW r \in Nodes, r.in_cache = node[e].in_cache,
           r.in_cache => r.key = node[e].key /\ r.charge = node[e].charge,
           node' = [node EXCEPT ![e] = r], UNCHANGED <<usage_, list_, elems_>>
    PROVE  /\ node' \in [Cache!Addresses -> Nodes] /\ node'[e] = r
           /\ \A x \in Cache!Addresses \ {e} : node'[x] = node[x]
           /\ CachedIn(node') = CachedIn(node)
           /\ UsageGood(usage_', node')
           /\ \A w : InvParts(w) => TableGood(list_', w, elems_', node')
  <1> DEFINE A == Cache!Addresses
  <1>1. node \in [A -> Nodes]
    BY DEF CacheInv, ListsGood
  <1>2. node' \in [A -> Nodes] /\ node'[e] = r /\ \A x \in A \ {e} : node'[x] = node[x]
    BY <1>1
  <1>3. CachedIn(node') = CachedIn(node)
    BY <1>2 DEF CachedIn
  <1>4. \A x \in CachedIn(node) : node'[x].key = node[x].key /\ node'[x].charge = node[x].charge
    BY <1>2, CacheSets DEF CachedIn
  <1>5. PICK later : later = node'
    OBVIOUS
  <1>6. /\ \A usage : UsageGood(usage, node) => UsageGood(usage, later)
        /\ \A list, w, elems : TableGood(list, w, elems, node) => TableGood(list, w, elems, later)
    BY <1>1, <1>2, <1>3, <1>4, <1>5, SameCached
  <1> QED  BY <1>2, <1>3, <1>5, <1>6 DEF CacheInv, InvParts

LEMMA HandleFacts ==
    ASSUME CacheInv, NEW e \in Cache!Addresses
    PROVE  /\ node[e] \in Nodes /\ node[e].refs \in Nat /\ node[e].in_cache \in BOOLEAN
           /\ handles \in [Cache!Addresses -> Nat] /\ handles[e] \in Nat
           /\ node[e].refs = handles[e] + (IF e = made THEN 1 ELSE 0) + (IF node[e].in_cache THEN 1 ELSE 0)
           /\ pc = "idle" => made = Cache!Null /\ e # made
  BY NodeFacts DEF CacheInv, ListsGood, Counted, Nodes

LEMMA ListFacts ==
    ASSUME CacheInv
    PROVE  /\ lru_ \in Seq(Cache!Addresses) /\ in_usage_ \in Seq(Cache!Addresses)
           /\ Distinct(lru_) /\ Distinct(in_usage_)
           /\ Elems(lru_) = {x \in CachedIn(node) : node[x].refs = 1}
           /\ Elems(in_usage_) = {x \in CachedIn(node) : node[x].refs > 1}
           /\ node \in [Cache!Addresses -> Nodes]
  BY DEF CacheInv, ListsGood, OnLists

\* One handle more or less, and the same nodes cached.
LEMMA CountsKept ==
    ASSUME CacheInv, NEW e \in Cache!Addresses, handles' \in [Cache!Addresses -> Nat],
           \A x \in Cache!Addresses \ {e} : node'[x] = node[x] /\ handles'[x] = handles[x],
           \A x \in Cache!Addresses \ {e} : x = made' <=> x = made,
           node'[e].refs = handles'[e] + (IF e = made' THEN 1 ELSE 0) + (IF node'[e].in_cache THEN 1 ELSE 0)
    PROVE  Counted(node', handles', made')
  <1> SUFFICES ASSUME NEW x \in Cache!Addresses
               PROVE  node'[x].refs = handles'[x] + (IF x = made' THEN 1 ELSE 0)
                                                  + (IF node'[x].in_cache THEN 1 ELSE 0)
    BY DEF Counted
  <1>1. CASE x = e
    BY <1>1
  <1>2. CASE x # e
    BY <1>2, HandleFacts
  <1> QED  BY <1>1, <1>2

LEMMA LookupKeeps ==
    ASSUME CacheInv, NEW k \in Keys, Cache!Lookup(k)
    PROVE  CacheInv'
  <1> DEFINE A == Cache!Addresses
  <1>1. PICK w \in Nat : InvParts(w)
    BY DEF CacheInv, InvParts
  <1>2. PICK e : e = Cache!Find(k)
    OBVIOUS
  <1>3. /\ pc = "idle" /\ e # Cache!Null /\ Cache!MoveOnRef(e)
        /\ node' = [node EXCEPT ![e].refs = @ + 1]
        /\ handles' = [handles EXCEPT ![e] = @ + 1]
        /\ UNCHANGED <<capacity_, usage_, list_, elems_, pc, made>>
    BY <1>2 DEF Cache!Lookup, Cache!Ref
  <1>4. e \in CachedIn(node) /\ e \in A
    BY <1>1, <1>2, <1>3, FoundIsCached, CacheSets
  <1>5. /\ node[e] \in Nodes /\ node[e].refs \in Nat /\ node[e].in_cache
        /\ handles \in [A -> Nat] /\ handles[e] \in Nat /\ e # made /\ made = Cache!Null
        /\ node[e].refs = handles[e] + 1
    BY <1>3, <1>4, HandleFacts DEF CachedIn
  <1>6. PICK r : r = [node[e] EXCEPT !.refs = @ + 1]
    OBVIOUS
  <1>7. /\ r \in Nodes /\ r.in_cache = node[e].in_cache /\ r.key = node[e].key
        /\ r.charge = node[e].charge /\ r.refs = node[e].refs + 1
    <2>1. PICK m \in Nat : m = node[e].refs + 1
      BY <1>5
    <2>2. r = [node[e] EXCEPT !.refs = m]
      BY <1>6, <2>1
    <2> QED  BY <1>5, <2>1, <2>2 DEF Nodes
  <1>8. node' = [node EXCEPT ![e] = r]
    BY <1>3, <1>6
  <1>9. /\ node' \in [A -> Nodes] /\ node'[e] = r /\ \A x \in A \ {e} : node'[x] = node[x]
        /\ CachedIn(node') = CachedIn(node) /\ UsageGood(usage_', node')
        /\ TableGood(list_', w, elems_', node')
    BY <1>1, <1>3, <1>4, <1>7, <1>8, NodeChanges
  <1>10. /\ handles' \in [A -> Nat] /\ handles'[e] = handles[e] + 1
         /\ \A x \in A \ {e} : handles'[x] = handles[x]
    BY <1>3, <1>4, <1>5
  <1>11. Counted(node', handles', made')
    <2>1. \A x \in A \ {e} : node'[x] = node[x] /\ handles'[x] = handles[x] /\ (x = made' <=> x = made)
      BY <1>3, <1>9, <1>10
    <2>2. node'[e].refs = handles'[e] + (IF e = made' THEN 1 ELSE 0) + (IF node'[e].in_cache THEN 1 ELSE 0)
      BY <1>3, <1>5, <1>7, <1>9, <1>10
    <2> QED  BY <1>4, <1>10, <2>1, <2>2, CountsKept
  <1>12. OnLists(lru_', in_usage_', node') /\ lru_' \in Seq(A) /\ in_usage_' \in Seq(A)
    <2>1. \A x \in CachedIn(node) : x # e => node'[x].refs = node[x].refs
      BY <1>9, CacheSets
    <2>2. CASE node[e].refs = 1
      <3>1. lru_' = Cache!RemoveFirst(lru_, e) /\ in_usage_' = Append(in_usage_, e)
        BY <1>3, <1>5, <2>2 DEF Cache!MoveOnRef
      <3>2. e \notin Elems(in_usage_)
        BY <2>2, ListFacts
      <3>3. lru_' \in Seq(A) /\ Without(lru_, lru_', e)
        <4> HIDE DEF A
        <4> QED  BY <3>1, ListFacts, RemoveFirstElems DEF A
      <3>4. in_usage_' \in Seq(A) /\ With(in_usage_, in_usage_', e)
        <4>1. in_usage_ \in Seq(A) /\ Distinct(in_usage_)
          BY ListFacts
        <4> HIDE DEF A
        <4> QED  BY <1>4, <3>1, <3>2, <4>1, AppendElems
      <3>5. \A x : x \in Elems(lru_') <=> x \in CachedIn(node') /\ node'[x].refs = 1
        <4>1. Elems(lru_') = {x \in CachedIn(node) : node[x].refs = 1} \ {e}
          BY <3>3, ListFacts DEF Without
        <4>2. node'[e].refs # 1
          BY <1>7, <1>9, <2>2
        <4> QED  BY <1>9, <2>1, <4>1, <4>2
      <3>6. \A x : x \in Elems(in_usage_') <=> x \in CachedIn(node') /\ node'[x].refs > 1
        <4>1. Elems(in_usage_') = {x \in CachedIn(node) : node[x].refs > 1} \cup {e}
          BY <3>4, ListFacts DEF With
        <4>2. node'[e].refs > 1
          BY <1>7, <1>9, <2>2
        <4> QED  BY <1>4, <1>9, <2>1, <4>1, <4>2
      <3> QED  BY <3>3, <3>4, <3>5, <3>6 DEF OnLists, Without, With
    <2>3. CASE node[e].refs # 1
      <3>1. lru_' = lru_ /\ in_usage_' = in_usage_
        BY <1>3, <2>3 DEF Cache!MoveOnRef
      <3>2. node[e].refs > 1 /\ node'[e].refs > 1 /\ node'[e].refs # 1
        BY <1>5, <1>7, <1>9, <2>3
      <3>3. \A x : x \in Elems(lru_') <=> x \in CachedIn(node') /\ node'[x].refs = 1
        BY <1>9, <2>1, <2>3, <3>1, <3>2, ListFacts
      <3>4. \A x : x \in Elems(in_usage_') <=> x \in CachedIn(node') /\ node'[x].refs > 1
        BY <1>9, <2>1, <3>1, <3>2, ListFacts
      <3> QED  BY <3>1, <3>3, <3>4, ListFacts DEF OnLists
    <2> QED  BY <2>2, <2>3
  <1>13. ListsGood(lru_', in_usage_', node', handles', made')
    BY <1>9, <1>10, <1>11, <1>12 DEF ListsGood
  <1>14. capacity_' \in Nat /\ pc' = "idle" /\ made' = Cache!Null
    BY <1>3, <1>5 DEF CacheInv
  <1>15. w >= MinLength
    BY <1>1, <1>3 DEF InvParts
  <1> QED  BY <1>9, <1>13, <1>14, <1>15 DEF CacheInv

LEMMA ReleaseKeeps ==
    ASSUME CacheInv, NEW e \in Cache!Addresses, Cache!Release(e)
    PROVE  CacheInv'
  <1> DEFINE A == Cache!Addresses
  <1>1. PICK w \in Nat : InvParts(w)
    BY DEF CacheInv, InvParts
  <1>2. /\ pc = "idle" /\ handles[e] > 0
        /\ node' = [node EXCEPT ![e] = Cache!Dropped(node[e])]
        /\ handles' = [handles EXCEPT ![e] = @ - 1]
        /\ UNCHANGED <<capacity_, usage_, list_, elems_, pc, made>>
    BY DEF Cache!Release, Cache!Unref
  <1>3. /\ node[e] \in Nodes /\ node[e].refs \in Nat /\ node[e].in_cache \in BOOLEAN
        /\ handles \in [A -> Nat] /\ handles[e] \in Nat /\ e # made /\ made = Cache!Null
        /\ node[e].refs = handles[e] + (IF node[e].in_cache THEN 1 ELSE 0)
    BY <1>2, HandleFacts
  <1>4. PICK r : r = Cache!Dropped(node[e])
    OBVIOUS
  <1>5. node[e].refs > 0 /\ (node[e].refs = 1 => ~node[e].in_cache)
    BY <1>2, <1>3
  <1>6. /\ r \in Nodes /\ r.in_cache = node[e].in_cache /\ r.refs = node[e].refs - 1
        /\ r.in_cache => r.key = node[e].key /\ r.charge = node[e].charge
    <2>1. CASE node[e].refs = 1
      <3>1. r = Cache!Free
        BY <1>4, <2>1 DEF Cache!Dropped
      <3>2. node[e].in_cache = FALSE
        BY <1>3, <1>5, <2>1
      <3>3. r \in Nodes /\ r.refs = 0 /\ r.in_cache = FALSE
        BY <3>1, NodeFacts
      <3>4. ~r.in_cache
        BY <3>3
      <3>5. r.refs = node[e].refs - 1
        BY <2>1, <3>3
      <3>6. r.in_cache = node[e].in_cache
        BY <3>2, <3>3
      <3> QED  BY <3>3, <3>4, <3>5, <3>6
    <2>2. CASE node[e].refs # 1
      <3>1. PICK m \in Nat : m = node[e].refs - 1
        BY <1>3, <1>5
      <3>2. r = [node[e] EXCEPT !.refs = m]
        BY <1>4, <2>2, <3>1 DEF Cache!Dropped
      <3> QED  BY <1>3, <3>1, <3>2 DEF Nodes
    <2> QED  BY <2>1, <2>2
  <1>7. node' = [node EXCEPT ![e] = r]
    BY <1>2, <1>4
  <1>8. /\ node' \in [A -> Nodes] /\ node'[e] = r /\ \A x \in A \ {e} : node'[x] = node[x]
        /\ CachedIn(node') = CachedIn(node) /\ UsageGood(usage_', node')
        /\ TableGood(list_', w, elems_', node')
    BY <1>1, <1>2, <1>6, <1>7, NodeChanges
  <1>9. /\ handles' \in [A -> Nat] /\ handles'[e] = handles[e] - 1
        /\ \A x \in A \ {e} : handles'[x] = handles[x]
    <2>1. PICK m \in Nat : m = handles[e] - 1
      BY <1>2, <1>3
    <2>2. handles' = [handles EXCEPT ![e] = m]
      BY <1>2, <2>1
    <2> QED  BY <1>3, <2>1, <2>2
  <1>10. Counted(node', handles', made')
    <2>1. \A x \in A \ {e} : node'[x] = node[x] /\ handles'[x] = handles[x] /\ (x = made' <=> x = made)
      BY <1>2, <1>8, <1>9
    <2>2. node'[e].refs = handles'[e] + (IF e = made' THEN 1 ELSE 0) + (IF node'[e].in_cache THEN 1 ELSE 0)
      BY <1>2, <1>3, <1>6, <1>8, <1>9
    <2> QED  BY <1>9, <2>1, <2>2, CountsKept
  <1>11. OnLists(lru_', in_usage_', node') /\ lru_' \in Seq(A) /\ in_usage_' \in Seq(A)
    <2>1. \A x \in CachedIn(node) : x # e => node'[x].refs = node[x].refs
      BY <1>8, CacheSets
    <2>2. CASE Cache!Unused(e)
      <3>1. in_usage_' = Cache!RemoveFirst(in_usage_, e) /\ lru_' = Append(Cache!RemoveFirst(lru_, e), e)
        BY <2>2 DEF Cache!Release, Cache!Unref
      <3>2. e \in CachedIn(node) /\ node[e].refs = 2 /\ node'[e].refs = 1
        BY <1>6, <1>8, <2>2 DEF Cache!Unused, CachedIn
      <3>3. PICK rest : rest = Cache!RemoveFirst(lru_, e)
        OBVIOUS
      <3>4. rest \in Seq(A) /\ Without(lru_, rest, e)
        <4> HIDE DEF A
        <4> QED  BY <3>3, ListFacts, RemoveFirstElems DEF A
      <3>5. lru_' \in Seq(A) /\ With(rest, lru_', e)
        <4>1. e \notin Elems(rest) /\ Distinct(rest)
          BY <3>4 DEF Without
        <4> HIDE DEF A
        <4> QED  BY <3>1, <3>3, <3>4, <4>1, AppendElems DEF A
      <3>6. in_usage_' \in Seq(A) /\ Without(in_usage_, in_usage_', e)
        <4> HIDE DEF A
        <4> QED  BY <3>1, ListFacts, RemoveFirstElems DEF A
      <3>7. \A x : x \in Elems(lru_') <=> x \in CachedIn(node') /\ node'[x].refs = 1
        <4>1. Elems(lru_') = ({x \in CachedIn(node) : node[x].refs = 1} \ {e}) \cup {e}
          BY <3>4, <3>5, ListFacts DEF Without, With
        <4> QED  BY <1>8, <2>1, <3>2, <4>1
      <3>8. \A x : x \in Elems(in_usage_') <=> x \in CachedIn(node') /\ node'[x].refs > 1
        <4>1. Elems(in_usage_') = {x \in CachedIn(node) : node[x].refs > 1} \ {e}
          BY <3>6, ListFacts DEF Without
        <4> QED  BY <1>8, <2>1, <3>2, <4>1
      <3> QED  BY <3>5, <3>6, <3>7, <3>8 DEF OnLists, Without, With
    <2>3. CASE ~Cache!Unused(e)
      <3>1. lru_' = lru_ /\ in_usage_' = in_usage_
        BY <2>3 DEF Cache!Release, Cache!Unref
      <3>2. e \in CachedIn(node) => node[e].refs > 1 /\ node'[e].refs > 1
        BY <1>3, <1>5, <1>6, <1>8, <2>3 DEF Cache!Unused, CachedIn
      <3>3. \A x \in CachedIn(node) : /\ node'[x].refs = 1 <=> node[x].refs = 1
                                      /\ node'[x].refs > 1 <=> node[x].refs > 1
        <4> SUFFICES ASSUME NEW x \in CachedIn(node)
                     PROVE  /\ node'[x].refs = 1 <=> node[x].refs = 1
                            /\ node'[x].refs > 1 <=> node[x].refs > 1
          OBVIOUS
        <4>1. CASE x = e
          BY <1>3, <1>6, <1>8, <3>2, <4>1
        <4>2. CASE x # e
          BY <2>1, <4>2
        <4> QED  BY <4>1, <4>2
      <3> QED  BY <1>8, <3>1, <3>3, ListFacts DEF OnLists
    <2> QED  BY <2>2, <2>3
  <1>12. ListsGood(lru_', in_usage_', node', handles', made')
    BY <1>8, <1>9, <1>10, <1>11 DEF ListsGood
  <1>13. capacity_' \in Nat /\ pc' = "idle" /\ made' = Cache!Null
    BY <1>2, <1>3 DEF CacheInv
  <1>14. w >= MinLength
    BY <1>1, <1>2 DEF InvParts
  <1> QED  BY <1>8, <1>12, <1>13, <1>14 DEF CacheInv

LEMMA InsertReturnsKeeps ==
    ASSUME CacheInv, Cache!InsertReturns
    PROVE  CacheInv'
  <1> DEFINE A == Cache!Addresses
  <1>1. /\ pc = "evict" /\ pc' = "idle" /\ made' = Cache!Null
        /\ handles' = [handles EXCEPT ![made] = @ + 1]
        /\ UNCHANGED <<capacity_, usage_, lru_, in_usage_, node, list_, elems_>>
    BY DEF Cache!InsertReturns
  <1>2. made \in A
    BY <1>1 DEF CacheInv
  <1>3. /\ handles \in [A -> Nat] /\ handles[made] \in Nat /\ node[made].in_cache \in BOOLEAN
        /\ node[made].refs = handles[made] + 1 + (IF node[made].in_cache THEN 1 ELSE 0)
    BY <1>2, HandleFacts
  <1>4. /\ handles' \in [A -> Nat] /\ handles'[made] = handles[made] + 1
        /\ \A x \in A \ {made} : handles'[x] = handles[x]
    BY <1>1, <1>2, <1>3
  <1>5. Counted(node', handles', made')
    <2>1. \A x \in A \ {made} : node'[x] = node[x] /\ handles'[x] = handles[x] /\ (x = made' <=> x = made)
      BY <1>1, <1>4, NodeFacts
    <2>2. made # made'
      BY <1>1, <1>2, NodeFacts
    <2>3. node'[made].refs = handles'[made] + (IF made = made' THEN 1 ELSE 0) + (IF node'[made].in_cache THEN 1 ELSE 0)
      BY <1>1, <1>3, <1>4, <2>2
    <2> QED  BY <1>2, <1>4, <2>1, <2>3, CountsKept
  <1>6. ListsGood(lru_', in_usage_', node', handles', made')
    BY <1>1, <1>4, <1>5 DEF CacheInv, ListsGood
  <1> QED  BY <1>1, <1>6 DEF CacheInv

LEMMA InsertAloneKeeps ==
    ASSUME CacheInv, NEW k \in Keys, NEW c \in Charges, NEW e \in Cache!Addresses,
           pc = "idle", node[e] = Cache!Free, Cache!InsertAlone(e, k, c), made' = e, pc' = "evict",
           UNCHANGED <<capacity_, handles>>
    PROVE  CacheInv'
  <1> DEFINE A == Cache!Addresses
  <1>1. PICK w \in Nat : InvParts(w)
    BY DEF CacheInv, InvParts
  <1>2. PICK r : r = [key |-> k, charge |-> c, refs |-> 1, in_cache |-> FALSE]
    OBVIOUS
  <1>3. /\ node' = [node EXCEPT ![e] = r]
        /\ UNCHANGED <<lru_, in_usage_, usage_, list_, elems_>>
    BY <1>2 DEF Cache!InsertAlone
  <1>4. r \in Nodes /\ r.in_cache = FALSE /\ r.refs = 1 /\ node[e].in_cache = FALSE
    <2>1. c \in Nat
      BY Assumptions DEF Cache!CacheAssumption
    <2> QED  BY <1>2, <2>1, NodeFacts DEF Nodes
  <1>5. /\ node' \in [A -> Nodes] /\ node'[e] = r /\ \A x \in A \ {e} : node'[x] = node[x]
        /\ CachedIn(node') = CachedIn(node) /\ UsageGood(usage_', node')
        /\ TableGood(list_', w, elems_', node')
    BY <1>1, <1>3, <1>4, NodeChanges
  <1>6. handles[e] = 0 /\ made = Cache!Null /\ handles \in [A -> Nat]
    <2>1. node[e].refs = 0
      BY NodeFacts
    <2> QED  BY <1>4, <2>1, HandleFacts
  <1>7. Counted(node', handles', made')
    <2>1. \A x \in A \ {e} : node'[x] = node[x] /\ handles'[x] = handles[x] /\ (x = made' <=> x = made)
      BY <1>5, <1>6, NodeFacts
    <2>2. node'[e].refs = handles'[e] + (IF e = made' THEN 1 ELSE 0) + (IF node'[e].in_cache THEN 1 ELSE 0)
      BY <1>4, <1>5, <1>6
    <2>3. handles' \in [A -> Nat]
      BY <1>6
    <2> QED  BY <2>1, <2>2, <2>3, CountsKept
  <1>8. OnLists(lru_', in_usage_', node')
    <2>1. \A x \in CachedIn(node) : node'[x] = node[x]
      BY <1>4, <1>5, CacheSets DEF CachedIn
    <2> QED  BY <1>3, <1>5, <2>1, ListFacts DEF OnLists
  <1>9. ListsGood(lru_', in_usage_', node', handles', made')
    BY <1>3, <1>5, <1>6, <1>7, <1>8, ListFacts DEF ListsGood
  <1>10. capacity_' \in Nat /\ made' \in A
    BY DEF CacheInv
  <1>11. w >= MinLength
    BY <1>1 DEF InvParts
  <1> QED  BY <1>5, <1>9, <1>10, <1>11 DEF CacheInv

LEMMA NoHandles ==
    ASSUME CacheInv, Cache!HandlesOut = 0
    PROVE  \A x \in Cache!Addresses : handles[x] = 0
  <1> DEFINE A == Cache!Addresses
             W == Weights(handles, A)
  <1>1. handles \in [A -> Nat]
    BY DEF CacheInv, ListsGood
  <1>2. IsFiniteSet(A)
    BY Assumptions, FS_Interval DEF Cache!CacheAssumption, Cache!Addresses
  <1>3. IsFiniteSet(W)
    <2> HIDE DEF A
    <2> QED  BY <1>1, <1>2, WeightsAdd
  <1>4. Cardinality(W) = 0
    BY CacheCounting DEF Cache!HandlesOut, Weights
  <1>5. W = {}
    BY <1>3, <1>4, FS_EmptySet
  <1> SUFFICES ASSUME NEW x \in A, handles[x] # 0
               PROVE  FALSE
    OBVIOUS
  <1>6. 1 \in 1 .. handles[x]
    BY <1>1
  <1>7. <<x, 1>> \in W
    BY <1>6 DEF Weights
  <1> QED  BY <1>5, <1>7

LEMMA DestroyCacheKeeps ==
    ASSUME CacheInv, Cache!Destroy
    PROVE  CacheInv' /\ pc' = "destroyed"
  <1> DEFINE A == Cache!Addresses
  <1>1. /\ pc = "idle" /\ Cache!HandlesOut = 0
        /\ pc' = IF in_usage_ = << >> /\ \A i \in 1 .. Len(lru_) : node[lru_[i]].refs = 1
                 THEN "destroyed" ELSE "aborted"
        /\ node' = [x \in A |-> IF Cache!Contains(lru_, x) THEN Cache!Erased(node[x]) ELSE node[x]]
        /\ lru_' = << >> /\ list_' = Cache!Chains(0) /\ elems_' = 0 /\ usage_' = 0
        /\ UNCHANGED <<capacity_, in_usage_, handles, made>>
    BY DEF Cache!Destroy
  <1>2. /\ handles \in [A -> Nat] /\ made = Cache!Null /\ made \notin A
        /\ \A x \in A : handles[x] = 0
    BY <1>1, NoHandles, NodeFacts DEF CacheInv, ListsGood
  <1>3. \A x \in A : /\ node[x] \in Nodes /\ node[x].in_cache \in BOOLEAN
                     /\ node[x].refs = IF node[x].in_cache THEN 1 ELSE 0
    <2> SUFFICES ASSUME NEW x \in A
                 PROVE  /\ node[x] \in Nodes /\ node[x].in_cache \in BOOLEAN
                        /\ node[x].refs = IF node[x].in_cache THEN 1 ELSE 0
      OBVIOUS
    <2>1. handles[x] = 0 /\ x # made
      BY <1>2
    <2> QED  BY <2>1, HandleFacts
  <1>4. \A x \in CachedIn(node) : x \in A /\ node[x].refs = 1
    BY <1>3 DEF CachedIn
  <1>5. in_usage_ = << >> /\ Elems(lru_) = CachedIn(node)
    <2>1. Elems(in_usage_) = {}
      BY <1>4, ListFacts
    <2>2. in_usage_ \in Seq(A)
      BY ListFacts
    <2>3. ASSUME in_usage_ # << >>
          PROVE  FALSE
      <3>1. 1 \in 1 .. Len(in_usage_)
        BY <2>2, <2>3
      <3>2. in_usage_[1] \in Elems(in_usage_)
        BY <3>1 DEF Elems
      <3> QED  BY <2>1, <3>2
    <2> QED  BY <1>4, <2>3, ListFacts
  <1>6. \A x : Cache!Contains(lru_, x) <=> x \in CachedIn(node)
    BY <1>5 DEF Cache!Contains, Elems
  <1>7. pc' = "destroyed"
    <2>1. \A i \in 1 .. Len(lru_) : node[lru_[i]].refs = 1
      BY <1>4, <1>5 DEF Elems
    <2> QED  BY <1>1, <1>5, <2>1
  <1>8. \A x \in CachedIn(node) : Cache!Erased(node[x]) = Cache!Free
    <2> SUFFICES ASSUME NEW x \in CachedIn(node)
                 PROVE  Cache!Erased(node[x]) = Cache!Free
      OBVIOUS
    <2>1. PICK off : off = [node[x] EXCEPT !.in_cache = FALSE]
      OBVIOUS
    <2>2. off.refs = 1
      BY <1>3, <1>4, <2>1 DEF Nodes
    <2> QED  BY <2>1, <2>2 DEF Cache!Erased, Cache!Dropped
  <1>9. \A x \in A : /\ node'[x] = IF x \in CachedIn(node) THEN Cache!Free ELSE node[x]
                     /\ node'[x] \in Nodes /\ ~node'[x].in_cache /\ node'[x].refs = 0
    <2>1. \A x \in A : node'[x] = IF x \in CachedIn(node) THEN Cache!Free ELSE node[x]
      BY <1>1, <1>6, <1>8
    <2>2. \A x \in A : x \notin CachedIn(node) => ~node[x].in_cache /\ node[x].refs = 0
      BY <1>3 DEF CachedIn
    <2> QED  BY <1>3, <2>1, <2>2, NodeFacts
  <1>10. node' \in [A -> Nodes] /\ CachedIn(node') = {}
    BY <1>1, <1>9 DEF CachedIn
  <1>11. Elems(<< >>) = {} /\ Distinct(<< >>)
    BY DEF Elems, Distinct
  <1>12. ListsGood(lru_', in_usage_', node', handles', made')
    <2>1. Counted(node', handles', made')
      BY <1>1, <1>2, <1>9 DEF Counted
    <2>2. OnLists(lru_', in_usage_', node')
      BY <1>1, <1>5, <1>10, <1>11 DEF OnLists
    <2> QED  BY <1>1, <1>2, <1>5, <1>10, <2>1, <2>2 DEF ListsGood
  <1>13. TableGood(list_', 0, elems_', node')
    <2>1. Buckets(0) = {}
      BY DEF Buckets
    <2>2. DOMAIN list_' = {} /\ list_' \in [Buckets(0) -> Seq(A)]
      <3>1. list_' = [b \in 0 .. 0 - 1 |-> << >>]
        BY <1>1 DEF Cache!Chains
      <3>2. 0 .. 0 - 1 = {}
        OBVIOUS
      <3> QED  BY <2>1, <3>1, <3>2
    <2>3. Spread(list_') /\ Entries(list_') = {}
      BY <2>2 DEF Spread, Entries
    <2>4. Cardinality({}) = 0
      BY FS_EmptySet
    <2> QED  BY <1>1, <1>10, <2>2, <2>3, <2>4 DEF TableGood
  <1>14. UsageGood(usage_', node')
    <2>1. Cardinality({}) = 0
      BY FS_EmptySet
    <2>2. \A f : Weights(f, {}) = {}
      BY DEF Weights
    <2> QED  BY <1>1, <1>10, <2>1, <2>2 DEF UsageGood
  <1> QED  BY <1>1, <1>2, <1>7, <1>12, <1>13, <1>14 DEF CacheInv

\* A node is given to an entry.
Given(nodes, e, r) == [nodes EXCEPT ![e] = r]
Entry(k, c) == [key |-> k, charge |-> c, refs |-> 2, in_cache |-> TRUE]

IsGiven(nodes, e, k, c) ==
  /\ Entry(k, c) \in Nodes /\ Entry(k, c).key = k /\ Entry(k, c).charge = c
  /\ Entry(k, c).refs = 2 /\ Entry(k, c).in_cache = TRUE
  /\ Given(nodes, e, Entry(k, c)) \in [Cache!Addresses -> Nodes]
  /\ Given(nodes, e, Entry(k, c))[e] = Entry(k, c)
  /\ \A x \in Cache!Addresses \ {e} : Given(nodes, e, Entry(k, c))[x] = nodes[x]
  /\ CachedIn(Given(nodes, e, Entry(k, c))) = CachedIn(nodes) \cup {e}
  /\ CachedWithout(Given(nodes, e, Entry(k, c)), nodes, e)

LEMMA GivenFacts ==
    ASSUME NEW nodes \in [Cache!Addresses -> Nodes], NEW k \in Keys, NEW c \in Charges,
           NEW e \in Cache!Addresses, ~nodes[e].in_cache
    PROVE  IsGiven(nodes, e, k, c)
  <1> DEFINE A == Cache!Addresses
             r == Entry(k, c)
             later == Given(nodes, e, r)
  <1>1. /\ r \in Nodes /\ r.key = k /\ r.charge = c /\ r.refs = 2 /\ r.in_cache = TRUE
    <2>1. c \in Nat
      BY Assumptions DEF Cache!CacheAssumption
    <2> QED  BY <2>1 DEF Entry, Nodes
  <1> HIDE DEF r
  <1>2. later \in [A -> Nodes] /\ later[e] = r /\ \A x \in A \ {e} : later[x] = nodes[x]
    BY <1>1 DEF Given
  <1> HIDE DEF later
  <1>3. CachedIn(later) = CachedIn(nodes) \cup {e}
    BY <1>1, <1>2 DEF CachedIn
  <1>4. CachedWithout(later, nodes, e)
    <2>1. e \notin CachedIn(nodes)
      BY DEF CachedIn
    <2>2. \A x \in CachedIn(nodes) : later[x] = nodes[x]
      BY <1>2, <2>1, CacheSets
    <2> QED  BY <1>3, <2>1, <2>2 DEF CachedWithout
  <1> QED  BY <1>1, <1>2, <1>3, <1>4 DEF later, r, IsGiven

LEMMA InsertLists ==
    ASSUME NEW lru, NEW used, NEW nodes, NEW hands, ListsGood(lru, used, nodes, hands, Cache!Null),
           NEW k \in Keys, NEW c \in Charges, NEW e \in Cache!Addresses, nodes[e] = Cache!Free
    PROVE  ListsGood(lru, Append(used, e), Given(nodes, e, Entry(k, c)), hands, e)
  <1> DEFINE A == Cache!Addresses
             r == Entry(k, c)
             later == Given(nodes, e, r)
  <1>1. nodes \in [A -> Nodes] /\ hands \in [A -> Nat] /\ used \in Seq(A) /\ lru \in Seq(A)
    BY DEF ListsGood
  <1>2. ~nodes[e].in_cache /\ nodes[e].refs = 0
    BY NodeFacts
  <1>3. /\ r.refs = 2 /\ r.in_cache = TRUE
        /\ later \in [A -> Nodes] /\ later[e] = r /\ \A x \in A \ {e} : later[x] = nodes[x]
        /\ CachedIn(later) = CachedIn(nodes) \cup {e}
    <2>1. ~nodes[e].in_cache
      BY <1>2
    <2>2. IsGiven(nodes, e, k, c)
      BY <1>1, <2>1, GivenFacts
    <2> QED  BY <2>2 DEF IsGiven
  <1> HIDE DEF later, r
  <1>4. \A x \in A : nodes[x].refs = hands[x] + (IF nodes[x].in_cache THEN 1 ELSE 0)
    BY <1>1, NodeFacts DEF ListsGood, Counted
  <1>5. hands[e] = 0
    BY <1>1, <1>2, <1>4
  <1>6. Counted(later, hands, e)
    <2> SUFFICES ASSUME NEW x \in A
                 PROVE  later[x].refs = hands[x] + (IF x = e THEN 1 ELSE 0) + (IF later[x].in_cache THEN 1 ELSE 0)
      BY DEF Counted
    <2>1. CASE x = e
      BY <1>3, <1>5, <2>1
    <2>2. CASE x # e
      <3>1. later[x] = nodes[x] /\ hands[x] \in Nat
        BY <1>1, <1>3, <2>2
      <3> QED  BY <1>4, <2>2, <3>1
    <2> QED  BY <2>1, <2>2
  <1>7. OnLists(lru, Append(used, e), later) /\ Append(used, e) \in Seq(A)
    <2>1. e \notin CachedIn(nodes)
      BY <1>2 DEF CachedIn
    <2>2. \A x \in CachedIn(nodes) : later[x] = nodes[x]
      BY <1>3, <2>1, CacheSets
    <2>3. /\ Elems(lru) = {x \in CachedIn(nodes) : nodes[x].refs = 1}
          /\ Elems(used) = {x \in CachedIn(nodes) : nodes[x].refs > 1}
          /\ Distinct(lru) /\ Distinct(used)
      BY DEF ListsGood, OnLists
    <2>4. Append(used, e) \in Seq(A) /\ With(used, Append(used, e), e)
      <3>1. e \notin Elems(used)
        BY <2>1, <2>3
      <3> HIDE DEF A
      <3> QED  BY <1>1, <2>3, <3>1, AppendElems DEF A
    <2>5. later[e].refs > 1 /\ later[e].refs # 1
      BY <1>3
    <2>6. Elems(lru) = {x \in CachedIn(later) : later[x].refs = 1}
      BY <1>3, <2>2, <2>3, <2>5
    <2>7. Elems(Append(used, e)) = {x \in CachedIn(later) : later[x].refs > 1}
      <3>1. Elems(Append(used, e)) = Elems(used) \cup {e}
        BY <2>4 DEF With
      <3> QED  BY <1>3, <2>2, <2>3, <2>5, <3>1
    <2> QED  BY <2>3, <2>4, <2>6, <2>7 DEF OnLists, With
  <1>8. ListsGood(lru, Append(used, e), later, hands, e)
    BY <1>1, <1>3, <1>6, <1>7 DEF ListsGood
  <1> QED  BY <1>8 DEF later, r

\* e takes the place of O, at most one entry, in c, its key's chain.
TakesPlace(list, w, nodes, k, b, e, O, c, later) ==
  /\ k \in Keys /\ b \in Buckets(w) /\ b = HashOf[k] % w
  /\ e \in Cache!Addresses /\ e \notin CachedIn(nodes) /\ O \in SUBSET Elems(list[b])
  /\ c \in Seq(Cache!Addresses) /\ Distinct(c) /\ Elems(c) = (Elems(list[b]) \ O) \cup {e}
  /\ w <= MinLength => \A y \in CachedIn(nodes) \ O : nodes[y].key # k
  /\ CachedIn(later) = (CachedIn(nodes) \ O) \cup {e} /\ later[e].key = k
  /\ \A x \in CachedIn(nodes) \ O : later[x] = nodes[x]

LEMMA TablePut ==
    ASSUME NEW list, NEW w \in Nat \ {0}, NEW elems, NEW nodes, NEW k, NEW b, NEW e, NEW O, NEW c,
           NEW later, TableGood(list, w, elems, nodes),
           TakesPlace(list, w, nodes, k, b, e, O, c, later)
    PROVE  TableGood(ChainAt(list, b, c), w, Cardinality(CachedIn(later)), later)
  <1> USE DEF TakesPlace
  <1> DEFINE A == Cache!Addresses
             t == ChainAt(list, b, c)
  <1>1. /\ list \in [Buckets(w) -> Seq(A)] /\ Spread(list) /\ Entries(list) = CachedIn(nodes)
        /\ DOMAIN list = Buckets(w)
    BY DEF TableGood
  <1>2. Elems(list[b]) \subseteq Entries(list)
    BY <1>1 DEF Entries
  <1>3. t \in [Buckets(w) -> Seq(A)] /\ Spread(t) /\ Entries(t) = (Entries(list) \ Elems(list[b])) \cup Elems(c)
    <2>1. Elems(c) \cap (Entries(list) \ Elems(list[b])) = {}
      BY <1>1
    <2>2. PICK D : D = Buckets(w)
      OBVIOUS
    <2>3. list \in [D -> Seq(A)] /\ Spread(list) /\ b \in D /\ c \in Seq(A) /\ Distinct(c)
      BY <1>1, <2>2
    <2> HIDE DEF A, TakesPlace
    <2>4. /\ t \in [D -> Seq(A)] /\ Spread(t)
          /\ Entries(t) = (Entries(list) \ Elems(list[b])) \cup Elems(c)
      BY <2>1, <2>3, ChainPut
    <2> QED  BY <2>2, <2>4
  <1>4. t[b] = c /\ \A d \in Buckets(w) \ {b} : t[d] = list[d]
    BY <1>1 DEF ChainAt
  <1> HIDE DEF t
  <1>5. Entries(t) = CachedIn(later)
    <2>1. Entries(t) = (Entries(list) \ O) \cup {e}
      BY <1>2, <1>3
    <2> QED  BY <1>1, <2>1
  <1>6. \A x \in CachedIn(later) : later[x].key \in Keys
    BY DEF TableGood
  <1>7. ASSUME w <= MinLength, NEW x \in CachedIn(later)
        PROVE  InPlace(t, w, later, x)
    <2>1. CASE x = e
      <3>1. x \in Elems(t[HashOf[later[x].key] % w])
        BY <1>4, <2>1
      <3>2. \A y \in CachedIn(later) : later[y].key = later[x].key => y = x
        BY <1>7, <2>1
      <3> QED  BY <3>1, <3>2 DEF InPlace
    <2>2. CASE x # e
      <3>1. x \in CachedIn(nodes) \ O /\ later[x] = nodes[x] /\ InPlace(list, w, nodes, x)
        BY <1>7, <2>2 DEF TableGood
      <3>2. PICK d : d = HashOf[nodes[x].key] % w
        OBVIOUS
      <3>3. x \in Elems(list[d]) /\ \A y \in CachedIn(nodes) : nodes[y].key = nodes[x].key => y = x
        BY <3>1, <3>2 DEF InPlace
      <3>4. d \in Buckets(w)
        <4>1. PICK h \in Nat : h = HashOf[nodes[x].key]
          BY <1>6, <3>1, MinLengthFact
        <4>2. h % w \in 0 .. w - 1
          OBVIOUS
        <4> QED  BY <3>2, <4>1, <4>2 DEF Buckets
      <3>5. x \in Elems(t[d])
        BY <1>4, <3>1, <3>3, <3>4
      <3>6. \A y \in CachedIn(later) : later[y].key = later[x].key => y = x
        <4> SUFFICES ASSUME NEW y \in CachedIn(later), later[y].key = later[x].key
                     PROVE  y = x
          OBVIOUS
        <4>1. CASE y = e
          BY <1>7, <3>1, <4>1
        <4>2. CASE y # e
          BY <3>1, <3>3, <4>2
        <4> QED  BY <4>1, <4>2
      <3> QED  BY <3>1, <3>2, <3>5, <3>6 DEF InPlace
    <2> QED  BY <2>1, <2>2
  <1> QED  BY <1>3, <1>5, <1>6, <1>7 DEF TableGood, t

LEMMA TableGrows ==
    ASSUME NEW list, NEW w \in Nat \ {0}, NEW elems \in Nat, NEW nodes, TableGood(list, w, elems, nodes),
           w >= MinLength, elems > w, \A x \in Cache!Addresses : nodes[x].key \in Keys
    PROVE  /\ TableGood(Cache!Resized(list, nodes, elems), Cache!Longer(elems), elems, nodes)
           /\ Cache!Longer(elems) \in Nat /\ Cache!Longer(elems) >= MinLength
  <1> DEFINE A == Cache!Addresses
  <1>1. PICK v : v = Cache!Longer(elems)
    OBVIOUS
  <1>2. PICK t : t = Cache!Resized(list, nodes, elems)
    OBVIOUS
  <1>3. Cache!CacheAssumption /\ w <= elems /\ list \in [0 .. w - 1 -> Seq(A)] /\ Spread(list)
    BY Assumptions DEF TableGood, Buckets
  <1>4. /\ v \in Nat /\ v >= elems /\ t \in [0 .. v - 1 -> Seq(A)]
        /\ Spread(t) /\ Entries(t) = Entries(list)
    <2> HIDE DEF A
    <2> QED  BY <1>1, <1>2, <1>3, ResizedKeeps DEF A
  <1>5. ~(v <= MinLength) /\ v >= MinLength
    BY <1>4, MinLengthFact
  <1>6. TableGood(t, v, elems, nodes)
    BY <1>4, <1>5 DEF TableGood, Buckets
  <1> QED  BY <1>1, <1>2, <1>4, <1>5, <1>6

\* The entry that another replaces, if there is one, is erased.
Replaced(old) == IF old = Cache!Null THEN node ELSE Off(node, old)

LEMMA OldIsErased ==
    ASSUME CacheInv, pc = "idle", NEW old, old = Cache!Null \/ old \in CachedIn(node)
    PROVE  /\ ListsGood(Cache!RemoveFirst(lru_, old), Cache!RemoveFirst(in_usage_, old),
                        Replaced(old), handles, Cache!Null)
           /\ UsageGood(usage_ - Cache!Refund(old), Replaced(old)) /\ Cache!Refund(old) \in Nat
           /\ CachedIn(Replaced(old)) = CachedIn(node) \ {old}
           /\ \A x \in Cache!Addresses : x # old => Replaced(old)[x] = node[x]
           /\ old # Cache!Null => Replaced(old)[old] = Cache!Erased(node[old])
  <1> DEFINE A == Cache!Addresses
  <1>1. /\ ListsGood(lru_, in_usage_, node, handles, Cache!Null) /\ UsageGood(usage_, node)
        /\ node \in [A -> Nodes]
    BY DEF CacheInv, ListsGood
  <1>2. Cache!Null \notin A /\ CachedIn(node) \subseteq A
    BY NodeFacts, CacheSets
  <1>3. usage_ \in Nat
    <2>1. [x \in A |-> node[x].charge] \in [A -> Nat]
      BY <1>1 DEF Nodes
    <2>2. CachedIn(node) \in SUBSET A /\ IsFiniteSet(CachedIn(node))
      BY <1>2, CacheSets
    <2> HIDE DEF A
    <2>3. Cardinality(Weights([x \in A |-> node[x].charge], CachedIn(node))) \in Nat
      BY <2>1, <2>2, WeightsAdd
    <2> QED  BY <1>1, <2>3 DEF UsageGood, A
  <1>4. CASE old = Cache!Null
    <2>1. old \notin Elems(lru_) /\ old \notin Elems(in_usage_)
      BY <1>2, <1>4, ListFacts
    <2>2. Cache!RemoveFirst(lru_, old) = lru_ /\ Cache!RemoveFirst(in_usage_, old) = in_usage_
      BY <2>1 DEF Cache!RemoveFirst, Elems
    <2>3. Replaced(old) = node /\ Cache!Refund(old) = 0
      BY <1>4 DEF Replaced, Cache!Refund
    <2>4. usage_ - 0 = usage_
      BY <1>3
    <2> QED  BY <1>1, <1>2, <1>4, <2>2, <2>3, <2>4
  <1>5. CASE old # Cache!Null
    <2>1. old \in CachedIn(node) /\ old \in A
      BY <1>2, <1>5
    <2>2. Replaced(old) = Off(node, old) /\ Cache!Refund(old) = node[old].charge
      BY <1>5 DEF Replaced, Cache!Refund
    <2>3. PICK mid : mid = Off(node, old)
      OBVIOUS
    <2>4. /\ ListsGood(Cache!RemoveFirst(lru_, old), Cache!RemoveFirst(in_usage_, old), mid, handles, Cache!Null)
          /\ CachedIn(mid) = CachedIn(node) \ {old}
      BY <1>1, <2>1, <2>3, EraseLists
    <2>5. /\ \A x \in A : x # old => mid[x] = node[x]
          /\ mid[old] = Cache!Erased(node[old])
      BY <1>1, <2>1, <2>3 DEF Off
    <2>6. mid \in [A -> Nodes]
      BY <2>4 DEF ListsGood
    <2>7. CachedWithout(node, mid, old)
      BY <2>4, <2>5, CacheSets DEF CachedWithout
    <2>8. UsageGood(usage_ - node[old].charge, mid)
      BY <1>1, <2>1, <2>6, <2>7, UsageErase
    <2>9. node[old].charge \in Nat
      BY <1>1, <2>1 DEF Nodes
    <2> QED  BY <2>2, <2>3, <2>4, <2>5, <2>8, <2>9
  <1> QED  BY <1>4, <1>5

\* Linked: e takes the place of the entry its key finds, or the chain's end.
LEMMA LinkedKeeps ==
    ASSUME CacheInv, pc = "idle", NEW w \in Nat, InvParts(w), NEW k \in Keys,
           NEW e \in Cache!Addresses, e \notin CachedIn(node), NEW b, b = HashOf[k] % w
    PROVE  /\ Cache!Linked(k, e) \in Seq(Cache!Addresses) /\ Distinct(Cache!Linked(k, e))
           /\ Elems(Cache!Linked(k, e)) = (Elems(list_[b]) \ {Cache!Find(k)}) \cup {e}
  <1> DEFINE A == Cache!Addresses
  <1>1. PICK q : q = list_[b]
    OBVIOUS
  <1>2. PICK i : i = Cache!FindPointer(k)
    OBVIOUS
  <1>3. PICK old : old = Cache!Find(k)
    OBVIOUS
  <1>4. /\ list_ \in [Buckets(w) -> Seq(A)] /\ Spread(list_) /\ Entries(list_) = CachedIn(node)
        /\ b \in Buckets(w) /\ Cache!Bucket(k) = b
    BY <1>1, FoundIsCached
  <1>5. IF old = Cache!Null
        THEN Cache!Places(k) = {}
        ELSE Cache!Places(k) # {} /\ i \in 1 .. Len(q) /\ old = q[i]
    BY <1>1, <1>2, <1>3, FoundIsCached
  <1>6. q \in Seq(A) /\ Distinct(q) /\ e \notin Elems(q) /\ Elems(q) \subseteq A
    <2>1. Elems(q) \subseteq Entries(list_) /\ Distinct(q)
      BY <1>1, <1>4 DEF Entries, Spread
    <2> QED  BY <1>1, <1>4, <2>1, CacheSets
  <1>7. CASE old = Cache!Null
    <2>1. Cache!Linked(k, e) = Append(q, e)
      BY <1>1, <1>4, <1>5, <1>7 DEF Cache!Linked
    <2>2. Append(q, e) \in Seq(A) /\ With(q, Append(q, e), e)
      <3> HIDE DEF A
      <3> QED  BY <1>6, AppendElems DEF A
    <2>3. old \notin Elems(q)
      BY <1>6, <1>7, NodeFacts
    <2> QED  BY <1>1, <1>3, <2>1, <2>2, <2>3 DEF With
  <1>8. CASE old # Cache!Null
    <2>1. Cache!Linked(k, e) = Cache!ReplaceAt(q, i, e)
      BY <1>1, <1>2, <1>4, <1>5, <1>8 DEF Cache!Linked
    <2>2. /\ Cache!ReplaceAt(q, i, e) \in Seq(A) /\ Distinct(Cache!ReplaceAt(q, i, e))
          /\ Elems(Cache!ReplaceAt(q, i, e)) = (Elems(q) \ {q[i]}) \cup {e}
      <3>1. i \in 1 .. Len(q)
        BY <1>5, <1>8
      <3> HIDE DEF A
      <3> QED  BY <1>6, <3>1, ReplaceElems DEF A
    <2> QED  BY <1>1, <1>3, <1>5, <1>8, <2>1, <2>2
  <1> QED  BY <1>7, <1>8

LEMMA InsertCachedKeeps ==
    ASSUME CacheInv, NEW k \in Keys, NEW c \in Charges, NEW e \in Cache!Addresses,
           pc = "idle", node[e] = Cache!Free, Cache!InsertCached(e, k, c), made' = e, pc' = "evict",
           UNCHANGED <<capacity_, handles>>
    PROVE  CacheInv'
  <1> DEFINE A == Cache!Addresses
  <1>1. PICK w \in Nat : InvParts(w)
    BY DEF CacheInv, InvParts
  <1>2. PICK old : old = Cache!Find(k)
    OBVIOUS
  <1>3. PICK b : b = HashOf[k] % w
    OBVIOUS
  <1>4. PICK new : new = Entry(k, c)
    OBVIOUS
  <1>5. /\ w > 0 /\ w >= MinLength /\ list_ \in [Buckets(w) -> Seq(A)] /\ Spread(list_)
        /\ Entries(list_) = CachedIn(node)
        /\ b \in Buckets(w) /\ Cache!Bucket(k) = b /\ Cache!length_ = w
        /\ TableGood(list_, w, elems_, node)
    BY <1>1, <1>3, FoundIsCached DEF InvParts
  <1>6. IF old = Cache!Null
        THEN \A x \in Elems(list_[b]) : node[x].key # k
        ELSE old \in CachedIn(node) /\ old \in Elems(list_[b]) /\ node[old].key = k
    <2>1. IF old = Cache!Null
          THEN \A x \in Elems(list_[b]) : node[x].key # k
          ELSE /\ Cache!FindPointer(k) \in 1 .. Len(list_[b]) /\ old = list_[b][Cache!FindPointer(k)]
               /\ old \in CachedIn(node) /\ node[old].key = k
      BY <1>1, <1>2, <1>3, FoundIsCached
    <2> QED  BY <2>1 DEF Elems
  <1>7. e \notin CachedIn(node) /\ e # old /\ ~node[e].in_cache
    BY <1>6, NodeFacts DEF CachedIn
  <1>8. PICK mid : mid = Replaced(old)
    OBVIOUS
  <1>9. /\ ListsGood(Cache!RemoveFirst(lru_, old), Cache!RemoveFirst(in_usage_, old), mid, handles, Cache!Null)
        /\ UsageGood(usage_ - Cache!Refund(old), mid) /\ Cache!Refund(old) \in Nat
        /\ CachedIn(mid) = CachedIn(node) \ {old}
        /\ \A x \in A : x # old => mid[x] = node[x]
        /\ old # Cache!Null => mid[old] = Cache!Erased(node[old])
    BY <1>6, <1>8, OldIsErased
  <1>10. mid \in [A -> Nodes] /\ mid[e] = Cache!Free /\ ~mid[e].in_cache
    BY <1>7, <1>9, NodeFacts DEF ListsGood
  <1>11. PICK later : later = Given(mid, e, new)
    OBVIOUS
  <1>12. IsGiven(mid, e, k, c)
    BY <1>10, GivenFacts
  <1>13. /\ later \in [A -> Nodes] /\ later[e] = new /\ new.key = k /\ new.charge = c
         /\ \A x \in A \ {e} : later[x] = mid[x]
         /\ CachedIn(later) = CachedIn(mid) \cup {e} /\ CachedWithout(later, mid, e)
    BY <1>4, <1>11, <1>12 DEF IsGiven
  <1>14. /\ node' = [x \in A |-> IF x = e THEN new ELSE IF x = old THEN Cache!Erased(node[x]) ELSE node[x]]
         /\ lru_' = Cache!RemoveFirst(lru_, old)
         /\ in_usage_' = Append(Cache!RemoveFirst(in_usage_, old), e)
         /\ usage_' = usage_ + c - Cache!Refund(old)
         /\ Cache!TableInsert(k, e)
    <2>1. /\ node' = [x \in A |-> CASE x = e -> new [] x = old -> Cache!Erased(node[x]) [] OTHER -> node[x]]
          /\ lru_' = Cache!RemoveFirst(lru_, old)
          /\ in_usage_' = Append(Cache!RemoveFirst(in_usage_, old), e)
          /\ usage_' = usage_ + c - Cache!Refund(old)
          /\ Cache!TableInsert(k, e)
      BY <1>2, <1>4 DEF Cache!InsertCached, Entry
    <2>2. \A x \in A : (CASE x = e -> new [] x = old -> Cache!Erased(node[x]) [] OTHER -> node[x])
                      = IF x = e THEN new ELSE IF x = old THEN Cache!Erased(node[x]) ELSE node[x]
      BY <1>7
    <2> QED  BY <2>1, <2>2
  <1>15. node' = later
    <2>1. \A x \in A : later[x] = IF x = e THEN new ELSE IF x = old THEN Cache!Erased(node[x]) ELSE node[x]
      <3> SUFFICES ASSUME NEW x \in A
                   PROVE  later[x] = IF x = e THEN new ELSE IF x = old THEN Cache!Erased(node[x]) ELSE node[x]
        OBVIOUS
      <3>1. CASE x = e
        BY <1>13, <3>1
      <3>2. CASE x # e /\ x = old
        BY <1>9, <1>13, <3>2, NodeFacts
      <3>3. CASE x # e /\ x # old
        BY <1>9, <1>13, <3>3
      <3> QED  BY <3>1, <3>2, <3>3
    <2> QED  BY <1>13, <1>14, <2>1
  <1>16. ListsGood(lru_', in_usage_', node', handles', made')
    <2>1. ListsGood(Cache!RemoveFirst(lru_, old), Append(Cache!RemoveFirst(in_usage_, old), e),
                    Given(mid, e, Entry(k, c)), handles, e)
      BY <1>9, <1>10, InsertLists
    <2>2. handles' = handles /\ made' = e
      OBVIOUS
    <2> QED  BY <1>4, <1>11, <1>14, <1>15, <2>1, <2>2
  <1>17. UsageGood(usage_', node')
    <2>1. UsageGood(usage_ - Cache!Refund(old) + later[e].charge, later)
      <3>1. e \in CachedIn(later)
        BY <1>13
      <3> QED  BY <1>9, <1>10, <1>13, <3>1, UsageInsert
    <2>2. usage_ \in Int /\ c \in Int
      <3>1. usage_ = Cardinality(Weights([x \in A |-> node[x].charge], CachedIn(node)))
        BY DEF CacheInv, UsageGood
      <3>2. [x \in A |-> node[x].charge] \in [A -> Nat]
        BY ListFacts DEF Nodes
      <3>3. CachedIn(node) \in SUBSET A /\ IsFiniteSet(CachedIn(node))
        BY CacheSets
      <3> HIDE DEF A
      <3>4. Cardinality(Weights([x \in A |-> node[x].charge], CachedIn(node))) \in Nat
        BY <3>2, <3>3, WeightsAdd
      <3> QED  BY <3>1, <3>4, Assumptions DEF Cache!CacheAssumption
    <2>3. usage_ - Cache!Refund(old) + c = usage_ + c - Cache!Refund(old)
      BY <1>9, <2>2
    <2> QED  BY <1>13, <1>14, <1>15, <2>1, <2>3
  <1>18. PICK chain : chain = Cache!Linked(k, e)
    OBVIOUS
  <1>19. PICK full : full = ChainAt(list_, b, chain)
    OBVIOUS
  <1>20. PICK m : m = Cardinality(CachedIn(later))
    OBVIOUS
  <1>21. TableGood(full, w, m, later)
    <2>1. PICK O : O = Elems(list_[b]) \cap {old}
      OBVIOUS
    <2>2. chain \in Seq(A) /\ Distinct(chain) /\ Elems(chain) = (Elems(list_[b]) \ O) \cup {e}
      <3>1. /\ chain \in Seq(A) /\ Distinct(chain)
            /\ Elems(chain) = (Elems(list_[b]) \ {old}) \cup {e}
        BY <1>1, <1>2, <1>3, <1>7, <1>18, LinkedKeeps
      <3> QED  BY <2>1, <3>1
    <2>3. CachedIn(node) \ O = CachedIn(node) \ {old}
      BY <1>6, <2>1, NodeFacts, CacheSets
    <2>4. CachedIn(later) = (CachedIn(node) \ O) \cup {e}
      BY <1>9, <1>13, <2>3
    <2>5. \A x \in CachedIn(node) \ O : later[x] = node[x]
      <3>1. \A x \in CachedIn(node) \ {old} : x \in A /\ x # e
        BY <1>7, CacheSets
      <3> QED  BY <1>9, <1>13, <2>3, <3>1
    <2>6. ASSUME w <= MinLength, NEW y \in CachedIn(node) \ O, node[y].key = k
          PROVE  FALSE
      <3>1. InPlace(list_, w, node, y) /\ y # old
        BY <1>5, <2>3, <2>6 DEF TableGood
      <3>2. y \in Elems(list_[b]) /\ \A z \in CachedIn(node) : node[z].key = k => z = y
        BY <1>3, <2>6, <3>1 DEF InPlace
      <3> QED  BY <1>6, <2>6, <3>1, <3>2
    <2>7. w \in Nat \ {0} /\ O \in SUBSET Elems(list_[b]) /\ later[e].key = k
      BY <1>5, <1>13, <2>1
    <2>8. w <= MinLength => \A y \in CachedIn(node) \ O : node[y].key # k
      BY <2>6
    <2>9. TakesPlace(list_, w, node, k, b, e, O, chain, later)
      BY <1>3, <1>5, <1>7, <2>2, <2>4, <2>5, <2>7, <2>8 DEF TakesPlace
    <2>10. TableGood(ChainAt(list_, b, chain), w, Cardinality(CachedIn(later)), later)
      BY <1>5, <2>7, <2>9, TablePut
    <2> QED  BY <1>19, <1>20, <2>10
  <1>22. m = elems_ + (IF old = Cache!Null THEN 1 ELSE 0) /\ m \in Nat
    <2>1. /\ IsFiniteSet(CachedIn(node)) /\ elems_ = Cardinality(CachedIn(node)) /\ elems_ \in Nat
          /\ IsFiniteSet(CachedIn(mid))
      BY <1>5, CacheSets DEF TableGood
    <2>2. m = Cardinality(CachedIn(mid)) + 1 /\ m \in Nat
      <3>1. e \notin CachedIn(mid)
        BY <1>7, <1>9
      <3> QED  BY <1>13, <1>20, <2>1, <3>1, FS_AddElement, CacheSets
    <2>3. CASE old = Cache!Null
      <3>1. CachedIn(mid) = CachedIn(node)
        BY <1>9, <2>3, NodeFacts, CacheSets
      <3> QED  BY <2>1, <2>2, <2>3, <3>1
    <2>4. CASE old # Cache!Null
      <3>1. Cardinality(CachedIn(mid)) = Cardinality(CachedIn(node)) - 1
        BY <1>6, <1>9, <2>1, <2>4, FS_RemoveElement
      <3> QED  BY <2>1, <2>2, <2>4, <3>1
    <2> QED  BY <2>3, <2>4
  <1>23. elems_' = m /\ list_' = IF m > w THEN Cache!Resized(full, later, m) ELSE full
    <2>1. full = [list_ EXCEPT ![b] = chain]
      BY <1>19 DEF ChainAt
    <2> QED  BY <1>2, <1>5, <1>14, <1>15, <1>18, <1>22, <2>1 DEF Cache!TableInsert
  <1>24. \E v \in Nat : TableGood(list_', v, elems_', node') /\ v >= MinLength
    <2>1. CASE m > w
      <3>1. \A x \in A : later[x].key \in Keys
        <4>1. Cache!Free.key \in Keys
          BY DEF Cache!Free
        <4> QED  BY <1>13, <4>1 DEF Nodes
      <3>2. w \in Nat \ {0}
        BY <1>5
      <3>3. /\ TableGood(Cache!Resized(full, later, m), Cache!Longer(m), m, later)
            /\ Cache!Longer(m) \in Nat /\ Cache!Longer(m) >= MinLength
        BY <1>5, <1>21, <1>22, <2>1, <3>1, <3>2, TableGrows
      <3> QED  BY <1>15, <1>23, <2>1, <3>3
    <2>2. CASE ~(m > w)
      BY <1>5, <1>15, <1>21, <1>23, <2>2
    <2> QED  BY <2>1, <2>2
  <1>25. capacity_' \in Nat /\ made' \in A
    BY DEF CacheInv
  <1> QED  BY <1>16, <1>17, <1>24, <1>25 DEF CacheInv

LEMMA InsertKeeps ==
    ASSUME CacheInv, NEW k \in Keys, NEW c \in Charges, Cache!Insert(k, c)
    PROVE  CacheInv'
  <1>1. PICK e \in Cache!Addresses :
           /\ node[e] = Cache!Free
           /\ IF capacity_ > 0 THEN Cache!InsertCached(e, k, c) ELSE Cache!InsertAlone(e, k, c)
           /\ made' = e
    BY DEF Cache!Insert
  <1>2. pc = "idle" /\ pc' = "evict" /\ UNCHANGED <<capacity_, handles>>
    BY DEF Cache!Insert
  <1> QED  BY <1>1, <1>2, InsertCachedKeeps, InsertAloneKeeps

LEMMA CacheKept ==
    ASSUME CacheInv, [Cache!Next]_(Cache!vars)
    PROVE  CacheInv'
  <1>1. CASE UNCHANGED Cache!vars
    BY <1>1 DEF Cache!vars, CacheInv
  <1>2. ASSUME NEW k \in Keys, Cache!Lookup(k) \/ Cache!Erase(k) \/ \E c \in Charges : Cache!Insert(k, c)
        PROVE  CacheInv'
    BY <1>2, LookupKeeps, EraseActKeeps, InsertKeeps
  <1>3. ASSUME NEW e \in Cache!Addresses, Cache!Release(e)
        PROVE  CacheInv'
    BY <1>3, ReleaseKeeps
  <1>4. CASE Cache!Evict \/ Cache!PruneOne \/ Cache!Prune
    BY <1>4, LoopsKeep
  <1>5. CASE Cache!InsertReturns
    BY <1>5, InsertReturnsKeeps
  <1>6. CASE Cache!Destroy
    BY <1>6, DestroyCacheKeeps
  <1> QED  BY <1>1, <1>2, <1>3, <1>4, <1>5, <1>6 DEF Cache!Next

LEMMA CacheBegins == Cache!Init => CacheInv
  <1> DEFINE A == Cache!Addresses
  <1> SUFFICES ASSUME Cache!Init
               PROVE  CacheInv
    OBVIOUS
  <1>1. /\ capacity_ \in Nat /\ usage_ = 0 /\ lru_ = << >> /\ in_usage_ = << >>
        /\ node = [x \in A |-> Cache!Free] /\ list_ = Cache!Chains(MinLength) /\ elems_ = 0
        /\ handles = [x \in A |-> 0] /\ pc = "idle" /\ made = Cache!Null
    BY Assumptions DEF Cache!Init, Cache!CacheAssumption
  <1>2. node \in [A -> Nodes] /\ handles \in [A -> Nat] /\ CachedIn(node) = {}
    BY <1>1, NodeFacts DEF CachedIn
  <1>3. Elems(<< >>) = {} /\ Distinct(<< >>)
    BY DEF Elems, Distinct
  <1>4. Counted(node, handles, made)
    BY <1>1, NodeFacts DEF Counted
  <1>5. ListsGood(lru_, in_usage_, node, handles, made)
    <2>1. OnLists(lru_, in_usage_, node)
      BY <1>1, <1>2, <1>3 DEF OnLists
    <2> QED  BY <1>1, <1>2, <1>4, <2>1 DEF ListsGood
  <1>6. Cardinality({}) = 0
    BY FS_EmptySet
  <1>7. TableGood(list_, MinLength, elems_, node)
    <2>1. list_ = [b \in Buckets(MinLength) |-> << >>]
      BY <1>1 DEF Cache!Chains, Buckets
    <2>2. list_ \in [Buckets(MinLength) -> Seq(A)] /\ DOMAIN list_ = Buckets(MinLength)
      BY <2>1
    <2>3. \A b \in Buckets(MinLength) : list_[b] = << >>
      BY <2>1
    <2>4. Spread(list_) /\ Entries(list_) = {}
      BY <1>3, <2>2, <2>3 DEF Spread, Entries
    <2> QED  BY <1>1, <1>2, <1>6, <2>2, <2>4, MinLengthFact DEF TableGood
  <1>8. UsageGood(usage_, node)
    <2>1. \A f : Weights(f, {}) = {}
      BY DEF Weights
    <2> QED  BY <1>1, <1>2, <1>6, <2>1 DEF UsageGood
  <1>9. \E w \in Nat : TableGood(list_, w, elems_, node) /\ w >= MinLength
    BY <1>7, MinLengthFact
  <1> QED  BY <1>1, <1>5, <1>8, <1>9 DEF CacheInv

LEMMA CachedIsFound ==
    ASSUME CacheInv, ~Cache!Grown, NEW x \in CachedIn(node)
    PROVE  Cache!Find(node[x].key) = x
  <1> DEFINE A == Cache!Addresses
  <1>1. PICK w \in Nat : InvParts(w)
    BY DEF CacheInv, InvParts
  <1>2. /\ list_ \in [Buckets(w) -> Seq(A)] /\ Entries(list_) = CachedIn(node) /\ Spread(list_)
        /\ node[x].key \in Keys /\ DOMAIN list_ = Buckets(w)
    BY <1>1 DEF InvParts, TableGood
  <1>3. PICK k \in Keys : k = node[x].key
    BY <1>2
  <1>4. w \in Nat \ {0}
    <2>1. Entries(list_) # {}
      BY <1>2
    <2>2. Buckets(w) # {}
      BY <1>2, <2>1 DEF Entries
    <2> QED  BY <2>2 DEF Buckets
  <1>5. PICK b : b = HashOf[k] % w
    OBVIOUS
  <1>6. /\ Cache!length_ = w /\ b \in Buckets(w)
        /\ Cache!Find(k) = FoundIn(list_[b], node, k)
    <2> HIDE DEF A
    <2> QED  BY <1>2, <1>4, <1>5, FindNow
  <1>7. InPlace(list_, w, node, x)
    <2>1. w <= MinLength
      BY <1>6, MinLengthFact DEF Cache!Grown
    <2> QED  BY <1>1, <2>1 DEF InvParts, TableGood
  <1>8. x \in Elems(list_[b]) /\ \A y \in CachedIn(node) : node[y].key = k => y = x
    BY <1>3, <1>5, <1>7 DEF InPlace
  <1>9. IF FoundIn(list_[b], node, k) = Cache!Null
        THEN \A y \in Elems(list_[b]) : node[y].key # k
        ELSE FoundIn(list_[b], node, k) \in Elems(list_[b]) /\ node[FoundIn(list_[b], node, k)].key = k
    <2>1. list_[b] \in Seq(A) /\ Cache!Null \notin A
      BY <1>2, <1>6, NodeFacts
    <2> HIDE DEF A
    <2> QED  BY <2>1, Found
  <1>10. Elems(list_[b]) \subseteq CachedIn(node)
    BY <1>2, <1>6 DEF Entries
  <1> QED  BY <1>3, <1>6, <1>8, <1>9, <1>10

LEMMA InvGivesCache ==
    ASSUME CacheInv
    PROVE  Cache!CacheConsistent
  <1> DEFINE A == Cache!Addresses
  <1>1. PICK w \in Nat : InvParts(w)
    BY DEF CacheInv, InvParts
  <1>2. Cache!Cached = CachedIn(node)
    BY DEF Cache!Cached, CachedIn
  <1>3. \A S : \A q \in Seq(S) : Cache!ToSet(q) = Elems(q) /\ (Distinct(q) => Cache!IsInjective(q))
    <2> SUFFICES ASSUME NEW S, NEW q \in Seq(S)
                 PROVE  Cache!ToSet(q) = Elems(q) /\ (Distinct(q) => Cache!IsInjective(q))
      OBVIOUS
    <2>1. DOMAIN q = 1 .. Len(q)
      OBVIOUS
    <2> QED  BY <2>1 DEF Cache!ToSet, Elems, Distinct, Cache!IsInjective
  <1>4. /\ Cache!ToSet(lru_) = {x \in CachedIn(node) : node[x].refs = 1}
        /\ Cache!ToSet(in_usage_) = {x \in CachedIn(node) : node[x].refs > 1}
        /\ Cache!IsInjective(lru_) /\ Cache!IsInjective(in_usage_)
    <2>1. /\ lru_ \in Seq(A) /\ in_usage_ \in Seq(A) /\ Distinct(lru_) /\ Distinct(in_usage_)
      BY ListFacts
    <2> HIDE DEF A
    <2> QED  BY <1>3, <2>1, ListFacts
  <1>5. Cache!InTable = CachedIn(node)
    <2>1. /\ list_ \in [Buckets(w) -> Seq(A)] /\ DOMAIN list_ = Buckets(w)
          /\ Entries(list_) = CachedIn(node)
      BY <1>1 DEF InvParts, TableGood
    <2>2. \A b \in DOMAIN list_ : Cache!ToSet(list_[b]) = Elems(list_[b])
      BY <1>3, <2>1
    <2>3. Cache!InTable = Entries(list_)
      BY <2>2 DEF Cache!InTable, Entries
    <2> QED  BY <2>1, <2>3
  <1>6. \A x \in A : node[x].refs = Cache!Holders(x) + (IF node[x].in_cache THEN 1 ELSE 0)
    BY DEF CacheInv, ListsGood, Counted, Cache!Holders
  <1>7. Cache!ListsAndRefs
    BY <1>2, <1>4, <1>5, <1>6 DEF Cache!ListsAndRefs
  <1>8. Cache!UsageExact
    <2> DEFINE f == [x \in A |-> node[x].charge]
    <2>1. \A x \in CachedIn(node) : f[x] = node[x].charge
      BY CacheSets
    <2> HIDE DEF f
    <2>2. Weights(f, CachedIn(node)) = UNION {{x} \X (1 .. node[x].charge) : x \in CachedIn(node)}
      BY <2>1 DEF Weights
    <2>3. usage_ = Cardinality(Weights(f, CachedIn(node)))
      BY DEF CacheInv, UsageGood, f
    <2> QED  BY <1>2, <2>2, <2>3, CacheCounting DEF Cache!UsageExact
  <1>9. Cache!TableFinds
    <2>1. elems_ = Cache!Cardinality(Cache!Cached)
      BY <1>1, <1>2, CacheCounting DEF InvParts, TableGood
    <2> QED  BY <1>2, <2>1, CachedIsFound DEF Cache!TableFinds
  <1> QED  BY <1>7, <1>8, <1>9 DEF Cache!CacheConsistent

\* What a loop evicts is found and is nobody's.
LEMMA ColdestGoes ==
    ASSUME CacheInv, ~Cache!Grown, pc \in {"evict", "prune"}, lru_ # << >>, Cache!EraseColdest
    PROVE  /\ pc' = pc
           /\ \A x \in Cache!Cached : Cache!Holders(x) > 0 => x \in Cache!Cached'
  <1>1. PICK old : old = Head(lru_)
    OBVIOUS
  <1>2. old \in CachedIn(node) /\ node[old].refs = 1 /\ node[old].key \in Keys
    BY <1>1, ColdestIsCached
  <1>3. PICK k \in Keys : k = node[old].key
    BY <1>2
  <1>4. Cache!Find(k) = old /\ old # Cache!Null
    BY <1>2, <1>3, CachedIsFound, CacheSets, NodeFacts
  <1>5. /\ Cache!TableRemove(k) /\ Cache!FinishErase(Cache!Find(k))
        /\ UNCHANGED <<capacity_, handles, pc, made>>
    BY <1>1, <1>2, <1>3, <1>4 DEF Cache!EraseColdest
  <1>6. CachedWithout(node, node', old)
    BY <1>4, <1>5, EraseKeeps
  <1>7. Cache!Cached = CachedIn(node) /\ Cache!Cached' = CachedIn(node')
    BY DEF Cache!Cached, CachedIn
  <1>8. Cache!Holders(old) = 0
    <2>1. old \in Cache!Addresses /\ node[old].in_cache
      BY <1>2 DEF CachedIn
    <2>2. PICK h : h = Cache!Holders(old)
      OBVIOUS
    <2>3. h = handles[old] + (IF old = made THEN 1 ELSE 0)
      BY <2>2 DEF Cache!Holders
    <2>4. node[old].refs = handles[old] + (IF old = made THEN 1 ELSE 0) + 1 /\ handles[old] \in Nat
      BY <2>1, HandleFacts
    <2> QED  BY <1>2, <2>2, <2>3, <2>4
  <1>9. \A x \in Cache!Cached : Cache!Holders(x) > 0 => x \in Cache!Cached'
    BY <1>6, <1>7, <1>8 DEF CachedWithout
  <1> QED  BY <1>5, <1>9

LEMMA CacheStep ==
    ASSUME CacheInv, Cache!Next
    PROVE  Cache!Pinned
  <1> SUFFICES ASSUME ~Cache!Grown, pc \in {"evict", "prune"}
               PROVE  /\ pc' # "aborted"
                      /\ \A x \in Cache!Cached : Cache!Holders(x) > 0 => x \in Cache!Cached'
    BY DEF Cache!Pinned
  <1>1. Cache!Evict \/ Cache!PruneOne \/ Cache!InsertReturns \/ (Cache!Prune /\ pc = "prune")
    BY DEF Cache!Next, Cache!Lookup, Cache!Erase, Cache!Insert, Cache!Release, Cache!Destroy, Cache!Prune
  <1>2. CASE Cache!Evict
    BY <1>2, ColdestGoes DEF Cache!Evict, Cache!OverFull
  <1>3. CASE Cache!PruneOne
    BY <1>3, ColdestGoes DEF Cache!PruneOne
  <1>4. CASE Cache!InsertReturns \/ (Cache!Prune /\ pc = "prune")
    <2>1. node' = node /\ pc' # "aborted"
      BY <1>4 DEF Cache!InsertReturns, Cache!Prune
    <2>2. Cache!Cached' = Cache!Cached
      BY <2>1 DEF Cache!Cached
    <2> QED  BY <2>1, <2>2
  <1> QED  BY <1>1, <1>2, <1>3, <1>4

-----------------------------------------------------------------------------
(* A step of a behaviour is one of its subject's module, or changes none of  *)
(* that module's variables.                                                  *)
LEMMA SubjectSteps ==
    ASSUME [Next]_vars
    PROVE  /\ subject' = subject
           /\ subject = "cache" => [Cache!Next]_(Cache!vars)
           /\ subject = "buffers" => [Buffers!Next]_(Buffers!vars)
           /\ subject = "matrices" => [Matrices!Next]_(Matrices!vars)
           /\ subject = "arena" => [Arena!Next]_(Arena!vars)
  <1>1. CASE UNCHANGED vars
    BY <1>1 DEF vars, ofCache, ofBuffers, ofMatrices, ofArena, Cache!vars, Matrices!vars, Arena!vars, Buffers!vars,
                Buffers!poolVars, Buffers!place, Buffers!socket, Buffers!users
  <1>2. CASE Next
    BY <1>2 DEF Next, NextCache, NextBuffers, NextMatrices, NextArena
  <1> QED  BY <1>1, <1>2

LEMMA SubjectBegins ==
    ASSUME Init
    PROVE  /\ subject = "cache" => Cache!Init
           /\ subject = "buffers" => Buffers!Init
           /\ subject = "matrices" => Matrices!Init
           /\ subject = "arena" => Arena!Init
  BY DEF Init, InitCache, InitBuffers, InitMatrices, InitArena

ObjectInv == /\ subject = "cache" => CacheInv
             /\ subject = "buffers" => BufferInv
             /\ subject = "matrices" => MatrixInv
             /\ subject = "arena" => ArenaInv

(* Every reachable state of the cache, the buffers, the matrices and the     *)
(* arena is one of their inductive invariants.                               *)
THEOREM Invariance == Spec => []ObjectInv
  <1> USE Assumptions
  <1>1. Init => ObjectInv
    BY SubjectBegins, CacheBegins, BufferBegins, MatrixBegins, ArenaBegins DEF ObjectInv
  <1>2. ObjectInv /\ [Next]_vars => ObjectInv'
    BY SubjectSteps, CacheKept, BufferKept, MatrixKept, ArenaKept DEF ObjectInv
  <1> QED  BY <1>1, <1>2, PTL DEF Spec

(* A chunk of the shared pool is in the pool once or with one buffer, and    *)
(* clean when it is free; a block of the matrices is in one pool, once, or   *)
(* has a holder, and every matrix stays within its block; no piece of the    *)
(* arena overlaps another.                                                   *)
THEOREM EachHasOneOwner == Spec => []OneOwner
  <1>1. ObjectInv => OneOwner
    BY Assumptions, InvGivesChunks, InvGivesOwned DEF ObjectInv, OneOwner, ArenaInv
  <1> QED  BY <1>1, Invariance, PTL

(* The user of a connection gets the bytes of the peer in order and without  *)
(* a gap, and the peer those of the user, whatever chunk the buffers grow    *)
(* into and however an operation fails.                                      *)
THEOREM StreamsAreKept == Spec => []StreamsKept
  <1>1. ObjectInv => StreamsKept
    BY Assumptions, InvGivesStreams DEF ObjectInv, StreamsKept
  <1> QED  BY <1>1, Invariance, PTL

(* A step changes the elements of at most one matrix or batch that was there *)
(* before: no write reaches what a copy or a view has captured.              *)
THEOREM ValuesAreKept == Spec => ValuesKept
  <1>1. ObjectInv /\ [Next]_vars => [subject = "matrices" => Matrices!OneChanges]_vars
    <2>1. ObjectInv /\ Next /\ subject = "matrices" => MatrixInv /\ Matrices!Next
      BY DEF ObjectInv, Next, NextCache, NextBuffers, NextMatrices, NextArena
    <2>2. ObjectInv /\ Next => (subject = "matrices" => Matrices!OneChanges)
      BY <2>1, MatrixStep, Assumptions
    <2> QED  BY <2>2
  <1> QED  BY <1>1, Invariance, PTL DEF Spec, ValuesKept

(* Whatever is looked up, replaced, erased, evicted and released: a node of  *)
(* the cache lives as long as it is referred to, on the list its references  *)
(* call for; the table holds the cached nodes, each once, and until it grows *)
(* finds each by its key; the usage is the charge of what is cached.         *)
THEOREM CacheIsConsistent == Spec => []CacheConsistent
  <1>1. ObjectInv => CacheConsistent
    BY InvGivesCache DEF ObjectInv, CacheConsistent
  <1> QED  BY <1>1, Invariance, PTL

(* Until the table grows, the loops of Insert and Prune find what they       *)
(* evict, and it is never what a caller holds or what is being inserted.     *)
THEOREM PinnedIsKept == Spec => PinnedStays
  <1>1. ObjectInv /\ [Next]_vars => [subject = "cache" => Cache!Pinned]_vars
    <2>1. ObjectInv /\ Next /\ subject = "cache" => CacheInv /\ Cache!Next
      BY DEF ObjectInv, Next, NextCache, NextBuffers, NextMatrices, NextArena
    <2>2. ObjectInv /\ Next => (subject = "cache" => Cache!Pinned)
      BY <2>1, CacheStep
    <2> QED  BY <2>2
  <1> QED  BY <1>1, Invariance, PTL DEF Spec, PinnedStays
=============================================================================
