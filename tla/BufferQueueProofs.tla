------------------------- MODULE BufferQueueProofs -------------------------
(***************************************************************************)
(* BufferQueue keeps its ring consistent and implements BoundedFifo, for   *)
(* every capacity, set of threads and set of items.                        *)
(***************************************************************************)
EXTENDS BufferQueue, SequenceTheorems, TLAPS

LEMMA ModSmall == ASSUME NEW n \in Nat \ {0}, NEW x \in 0 .. n - 1
                  PROVE  x % n = x
  OBVIOUS

LEMMA ModWraps == ASSUME NEW n \in Nat \ {0}, NEW x \in n .. 2 * n - 1
                  PROVE  x % n = x - n
  OBVIOUS

(* The slot i past index f, without the remainder. *)
LEMMA SlotIs ==
  ASSUME NEW f \in -1 .. capacity_ - 1, NEW i \in 1 .. capacity_
  PROVE  /\ (f + i) % capacity_ = IF f + i < capacity_ THEN f + i ELSE f + i - capacity_
         /\ (f + i) % capacity_ \in Slots
  <1> USE QueueAssumption DEF QueueAssumption
  <1>1. CASE f + i < capacity_
    <2>1. f + i \in 0 .. capacity_ - 1  BY <1>1
    <2> QED  BY <1>1, <2>1, ModSmall DEF Slots
  <1>2. CASE f + i >= capacity_
    <2>1. f + i \in capacity_ .. 2 * capacity_ - 1  BY <1>2
    <2> QED  BY <1>2, <2>1, ModWraps DEF Slots
  <1> QED  BY <1>1, <1>2

(* The contents are a sequence of size_ items. *)
LEMMA ContentsType ==
  IInv => /\ Contents \in Seq(Items)
          /\ Len(Contents) = size_
          /\ Contents = << >> <=> size_ = 0
          /\ \A i \in 1 .. size_ : Contents[i] = array_[SlotOf(i)]
  BY QueueAssumption DEF QueueAssumption, Contents, IInv, TypeOK, NoGarbage

LEMMA ContentsPrimed ==
  IInv' => (/\ Contents \in Seq(Items)
            /\ Len(Contents) = size_
            /\ Contents = << >> <=> size_ = 0
            /\ \A i \in 1 .. size_ : Contents[i] = array_[SlotOf(i)])'
  BY ContentsType, PTL

Replies == [op : {"none", "push", "pop", "front", "back"}, ok : BOOLEAN,
            val : Items \cup {Garbage, Nothing}]

LEMMA ReplyType ==
  ASSUME NEW op \in {"none", "push", "pop", "front", "back"}, NEW ok \in BOOLEAN,
         NEW val \in Items \cup {Garbage, Nothing}
  PROVE  Reply(op, ok, val) \in Replies
  BY DEF Reply, Replies

LEMMA NotifyType == TypeOK /\ NotifyAll => /\ at' \in [Threads -> Places]
                                           /\ \A t \in Threads : at'[t] \notin {"wait", "wait_for"}
  BY DEF TypeOK, NotifyAll, Waiting, Places

(* A push writes the slot after the last live one, and no live one. *)
LEMMA PushSlot ==
  ASSUME IInv, size_ < capacity_
  PROVE  /\ (last_ + 1) % capacity_ = SlotOf(size_ + 1)
         /\ SlotOf(size_ + 1) \in Slots
         /\ \A i \in 1 .. size_ : SlotOf(i) \in Slots /\ SlotOf(i) # SlotOf(size_ + 1)
  <1> USE QueueAssumption DEF QueueAssumption, IInv, TypeOK, RingConsistent, SlotOf
  <1>1. /\ size_ + 1 \in 1 .. capacity_ /\ 1 \in 1 .. capacity_
        /\ \A i \in 1 .. size_ : i \in 1 .. capacity_
    OBVIOUS
  <1>2. (last_ + 1) % capacity_ = IF last_ + 1 < capacity_ THEN last_ + 1 ELSE last_ + 1 - capacity_
    BY <1>1, SlotIs
  <1>3. /\ SlotOf(size_ + 1) = IF first_ + (size_ + 1) < capacity_ THEN first_ + (size_ + 1)
                                                               ELSE first_ + (size_ + 1) - capacity_
        /\ SlotOf(size_ + 1) \in Slots
    BY <1>1, SlotIs
  <1>4. ASSUME NEW i \in 1 .. size_
        PROVE  SlotOf(i) \in Slots /\ SlotOf(i) # SlotOf(size_ + 1)
    <2>1. /\ SlotOf(i) = IF first_ + i < capacity_ THEN first_ + i ELSE first_ + i - capacity_
          /\ SlotOf(i) \in Slots
      BY <1>1, SlotIs
    <2> QED  BY <1>3, <2>1
  <1> QED  BY <1>2, <1>3, <1>4

(* Pushing keeps the invariant and appends to the contents. *)
LEMMA PushStep ==
  ASSUME IInv, NEW t \in Threads, NEW v \in Items, Push(t, v)
  PROVE  IInv' /\ Contents' = Append(Contents, v)
  <1> USE QueueAssumption DEF QueueAssumption
  <1> DEFINE new == (last_ + 1) % capacity_
  <1>1. /\ size_ < capacity_ /\ size_' = size_ + 1 /\ first_' = first_
        /\ last_' = new /\ array_' = [array_ EXCEPT ![new] = v]
        /\ wcnt_' = wcnt_ + 1 /\ rcnt_' = rcnt_ /\ NotifyAll
        /\ \E ok \in PushReply : reply' = Reply("push", ok, v)
    BY DEF Push, Stored, IsFull, IInv, TypeOK
  <1>2. /\ new = SlotOf(size_ + 1) /\ new \in Slots
        /\ \A i \in 1 .. size_ : SlotOf(i) \in Slots /\ SlotOf(i) # new
    BY <1>1, PushSlot
  <1>3. SlotOf(size_ + 1) = IF first_ + (size_ + 1) < capacity_ THEN first_ + (size_ + 1)
                                                            ELSE first_ + (size_ + 1) - capacity_
    <2>1. size_ + 1 \in 1 .. capacity_ /\ first_ \in -1 .. capacity_ - 1
      BY <1>1 DEF IInv, TypeOK
    <2> QED  BY <2>1, SlotIs DEF SlotOf
  <1>4. \A i \in 1 .. size_ + 1 : SlotOf(i)' = SlotOf(i)
    BY <1>1 DEF SlotOf
  <1>5. TypeOK'
    <2>1. reply' \in Replies
      BY <1>1, ReplyType
    <2> QED  BY <1>1, <1>2, <2>1, NotifyType DEF IInv, TypeOK, Slots, Replies
  <1>6. RingConsistent'
    <2>1. last_' = IF first_' + size_' < capacity_ THEN first_' + size_' ELSE first_' + size_' - capacity_
      BY <1>1, <1>2, <1>3 DEF IInv, TypeOK
    <2> QED  BY <1>5, <2>1 DEF RingConsistent
  <1>7. /\ array_'[new] = v
        /\ \A i \in 1 .. size_ : array_'[SlotOf(i)] = array_[SlotOf(i)]
    BY <1>1, <1>2 DEF IInv, TypeOK
  <1>8. NoGarbage'
    <2> SUFFICES ASSUME NEW i \in 1 .. size_ + 1 PROVE array_'[SlotOf(i)] \in Items
      BY <1>1, <1>4 DEF NoGarbage
    <2>1. CASE i = size_ + 1  BY <2>1, <1>2, <1>7
    <2>2. CASE i \in 1 .. size_  BY <2>2, <1>7 DEF IInv, NoGarbage
    <2> QED  BY <2>1, <2>2 DEF IInv, TypeOK
  <1>9. NoSleepOnItems' /\ CountersAgree'
    BY <1>1, NotifyType DEF IInv, TypeOK, NoSleepOnItems, Waiting, CountersAgree
  <1>10. Contents' = Append(Contents, v)
    <2>1. /\ Contents' \in Seq(Items) /\ Len(Contents') = size_ + 1
          /\ \A i \in 1 .. size_ + 1 : Contents'[i] = array_'[SlotOf(i)]
      <3>1. IInv'  BY <1>5, <1>6, <1>8, <1>9 DEF IInv
      <3>2. (Contents \in Seq(Items) /\ Len(Contents) = size_
               /\ \A i \in 1 .. size_ : Contents[i] = array_[SlotOf(i)])'
        BY <3>1, ContentsPrimed
      <3> QED  BY <1>1, <1>4, <3>2
    <2>2. /\ Contents \in Seq(Items) /\ Len(Contents) = size_ /\ size_ \in Nat
          /\ \A i \in 1 .. size_ : Contents[i] = array_[SlotOf(i)]
      BY ContentsType DEF IInv, TypeOK
    <2>3. /\ Append(Contents, v) \in Seq(Items) /\ Len(Append(Contents, v)) = size_ + 1
          /\ \A i \in 1 .. size_ : Append(Contents, v)[i] = Contents[i]
          /\ Append(Contents, v)[size_ + 1] = v
      BY <2>2, AppendProperties
    <2>4. ASSUME NEW i \in 1 .. size_ + 1
          PROVE  Contents'[i] = Append(Contents, v)[i]
      <3>1. CASE i = size_ + 1  BY <3>1, <1>2, <1>7, <2>1, <2>3
      <3>2. CASE i \in 1 .. size_  BY <3>2, <1>7, <2>1, <2>2, <2>3
      <3> QED  BY <3>1, <3>2, <2>2
    <2> QED  BY <2>1, <2>3, <2>4, SeqEqual
  <1> QED  BY <1>5, <1>6, <1>8, <1>9, <1>10 DEF IInv

(* Popping keeps the invariant, hands out the head of the contents and     *)
(* leaves the tail.                                                        *)
LEMMA TakeStep ==
  ASSUME IInv, TakeOldest, at' \in [Threads -> Places],
         \A t \in Threads : at'[t] \in {"wait", "wait_for"} => at[t] \in {"wait", "wait_for"}
  PROVE  /\ IInv'
         /\ Contents # << >>
         /\ Contents' = Tail(Contents)
         /\ reply' = Reply("pop", TRUE, Head(Contents))
  <1> USE QueueAssumption DEF QueueAssumption
  <1>1. /\ size_ \in 1 .. capacity_ /\ size_' = size_ - 1 /\ first_' = SlotOf(1)
        /\ last_' = last_ /\ array_' = array_ /\ wcnt_' = wcnt_ /\ rcnt_' = rcnt_ + 1
        /\ reply' = Reply("pop", TRUE, array_[SlotOf(1)])
    BY DEF TakeOldest, SlotOf, IInv, TypeOK
  <1>2. /\ SlotOf(1) \in Slots
        /\ SlotOf(1) = IF first_ + 1 < capacity_ THEN first_ + 1 ELSE first_ + 1 - capacity_
    <2>1. 1 \in 1 .. capacity_ /\ first_ \in -1 .. capacity_ - 1
      BY <1>1 DEF IInv, TypeOK
    <2> QED  BY <2>1, SlotIs DEF SlotOf
  <1>3. ASSUME NEW i \in 1 .. size_ - 1
        PROVE  SlotOf(i)' = SlotOf(i + 1)
    <2>1. /\ i \in 1 .. capacity_ /\ i + 1 \in 1 .. capacity_
          /\ first_ \in -1 .. capacity_ - 1 /\ SlotOf(1) \in -1 .. capacity_ - 1
      BY <1>1, <1>2 DEF IInv, TypeOK, Slots
    <2>2. SlotOf(i + 1) = IF first_ + (i + 1) < capacity_ THEN first_ + (i + 1)
                                                         ELSE first_ + (i + 1) - capacity_
      BY <2>1, SlotIs DEF SlotOf
    <2>3. SlotOf(i)' = IF SlotOf(1) + i < capacity_ THEN SlotOf(1) + i ELSE SlotOf(1) + i - capacity_
      <3>1. SlotOf(i)' = (SlotOf(1) + i) % capacity_
        BY <1>1 DEF SlotOf
      <3>2. (SlotOf(1) + i) % capacity_
              = IF SlotOf(1) + i < capacity_ THEN SlotOf(1) + i ELSE SlotOf(1) + i - capacity_
        BY <2>1, SlotIs
      <3> QED  BY <3>1, <3>2
    <2> QED  BY <1>2, <2>1, <2>2, <2>3
  <1>4. /\ Contents \in Seq(Items) /\ Len(Contents) = size_ /\ Contents # << >>
        /\ \A i \in 1 .. size_ : Contents[i] = array_[SlotOf(i)] /\ array_[SlotOf(i)] \in Items
    BY <1>1, ContentsType DEF IInv, NoGarbage
  <1>5. TypeOK'
    <2>1. array_[SlotOf(1)] \in Items \cup {Garbage, Nothing}
      BY <1>1, <1>4
    <2>2. reply' \in Replies
      BY <1>1, <2>1, ReplyType
    <2>3. first_' \in -1 .. capacity_ - 1 /\ size_' \in 0 .. capacity_ /\ rcnt_' \in Nat
      BY <1>1, <1>2 DEF IInv, TypeOK, Slots
    <2> QED  BY <1>1, <2>2, <2>3 DEF IInv, TypeOK, Replies
  <1>6. RingConsistent'
    <2>1. last_' = IF first_' + size_' < capacity_ THEN first_' + size_' ELSE first_' + size_' - capacity_
      BY <1>1, <1>2 DEF IInv, TypeOK, RingConsistent
    <2> QED  BY <1>5, <2>1 DEF RingConsistent
  <1>7. NoGarbage'
    <2> SUFFICES ASSUME NEW i \in 1 .. size_ - 1 PROVE array_[SlotOf(i)'] \in Items
      BY <1>1 DEF NoGarbage
    <2>1. i + 1 \in 1 .. size_
      BY <1>1
    <2> QED  BY <1>3, <1>4, <2>1
  <1>8. NoSleepOnItems' /\ CountersAgree'
    BY <1>1 DEF IInv, TypeOK, NoSleepOnItems, Waiting, CountersAgree
  <1>9. Contents' = Tail(Contents)
    <2>1. /\ Contents' \in Seq(Items) /\ Len(Contents') = size_ - 1
          /\ \A i \in 1 .. size_ - 1 : Contents'[i] = array_[SlotOf(i)']
      <3>1. IInv'  BY <1>5, <1>6, <1>7, <1>8 DEF IInv
      <3>2. (Contents \in Seq(Items) /\ Len(Contents) = size_
               /\ \A i \in 1 .. size_ : Contents[i] = array_[SlotOf(i)])'
        BY <3>1, ContentsPrimed
      <3> QED  BY <1>1, <3>2
    <2>2. /\ Tail(Contents) \in Seq(Items) /\ Len(Tail(Contents)) = size_ - 1
          /\ \A i \in 1 .. size_ - 1 : Tail(Contents)[i] = Contents[i + 1]
      BY <1>4, HeadTailProperties
    <2>3. ASSUME NEW i \in 1 .. size_ - 1
          PROVE  Contents'[i] = Tail(Contents)[i]
      <3>1. i + 1 \in 1 .. size_  BY <1>1
      <3> QED  BY <1>3, <1>4, <2>1, <2>2, <3>1
    <2> QED  BY <2>1, <2>2, <2>3, SeqEqual
  <1>10. Head(Contents) = array_[SlotOf(1)]
    BY <1>1, <1>4
  <1> QED  BY <1>1, <1>4, <1>5, <1>6, <1>7, <1>8, <1>9, <1>10 DEF IInv

(* A step that leaves the ring and the counters alone, and puts no thread  *)
(* to sleep on a non-empty ring, keeps the invariant and the contents.     *)
LEMMA RingAlone ==
  ASSUME IInv, UNCHANGED <<ring, counters>>, at' \in [Threads -> Places], reply' \in Replies,
         \A t \in Threads : at'[t] \in {"wait", "wait_for"} =>
                               at[t] \in {"wait", "wait_for"} \/ size_ = 0
  PROVE  IInv' /\ Contents' = Contents
  <1> USE DEF ring, counters
  <1>1. \A i : SlotOf(i)' = SlotOf(i)
    BY DEF SlotOf
  <1>2. TypeOK' /\ RingConsistent' /\ CountersAgree' /\ NoSleepOnItems'
    BY DEF IInv, TypeOK, RingConsistent, CountersAgree, NoSleepOnItems, Waiting, Replies
  <1>3. NoGarbage' /\ Contents' = Contents
    BY <1>1 DEF IInv, NoGarbage, Contents
  <1> QED  BY <1>2, <1>3 DEF IInv

LEMMA ClearStep ==
  ASSUME IInv, NEW t \in Threads, Clear(t)
  PROVE  IInv' /\ Contents' = << >> /\ reply' = reply
  <1> USE QueueAssumption DEF QueueAssumption
  <1>1. IInv'
    BY DEF Clear, Emptied, IInv, TypeOK, RingConsistent, NoGarbage, NoSleepOnItems, Waiting, CountersAgree
  <1>2. Contents' = << >>
    <2>1. (Contents = << >> <=> size_ = 0)'
      BY <1>1, ContentsPrimed
    <2> QED  BY <2>1 DEF Clear, Emptied
  <1> QED  BY <1>1, <1>2 DEF Clear, Emptied

-----------------------------------------------------------------------------
(* Every step of the queue keeps the invariant and is a step of the        *)
(* bounded queue on the contents, or leaves them and the reply alone.      *)
LEMMA Step == IInv /\ [Next]_vars => IInv' /\ [Fifo!Next]_(Fifo!fifoVars)
  <1> SUFFICES ASSUME IInv, [Next]_vars
               PROVE  IInv' /\ [Fifo!Next]_(Fifo!fifoVars)
    OBVIOUS
  <1> USE DEF Fifo!Next, Fifo!fifoVars
  <1>0. /\ reply \in Replies /\ at \in [Threads -> Places]
        /\ size_ \in 0 .. capacity_ /\ capacity_ \in Nat \ {0}
        /\ Contents \in Seq(Items) /\ Len(Contents) = size_ /\ (Contents = << >> <=> size_ = 0)
        /\ \A i \in 1 .. size_ : Contents[i] = array_[SlotOf(i)]
    BY ContentsType, QueueAssumption DEF IInv, TypeOK, Replies, QueueAssumption
  <1>1. ASSUME NEW t \in Threads, NEW v \in Items, Push(t, v)
        PROVE  IInv' /\ Fifo!Put(v)
    <2>1. IInv' /\ Contents' = Append(Contents, v)
      BY <1>1, PushStep
    <2>2. size_ < capacity_ /\ \E ok \in BOOLEAN : reply' = Reply("push", ok, v)
      BY <1>0, <1>1, QueueAssumption DEF Push, Stored, IsFull, QueueAssumption
    <2> QED  BY <1>0, <2>1, <2>2 DEF Fifo!Put, Fifo!Reply, Reply
  <1>2. ASSUME NEW t \in Threads, NEW v \in Items, PushFull(t, v)
        PROVE  IInv' /\ Fifo!Refuse(v)
    <2>1. /\ UNCHANGED <<ring, counters>> /\ NotifyAll /\ size_ = capacity_
          /\ reply' = Reply("push", FALSE, v)
      BY <1>0, <1>2 DEF PushFull, IsFull
    <2>2. reply' \in Replies
      BY <2>1, ReplyType
    <2>3. IInv' /\ Contents' = Contents
      BY <2>1, <2>2, NotifyType, RingAlone DEF IInv
    <2> QED  BY <1>0, <2>1, <2>3 DEF Fifo!Refuse, Fifo!Reply, Reply
  <1>3. ASSUME NEW t \in Threads, Notify(t)
        PROVE  IInv' /\ UNCHANGED Fifo!fifoVars
    BY <1>0, <1>3, NotifyType, RingAlone DEF Notify, IInv
  <1>4. ASSUME NEW t \in Threads, Clear(t)
        PROVE  IInv' /\ Fifo!Reset
    BY <1>4, ClearStep DEF Fifo!Reset
  <1>5. ASSUME NEW t \in Threads, Front(t)
        PROVE  IInv' /\ Fifo!Look
    <2>1. UNCHANGED <<ring, counters>> /\ at' = at
      BY <1>5 DEF Front
    <2>2. \E val \in Items \cup {Garbage, Nothing} : reply' = Reply("front", size_ # 0, val)
      BY <1>5 DEF Front, IInv, TypeOK
    <2>3. reply' \in Replies
      BY <2>2, ReplyType
    <2>4. IInv' /\ Contents' = Contents
      BY <1>0, <2>1, <2>3, RingAlone
    <2> QED  BY <1>0, <2>2, <2>4 DEF Fifo!Look, Reply
  <1>6. ASSUME NEW t \in Threads, Back(t)
        PROVE  IInv' /\ Fifo!Newest
    <2>1. UNCHANGED <<ring, counters>> /\ at' = at
      BY <1>6 DEF Back
    <2>2. size_ # 0 => array_[last_] = Contents[size_] /\ Contents[size_] \in Items
      <3> SUFFICES ASSUME size_ # 0
                   PROVE  array_[last_] = Contents[size_] /\ Contents[size_] \in Items
        OBVIOUS
      <3>1. size_ \in 1 .. size_ /\ size_ \in 1 .. capacity_ /\ first_ \in -1 .. capacity_ - 1
        BY <1>0 DEF IInv, TypeOK
      <3>2. SlotOf(size_) = last_
        BY <3>1, SlotIs DEF SlotOf, IInv, RingConsistent
      <3> QED  BY <1>0, <3>1, <3>2
    <2>3. reply' = IF size_ = 0 THEN Reply("back", FALSE, Nothing)
                                ELSE Reply("back", TRUE, Contents[size_])
      BY <1>6, <2>2 DEF Back
    <2>4. reply' \in Replies
      BY <2>2, <2>3, ReplyType
    <2>5. IInv' /\ Contents' = Contents
      BY <1>0, <2>1, <2>4, RingAlone
    <2> QED  BY <1>0, <2>3, <2>5 DEF Fifo!Newest, Fifo!Reply, Reply
  <1>7. ASSUME TakeOldest, NEW t \in Threads, at' = at \/ at' = [at EXCEPT ![t] = "idle"]
        PROVE  IInv' /\ Fifo!Take
    <2>1. /\ at' \in [Threads -> Places]
          /\ \A u \in Threads : at'[u] \in {"wait", "wait_for"} => at[u] \in {"wait", "wait_for"}
      BY <1>0, <1>7 DEF Places
    <2> QED  BY <1>7, <2>1, TakeStep DEF Fifo!Take, Fifo!Reply, Reply
  <1>8. ASSUME ReturnFalse, NEW t \in Threads, at' = [at EXCEPT ![t] = "idle"]
        PROVE  IInv' /\ Fifo!Miss
    <2>1. /\ UNCHANGED <<ring, counters>> /\ at' \in [Threads -> Places]
          /\ \A u \in Threads : at'[u] \in {"wait", "wait_for"} => at[u] \in {"wait", "wait_for"}
          /\ reply' = Reply("pop", FALSE, Nothing)
      BY <1>0, <1>8 DEF ReturnFalse, Places
    <2>2. reply' \in Replies
      BY <2>1, ReplyType
    <2>3. IInv' /\ Contents' = Contents
      BY <2>1, <2>2, RingAlone
    <2> QED  BY <2>1, <2>3 DEF Fifo!Miss, Fifo!Reply, Reply
  <1>9. ASSUME NEW t \in Threads, PopBlocks(t)
        PROVE  IInv' /\ UNCHANGED Fifo!fifoVars
    <2>1. /\ UNCHANGED <<ring, counters, reply>> /\ size_ = 0
          /\ at' \in [Threads -> Places]
      BY <1>0, <1>9 DEF PopBlocks, Places
    <2> QED  BY <1>0, <2>1, RingAlone
  <1>10. ASSUME NEW t \in Threads, SpuriousWake(t) \/ Expire(t)
         PROVE  IInv' /\ UNCHANGED Fifo!fifoVars
    <2>1. /\ UNCHANGED <<ring, counters, reply>>
          /\ at' \in [Threads -> Places]
          /\ \A u \in Threads : at'[u] \in {"wait", "wait_for"} => at[u] \in {"wait", "wait_for"}
      BY <1>0, <1>10 DEF SpuriousWake, Expire, Places
    <2> QED  BY <1>0, <2>1, RingAlone
  <1>11. CASE UNCHANGED vars
    <2>1. UNCHANGED <<ring, counters>> /\ at' = at /\ reply' = reply
      BY <1>11 DEF vars
    <2> QED  BY <1>0, <2>1, RingAlone
  <1>12. ASSUME NEW t \in Threads, Call(t) \/ SpuriousWake(t) \/ Expire(t) \/ Return(t)
         PROVE  IInv' /\ [Fifo!Next]_(Fifo!fifoVars)
    <2>1. CASE \E v \in Items : Push(t, v) \/ PushFull(t, v)
      BY <2>1, <1>1, <1>2
    <2>2. CASE Notify(t) \/ Clear(t) \/ Front(t) \/ Back(t)
      BY <2>2, <1>3, <1>4, <1>5, <1>6
    <2>3. CASE Pop(t) \/ PopResumes(t) \/ PopTimesOut(t)
      BY <2>3, <1>7, <1>8 DEF Pop, PopResumes, PopTimesOut
    <2>4. CASE PopBlocks(t) \/ SpuriousWake(t) \/ Expire(t)
      BY <2>4, <1>9, <1>10
    <2> QED  BY <1>12, <2>1, <2>2, <2>3, <2>4 DEF Call, Return
  <1> QED  BY <1>11, <1>12 DEF Next

LEMMA Start == Init => IInv /\ Fifo!Init
  <1> SUFFICES ASSUME Init PROVE IInv /\ Fifo!Init
    OBVIOUS
  <1> USE QueueAssumption DEF QueueAssumption
  <1>1. reply \in Replies
    BY ReplyType DEF Init
  <1>2. TypeOK
    <2>1. /\ array_ \in [Slots -> Items \cup {Garbage}] /\ at \in [Threads -> Places]
          /\ first_ = -1 /\ last_ = -1 /\ size_ = 0 /\ rcnt_ = 0 /\ wcnt_ = 0
      BY DEF Init, Places
    <2> HIDE DEF Init
    <2> QED  BY <1>1, <2>1 DEF TypeOK, Replies
  <1>3. IInv
    BY <1>2 DEF Init, IInv, RingConsistent, NoGarbage, NoSleepOnItems, Waiting, CountersAgree
  <1>4. Contents = << >>
    BY <1>3, ContentsType DEF Init
  <1> QED  BY <1>3, <1>4 DEF Init, Fifo!Init, Fifo!Reply, Reply

(* The inductive invariant: the types (so size_ stays between 0 and        *)
(* capacity_, which getSize asserts at log_queue.h 54, and the indices     *)
(* stay inside array_), the three indices agreeing, no unwritten slot      *)
(* live, no thread asleep on a queue with items, and the debug counters    *)
(* accounting for the contents.                                            *)
THEOREM QueueInvariant == Spec => []IInv
  BY Start, Step, PTL DEF Spec

(* The indices of the ring stay inside it, and last_ is size_ slots past    *)
(* first_, modulo capacity_, after any pushes, pops and clears.             *)
THEOREM RingStaysConsistent == Spec => []RingConsistent
  <1>1. IInv => RingConsistent  BY DEF IInv
  <1> QED  BY <1>1, QueueInvariant, PTL

(* No pop sleeps while the queue holds an item.                            *)
THEOREM NoLostItem == Spec => []NoSleepOnItems
  <1>1. IInv => NoSleepOnItems  BY DEF IInv
  <1> QED  BY <1>1, QueueInvariant, PTL

(* The ring of log_queue.h implements the bounded first-in first-out queue.*)
THEOREM Refinement == Spec => FifoSpec
  BY Start, Step, QueueInvariant, PTL DEF Spec, FifoSpec, Fifo!Spec
=============================================================================
