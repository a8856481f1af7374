------------------------- MODULE ConcurrencyProofs -------------------------
(***************************************************************************)
(* The programs of MCThreads, for any threads, mutexes and calls.          *)
(***************************************************************************)
EXTENDS MCThreads, SequenceTheorems, FiniteSetTheorems, WellFoundedInduction, TLAPS

-----------------------------------------------------------------------------
(* The hierarchy: inductive is that the levels a thread has locked are       *)
(* chained by previous_hierarchy_value, highest to lowest.                   *)

level(x) == hierarchy_value[x]

MutexTypeOK == /\ internal_mutex \in [Mutexes -> Lockers \cup {NoThread}]
          /\ previous_hierarchy_value \in [Mutexes -> Nat]
          /\ this_thread_hierarchy_value \in [Lockers -> Nat]
          /\ pc \in [Lockers -> {"idle", "lock", "try", "update"}]
          /\ m \in [Lockers -> Mutexes]
          /\ taken \in [Lockers -> SUBSET Mutexes]

\* A thread between its check and its update is below all it holds, still.
Descends == \A t \in Lockers : pc[t] # "idle" => Mutex!Allowed(t, m[t])

\* A mutex has the owner that has taken it, or is about to record it.
Owners == \A t \in Lockers, x \in Mutexes :
            internal_mutex[x] = t <=> x \in taken[t] \/ (pc[t] = "update" /\ x = m[t])

\* A thread's value is its lowest level.
IsLowest(t) == \/ taken[t] = {} /\ this_thread_hierarchy_value[t] = MaxLevel
               \/ \E x \in taken[t] : /\ this_thread_hierarchy_value[t] = level(x)
                                      /\ \A y \in taken[t] : level(x) =< level(y)

\* What a mutex brings back is the next level up.
Restores(t, x) == \/ /\ previous_hierarchy_value[x] = MaxLevel
                     /\ \A y \in taken[t] : level(y) =< level(x)
                  \/ \E y \in taken[t] : /\ previous_hierarchy_value[x] = level(y)
                                         /\ level(y) > level(x)
                                         /\ \A z \in taken[t] : level(z) =< level(x) \/ level(z) >= level(y)

Distinct(t) == \A x, y \in taken[t] : level(x) = level(y) => x = y

Chain(t) == IsLowest(t) /\ Distinct(t) /\ \A x \in taken[t] : Restores(t, x)

MutexInv == MutexTypeOK /\ Descends /\ Owners /\ \A t \in Lockers : Chain(t)

-----------------------------------------------------------------------------
LEMMA LevelTypes == ASSUME Mutex!MutexAssumption PROVE \A x \in Mutexes : level(x) \in Nat
  BY DEF Mutex!MutexAssumption, level

LEMMA MutexInitially == ASSUME Mutex!MutexAssumption, Mutex!Init PROVE MutexInv
  <1>1. (CHOOSE x \in Mutexes : TRUE) \in Mutexes BY DEF Mutex!MutexAssumption
  <1>2. MutexTypeOK BY <1>1 DEF Mutex!Init, MutexTypeOK, Mutex!MutexAssumption
  <1>3. Descends /\ Owners BY DEF Mutex!Init, Descends, Owners, Mutex!MutexAssumption
  <1>4. \A t \in Lockers : Chain(t) BY DEF Mutex!Init, Chain, IsLowest, Distinct
  <1> QED BY <1>2, <1>3, <1>4 DEF MutexInv

\* What does not touch the levels leaves the chains alone.
LEMMA ChainsStay ==
    ASSUME UNCHANGED <<previous_hierarchy_value, this_thread_hierarchy_value, taken>>,
           \A t \in Lockers : Chain(t)
    PROVE  \A t \in Lockers : Chain(t)'
  BY DEF Chain, IsLowest, Distinct, Restores, level

LEMMA CheckKeeps ==
    ASSUME Mutex!MutexAssumption, MutexInv, NEW t \in Lockers, NEW x \in Mutexes, Mutex!Check(t, x)
    PROVE  MutexInv'
  <1>1. MutexTypeOK' BY DEF MutexInv, MutexTypeOK, Mutex!Check, Mutex!Goto
  <1>2. Descends' BY DEF MutexInv, MutexTypeOK, Mutex!Check, Mutex!Goto, Descends, Mutex!Allowed
  <1>3. Owners' BY DEF MutexInv, MutexTypeOK, Mutex!Check, Mutex!Goto, Owners
  <1>4. \A u \in Lockers : Chain(u)' BY ChainsStay DEF MutexInv, Mutex!Check
  <1> QED BY <1>1, <1>2, <1>3, <1>4 DEF MutexInv

LEMMA AcquireKeeps ==
    ASSUME Mutex!MutexAssumption, MutexInv, NEW t \in Lockers, Mutex!Acquire(t) \/ Mutex!GiveUp(t)
    PROVE  MutexInv'
  <1>1. MutexTypeOK' BY DEF MutexInv, MutexTypeOK, Mutex!Acquire, Mutex!GiveUp, Mutex!Goto
  <1>2. Descends'
    BY DEF MutexInv, MutexTypeOK, Mutex!Acquire, Mutex!GiveUp, Mutex!Goto, Descends, Mutex!Allowed
  <1>3. Owners'
    BY DEF MutexInv, MutexTypeOK, Mutex!Acquire, Mutex!GiveUp, Mutex!Goto, Owners, Mutex!MutexAssumption
  <1>4. \A u \in Lockers : Chain(u)' BY ChainsStay DEF MutexInv, Mutex!Acquire, Mutex!GiveUp
  <1> QED BY <1>1, <1>2, <1>3, <1>4 DEF MutexInv

\* A thread's chain is not touched by another's step: it has other mutexes.
LEMMA OthersChain ==
    ASSUME MutexInv, NEW t \in Lockers, NEW u \in Lockers \ {t}, NEW x \in Mutexes,
           internal_mutex[x] = t,
           taken'[u] = taken[u], this_thread_hierarchy_value'[u] = this_thread_hierarchy_value[u],
           \A y \in Mutexes \ {x} : previous_hierarchy_value'[y] = previous_hierarchy_value[y]
    PROVE  Chain(u)'
  <1>1. x \notin taken[u] /\ taken[u] \subseteq Mutexes BY DEF MutexInv, Owners, MutexTypeOK
  <1>2. \A y \in taken[u] : previous_hierarchy_value'[y] = previous_hierarchy_value[y] BY <1>1
  <1> QED BY <1>2 DEF MutexInv, Chain, IsLowest, Distinct, Restores, level

LEMMA UpdateKeeps ==
    ASSUME Mutex!MutexAssumption, MutexInv, NEW t \in Lockers, Mutex!Update(t)
    PROVE  MutexInv'
  <1> DEFINE old == this_thread_hierarchy_value[t]
  <1> PICK x \in Mutexes : x = m[t] BY DEF MutexInv, MutexTypeOK
  <1>1. /\ previous_hierarchy_value' = [previous_hierarchy_value EXCEPT ![x] = old]
        /\ this_thread_hierarchy_value' = [this_thread_hierarchy_value EXCEPT ![t] = level(x)]
        /\ taken' = [taken EXCEPT ![t] = @ \cup {x}]
        /\ pc' = [pc EXCEPT ![t] = "idle"]
        /\ internal_mutex' = internal_mutex /\ m' = m /\ pc[t] = "update"
    BY DEF Mutex!Update, Mutex!Goto, level
  <1>2. old \in Nat /\ level(x) \in Nat /\ old > level(x)
    BY <1>1, LevelTypes DEF MutexInv, MutexTypeOK, Descends, Mutex!Allowed, level
  <1>3. MutexTypeOK' BY <1>1, <1>2 DEF MutexInv, MutexTypeOK
  <1>4. Descends' BY <1>1 DEF MutexInv, MutexTypeOK, Descends, Mutex!Allowed
  <1>5. Owners' BY <1>1 DEF MutexInv, MutexTypeOK, Owners
  <1>6. Chain(t)'
    <2>1. taken'[t] = taken[t] \cup {x} /\ taken[t] \subseteq Mutexes
      BY <1>1 DEF MutexInv, MutexTypeOK
    <2>2. \A y \in taken[t] : level(y) \in Nat /\ level(y) > level(x) /\ y # x
      BY <1>2, <2>1, LevelTypes DEF MutexInv, Chain, IsLowest
    <2>3. IsLowest(t)'
      <3>1. this_thread_hierarchy_value'[t] = level(x) BY <1>1 DEF MutexInv, MutexTypeOK
      <3> QED BY <1>2, <2>1, <2>2, <3>1 DEF IsLowest, level
    <2>4. Distinct(t)' BY <1>2, <2>1, <2>2 DEF MutexInv, Chain, Distinct, level
    <2>5. ASSUME NEW y \in taken[t] PROVE Restores(t, y)'
      <3>1. previous_hierarchy_value'[y] = previous_hierarchy_value[y]
        BY <1>1, <2>1, <2>2 DEF MutexInv, MutexTypeOK
      <3>2. Restores(t, y) BY DEF MutexInv, Chain
      <3> QED BY <1>2, <2>1, <2>2, <3>1, <3>2 DEF Restores, level
    <2>6. Restores(t, x)'
      <3>1. previous_hierarchy_value'[x] = old BY <1>1 DEF MutexInv, MutexTypeOK
      <3>2. IsLowest(t) BY DEF MutexInv, Chain
      <3> QED BY <1>2, <2>1, <2>2, <3>1, <3>2 DEF Restores, IsLowest, level
    <2> QED BY <2>1, <2>3, <2>4, <2>5, <2>6 DEF Chain
  <1>7. ASSUME NEW u \in Lockers, u # t PROVE Chain(u)'
    <2>1. internal_mutex[x] = t BY <1>1 DEF MutexInv, Owners
    <2> QED BY <1>1, <1>7, <2>1, OthersChain DEF MutexInv, MutexTypeOK
  <1> QED BY <1>3, <1>4, <1>5, <1>6, <1>7 DEF MutexInv

LEMMA UnlockKeeps ==
    ASSUME Mutex!MutexAssumption, MutexInv, NEW t \in Lockers, NEW x \in Mutexes, Mutex!Unlock(t, x)
    PROVE  MutexInv'
  <1> DEFINE back == previous_hierarchy_value[x]
  <1>1. /\ this_thread_hierarchy_value' = [this_thread_hierarchy_value EXCEPT ![t] = back]
        /\ taken' = [taken EXCEPT ![t] = @ \ {x}]
        /\ internal_mutex' = [internal_mutex EXCEPT ![x] = NoThread]
        /\ previous_hierarchy_value' = previous_hierarchy_value /\ pc' = pc /\ m' = m
        /\ pc[t] = "idle" /\ internal_mutex[x] = t
        /\ this_thread_hierarchy_value[t] = level(x)
    BY DEF Mutex!Unlock, Mutex!Lowest, level
  <1>2. x \in taken[t] /\ taken[t] \subseteq Mutexes BY <1>1 DEF MutexInv, MutexTypeOK, Owners
  <1>3. MutexTypeOK' BY <1>1 DEF MutexInv, MutexTypeOK
  <1>4. Descends' BY <1>1 DEF MutexInv, MutexTypeOK, Descends, Mutex!Allowed
  <1>5. Owners' BY <1>1, <1>2 DEF MutexInv, MutexTypeOK, Owners, Mutex!MutexAssumption
  <1>6. Chain(t)'
    <2>1. taken'[t] = taken[t] \ {x} /\ this_thread_hierarchy_value'[t] = back
      BY <1>1 DEF MutexInv, MutexTypeOK
    <2>2. \A y \in taken[t] : level(y) \in Nat BY <1>2, LevelTypes
    <2>3. \A y \in taken[t] : y # x => level(y) > level(x)
      BY <1>1, <1>2, <2>2 DEF MutexInv, Chain, IsLowest, Distinct
    <2>4. IsLowest(t)'
      <3>1. Restores(t, x) BY <1>2 DEF MutexInv, Chain
      <3>2. CASE back = MaxLevel /\ \A y \in taken[t] : level(y) =< level(x)
        <4>1. taken[t] = {x} BY <1>2, <2>2, <2>3, <3>2
        <4> QED BY <2>1, <3>2, <4>1 DEF IsLowest
      <3>3. ASSUME NEW y \in taken[t], back = level(y), level(y) > level(x),
                   \A z \in taken[t] : level(z) =< level(x) \/ level(z) >= level(y)
            PROVE  IsLowest(t)'
        <4>1. y \in taken'[t] BY <1>2, <2>1, <2>2, <3>3
        <4>2. \A z \in taken'[t] : level(y) =< level(z) BY <1>2, <2>1, <2>2, <2>3, <3>3
        <4> QED BY <2>1, <3>3, <4>1, <4>2 DEF IsLowest, level
      <3> QED BY <3>1, <3>2, <3>3 DEF Restores
    <2>5. Distinct(t)' BY <2>1 DEF MutexInv, Chain, Distinct, level
    <2>6. ASSUME NEW y \in taken'[t] PROVE Restores(t, y)'
      <3>1. y \in taken[t] /\ Restores(t, y) /\ level(y) > level(x)
        BY <2>1, <2>3 DEF MutexInv, Chain
      <3>2. CASE /\ previous_hierarchy_value[y] = MaxLevel
                 /\ \A z \in taken[t] : level(z) =< level(y)
        BY <1>1, <2>1, <3>2 DEF Restores, level
      <3>3. ASSUME NEW z \in taken[t], previous_hierarchy_value[y] = level(z), level(z) > level(y),
                   \A w \in taken[t] : level(w) =< level(y) \/ level(w) >= level(z)
            PROVE  Restores(t, y)'
        <4>1. z \in taken'[t] BY <1>2, <2>1, <2>2, <3>1, <3>3
        <4> QED BY <1>1, <2>1, <3>3, <4>1 DEF Restores, level
      <3> QED BY <3>1, <3>2, <3>3 DEF Restores
    <2> QED BY <2>4, <2>5, <2>6 DEF Chain
  <1>7. ASSUME NEW u \in Lockers, u # t PROVE Chain(u)'
    BY <1>1, <1>7, OthersChain DEF MutexInv, MutexTypeOK
  <1> QED BY <1>3, <1>4, <1>5, <1>6, <1>7 DEF MutexInv

-----------------------------------------------------------------------------
\* A set of naturals that is not empty has a least element.
LEMMA LeastNat == ASSUME NEW S \in SUBSET Nat, S # {} PROVE \E n \in S : \A k \in S : n <= k
  <1>1. PICK n \in S : \A k \in S : ~ (<<k, n>> \in OpToRel(<, Nat))
    BY NatLessThanWellFounded, WFMin
  <1>2. \A k \in S : k < n => <<k, n>> \in OpToRel(<, Nat) BY DEF OpToRel
  <1>3. \A k \in S : ~ (k < n) BY <1>1, <1>2, Zenon
  <1> QED BY <1>3

(* Who waits for the lowest of the mutexes that are waited for, waits for a  *)
(* thread that does not wait, or it would wait for a lower one.              *)
LEMMA SomeoneRuns == ASSUME Mutex!MutexAssumption, MutexInv PROVE \E t \in Lockers : ~Mutex!Waits(t)
  <1> SUFFICES ASSUME \A t \in Lockers : Mutex!Waits(t) PROVE FALSE OBVIOUS
  <1> DEFINE S == {level(m[t]) : t \in Lockers}
  <1>1. S \subseteq Nat /\ S # {} BY LevelTypes DEF MutexInv, MutexTypeOK, Mutex!MutexAssumption
  <1>2. PICK n \in S : \A k \in S : n <= k BY <1>1, LeastNat
  <1>3. PICK t \in Lockers : n = level(m[t]) BY <1>2
  <1> DEFINE u == internal_mutex[m[t]]
  <1>4. u \in Lockers /\ m[t] \in Mutexes BY DEF Mutex!Waits, MutexInv, MutexTypeOK
  <1>5. m[t] \in taken[u] /\ pc[u] = "lock" BY <1>4 DEF Mutex!Waits, MutexInv, Owners
  <1>6. level(m[u]) < this_thread_hierarchy_value[u]
    BY <1>4, <1>5 DEF MutexInv, Descends, Mutex!Allowed, level, MutexTypeOK, Mutex!MutexAssumption
  <1>7. this_thread_hierarchy_value[u] =< level(m[t]) BY <1>4, <1>5 DEF MutexInv, Chain, IsLowest
  <1>8. level(m[u]) \in S /\ level(m[u]) \in Nat /\ level(m[t]) \in Nat
    BY <1>1, <1>4, LevelTypes DEF MutexInv, MutexTypeOK
  <1>9. this_thread_hierarchy_value[u] \in Nat BY <1>4 DEF MutexInv, MutexTypeOK
  <1>10. level(m[t]) <= level(m[u]) BY <1>2, <1>3, <1>8
  <1> HIDE DEF u
  <1> QED BY <1>6, <1>7, <1>8, <1>9, <1>10

LEMMA MutexKept == ASSUME Mutex!MutexAssumption, MutexInv, [Mutex!Next]_(Mutex!vars) PROVE MutexInv'
  <1>1. CASE UNCHANGED Mutex!vars
    BY <1>1 DEF Mutex!vars, MutexInv, MutexTypeOK, Descends, Mutex!Allowed, Owners, Chain, IsLowest, Distinct, Restores, level
  <1>2. CASE Mutex!Next BY <1>2, CheckKeeps, AcquireKeeps, UpdateKeeps, UnlockKeeps DEF Mutex!Next
  <1> QED BY <1>1, <1>2

LEMMA HierarchyFollows == ASSUME Mutex!MutexAssumption, MutexInv PROVE Mutex!HierarchyHolds
  <1>1. ASSUME NEW t \in Lockers
        PROVE  /\ taken[t] = {} => this_thread_hierarchy_value[t] = MaxLevel
               /\ taken[t] # {} =>
                    /\ this_thread_hierarchy_value[t] \in {hierarchy_value[x] : x \in taken[t]}
                    /\ \A l \in {hierarchy_value[x] : x \in taken[t]} : this_thread_hierarchy_value[t] =< l
    BY DEF MutexInv, Chain, IsLowest, level
  <1> QED BY <1>1, SomeoneRuns DEF Mutex!HierarchyHolds

-----------------------------------------------------------------------------
(* The locked queues.                                                        *)

Places == {"idle", "data", "advance", "notify", "lock", "test", "take", "sleep", "asleep"}

LockedTypeOK == /\ scheme \in {"coarse", "fine", "waiting"}
          /\ data \in Seq(1 .. MaxCalls)
          /\ head \in Nat \ {0} /\ tail \in Nat \ {0} /\ head <= tail
          /\ head_mutex \in Callers \cup {NoThread} /\ tail_mutex \in Callers \cup {NoThread}
          /\ waiting \subseteq Callers
          /\ pc \in [Callers -> Places]
          /\ wants \in [Callers -> {"try", "wait"}]
          /\ got \in [Callers -> 0 .. MaxCalls]
          /\ calls \in 0 .. MaxCalls

\* The data is as long as the chain, or one ahead of it while a push is
\* between the two; each item was a call.
Pushing == /\ \A t \in Callers : pc[t] \in {"data", "advance"} <=> tail_mutex = t
           /\ (\A t \in Callers : pc[t] # "advance") => Len(data) = tail - 1
           /\ \A t \in Callers : pc[t] = "advance" => Len(data) = tail
           /\ \A t \in Callers : pc[t] = "data" => Len(data) < calls
           /\ Len(data) <= calls
           /\ scheme = "coarse" => \A t \in Callers : pc[t] \notin {"data", "advance", "notify"}

\* Under the head's mutex, what a test found stays so.
Popping == /\ \A t \in Callers : pc[t] \in {"test", "take", "sleep"} <=> head_mutex = t
           /\ \A t \in Callers : pc[t] = "take" => head < tail
           /\ scheme = "coarse" => \A t \in Callers : pc[t] = "sleep" => head = tail
           /\ \A t \in Callers : t \in waiting <=> pc[t] = "asleep"

LockedInv == LockedTypeOK /\ Pushing /\ Popping /\ Locked!NoSleepOnItems

-----------------------------------------------------------------------------
LEMMA LockedInitially == ASSUME Locked!QueueAssumption, Locked!Init PROVE LockedInv
  <1>1. LockedTypeOK BY DEF Locked!QueueAssumption, Locked!Init, LockedTypeOK, Places
  <1>2. Pushing /\ Popping /\ Locked!NoSleepOnItems
    BY DEF Locked!QueueAssumption, Locked!Init, Pushing, Popping, Locked!NoSleepOnItems
  <1> QED BY <1>1, <1>2 DEF LockedInv

LEMMA NotifyFacts ==
    ASSUME LockedTypeOK, Popping, NEW t \in Callers, NEW after \in {"idle"}, pc[t] \in {"idle", "notify"},
           Locked!NotifyOne(t, after)
    PROVE  /\ pc' \in [Callers -> Places] /\ waiting' \subseteq waiting /\ pc'[t] = after
           /\ \A u \in Callers \ {t} : pc'[u] = pc[u] \/ (pc[u] = "asleep" /\ pc'[u] = "lock")
           /\ \A u \in Callers : u \in waiting' <=> pc'[u] = "asleep"
           /\ waiting # {} => \E w \in waiting : w # t /\ pc'[w] = "lock"
  <1> USE DEF LockedTypeOK, Popping, Places
  <1>1. CASE waiting = {} BY <1>1 DEF Locked!NotifyOne, Locked!Goto
  <1>2. ASSUME NEW w \in waiting, waiting' = waiting \ {w}, pc' = [pc EXCEPT ![t] = after, ![w] = "lock"]
        PROVE  /\ pc' \in [Callers -> Places] /\ waiting' \subseteq waiting /\ pc'[t] = after
               /\ \A u \in Callers \ {t} : pc'[u] = pc[u] \/ (pc[u] = "asleep" /\ pc'[u] = "lock")
               /\ \A u \in Callers : u \in waiting' <=> pc'[u] = "asleep"
               /\ w # t /\ pc'[w] = "lock"
    <2>1. w \in Callers /\ w # t BY <1>2
    <2> QED BY <1>2, <2>1
  <1> QED BY <1>1, <1>2 DEF Locked!NotifyOne

LEMMA TypesKept == ASSUME Locked!QueueAssumption, LockedTypeOK, Pushing, Popping, Locked!Next PROVE LockedTypeOK'
  <1> USE DEF Locked!QueueAssumption, LockedTypeOK, Places, Locked!Goto, Locked!call, Locked!queue
  <1>1. ASSUME NEW t \in Callers, Locked!PushCoarse(t) PROVE LockedTypeOK'
    <2>1. pc' \in [Callers -> Places] /\ waiting' \subseteq waiting
      BY <1>1, NotifyFacts DEF Locked!PushCoarse
    <2>2. Len(data) + 1 \in 1 .. MaxCalls BY <1>1, LenProperties DEF Locked!PushCoarse, Pushing
    <2>3. data' \in Seq(1 .. MaxCalls) BY <1>1, <2>2, AppendProperties DEF Locked!PushCoarse
    <2> QED BY <1>1, <2>1, <2>3 DEF Locked!PushCoarse
  <1>2. ASSUME NEW t \in Callers, Locked!PushLock(t) \/ Locked!Pop(t) PROVE LockedTypeOK'
    <2>1. CASE Locked!PushLock(t) BY <2>1 DEF Locked!PushLock
    <2>2. CASE Locked!Pop(t) BY <2>2 DEF Locked!Pop
    <2> QED BY <1>2, <2>1, <2>2
  <1>3. ASSUME NEW t \in Callers, Locked!SetData(t) PROVE LockedTypeOK'
    <2>1. Len(data) + 1 \in 1 .. MaxCalls BY <1>3, LenProperties DEF Locked!SetData, Pushing
    <2>2. data' \in Seq(1 .. MaxCalls) BY <1>3, <2>1, AppendProperties DEF Locked!SetData
    <2> QED BY <1>3, <2>2 DEF Locked!SetData
  <1>4. ASSUME NEW t \in Callers, Locked!Advance(t) \/ Locked!LockHead(t) \/ Locked!Test(t) \/ Locked!Sleep(t) \/ Locked!Spurious(t) PROVE LockedTypeOK'
    <2>1. CASE Locked!Advance(t) BY <2>1 DEF Locked!Advance
    <2>2. CASE Locked!LockHead(t) BY <2>2 DEF Locked!LockHead, Locked!HeadFree
    <2>3. CASE Locked!Test(t)
      <3>1. pc' \in [Callers -> Places] BY <2>3 DEF Locked!Test
      <3>2. got' = got \/ got' = [got EXCEPT ![t] = 0] BY <2>3 DEF Locked!Test
      <3>3. head_mutex' = head_mutex \/ head_mutex' = NoThread BY <2>3 DEF Locked!Test
      <3>4. UNCHANGED <<scheme, wants, calls, data, head, tail, tail_mutex, waiting>>
        BY <2>3 DEF Locked!Test
      <3>5. got' \in [Callers -> 0 .. MaxCalls]
        <4>1. got \in [Callers -> 0 .. MaxCalls] /\ 0 \in 0 .. MaxCalls OBVIOUS
        <4> QED BY ONLY <3>2, <4>1
      <3> QED BY <3>1, <3>3, <3>4, <3>5
    <2>4. CASE Locked!Sleep(t) \/ Locked!Spurious(t) BY <2>4 DEF Locked!Sleep, Locked!Spurious
    <2> QED BY <1>4, <2>1, <2>2, <2>3, <2>4
  <1>5. ASSUME NEW t \in Callers, Locked!Notify(t) PROVE LockedTypeOK'
    <2>1. pc' \in [Callers -> Places] /\ waiting' \subseteq waiting
      BY <1>5, NotifyFacts DEF Locked!Notify
    <2> QED BY <1>5, <2>1 DEF Locked!Notify
  <1>6. ASSUME NEW t \in Callers, Locked!Take(t) PROVE LockedTypeOK'
    <2>1. Locked!DataOf(head) \in 0 .. MaxCalls BY ElementOfSeq, LenProperties DEF Locked!DataOf
    <2>2. head + 1 <= tail BY <1>6 DEF Locked!Take, Popping
    <2> QED BY <1>6, <2>1, <2>2 DEF Locked!Take
  <1> QED BY <1>1, <1>2, <1>3, <1>4, <1>5, <1>6 DEF Locked!Next, Locked!Step

LEMMA PushingKept == ASSUME Locked!QueueAssumption, LockedTypeOK, Pushing, Popping, Locked!Next PROVE Pushing'
  <1> USE DEF Locked!QueueAssumption, LockedTypeOK, Pushing, Locked!Goto, Locked!call, Locked!queue
  <1>0. Len(data) \in Nat BY LenProperties
  <1>1. ASSUME NEW t \in Callers, Locked!PushCoarse(t) PROVE Pushing'
    <2>1. \A u \in Callers : pc'[u] \notin {"data", "advance", "notify"}
      BY <1>1, NotifyFacts DEF Locked!PushCoarse
    <2>2. Len(data') = Len(data) + 1 BY <1>1 DEF Locked!PushCoarse
    <2>3. Len(data) = tail - 1 /\ \A u \in Callers : tail_mutex # u BY <1>1 DEF Locked!PushCoarse
    <2>4. tail_mutex' = tail_mutex /\ tail' = tail + 1 /\ calls' = calls + 1 /\ scheme' = "coarse"
      BY <1>1 DEF Locked!PushCoarse
    <2> QED BY SMTT(30), <1>0, <2>1, <2>2, <2>3, <2>4
  <1>2. ASSUME NEW t \in Callers, Locked!PushLock(t) PROVE Pushing'
    BY <1>0, <1>2 DEF Locked!PushLock
  <1>3. ASSUME NEW t \in Callers, Locked!Pop(t) PROVE Pushing' BY <1>0, <1>3 DEF Locked!Pop
  <1>4. ASSUME NEW t \in Callers, Locked!SetData(t) PROVE Pushing'
    <2>1. Len(data') = Len(data) + 1 BY <1>4 DEF Locked!SetData
    <2>2. tail_mutex = t /\ \A u \in Callers \ {t} : pc[u] \notin {"data", "advance"}
      BY <1>4 DEF Locked!SetData
    <2>3. Len(data) = tail - 1 /\ Len(data) < calls BY <1>4, <2>2 DEF Locked!SetData
    <2>4. pc' = [pc EXCEPT ![t] = "advance"] BY <1>4 DEF Locked!SetData
    <2>5. UNCHANGED <<scheme, calls, tail, tail_mutex>> BY <1>4 DEF Locked!SetData
    <2>6. scheme # "coarse" BY <1>4 DEF Locked!SetData
    <2> QED BY <1>0, <2>1, <2>2, <2>3, <2>4, <2>5, <2>6
  <1>5. ASSUME NEW t \in Callers, Locked!Advance(t) PROVE Pushing'
    <2>1. tail_mutex = t /\ (\A u \in Callers \ {t} : pc[u] \notin {"data", "advance"}) /\ Len(data) = tail
      BY <1>5 DEF Locked!Advance
    <2>2. /\ pc' = [pc EXCEPT ![t] = IF scheme = "waiting" THEN "notify" ELSE "idle"]
          /\ tail' = tail + 1 /\ tail_mutex' = NoThread
          /\ UNCHANGED <<scheme, calls, data>>
      BY <1>5 DEF Locked!Advance
    <2> QED BY <1>0, <2>1, <2>2
  <1>6. ASSUME NEW t \in Callers, Locked!Notify(t) PROVE Pushing'
    <2>1. \A u \in Callers : /\ pc'[u] \in {"data", "advance"} <=> pc[u] \in {"data", "advance"}
                             /\ pc'[u] \in {"data", "advance", "notify"} => pc'[u] = pc[u]
      BY <1>6, NotifyFacts DEF Locked!Notify
    <2>2. UNCHANGED <<scheme, calls, data, tail, tail_mutex>> BY <1>6 DEF Locked!Notify
    <2> QED BY <1>0, <2>1, <2>2
  <1>7. ASSUME NEW t \in Callers, Locked!LockHead(t) \/ Locked!Test(t) \/ Locked!Sleep(t) \/ Locked!Spurious(t) \/ Locked!Take(t) PROVE Pushing'
    <2>1. UNCHANGED <<scheme, calls, data, tail, tail_mutex>>
      BY <1>7 DEF Locked!LockHead, Locked!Test, Locked!Sleep, Locked!Spurious, Locked!Take
    <2>2. \A u \in Callers : pc'[u] = pc[u] \/ {pc[u], pc'[u]} \cap {"data", "advance", "notify"} = {}
      BY <1>7 DEF Locked!LockHead, Locked!HeadFree, Locked!Test, Locked!Sleep, Locked!Spurious, Locked!Take, Popping
    <2> QED BY <1>0, <2>1, <2>2
  <1> QED BY <1>1, <1>2, <1>3, <1>4, <1>5, <1>6, <1>7 DEF Locked!Next, Locked!Step

LEMMA PoppingKept == ASSUME Locked!QueueAssumption, LockedTypeOK, Pushing, Popping, Locked!Next PROVE Popping'
  <1> USE DEF Locked!QueueAssumption, LockedTypeOK, Popping, Locked!Goto, Locked!call, Locked!queue
  <1>1. ASSUME NEW t \in Callers, Locked!PushCoarse(t) \/ Locked!Notify(t) PROVE Popping'
    <2>1. /\ \A u \in Callers : u \in waiting' <=> pc'[u] = "asleep"
          /\ \A u \in Callers : pc'[u] \in {"test", "take", "sleep"} \/ pc[u] \in {"test", "take", "sleep"}
                                    => pc'[u] = pc[u]
      BY <1>1, NotifyFacts DEF Locked!PushCoarse, Locked!Notify
    <2>2. UNCHANGED <<scheme, head, head_mutex>> /\ (tail' = tail \/ (tail' = tail + 1 /\ head_mutex = NoThread))
      BY <1>1 DEF Locked!PushCoarse, Locked!Notify
    <2> QED BY <2>1, <2>2
  <1>2. ASSUME NEW t \in Callers, Locked!PushLock(t) \/ Locked!SetData(t) \/ Locked!Advance(t) PROVE Popping'
    <2>1. CASE Locked!PushLock(t) BY <2>1 DEF Locked!PushLock
    <2>2. CASE Locked!SetData(t) BY <2>2 DEF Locked!SetData
    <2>3. CASE Locked!Advance(t)
      <3>1. scheme # "coarse" /\ tail_mutex = t BY <2>3 DEF Locked!Advance, Pushing
      <3>2. UNCHANGED <<scheme, head, head_mutex, waiting>> /\ tail' = tail + 1
        BY <2>3 DEF Locked!Advance
      <3>3. \A u \in Callers : \/ pc'[u] = pc[u]
                                \/ {pc[u], pc'[u]} \subseteq {"advance", "notify", "idle"}
        BY <2>3 DEF Locked!Advance
      <3>4. \A u \in Callers : pc'[u] \in {"test", "take", "sleep", "asleep"}
                                \/ pc[u] \in {"test", "take", "sleep", "asleep"} => pc'[u] = pc[u]
        BY <3>3
      <3> QED BY <3>1, <3>2, <3>4
    <2> QED BY <1>2, <2>1, <2>2, <2>3
  <1>3. ASSUME NEW t \in Callers, Locked!Pop(t) \/ Locked!LockHead(t) PROVE Popping'
    BY <1>3 DEF Locked!Pop, Locked!LockHead, Locked!HeadFree
  <1>4. ASSUME NEW t \in Callers, Locked!Test(t) PROVE Popping' BY SMTT(30), <1>4 DEF Locked!Test
  <1>5. ASSUME NEW t \in Callers, Locked!Sleep(t) \/ Locked!Spurious(t) PROVE Popping'
    <2>1. CASE Locked!Sleep(t) BY <2>1 DEF Locked!Sleep
    <2>2. CASE Locked!Spurious(t) BY <2>2 DEF Locked!Spurious
    <2> QED BY <1>5, <2>1, <2>2
  <1>6. ASSUME NEW t \in Callers, Locked!Take(t) PROVE Popping' BY <1>6 DEF Locked!Take
  <1> QED BY <1>1, <1>2, <1>3, <1>4, <1>5, <1>6 DEF Locked!Next, Locked!Step

LEMMA SameCounting == \A S : /\ Locked!IsFiniteSet(S) <=> IsFiniteSet(S)
                             /\ Locked!Cardinality(S) = Cardinality(S)
  BY DEF Locked!IsFiniteSet, IsFiniteSet, Locked!Cardinality, Cardinality

(* Under one mutex, a thread that may take an item wakes, takes one or finds *)
(* none: each step that adds an item adds one that is awake.                 *)
LEMMA NobodySleepsKept ==
    ASSUME Locked!QueueAssumption, LockedTypeOK, Pushing, Popping, Locked!NoSleepOnItems, Locked!Next
    PROVE  Locked!NoSleepOnItems'
  <1> USE DEF Locked!QueueAssumption, LockedTypeOK, Locked!Goto, Locked!call, Locked!queue
  <1> USE SameCounting
  <1>0. IsFiniteSet(Locked!Awake) /\ Cardinality(Locked!Awake) \in Nat
    BY FS_Subset, FS_CardinalityType DEF Locked!Awake
  <1>1. IsFiniteSet(Locked!Awake') /\ Cardinality(Locked!Awake') \in Nat
    <2>1. Locked!Awake' \subseteq Callers BY DEF Locked!Awake
    <2> QED BY <2>1, FS_Subset, FS_CardinalityType
  <1>2. ASSUME Locked!Awake \subseteq Locked!Awake' PROVE Cardinality(Locked!Awake) =< Cardinality(Locked!Awake')
    BY <1>1, <1>2, FS_Subset
  <1> SUFFICES ASSUME scheme' = "coarse", waiting' # {}
               PROVE  tail' - head' =< Cardinality(Locked!Awake')
    BY DEF Locked!NoSleepOnItems
  <1>3. ASSUME NEW t \in Callers, Locked!PushCoarse(t) PROVE tail' - head' =< Cardinality(Locked!Awake')
    <2>1. waiting' \subseteq waiting BY <1>3, NotifyFacts DEF Locked!PushCoarse
    <2>2. PICK w \in waiting : w # t /\ pc'[w] = "lock"
      BY <1>3, <2>1, NotifyFacts DEF Locked!PushCoarse
    <2>3. \A u \in Callers \ {t} : pc'[u] = pc[u] \/ (pc[u] = "asleep" /\ pc'[u] = "lock")
      BY <1>3, NotifyFacts DEF Locked!PushCoarse
    <2>4. w \in Callers /\ w \notin Locked!Awake BY <2>2 DEF Locked!Awake, Popping
    <2>5. Locked!Awake \cup {w} \subseteq Locked!Awake'
      BY <1>3, <2>2, <2>3, <2>4 DEF Locked!Awake, Locked!PushCoarse
    <2>6. Cardinality(Locked!Awake \cup {w}) = Cardinality(Locked!Awake) + 1
      BY <1>0, <2>4, FS_AddElement
    <2>7. Cardinality(Locked!Awake \cup {w}) =< Cardinality(Locked!Awake') BY <1>1, <2>5, FS_Subset
    <2>8. tail - head =< Cardinality(Locked!Awake)
      BY <1>3, <2>2 DEF Locked!NoSleepOnItems, Locked!PushCoarse
    <2>9. tail' = tail + 1 /\ head' = head BY <1>3 DEF Locked!PushCoarse
    <2> QED BY <1>0, <1>1, <2>6, <2>7, <2>8, <2>9
  <1>4. ASSUME waiting # {}, scheme = "coarse", Locked!Awake \subseteq Locked!Awake', tail' - head' = tail - head
        PROVE  tail' - head' =< Cardinality(Locked!Awake')
    BY <1>0, <1>1, <1>2, <1>4 DEF Locked!NoSleepOnItems
  <1>5. ASSUME NEW t \in Callers, Locked!Pop(t) \/ Locked!LockHead(t) PROVE tail' - head' =< Cardinality(Locked!Awake')
    <2>1. Locked!Awake \subseteq Locked!Awake'
      BY <1>5 DEF Locked!Pop, Locked!LockHead, Locked!HeadFree, Locked!Awake
    <2>2. waiting # {} /\ scheme = "coarse" /\ tail' = tail /\ head' = head
      BY <1>5 DEF Locked!Pop, Locked!LockHead
    <2> QED BY <1>4, <2>1, <2>2
  <1>6. ASSUME NEW t \in Callers, Locked!Test(t) PROVE tail' - head' =< Cardinality(Locked!Awake')
    <2>1. waiting # {} /\ scheme = "coarse" /\ tail' = tail /\ head' = head BY <1>6 DEF Locked!Test
    <2>2. CASE head = tail BY <1>1, <2>1, <2>2
    <2>3. CASE head # tail
      <3>1. Locked!Awake \subseteq Locked!Awake' BY <1>6, <2>3 DEF Locked!Test, Locked!Awake
      <3> QED BY <1>4, <2>1, <3>1
    <2> QED BY <2>2, <2>3
  <1>7. ASSUME NEW t \in Callers, Locked!Sleep(t) PROVE tail' - head' =< Cardinality(Locked!Awake')
    <2>1. tail' = tail /\ head' = head /\ head = tail BY <1>7 DEF Locked!Sleep, Popping
    <2> QED BY <1>1, <2>1
  <1>8. ASSUME NEW t \in Callers, Locked!Spurious(t) PROVE tail' - head' =< Cardinality(Locked!Awake')
    <2>1. Locked!Awake \subseteq Locked!Awake' BY <1>8 DEF Locked!Spurious, Locked!Awake
    <2>2. waiting # {} /\ scheme = "coarse" /\ tail' = tail /\ head' = head
      BY <1>8 DEF Locked!Spurious
    <2> QED BY <1>4, <2>1, <2>2
  <1>9. ASSUME NEW t \in Callers, Locked!Take(t) PROVE tail' - head' =< Cardinality(Locked!Awake')
    <2>1. waiting # {} /\ scheme = "coarse" /\ tail' = tail /\ head' = head + 1
      BY <1>9 DEF Locked!Take
    <2>2. t \in Locked!Awake /\ Locked!Awake' = Locked!Awake \ {t}
      BY <1>9 DEF Locked!Take, Locked!Awake
    <2>3. Cardinality(Locked!Awake') = Cardinality(Locked!Awake) - 1
      BY <1>0, <2>2, FS_RemoveElement
    <2>4. tail - head =< Cardinality(Locked!Awake) BY <2>1 DEF Locked!NoSleepOnItems
    <2> QED BY <1>0, <2>1, <2>3, <2>4
  <1>10. ASSUME NEW t \in Callers PROVE ~Locked!PushLock(t) /\ ~Locked!SetData(t) /\ ~Locked!Advance(t) /\ ~Locked!Notify(t)
    BY DEF Locked!PushLock, Locked!SetData, Locked!Advance, Locked!Notify, Pushing
  <1> QED BY <1>3, <1>5, <1>6, <1>7, <1>8, <1>9, <1>10 DEF Locked!Next, Locked!Step

-----------------------------------------------------------------------------
\* The contents while a step adds, takes or only prepares an item.
LEMMA ContentsAre ==
    ASSUME LockedTypeOK, Pushing
    PROVE  /\ head = tail => SubSeq(data, head, tail - 1) = << >>
           /\ head < tail => /\ SubSeq(data, head, tail - 1) # << >>
                             /\ head \in DOMAIN data
                             /\ Head(SubSeq(data, head, tail - 1)) = data[head]
                             /\ Tail(SubSeq(data, head, tail - 1)) = SubSeq(data, head + 1, tail - 1)
  <1> USE DEF LockedTypeOK
  <1>1. Len(data) \in Nat /\ tail - 1 <= Len(data) /\ DOMAIN data = 1 .. Len(data)
    BY LenProperties DEF Pushing
  <1>2. CASE head = tail BY <1>2, SubSeqEmpty
  <1>3. CASE head < tail
    <2>1. head \in 1 .. Len(data) /\ tail - 1 \in head .. Len(data) BY <1>1, <1>3
    <2>2. /\ Head(SubSeq(data, head, tail - 1)) = data[head]
          /\ Tail(SubSeq(data, head, tail - 1)) = SubSeq(data, head + 1, tail - 1)
      BY <2>1, HeadTailOfSubSeq
    <2>3. \A i \in head .. tail - 1 : data[i] \in 1 .. MaxCalls
      <3> TAKE i \in head .. tail - 1
      <3>1. i \in 1 .. Len(data) BY <1>1, <2>1
      <3> QED BY <3>1, ElementOfSeq
    <2>4. Len(SubSeq(data, head, tail - 1)) = tail - 1 - head + 1 BY <2>1, <2>3, SubSeqProperties
    <2>5. SubSeq(data, head, tail - 1) # << >>
      <3>1. Len(<< >>) = 0 /\ tail - 1 - head + 1 # 0 BY <1>3
      <3> QED BY <2>4, <3>1
    <2>6. head \in DOMAIN data BY <1>1, <2>1
    <2> QED BY <1>3, <2>2, <2>5, <2>6
  <1> QED BY <1>2, <1>3

\* An item after the chain's is not yet there.
LEMMA AppendedLater ==
    ASSUME LockedTypeOK, tail - 1 <= Len(data), NEW x \in 1 .. MaxCalls
    PROVE  SubSeq(Append(data, x), head, tail - 1) = SubSeq(data, head, tail - 1)
  <1> USE DEF LockedTypeOK
  <1> DEFINE S == 1 .. MaxCalls
             a == SubSeq(Append(data, x), head, tail - 1)
             b == SubSeq(data, head, tail - 1)
  <1>1. Len(data) \in Nat /\ \A i \in 1 .. Len(data) : data[i] \in S /\ Append(data, x)[i] = data[i]
    <2>1. Len(data) \in Nat BY LenProperties
    <2>2. \A i \in 1 .. Len(data) : data[i] \in S BY ElementOfSeq
    <2>3. \A i \in 1 .. Len(data) : Append(data, x)[i] = data[i] BY AppendProperties
    <2> QED BY <2>1, <2>2, <2>3
  <1>2. \A i \in head .. tail - 1 : data[i] \in S /\ Append(data, x)[i] = data[i] /\ Append(data, x)[i] \in S
    BY <1>1
  <1>3. /\ a \in Seq(S) /\ Len(a) = IF head <= tail - 1 THEN tail - 1 - head + 1 ELSE 0
        /\ \A i \in 1 .. tail - 1 - head + 1 : a[i] = Append(data, x)[head + i - 1]
    BY <1>2, SubSeqProperties
  <1>4. /\ b \in Seq(S) /\ Len(b) = IF head <= tail - 1 THEN tail - 1 - head + 1 ELSE 0
        /\ \A i \in 1 .. tail - 1 - head + 1 : b[i] = data[head + i - 1]
    BY <1>2, SubSeqProperties
  <1>5. \A i \in 1 .. tail - 1 - head + 1 : a[i] = b[i]
    <2> TAKE i \in 1 .. tail - 1 - head + 1
    <2>1. head + i - 1 \in head .. tail - 1 OBVIOUS
    <2> QED BY <1>2, <1>3, <1>4, <2>1
  <1> HIDE DEF a, b
  <1>6. \A i \in 1 .. Len(a) : a[i] = b[i] BY <1>3, <1>5
  <1>7. a = b BY <1>3, <1>4, <1>6, SeqEqual
  <1> QED BY <1>7 DEF a, b

\* The item that the chain grows by is the newest.
LEMMA ChainGrows ==
    ASSUME NEW S, NEW d \in Seq(S), NEW n \in Nat \ {0}, n = Len(d), NEW h \in 1 .. n
    PROVE  SubSeq(d, h, n) = Append(SubSeq(d, h, n - 1), d[n])
  <1>1. SubSeq(d, h, n) = SubSeq(d, h, n - 1) \o <<d[n]>> BY SubSeqRecursiveSecond
  <1>2. \A i \in h .. n - 1 : d[i] \in S BY ElementOfSeq
  <1>3. SubSeq(d, h, n - 1) \in Seq(S) /\ d[n] \in S BY <1>2, SubSeqProperties, ElementOfSeq
  <1> QED BY <1>1, <1>3, AppendIsConcat

LEMMA Kept == ASSUME Locked!QueueAssumption, LockedInv, [Locked!Next]_(Locked!vars) PROVE LockedInv'
  <1>1. CASE Locked!Next
    BY <1>1, TypesKept, PushingKept, PoppingKept, NobodySleepsKept DEF LockedInv
  <1>2. CASE UNCHANGED Locked!vars
    BY <1>2 DEF Locked!vars, LockedInv, LockedTypeOK, Places, Pushing, Popping, Locked!NoSleepOnItems, Locked!Awake
  <1> QED BY <1>1, <1>2

(* What the invariant says of the code: under one mutex a thread waits on    *)
(* the condition only while each item has a thread that will look for it.    *)
THEOREM NoLostWakeup == Locked!QueueAssumption => (Locked!Spec => []Locked!NoSleepOnItems)
  <1> SUFFICES ASSUME Locked!QueueAssumption PROVE Locked!Spec => []Locked!NoSleepOnItems OBVIOUS
  <1>1. Locked!Init => LockedInv BY LockedInitially
  <1>2. LockedInv /\ [Locked!Next]_(Locked!vars) => LockedInv' BY Kept
  <1>3. LockedInv => Locked!NoSleepOnItems BY DEF LockedInv
  <1> QED BY <1>1, <1>2, <1>3, PTL DEF Locked!Spec

LEMMA StepRefines ==
    ASSUME Locked!QueueAssumption, LockedTypeOK, Pushing, Popping, Locked!Next
    PROVE  [Locked!Queue!Next]_(Locked!Queue!vars)
  <1> DEFINE contents == SubSeq(data, head, tail - 1)
             Items == 1 .. MaxCalls
  <1> USE DEF Locked!QueueAssumption, LockedTypeOK, Locked!call, Locked!queue
  <1>0. Len(data) \in Nat /\ tail - 1 <= Len(data) BY LenProperties DEF Pushing
  <1>1. ASSUME NEW x \in Items, contents' = Append(contents, x), got' = got
        PROVE  Locked!Queue!Next
    BY <1>1 DEF Locked!Queue!Next, Locked!Queue!Push
  <1>2. ASSUME contents' = contents, got' = got PROVE UNCHANGED Locked!Queue!vars
    BY <1>2 DEF Locked!Queue!vars
  <1>3. ASSUME UNCHANGED <<data, head, tail, got>> PROVE UNCHANGED Locked!Queue!vars
    BY <1>3 DEF Locked!Queue!vars
  <1>4. ASSUME NEW t \in Callers, Locked!PushCoarse(t) PROVE Locked!Queue!Next
    <2> DEFINE x == Len(data) + 1
    <2>1. /\ data' = Append(data, x) /\ tail' = tail + 1 /\ head' = head /\ got' = got
          /\ Len(data) = tail - 1
      BY <1>4 DEF Locked!PushCoarse, Pushing
    <2>2. x \in Items BY <1>0, <1>4 DEF Locked!PushCoarse, Pushing
    <2>3. Append(data, x) \in Seq(Items) /\ Len(Append(data, x)) = tail /\ Append(data, x)[tail] = x
      BY <2>1, <2>2, AppendProperties
    <2> HIDE DEF x
    <2>4. SubSeq(Append(data, x), head, tail) = Append(SubSeq(Append(data, x), head, tail - 1), x)
      <3>1. tail \in Nat \ {0} /\ head \in 1 .. tail OBVIOUS
      <3> HIDE DEF Items
      <3> QED BY ONLY <2>3, <3>1, ChainGrows
    <2>5. SubSeq(Append(data, x), head, tail - 1) = contents BY <1>0, <2>2, AppendedLater
    <2>6. contents' = SubSeq(Append(data, x), head, tail) BY <2>1
    <2> QED BY <1>1, <2>1, <2>2, <2>4, <2>5, <2>6
  <1>5. ASSUME NEW t \in Callers, Locked!SetData(t) PROVE UNCHANGED Locked!Queue!vars
    <2>1. Len(data) + 1 \in Items BY <1>0, <1>5 DEF Locked!SetData, Pushing
    <2>2. data' = Append(data, Len(data) + 1) /\ tail' = tail /\ head' = head /\ got' = got
      BY <1>5 DEF Locked!SetData
    <2>3. contents' = contents BY <1>0, <2>1, <2>2, AppendedLater
    <2> QED BY <1>2, <2>2, <2>3
  <1>6. ASSUME NEW t \in Callers, Locked!Advance(t) PROVE Locked!Queue!Next
    <2>1. data' = data /\ tail' = tail + 1 /\ head' = head /\ got' = got /\ Len(data) = tail
      BY <1>6 DEF Locked!Advance, Pushing
    <2>2. SubSeq(data, head, tail) = Append(contents, data[tail]) BY <2>1, ChainGrows
    <2>3. data[tail] \in Items BY <2>1, ElementOfSeq
    <2>4. contents' = SubSeq(data, head, tail) BY <2>1
    <2> QED BY <1>1, <2>1, <2>2, <2>3, <2>4
  <1>7. ASSUME NEW t \in Callers, Locked!Test(t) PROVE Locked!Queue!Next \/ UNCHANGED Locked!Queue!vars
    <2>1. UNCHANGED <<data, head, tail>> BY <1>7 DEF Locked!Test
    <2>2. CASE got' = got BY <1>3, <2>1, <2>2
    <2>3. CASE head = tail /\ got' = [got EXCEPT ![t] = 0]
      <3>1. contents = << >> /\ contents' = contents BY <2>1, <2>3, ContentsAre
      <3> QED BY <2>3, <3>1 DEF Locked!Queue!Next, Locked!Queue!PopNothing
    <2> QED BY <1>7, <2>2, <2>3 DEF Locked!Test
  <1>8. ASSUME NEW t \in Callers, Locked!Take(t) PROVE Locked!Queue!Next
    <2>1. head < tail BY <1>8 DEF Locked!Take, Popping
    <2>2. contents # << >> /\ head \in DOMAIN data /\ Head(contents) = data[head]
          /\ Tail(contents) = SubSeq(data, head + 1, tail - 1)
      BY <2>1, ContentsAre
    <2>3. got' = [got EXCEPT ![t] = data[head]] BY <1>8, <2>2 DEF Locked!Take, Locked!DataOf
    <2>4. contents' = SubSeq(data, head + 1, tail - 1) BY <1>8 DEF Locked!Take
    <2> QED BY <2>2, <2>3, <2>4 DEF Locked!Queue!Next, Locked!Queue!Pop
  <1>9. ASSUME NEW t \in Callers, Locked!PushLock(t) \/ Locked!Notify(t) \/ Locked!Pop(t) \/ Locked!LockHead(t) \/ Locked!Sleep(t) \/ Locked!Spurious(t)
        PROVE  UNCHANGED Locked!Queue!vars
    <2>1. UNCHANGED <<data, head, tail, got>>
      BY <1>9 DEF Locked!PushLock, Locked!Notify, Locked!Pop, Locked!LockHead, Locked!Sleep, Locked!Spurious
    <2> QED BY <1>3, <2>1
  <1> QED BY <1>4, <1>5, <1>6, <1>7, <1>8, <1>9 DEF Locked!Next, Locked!Step

LEMMA QueueBegins == ASSUME Locked!QueueAssumption, Locked!Init PROVE Locked!Queue!Init
  BY LockedInitially, SubSeqEmpty DEF Locked!Init, Locked!Queue!Init, Locked!QueueAssumption

LEMMA QueueSteps ==
    ASSUME Locked!QueueAssumption, LockedInv, [Locked!Next]_(Locked!vars)
    PROVE  [Locked!Queue!Next]_(Locked!Queue!vars)
  <1>1. CASE UNCHANGED Locked!vars BY <1>1 DEF Locked!vars, Locked!Queue!vars
  <1> QED BY <1>1, StepRefines DEF LockedInv

(* Each scheme is a first-in first-out queue whose calls happen at a moment: *)
(* a push where the dummy moves on, a pop where the head is unlinked, a pop  *)
(* that finds nothing where it compares head and tail.                       *)
THEOREM QueueIsFifo == Locked!QueueAssumption => (Locked!Spec => Locked!FifoSpec)
  <1> SUFFICES ASSUME Locked!QueueAssumption PROVE Locked!Spec => Locked!FifoSpec OBVIOUS
  <1>1. Locked!Init => LockedInv /\ Locked!Queue!Init BY LockedInitially, QueueBegins
  <1>2. LockedInv /\ [Locked!Next]_(Locked!vars) => LockedInv' BY Kept
  <1>3. LockedInv /\ [Locked!Next]_(Locked!vars) => [Locked!Queue!Next]_(Locked!Queue!vars)
    BY QueueSteps
  <1> QED BY <1>1, <1>2, <1>3, PTL DEF Locked!Spec, Locked!FifoSpec, Locked!Queue!Spec
-----------------------------------------------------------------------------
(* The interruptible wait: inductive is that the last look at the flag comes *)
(* after the pointer is cleared where the wait is written by hand, and that  *)
(* the wait on a future never sets it.                                       *)
CondKnown ==
  /\ thread_cond => /\ waiter \in {"point", "wait", "asleep", "last", "clear", "unwind"}
                    /\ Interrupted!ByHand => waiter # "last"
  /\ scheme = "future" => waiter \in {"call", "poll", "last", "throw", "unlock", "done"}

LEMMA CondBegins == ASSUME Interrupted!Init PROVE CondKnown
  BY DEF Interrupted!Init, CondKnown

LEMMA CondKept == ASSUME CondKnown, [Interrupted!Next]_(Interrupted!vars) PROVE CondKnown'
  <1> USE DEF CondKnown, Interrupted!others, Interrupted!Goto, Interrupted!Any, Interrupted!ByHand
  <1>1. CASE UNCHANGED Interrupted!vars BY <1>1 DEF Interrupted!vars
  <1>2. CASE Interrupted!CallWait \/ Interrupted!SetCond
    BY <1>2 DEF Interrupted!CallWait, Interrupted!SetCond
  <1>3. CASE Interrupted!Point \/ Interrupted!Wait \/ Interrupted!Timeout
    BY <1>3 DEF Interrupted!Point, Interrupted!Wait, Interrupted!Timeout
  <1>4. CASE Interrupted!Relock BY <1>4 DEF Interrupted!Relock
  <1>5. CASE Interrupted!LastPoint BY <1>5 DEF Interrupted!LastPoint
  <1>6. CASE Interrupted!Clear BY <1>6 DEF Interrupted!Clear, Interrupted!OnLeaving
  <1>7. CASE Interrupted!Poll \/ Interrupted!Leave BY <1>7 DEF Interrupted!Poll, Interrupted!Leave
  <1>8. CASE Interrupted!Spurious \/ Interrupted!Store \/ Interrupted!LockSetClear \/ Interrupted!Notify
             \/ Interrupted!Provide
    <2>1. UNCHANGED <<scheme, thread_cond, waiter>>
      BY <1>8 DEF Interrupted!Spurious, Interrupted!Store, Interrupted!LockSetClear,
                  Interrupted!Notify, Interrupted!Provide
    <2> QED BY <2>1
  <1> QED BY <1>1, <1>2, <1>3, <1>4, <1>5, <1>6, <1>7, <1>8 DEF Interrupted!Next, Interrupted!WaiterStep

-----------------------------------------------------------------------------
(* The lookup table: inductive is that get_map holds the buckets below the   *)
(* one it comes to, and has what the copied ones still hold.                 *)

\* A bucket of pairs, each of a key that belongs there, and no key twice.
InPlace(b, i) == /\ b \in Seq(Keys \X Values)
                 /\ \A j, l \in DOMAIN b : /\ Table!GetBucket(b[j][1]) = i
                                           /\ b[j][1] = b[l][1] => j = l

Tables == /\ DOMAIN buckets = Table!Index /\ \A i \in Table!Index : InPlace(buckets[i], i)
          /\ buckets = [i \in Table!Index |-> buckets[i]]
Mutexed == /\ mutex \in [Table!Index -> Lockers \cup {NoThread}]
           /\ locks \in [Lockers -> 0 .. Buckets]
           /\ \A i \in Table!Index, t \in Lockers : mutex[i] = t <=> i < locks[t]
Snapshots == /\ copied \in [Lockers -> 0 .. Buckets] /\ DOMAIN res = Lockers
             /\ \A t \in Lockers :
                  /\ copied[t] # 0 => locks[t] = Buckets
                  /\ res[t] = UNION {Table!Range(buckets[i]) : i \in 0 .. copied[t] - 1}

TableInv == Tables /\ Mutexed /\ Snapshots

LEMMA TableBegins == ASSUME Table!TableAssumption, Table!Init PROVE TableInv
  <1> USE DEF Table!TableAssumption, Table!Init, Table!Index
  <1>1. Tables BY EmptySeq DEF Tables, InPlace
  <1>2. Mutexed BY DEF Mutexed
  <1>3. Snapshots BY DEF Snapshots
  <1> QED BY <1>1, <1>2, <1>3 DEF TableInv

LEMMA BucketOfKey == ASSUME Table!TableAssumption, NEW k \in Keys PROVE Table!GetBucket(k) \in Table!Index
  <1>1. ASSUME NEW h \in Nat, NEW n \in Nat \ {0} PROVE (h % n) \in 0 .. n - 1 OBVIOUS
  <1> QED BY <1>1 DEF Table!TableAssumption, Table!GetBucket, Table!Index

\* find_entry_for finds the pair of the key, if there is one.
LEMMA EntryFound ==
    ASSUME NEW i, NEW b, InPlace(b, i), NEW k, Table!Entries(b, k) # {}
    PROVE  /\ Table!FindEntryFor(b, k) \in 1 .. Len(b)
           /\ b[Table!FindEntryFor(b, k)][1] = k
  <1>1. DOMAIN b = 1 .. Len(b) /\ Len(b) \in Nat BY LenProperties DEF InPlace
  <1>2. \E e \in Table!Entries(b, k) : \A j \in Table!Entries(b, k) : e =< j
    BY <1>1 DEF Table!Entries, InPlace
  <1>3. Table!FindEntryFor(b, k) \in Table!Entries(b, k) BY <1>2 DEF Table!FindEntryFor
  <1> QED BY <1>1, <1>3 DEF Table!Entries

LEMMA EntryAdded ==
    ASSUME NEW b, NEW k \in Keys, NEW v \in Values, InPlace(b, Table!GetBucket(k))
    PROVE  InPlace(IF Table!Entries(b, k) = {} THEN Append(b, <<k, v>>)
                   ELSE [b EXCEPT ![Table!FindEntryFor(b, k)] = <<k, v>>], Table!GetBucket(k))
  <1> DEFINE g == Table!GetBucket(k)
             e == Table!FindEntryFor(b, k)
             grown == Append(b, <<k, v>>)
             set == [b EXCEPT ![e] = <<k, v>>]
  <1>1. b \in Seq(Keys \X Values) /\ DOMAIN b = 1 .. Len(b) /\ Len(b) \in Nat
    BY LenProperties DEF InPlace
  <1>2. CASE Table!Entries(b, k) = {}
    <2>1. /\ grown \in Seq(Keys \X Values) /\ DOMAIN grown = 1 .. Len(b) + 1
          /\ grown[Len(b) + 1] = <<k, v>> /\ \A j \in 1 .. Len(b) : grown[j] = b[j]
      BY <1>1, AppendProperties
    <2>2. \A j \in 1 .. Len(b) : Table!GetBucket(b[j][1]) = g /\ b[j][1] # k
      BY <1>1, <1>2 DEF InPlace, Table!Entries
    <2>3. \A j, l \in 1 .. Len(b) : b[j][1] = b[l][1] => j = l BY <1>1 DEF InPlace
    <2>4. \A j \in 1 .. Len(b) + 1 : j = Len(b) + 1 \/ j \in 1 .. Len(b) BY <1>1
    <2>5. <<k, v>>[1] = k OBVIOUS
    <2> HIDE DEF grown
    <2>6. InPlace(grown, g) BY <2>1, <2>2, <2>3, <2>4, <2>5 DEF InPlace
    <2> QED BY <1>2, <2>6 DEF grown
  <1>3. CASE Table!Entries(b, k) # {}
    <2>1. e \in 1 .. Len(b) /\ b[e][1] = k BY <1>3, EntryFound
    <2>2. set \in Seq(Keys \X Values) /\ DOMAIN set = DOMAIN b BY <1>1, <2>1, ExceptSeq
    <2>3. \A j \in DOMAIN b : set[j][1] = b[j][1] BY <1>1, <2>1
    <2> HIDE DEF set
    <2>4. InPlace(set, g) BY <2>2, <2>3 DEF InPlace
    <2> QED BY <1>3, <2>4 DEF set
  <1> QED BY <1>2, <1>3

\* What is left when one element is taken out.
LEMMA SliceIs ==
    ASSUME NEW S, NEW s \in Seq(S), NEW lo \in Nat \ {0}, NEW hi \in Nat, lo <= hi + 1, hi <= Len(s)
    PROVE  /\ SubSeq(s, lo, hi) \in Seq(S) /\ Len(SubSeq(s, lo, hi)) = hi - lo + 1
           /\ \A j \in 1 .. hi - lo + 1 : SubSeq(s, lo, hi)[j] = s[lo + j - 1]
  <1>1. Len(s) \in Nat /\ \A j \in 1 .. Len(s) : s[j] \in S BY ElementOfSeq, LenProperties
  <1>2. \A j \in lo .. hi : s[j] \in S BY <1>1
  <1> QED BY <1>2, SubSeqProperties

LEMMA RemoveOne ==
    ASSUME NEW S, NEW b \in Seq(S), NEW e \in 1 .. Len(b)
    PROVE  LET rest == SubSeq(b, 1, e - 1) \o SubSeq(b, e + 1, Len(b)) IN
           /\ rest \in Seq(S) /\ DOMAIN rest = 1 .. Len(b) - 1
           /\ \A j \in 1 .. Len(b) - 1 : rest[j] = b[IF j < e THEN j ELSE j + 1]
  <1> DEFINE left == SubSeq(b, 1, e - 1)
             right == SubSeq(b, e + 1, Len(b))
             rest == left \o right
  <1>1. Len(b) \in Nat /\ e \in Nat \ {0} /\ e <= Len(b) BY LenProperties
  <1>2. left \in Seq(S) /\ Len(left) = e - 1 /\ \A j \in 1 .. e - 1 : left[j] = b[j]
    <2>1. e - 1 \in Nat /\ 1 <= e - 1 + 1 /\ e - 1 <= Len(b) /\ e - 1 - 1 + 1 = e - 1 BY <1>1
    <2>2. \A j \in 1 .. e - 1 : 1 + j - 1 = j BY <1>1
    <2> QED BY <2>1, <2>2, SliceIs
  <1>3. right \in Seq(S) /\ Len(right) = Len(b) - e /\ \A j \in 1 .. Len(b) - e : right[j] = b[e + j]
    <2> DEFINE lo == e + 1
    <2>1. lo \in Nat \ {0} /\ lo <= Len(b) + 1 /\ Len(b) - lo + 1 = Len(b) - e BY <1>1
    <2>2. right = SubSeq(b, lo, Len(b)) OBVIOUS
    <2> HIDE DEF lo, right
    <2>3. /\ right \in Seq(S) /\ Len(right) = Len(b) - lo + 1
          /\ \A j \in 1 .. Len(b) - lo + 1 : right[j] = b[lo + j - 1]
      BY <1>1, <2>1, <2>2, SliceIs
    <2>4. ASSUME NEW j \in 1 .. Len(b) - e PROVE right[j] = b[e + j]
      <3>1. j \in 1 .. Len(b) - lo + 1 /\ lo + j - 1 = e + j BY <1>1 DEF lo
      <3> QED BY <2>3, <3>1
    <2> QED BY <2>1, <2>3, <2>4
  <1> HIDE DEF left, right
  <1>4. /\ rest \in Seq(S) /\ Len(rest) = Len(left) + Len(right)
        /\ \A j \in 1 .. Len(left) + Len(right) :
             rest[j] = IF j <= Len(left) THEN left[j] ELSE right[j - Len(left)]
    BY <1>2, <1>3, ConcatProperties
  <1> HIDE DEF rest
  <1>5. DOMAIN rest = 1 .. Len(b) - 1 BY <1>1, <1>2, <1>3, <1>4, LenProperties
  <1>6. ASSUME NEW j \in 1 .. Len(b) - 1 PROVE rest[j] = b[IF j < e THEN j ELSE j + 1]
    <2>1. CASE j < e
      <3>1. j \in 1 .. e - 1 /\ j \in 1 .. Len(left) + Len(right) /\ j <= Len(left)
        BY <1>1, <1>2, <1>3, <2>1
      <3> QED BY <1>2, <1>4, <2>1, <3>1
    <2>2. CASE ~(j < e)
      <3>1. j - (e - 1) \in 1 .. Len(b) - e /\ e + (j - (e - 1)) = j + 1 BY <1>1, <2>2
      <3> QED BY <1>1, <1>2, <1>3, <1>4, <2>2, <3>1
    <2> QED BY <2>1, <2>2
  <1>7. rest \in Seq(S) BY <1>4
  <1> QED BY <1>5, <1>6, <1>7 DEF rest, left, right

LEMMA EntryRemoved ==
    ASSUME NEW b, NEW i, InPlace(b, i), NEW e \in 1 .. Len(b)
    PROVE  InPlace(Table!Erase(b, e), i)
  <1> DEFINE rest == Table!Erase(b, e)
             from(j) == IF j < e THEN j ELSE j + 1
  <1>1. b \in Seq(Keys \X Values) /\ DOMAIN b = 1 .. Len(b) /\ Len(b) \in Nat
    BY LenProperties DEF InPlace
  <1>2. /\ rest \in Seq(Keys \X Values) /\ DOMAIN rest = 1 .. Len(b) - 1
        /\ \A j \in 1 .. Len(b) - 1 : rest[j] = b[from(j)]
    BY <1>1, RemoveOne DEF Table!Erase
  <1>3. \A j \in 1 .. Len(b) - 1 : from(j) \in 1 .. Len(b) BY <1>1
  <1>4. \A j, l \in 1 .. Len(b) - 1 : from(j) = from(l) => j = l BY <1>1
  <1>5. \A j, l \in 1 .. Len(b) : Table!GetBucket(b[j][1]) = i /\ (b[j][1] = b[l][1] => j = l)
    BY <1>1 DEF InPlace
  <1> HIDE DEF rest, from
  <1>6. ASSUME NEW j \in DOMAIN rest, NEW l \in DOMAIN rest
        PROVE  Table!GetBucket(rest[j][1]) = i /\ (rest[j][1] = rest[l][1] => j = l)
    <2>1. rest[j] = b[from(j)] /\ rest[l] = b[from(l)] /\ from(j) \in 1 .. Len(b) /\ from(l) \in 1 .. Len(b)
      BY <1>2, <1>3
    <2>2. Table!GetBucket(rest[j][1]) = i BY <1>5, <2>1
    <2>3. rest[j][1] = rest[l][1] => from(j) = from(l) BY <1>5, <2>1
    <2> QED BY <1>2, <1>4, <2>2, <2>3
  <1>7. InPlace(rest, i) BY <1>2, <1>6 DEF InPlace
  <1> QED BY <1>7 DEF rest

\* A bucket that a call has changed is not one that get_map has copied.
LEMMA BucketChanged ==
    ASSUME Table!TableAssumption, TableInv, NEW g \in Table!Index, mutex[g] = NoThread,
           NEW b, InPlace(b, g), buckets' = [buckets EXCEPT ![g] = b],
           UNCHANGED <<mutex, locks, copied, res>>
    PROVE  TableInv'
  <1>1. Tables' BY DEF TableInv, Tables
  <1>2. Mutexed' BY DEF TableInv, Mutexed
  <1>3. \A t \in Lockers : copied[t] = 0
    BY DEF TableInv, Mutexed, Snapshots, Table!TableAssumption, Table!Index
  <1>4. \A t \in Lockers : 0 .. copied[t] - 1 = {} BY <1>3
  <1>5. Snapshots' BY <1>3, <1>4 DEF TableInv, Snapshots
  <1> QED BY <1>1, <1>2, <1>5 DEF TableInv

LEMMA ChangeKeeps ==
    ASSUME Table!TableAssumption, TableInv, NEW t \in Lockers, NEW k \in Keys,
           Table!RemoveMapping(t, k) \/ \E v \in Values : Table!AddOrUpdate(t, k, v)
    PROVE  TableInv'
  <1> DEFINE g == Table!GetBucket(k)
             b == buckets[g]
  <1>1. g \in Table!Index /\ mutex[g] = NoThread
    BY BucketOfKey DEF Table!RemoveMapping, Table!AddOrUpdate, Table!Call
  <1>2. InPlace(b, g) BY <1>1 DEF TableInv, Tables
  <1>3. UNCHANGED <<mutex, locks, copied, res>> BY DEF Table!RemoveMapping, Table!AddOrUpdate
  <1> HIDE DEF g, b
  <1>4. CASE Table!RemoveMapping(t, k)
    <2> DEFINE new == IF Table!Entries(b, k) = {} THEN b
                      ELSE Table!Erase(b, Table!FindEntryFor(b, k))
    <2>1. InPlace(new, g) BY <1>2, EntryFound, EntryRemoved
    <2>2. buckets' = [buckets EXCEPT ![g] = new] BY <1>4 DEF Table!RemoveMapping, g, b
    <2> HIDE DEF new
    <2> QED BY <1>1, <1>3, <2>1, <2>2, BucketChanged
  <1>5. ASSUME NEW v \in Values, Table!AddOrUpdate(t, k, v) PROVE TableInv'
    <2> DEFINE new == IF Table!Entries(b, k) = {} THEN Append(b, <<k, v>>)
                      ELSE [b EXCEPT ![Table!FindEntryFor(b, k)] = <<k, v>>]
    <2>1. InPlace(new, g) BY <1>2, EntryAdded DEF g
    <2>2. buckets' = [buckets EXCEPT ![g] = new] BY <1>5 DEF Table!AddOrUpdate, g, b
    <2> HIDE DEF new
    <2> QED BY <1>1, <1>3, <2>1, <2>2, BucketChanged
  <1> QED BY <1>4, <1>5

LEMMA LockKeeps ==
    ASSUME Table!TableAssumption, TableInv, NEW t \in Lockers, Table!LockNext(t)
    PROVE  TableInv'
  <1> USE DEF Table!LockNext, TableInv, Table!TableAssumption
  <1>1. Tables' BY DEF Tables, InPlace
  <1>2. locks[t] \in Table!Index /\ locks[t] + 1 \in 0 .. Buckets BY DEF Mutexed, Table!Index
  <1>3. ASSUME NEW i \in Table!Index, NEW u \in Lockers PROVE mutex'[i] = u <=> i < locks'[u]
    BY <1>2 DEF Mutexed, Table!Index
  <1>4. mutex' \in [Table!Index -> Lockers \cup {NoThread}] /\ locks' \in [Lockers -> 0 .. Buckets]
    BY <1>2 DEF Mutexed
  <1>5. Snapshots' BY DEF Mutexed, Snapshots
  <1> QED BY <1>1, <1>3, <1>4, <1>5 DEF Mutexed

LEMMA CopyKeeps ==
    ASSUME Table!TableAssumption, TableInv, NEW t \in Lockers, Table!CopyNext(t)
    PROVE  TableInv'
  <1> DEFINE c == copied[t]
  <1> USE DEF TableInv, Table!TableAssumption
  <1>0. c \in Nat /\ c < Buckets /\ locks[t] = Buckets /\ UNCHANGED <<buckets, mutex, locks>>
    BY DEF Snapshots, Table!CopyNext, Table!KeepLocks
  <1>1. Tables' /\ Mutexed' BY <1>0 DEF Tables, Mutexed, InPlace
  <1>2. copied' = [copied EXCEPT ![t] = c + 1] /\ c + 1 \in 0 .. Buckets BY <1>0 DEF Table!CopyNext
  <1>3. res' = [res EXCEPT ![t] = res[t] \cup Table!Range(buckets[c])] BY DEF Table!CopyNext
  <1>4. UNION {Table!Range(buckets[i]) : i \in 0 .. c + 1 - 1}
        = (UNION {Table!Range(buckets[i]) : i \in 0 .. c - 1}) \cup Table!Range(buckets[c])
    <2>1. 0 .. c + 1 - 1 = (0 .. c - 1) \cup {c} BY <1>0
    <2> QED BY <2>1, Zenon
  <1>5. copied' \in [Lockers -> 0 .. Buckets] /\ DOMAIN res' = Lockers BY <1>2, <1>3 DEF Snapshots
  <1>6. ASSUME NEW u \in Lockers
        PROVE  /\ copied'[u] # 0 => locks'[u] = Buckets
               /\ res'[u] = UNION {Table!Range(buckets'[i]) : i \in 0 .. copied'[u] - 1}
    <2>1. CASE u = t
      <3>1. copied'[u] = c + 1 /\ res'[u] = (UNION {Table!Range(buckets[i]) : i \in 0 .. c - 1}) \cup Table!Range(buckets[c])
        BY <1>2, <1>3, <2>1 DEF Snapshots
      <3> QED BY <1>0, <1>4, <2>1, <3>1
    <2>2. CASE u # t
      <3>1. copied'[u] = copied[u] /\ res'[u] = res[u] BY <1>2, <1>3, <2>2 DEF Snapshots
      <3> QED BY <1>0, <3>1 DEF Snapshots
    <2> QED BY <2>1, <2>2
  <1> QED BY <1>1, <1>5, <1>6 DEF Snapshots

LEMMA ReleaseKeeps ==
    ASSUME Table!TableAssumption, TableInv, NEW t \in Lockers, Table!Release(t)
    PROVE  TableInv'
  <1> USE DEF Table!Release, TableInv, Table!TableAssumption
  <1>1. Tables' BY DEF Tables, InPlace
  <1>2. Mutexed' BY DEF Mutexed, Table!Index
  <1>3. ASSUME NEW u \in Lockers
        PROVE  /\ copied'[u] # 0 => locks'[u] = Buckets
               /\ res'[u] = UNION {Table!Range(buckets'[i]) : i \in 0 .. copied'[u] - 1}
    <2>1. CASE u = t
      <3>1. copied'[u] = 0 /\ res'[u] = {} /\ 0 .. 0 - 1 = {} BY <2>1 DEF Snapshots
      <3> QED BY <3>1
    <2>2. CASE u # t
      <3>1. copied'[u] = copied[u] /\ res'[u] = res[u] /\ locks'[u] = locks[u]
        BY <2>2 DEF Snapshots, Mutexed
      <3> QED BY <3>1 DEF Snapshots
    <2> QED BY <2>1, <2>2
  <1>4. copied' \in [Lockers -> 0 .. Buckets] /\ DOMAIN res' = Lockers BY DEF Snapshots
  <1> QED BY <1>1, <1>2, <1>3, <1>4 DEF Snapshots

LEMMA TableKept == ASSUME Table!TableAssumption, TableInv, [Table!Next]_(Table!vars) PROVE TableInv'
  <1>1. CASE UNCHANGED <<buckets, mutex, locks, copied, res>>
    BY <1>1 DEF TableInv, Tables, InPlace, Mutexed, Snapshots
  <1>2. CASE UNCHANGED Table!vars BY <1>1, <1>2 DEF Table!vars
  <1>3. CASE Table!Next
    <2>1. PICK t \in Lockers :
            \/ \E k \in Keys : \/ Table!ValueFor(t, k) \/ Table!RemoveMapping(t, k)
                               \/ \E v \in Values : Table!AddOrUpdate(t, k, v)
            \/ Table!LockNext(t) \/ Table!CopyNext(t) \/ Table!Release(t)
      BY <1>3 DEF Table!Next
    <2>2. ASSUME NEW k \in Keys, Table!ValueFor(t, k) PROVE TableInv'
      BY <1>1, <2>2 DEF Table!ValueFor
    <2> QED BY <2>1, <2>2, ChangeKeeps, LockKeeps, CopyKeeps, ReleaseKeeps
  <1> QED BY <1>2, <1>3

(* The thread that has locked most of the buckets can lock the next.         *)
LEMMA SnapshotFollows == ASSUME Table!TableAssumption, TableInv PROVE Table!SnapshotWhole
  <1> USE DEF Table!TableAssumption, TableInv, Table!Index
  <1>1. ASSUME NEW i \in Table!Index, NEW j \in DOMAIN buckets[i], NEW l \in DOMAIN buckets[i]
        PROVE  /\ Table!GetBucket(buckets[i][j][1]) = i
               /\ buckets[i][j][1] = buckets[i][l][1] => j = l
    BY DEF Tables, InPlace
  <1>2. ASSUME NEW t \in Lockers, copied[t] = Buckets
        PROVE  res[t] = UNION {Table!Range(buckets[i]) : i \in Table!Index}
    BY <1>2 DEF Snapshots
  <1>3. \E t \in Lockers : locks[t] \in {0, Buckets} \/ mutex[locks[t]] = NoThread
    <2> DEFINE S == {Buckets - locks[u] : u \in Lockers}
    <2>1. S \in SUBSET Nat /\ S # {} BY DEF Mutexed
    <2>2. PICK n \in S : \A k \in S : n <= k BY <2>1, LeastNat
    <2>3. PICK t \in Lockers : n = Buckets - locks[t] BY <2>2
    <2>4. ASSUME NEW u \in Lockers PROVE locks[u] <= locks[t]
      <3>1. Buckets - locks[t] <= Buckets - locks[u] BY <2>2, <2>3
      <3>2. locks[t] \in 0 .. Buckets /\ locks[u] \in 0 .. Buckets BY DEF Mutexed
      <3> QED BY <3>1, <3>2
    <2>5. locks[t] # Buckets => mutex[locks[t]] \notin Lockers BY <2>4 DEF Mutexed
    <2>6. locks[t] # Buckets => mutex[locks[t]] \in Lockers \cup {NoThread} BY DEF Mutexed
    <2> QED BY <2>5, <2>6
  <1> QED BY <1>1, <1>2, <1>3 DEF Table!SnapshotWhole

-----------------------------------------------------------------------------
(* The parallel searches: inductive is where each has been, and that a       *)
(* search is stopped before its block's end only when another has a result.  *)

Element == 1 .. Parts * Size

FindTyped == /\ scheme \in {"promise", "async", "any"}
             /\ matches \subseteq Element /\ bad \subseteq Element /\ bad \cap matches = {}
             /\ done \in BOOLEAN
             /\ pc \in [1 .. Parts -> {"test", "compare", "set", "throw", "flag", "end", "seen"}]
             /\ begin \in [1 .. Parts -> Nat] /\ DOMAIN found = 1 .. Parts

Searches(b) ==
  /\ Find!First(b) =< begin[b] /\ begin[b] =< Find!End(b)
  /\ \A e \in Find!First(b) .. begin[b] - 1 : e \notin matches /\ e \notin bad
  /\ pc[b] = "compare" => begin[b] < Find!End(b)
  /\ pc[b] = "set" => begin[b] \in matches /\ begin[b] < Find!End(b)
  /\ pc[b] = "throw" => begin[b] \in bad
  /\ pc[b] = "flag" => scheme = "promise"
  /\ pc[b] = "seen" => scheme = "any"
Searching == \A b \in 1 .. Parts : Searches(b)

\* Each ended call of async and any.
Reported(b) == \/ found[b] = Find!End(b) /\ (done \/ begin[b] = Find!End(b))
               \/ found[b] = begin[b] /\ begin[b] \in matches /\ begin[b] < Find!End(b)
               \/ found[b] = -1 /\ bad # {}
Reports == scheme # "promise" =>
  /\ \A b \in 1 .. Parts : pc[b] \in {"end", "seen"} => Reported(b)
  /\ done => \E b \in 1 .. Parts : pc[b] \in {"end", "seen"} /\ found[b] # Find!End(b)

InPromise == scheme = "promise" =>
  /\ result = 0 \/ result \in matches \/ (result = -1 /\ bad # {})
  /\ done => result # 0
  /\ result = 0 => \A b \in 1 .. Parts : pc[b] # "flag" /\ (pc[b] = "end" => begin[b] = Find!End(b))
  /\ result # 0 => done \/ \E b \in 1 .. Parts : pc[b] = "flag"

InAny == scheme = "any" =>
  /\ result = 0 \/ result \in matches \/ (result = -1 /\ bad # {})
     \/ (result = Find!End(Parts) /\ matches = {} /\ bad = {})
  /\ result = 0 => \A b \in 1 .. Parts : pc[b] = "seen" => found[b] = Find!End(b)

FindInv == FindTyped /\ Searching /\ Reports /\ InPromise /\ InAny

LEMMA BlockBounds ==
    ASSUME Find!FindAssumption
    PROVE  /\ Parts \in 1 .. Parts
           /\ \A b \in 1 .. Parts : /\ Find!First(b) \in Nat /\ Find!End(b) \in Nat \ {0}
                                    /\ Find!First(b) =< Find!End(b)
           /\ \A e \in Element : e < Find!End(Parts) /\ e # 0
  <1> USE DEF Find!FindAssumption
  <1>1. ASSUME NEW b \in 1 .. Parts
        PROVE  Find!First(b) \in Nat /\ Find!End(b) \in Nat \ {0} /\ Find!First(b) =< Find!End(b)
    <2>1. (b - 1) * Size \in Nat /\ b * Size \in Nat /\ b * Size = (b - 1) * Size + Size OBVIOUS
    <2> QED BY <2>1 DEF Find!First, Find!End
  <1>2. Parts * Size \in Nat /\ \A e \in Element : e < Find!End(Parts) /\ e # 0
    BY DEF Element, Find!End
  <1> QED BY <1>1, <1>2

\* Every element is in a block.
LEMMA BlocksCover ==
    ASSUME Find!FindAssumption, NEW e \in Element
    PROVE  \E b \in 1 .. Parts : e \in Find!First(b) .. Find!End(b) - 1
  <1> USE DEF Find!FindAssumption
  <1> DEFINE q == (e - 1) \div Size
             r == (e - 1) % Size
  <1>1. Parts * Size \in Nat /\ e \in 1 .. Parts * Size /\ e - 1 \in Nat BY DEF Element
  <1>2. q \in Nat /\ r \in 0 .. Size - 1 /\ e - 1 = Size * q + r BY <1>1
  <1> HIDE DEF q, r
  <1>3. q < Parts
    <2>1. ASSUME q >= Parts PROVE FALSE
      <3>1. Size * q >= Parts * Size BY <1>2, <2>1
      <3> QED BY <1>1, <1>2, <3>1
    <2> QED BY <1>2, <2>1
  <1>4. /\ Find!First(q + 1) = Size * q + 1 /\ Find!End(q + 1) = Size * q + Size + 1
        /\ q + 1 \in 1 .. Parts /\ Size * q \in Nat
    BY <1>2, <1>3 DEF Find!First, Find!End
  <1>5. e \in Find!First(q + 1) .. Find!End(q + 1) - 1 BY <1>1, <1>2, <1>4
  <1> QED BY <1>4, <1>5

LEMMA FindBegins == ASSUME Find!FindAssumption, Find!Init PROVE FindInv
  <1> USE DEF Find!Init, Find!Threads, Find!Elements, Find!Unset, Element
  <1>1. FindTyped
    <2>1. bad \subseteq Element /\ bad \cap matches = {} OBVIOUS
    <2>2. begin \in [1 .. Parts -> Nat] BY BlockBounds
    <2>3. pc \in [1 .. Parts -> {"test", "compare", "set", "throw", "flag", "end", "seen"}] OBVIOUS
    <2> QED BY <2>1, <2>2, <2>3 DEF FindTyped
  <1>2. Searching BY BlockBounds DEF Searching, Searches
  <1>3. Reports /\ InPromise /\ InAny BY DEF Reports, InPromise, InAny
  <1> QED BY <1>1, <1>2, <1>3 DEF FindInv

LEMMA TestKeeps ==
    ASSUME Find!FindAssumption, FindInv, NEW t \in 1 .. Parts, Find!Test(t) \/ Find!Compare(t)
    PROVE  FindInv'
  <1> USE DEF Find!Goto, Find!Found
  <1>1. Find!First(t) \in Nat /\ Find!End(t) \in Nat BY BlockBounds
  <1>2. CASE Find!Test(t)
    <2> USE DEF Find!Test
    <2>1. FindTyped' BY <1>2 DEF FindInv, FindTyped
    <2>2. Searching'
      <3>1. ASSUME NEW b \in 1 .. Parts, b # t PROVE Searches(b)'
        BY <1>2, <3>1 DEF FindInv, FindTyped, Searching, Searches
      <3>2. Searches(t)'
        <4>1. Searches(t) /\ UNCHANGED <<begin, matches, bad, scheme>> /\ begin[t] \in Nat
          BY <1>2 DEF FindInv, FindTyped, Searching
        <4>2. \/ pc'[t] = "end"
              \/ pc'[t] = "compare" /\ begin[t] # Find!End(t)
          BY <1>2 DEF FindInv, FindTyped
        <4> QED BY <1>1, <4>1, <4>2 DEF Searches
      <3> QED BY <3>1, <3>2 DEF Searching
    <2>3. Reports'
      <3> USE DEF FindInv, FindTyped
      <3>1. /\ UNCHANGED <<begin, matches, bad, scheme, done>>
            /\ pc[t] = "test" /\ pc' = [pc EXCEPT ![t] = pc'[t]]
            /\ \A b \in 1 .. Parts : b # t => found'[b] = found[b]
        BY <1>2
      <3>2. ASSUME NEW b \in 1 .. Parts, b # t, Reported(b) PROVE Reported(b)'
        BY <3>1, <3>2 DEF Reported
      <3>3. pc'[t] = "compare" \/ (pc'[t] = "end" /\ found'[t] = Find!End(t) /\ (done \/ begin[t] = Find!End(t)))
        BY <1>2
      <3> QED BY <3>1, <3>2, <3>3 DEF Reports, Reported
    <2>4. InPromise' /\ InAny' BY <1>2 DEF FindInv, FindTyped, InPromise, InAny
    <2> QED BY <2>1, <2>2, <2>3, <2>4 DEF FindInv
  <1>3. CASE Find!Compare(t)
    <2> USE DEF Find!Compare
    <2>1. FindTyped' BY <1>3 DEF FindInv, FindTyped
    <2>2. Searching'
      <3>1. ASSUME NEW b \in 1 .. Parts, b # t PROVE Searches(b)'
        BY <1>3, <3>1 DEF FindInv, FindTyped, Searching, Searches
      <3>2. Searches(t)'
        <4>1. /\ Searches(t) /\ UNCHANGED <<matches, bad, scheme>> /\ begin[t] \in Nat
              /\ begin[t] < Find!End(t)
          BY <1>3 DEF FindInv, FindTyped, Searching, Searches
        <4>2. \/ pc'[t] = "throw" /\ begin' = begin /\ begin[t] \in bad
              \/ pc'[t] = "set" /\ begin' = begin /\ begin[t] \in matches
              \/ pc'[t] = "test" /\ begin'[t] = begin[t] + 1 /\ begin[t] \notin bad /\ begin[t] \notin matches
          BY <1>3 DEF FindInv, FindTyped
        <4>3. CASE begin' = begin BY <4>1, <4>2, <4>3 DEF Searches
        <4>4. CASE pc'[t] = "test" /\ begin'[t] = begin[t] + 1 /\ begin[t] \notin bad /\ begin[t] \notin matches
          <5>1. \A e \in Find!First(t) .. begin[t] + 1 - 1 : e = begin[t] \/ e \in Find!First(t) .. begin[t] - 1
            BY <1>1, <4>1
          <5> QED BY <1>1, <4>1, <4>4, <5>1 DEF Searches
        <4> QED BY <4>2, <4>3, <4>4
      <3> QED BY <3>1, <3>2 DEF Searching
    <2>3. Reports' BY <1>3 DEF FindInv, FindTyped, Reports, Reported
    <2>4. InPromise' /\ InAny' BY <1>3 DEF FindInv, FindTyped, InPromise, InAny
    <2> QED BY <2>1, <2>2, <2>3, <2>4 DEF FindInv
  <1> QED BY <1>2, <1>3

LEMMA SetKeeps ==
    ASSUME Find!FindAssumption, FindInv, NEW t \in 1 .. Parts, Find!SetFlag(t) \/ Find!SetResult(t) \/ Find!StoreFlag(t)
    PROVE  FindInv'
  <1> USE DEF Find!Goto, Find!Found, Find!Unset, Find!Thrown
  <1>0. Find!First(t) \in Nat /\ Find!End(t) \in Nat \ {0} /\ -1 # Find!End(t) /\ 0 \notin Element
    BY BlockBounds DEF Element
  <1>1. CASE Find!SetFlag(t)
    <2> USE DEF Find!SetFlag
    <2>1. FindTyped' BY <1>1 DEF FindInv, FindTyped
    <2>2. Searching'
      <3>1. ASSUME NEW b \in 1 .. Parts, b # t PROVE Searches(b)'
        BY <1>1, <3>1 DEF FindInv, FindTyped, Searching, Searches
      <3>2. Searches(t)' BY <1>1 DEF FindInv, FindTyped, Searching, Searches
      <3> QED BY <3>1, <3>2 DEF Searching
    <2>3. Reports' BY <1>0, <1>1 DEF FindInv, FindTyped, Searching, Searches, Reports, Reported
    <2>4. InPromise' /\ InAny' BY <1>1 DEF FindInv, FindTyped, InPromise, InAny
    <2> QED BY <2>1, <2>2, <2>3, <2>4 DEF FindInv
  <1>2. CASE Find!SetResult(t)
    <2> USE DEF Find!SetResult
    <2>1. FindTyped' BY <1>2 DEF FindInv, FindTyped
    <2>2. Searching'
      <3>1. ASSUME NEW b \in 1 .. Parts, b # t PROVE Searches(b)'
        BY <1>2, <3>1 DEF FindInv, FindTyped, Searching, Searches
      <3>2. Searches(t)' BY <1>2 DEF FindInv, FindTyped, Searching, Searches
      <3> QED BY <3>1, <3>2 DEF Searching
    <2>3. Reports' /\ InAny' BY <1>2 DEF Reports, InAny
    <2>4. InPromise'
      <3>1. CASE result = 0
        <4>1. pc' = [pc EXCEPT ![t] = "flag"] /\ UNCHANGED <<matches, bad, done, begin>>
          BY <1>2, <3>1
        <4>2. result' \in matches \/ (result' = -1 /\ bad # {})
          BY <1>2, <3>1 DEF FindInv, Searching, Searches
        <4>3. result' # 0 BY <1>0, <4>2 DEF FindInv, FindTyped
        <4>4. pc'[t] = "flag" BY <4>1 DEF FindInv, FindTyped
        <4> QED BY <4>1, <4>2, <4>3, <4>4 DEF InPromise
      <3>2. CASE result # 0
        <4>1. pc' = [pc EXCEPT ![t] = "end"] /\ UNCHANGED <<result, matches, bad, done, begin>>
          BY <1>2, <3>2
        <4>2. pc[t] # "flag" BY <1>2
        <4> QED BY <1>2, <3>2, <4>1, <4>2 DEF FindInv, FindTyped, InPromise
      <3> QED BY <3>1, <3>2
    <2> QED BY <2>1, <2>2, <2>3, <2>4 DEF FindInv
  <1>3. CASE Find!StoreFlag(t)
    <2> USE DEF Find!StoreFlag
    <2>1. FindTyped' BY <1>3 DEF FindInv, FindTyped
    <2>2. Searching' /\ scheme = "promise" BY <1>3 DEF FindInv, FindTyped, Searching, Searches
    <2>3. Reports' /\ InAny' BY <1>3, <2>2 DEF Reports, InAny
    <2>4. InPromise' BY <1>3 DEF FindInv, FindTyped, InPromise
    <2> QED BY <2>1, <2>2, <2>3, <2>4 DEF FindInv
  <1> QED BY <1>1, <1>2, <1>3

\* A search that ends with no word of another has seen its block.
LEMMA NothingThere ==
    ASSUME Find!FindAssumption, FindTyped, Searching, \A b \in 1 .. Parts : begin[b] = Find!End(b)
    PROVE  matches = {} /\ bad = {}
  <1>1. ASSUME NEW e \in Element PROVE e \notin matches /\ e \notin bad
    BY BlocksCover DEF Searching, Searches
  <1> QED BY <1>1 DEF FindTyped

LEMMA DoneCheckKeeps ==
    ASSUME Find!FindAssumption, FindInv, NEW t \in 1 .. Parts, Find!DoneCheck(t)
    PROVE  FindInv'
  <1> USE DEF Find!DoneCheck, Find!Goto, Find!Unset
  <1>1. FindTyped' BY DEF FindInv, FindTyped
  <1>2. Searching' BY DEF FindInv, FindTyped, Searching, Searches
  <1>3. Reports' BY DEF FindInv, FindTyped, Reports, Reported
  <1>4. InPromise' BY DEF InPromise
  <1>5. InAny'
    <2>1. Find!End(t) \in Nat \ {0} /\ Find!End(Parts) \in Nat \ {0} /\ 0 \notin Element
      BY BlockBounds DEF Element, Find!End, Find!FindAssumption
    <2>2. Reported(t) /\ scheme = "any" /\ result = 0 BY DEF FindInv, Reports
    <2>3. CASE found[t] # Find!End(t)
      <3>1. result' = found[t] /\ result' # 0 /\ scheme' = "any"
        BY <2>1, <2>2, <2>3 DEF Reported, FindInv, FindTyped
      <3>2. result' \in matches \/ (result' = -1 /\ bad # {}) BY <2>2, <2>3, <3>1 DEF Reported
      <3> QED BY <3>1, <3>2 DEF InAny
    <2>4. CASE found[t] = Find!End(t) /\ \A c \in 1 .. Parts \ {t} : pc[c] = "seen"
      <3>1. result' = Find!End(Parts) /\ scheme' = "any" /\ result' # 0
        BY <2>1, <2>2, <2>4 DEF Find!Threads
      <3>2. \A b \in 1 .. Parts : pc[b] \in {"end", "seen"} /\ found[b] = Find!End(b)
        BY <2>2, <2>4 DEF FindInv, InAny
      <3>3. ~done BY <2>2, <3>2 DEF FindInv, Reports
      <3>4. \A b \in 1 .. Parts : Reported(b) BY <2>2, <3>2 DEF FindInv, Reports
      <3>5. \A b \in 1 .. Parts : begin[b] = Find!End(b)
        BY <3>2, <3>3, <3>4, BlockBounds DEF Reported, FindInv, FindTyped
      <3>6. matches = {} /\ bad = {} BY <3>5, NothingThere DEF FindInv
      <3> QED BY <3>1, <3>6 DEF InAny
    <2>5. CASE found[t] = Find!End(t) /\ ~ \A c \in 1 .. Parts \ {t} : pc[c] = "seen"
      <3>1. result' = 0 /\ found' = found /\ pc' = [pc EXCEPT ![t] = "seen"]
        BY <2>5 DEF Find!Threads
      <3> QED BY <2>2, <2>5, <3>1 DEF InAny, FindInv, FindTyped
    <2> QED BY <2>3, <2>4, <2>5
  <1> QED BY <1>1, <1>2, <1>3, <1>4, <1>5 DEF FindInv

LEMMA FindKept == ASSUME Find!FindAssumption, FindInv, [Find!Next]_(Find!vars) PROVE FindInv'
  <1>1. CASE UNCHANGED Find!vars
    BY <1>1 DEF Find!vars, FindInv, FindTyped, Searching, Searches, Reports, Reported, InPromise, InAny
  <1>2. CASE Find!Next BY <1>2, TestKeeps, SetKeeps, DoneCheckKeeps DEF Find!Next, Find!Threads
  <1> QED BY <1>1, <1>2

LEMMA FindFollows == ASSUME Find!FindAssumption, FindInv PROVE Find!FindsIfThere
  <1> SUFFICES ASSUME Find!Ended PROVE Find!FindsIfThere BY DEF Find!FindsIfThere
  <1> DEFINE R == Find!Returned
  <1>0. /\ Find!End(Parts) \in Nat /\ -1 \notin Element /\ 0 \notin Element /\ -1 # Find!End(Parts)
        /\ \A e \in Element : e # Find!End(Parts) /\ e # -1
    BY BlockBounds DEF Element
  <1>1. R \in matches \/ (R = -1 /\ bad # {}) \/ (R = Find!End(Parts) /\ matches = {} /\ bad = {})
    <2>1. CASE scheme = "any" BY <2>1 DEF FindInv, InAny, Find!Ended, Find!Returned, Find!Unset
    <2>2. CASE scheme = "promise"
      <3>1. \A b \in 1 .. Parts : pc[b] = "end" BY <2>2 DEF Find!Ended, Find!Threads
      <3>2. CASE done BY <2>2, <3>2 DEF FindInv, InPromise, Find!Returned
      <3>3. CASE ~done
        <4>1. result = 0 BY <2>2, <3>1, <3>3 DEF FindInv, InPromise
        <4>2. matches = {} /\ bad = {} BY <2>2, <3>1, <4>1, NothingThere DEF FindInv, InPromise
        <4> QED BY <2>2, <3>3, <4>2 DEF Find!Returned
      <3> QED BY <3>2, <3>3
    <2>3. CASE scheme = "async"
      <3>1. \A b \in 1 .. Parts : pc[b] = "end" /\ Reported(b)
        BY <2>3 DEF FindInv, Reports, Find!Ended, Find!Threads
      <3>2. CASE \E b \in 1 .. Parts : Find!Tells(b)
        <4> DEFINE S == {b \in 1 .. Parts : Find!Tells(b)}
        <4>1. PICK n \in S : \A k \in S : n =< k
          <5>1. S \in SUBSET Nat /\ S # {} BY <3>2
          <5> QED BY <5>1, LeastNat
        <4>2. n \in 1 .. Parts /\ Find!FirstHalf(n) BY <4>1 DEF Find!FirstHalf, Find!FindAssumption
        <4> DEFINE first == CHOOSE b \in 1 .. Parts : Find!FirstHalf(b)
        <4>3. first \in 1 .. Parts /\ Find!FirstHalf(first) BY <4>2
        <4>4. R = found[first] BY <2>3, <3>2 DEF Find!Returned, Find!Threads
        <4> HIDE DEF first, R
        <4>5. found[first] # Find!End(first) /\ Reported(first)
          BY <3>1, <4>3 DEF Find!FirstHalf, Find!Tells
        <4> QED BY <4>4, <4>5 DEF Reported
      <3>3. CASE ~ \E b \in 1 .. Parts : Find!Tells(b)
        <4>1. R = Find!End(Parts) BY <2>3, <3>3 DEF Find!Returned, Find!Threads
        <4>2. \A b \in 1 .. Parts : found[b] = Find!End(b) BY <3>3 DEF Find!Tells
        <4>3. ~done BY <2>3, <4>2 DEF FindInv, Reports
        <4>4. \A b \in 1 .. Parts : begin[b] = Find!End(b)
          BY <3>1, <4>2, <4>3, BlockBounds DEF Reported, FindInv, FindTyped
        <4> QED BY <4>1, <4>4, NothingThere DEF FindInv
      <3> QED BY <3>2, <3>3
    <2> QED BY <2>1, <2>2, <2>3 DEF FindInv, FindTyped
  <1> HIDE DEF R
  <1>2. /\ R = -1 => bad # {}
        /\ R = Find!End(Parts) => matches = {} /\ bad = {}
        /\ R # -1 /\ R # Find!End(Parts) => R \in matches
    BY <1>0, <1>1 DEF FindInv, FindTyped
  <1> QED BY <1>0, <1>2 DEF Find!FindsIfThere, Find!Thrown, R

-----------------------------------------------------------------------------
(* The pairwise sum.  spaces are the threads that have not arrived in this   *)
(* generation, those counted that are yet to leave the last one's spin among *)
(* them; when there is none, one thread refills the barrier while all others *)
(* spin or have left it.  A thread's round is the barrier's generation.      *)

AtWork == {"start", "wait", "arrive", "leave", "depart"}
Refilling == {"count", "refill", "open", "last count", "last refill", "last open"}
Gone == {"depart", "done", "last count", "last refill", "last open"}
Still == {t \in Sum!Elements : pc[t] \notin Gone}
Pending == {t \in Sum!Elements : pc[t] \in AtWork \/ (pc[t] = "spin" /\ gen[t] # generation)}
Refillers == {t \in Sum!Elements : pc[t] \in Refilling}

PairsTyped == /\ pc \in [Sum!Elements -> AtWork \cup Refilling \cup {"spin", "done"}]
              /\ round \in [Sum!Elements -> Nat] /\ gen \in [Sum!Elements -> Nat]
              /\ refill \in [Sum!Elements -> Nat] /\ generation \in Nat
InRound(t) ==
  /\ pc[t] \in {"start", "wait", "arrive", "spin", "count", "refill", "open"} =>
        round[t] = IF pc[t] = "spin" THEN gen[t] ELSE generation
  /\ pc[t] = "arrive" => gen[t] = generation
  /\ pc[t] = "spin" => gen[t] = generation \/ gen[t] + 1 = generation
Refills(t) ==
  pc[t] \in Refilling =>
     /\ Pending = {} /\ Refillers = {t}
     /\ pc[t] \in {"refill", "last refill"} => refill[t] = Cardinality(Still)
     /\ spaces = IF pc[t] \in {"open", "last open"} THEN Cardinality(Still) ELSE 0

PairsInv == /\ PairsTyped
            /\ count = Cardinality(Still)
            /\ Refillers = {} => spaces = Cardinality(Pending)
            /\ \A t \in Sum!Elements : InRound(t) /\ Refills(t)

LEMMA ElementSets == ASSUME Sum!SumAssumption
                PROVE  /\ IsFiniteSet(Sum!Elements) /\ Cardinality(Sum!Elements) = Length
                       /\ \A S \in SUBSET Sum!Elements : IsFiniteSet(S) /\ Cardinality(S) \in Nat
                                                         /\ (Cardinality(S) = 0 <=> S = {})
  <1>1. IsFiniteSet(1 .. Length) /\ Cardinality(1 .. Length) = Length
    BY FS_Interval DEF Sum!SumAssumption
  <1> QED BY <1>1, FS_Subset, FS_CardinalityType, FS_EmptySet DEF Sum!Elements

LEMMA PairsBegin == ASSUME Sum!SumAssumption, Sum!Init, scheme = "pairs" PROVE PairsInv
  <1>1. pc = [t \in Sum!Elements |-> "start"] BY DEF Sum!Init, Sum!Threads
  <1>2. Still = Sum!Elements /\ Pending = Sum!Elements /\ Refillers = {}
    BY <1>1 DEF Still, Pending, Refillers, Gone, AtWork, Refilling
  <1>3. PairsTyped /\ \A t \in Sum!Elements : InRound(t) /\ Refills(t)
    BY <1>1 DEF Sum!Init, PairsTyped, InRound, Refills, AtWork, Refilling
  <1> QED BY <1>2, <1>3, ElementSets DEF PairsInv, Sum!Init

\* A thread moves on within its round and nobody's part in the barrier changes.
LEMMA OnlyMoves ==
    ASSUME Sum!SumAssumption, PairsInv, NEW t \in Sum!Elements, NEW from, NEW to,
           pc[t] = from, Sum!Goto(t, to), to \in {"wait", "arrive", "leave"},
           from \in {"start", "wait"},
           UNCHANGED <<round, count, spaces, generation, refill>>,
           gen' \in [Sum!Elements -> Nat], \A u \in Sum!Elements \ {t} : gen'[u] = gen[u],
           to = "arrive" => gen'[t] = generation
    PROVE  PairsInv'
  <1> USE DEF AtWork, Refilling, Gone
  <1>1. PairsTyped BY DEF PairsInv
  <1>2. \A u \in Sum!Elements : pc'[u] = IF u = t THEN to ELSE pc[u]
    BY <1>1 DEF PairsTyped, Sum!Goto
  <1>3. PairsTyped' BY <1>1, <1>2 DEF PairsTyped, Sum!Goto
  <1>4. Still' = Still /\ Pending' = Pending /\ Refillers' = Refillers
    BY <1>2 DEF Still, Pending, Refillers
  <1>5. \A u \in Sum!Elements : InRound(u)' BY <1>2 DEF PairsInv, InRound
  <1>6. \A u \in Sum!Elements : Refills(u)' BY <1>2, <1>4 DEF PairsInv, Refills
  <1> QED BY <1>3, <1>4, <1>5, <1>6 DEF PairsInv

LEMMA AddsKeep == ASSUME Sum!SumAssumption, PairsInv, NEW t \in Sum!Elements, Sum!Add(t) PROVE PairsInv'
  BY OnlyMoves DEF Sum!Add, Sum!barrier, PairsInv, PairsTyped

LEMMA LeavesKeep == ASSUME Sum!SumAssumption, PairsInv, NEW t \in Sum!Elements, Sum!Leave(t) PROVE PairsInv'
  BY OnlyMoves DEF Sum!Leave, Sum!pairs, Sum!barrier, PairsInv, PairsTyped

LEMMA ReadsKeep ==
    ASSUME Sum!SumAssumption, PairsInv, NEW t \in Sum!Elements, Sum!ReadGeneration(t) PROVE PairsInv'
  <1>1. /\ gen' \in [Sum!Elements -> Nat] /\ gen'[t] = generation
        /\ \A u \in Sum!Elements \ {t} : gen'[u] = gen[u]
    BY DEF Sum!ReadGeneration, PairsInv, PairsTyped
  <1> QED BY <1>1, OnlyMoves DEF Sum!ReadGeneration

LEMMA DonesKeep ==
    ASSUME Sum!SumAssumption, PairsInv, NEW t \in Sum!Elements, Sum!DoneWaiting(t) PROVE PairsInv'
  <1> USE DEF AtWork, Refilling, Gone
  <1>1. PairsTyped /\ pc[t] = "leave" BY DEF PairsInv, Sum!DoneWaiting
  <1>2. \A u \in Sum!Elements : pc'[u] = IF u = t THEN "depart" ELSE pc[u]
    BY <1>1 DEF PairsTyped, Sum!Goto, Sum!DoneWaiting
  <1>3. PairsTyped' BY <1>1, <1>2 DEF PairsTyped, Sum!Goto, Sum!DoneWaiting
  <1>4. Still' = Still \ {t} /\ t \in Still /\ Pending' = Pending /\ Refillers' = Refillers /\ t \in Pending
    BY <1>1, <1>2 DEF Still, Pending, Refillers, Sum!DoneWaiting
  <1>5. Refillers = {} BY <1>4 DEF PairsInv, Refills, Refillers
  <1>6. \A u \in Sum!Elements : InRound(u)' BY <1>2 DEF PairsInv, InRound, Sum!DoneWaiting
  <1>7. \A u \in Sum!Elements : Refills(u)' BY <1>4, <1>5 DEF Refills, Refillers
  <1>8. count' = Cardinality(Still')
    <2>1. IsFiniteSet(Still) BY ElementSets DEF Still
    <2>2. Cardinality(Still \ {t}) = Cardinality(Still) - 1 BY <1>4, <2>1, FS_RemoveElement
    <2> QED BY <1>4, <2>2 DEF PairsInv, Sum!DoneWaiting, Sum!CountDown
  <1> QED BY <1>3, <1>4, <1>5, <1>6, <1>7, <1>8 DEF PairsInv, Sum!DoneWaiting

LEMMA ArrivesKeep ==
    ASSUME Sum!SumAssumption, PairsInv, NEW t \in Sum!Elements, Sum!Arrive(t) PROVE PairsInv'
  <1> USE DEF AtWork, Refilling, Gone
  <1>1. PairsTyped /\ pc[t] \in {"arrive", "depart"} BY DEF PairsInv, Sum!Arrive
  <1> DEFINE to == IF pc[t] = "arrive" THEN IF spaces = 1 THEN "count" ELSE "spin"
                   ELSE IF spaces = 1 THEN "last count" ELSE "done"
  <1>2. Sum!Goto(t, to) BY <1>1 DEF Sum!Arrive
  <1>3. \A u \in Sum!Elements : pc'[u] = IF u = t THEN to ELSE pc[u]
    BY <1>1, <1>2 DEF PairsTyped, Sum!Goto
  <1>4. /\ UNCHANGED <<round, gen, generation, refill, count>> /\ spaces' = spaces - 1
    BY DEF Sum!Arrive
  <1>5. PairsTyped' BY <1>1, <1>2, <1>4 DEF PairsTyped, Sum!Goto
  <1>6. Still' = Still /\ t \in Pending BY <1>1, <1>3 DEF Still, Pending
  <1>7. Refillers = {} /\ spaces = Cardinality(Pending) BY <1>6 DEF PairsInv, Refills, Refillers
  <1>8. Pending' = Pending \ {t} BY <1>1, <1>3, <1>4 DEF Pending, PairsInv, InRound
  <1>9. /\ Cardinality(Pending') = spaces - 1 /\ spaces \in Nat /\ Cardinality(Pending') \in Nat
        /\ (spaces = 1 <=> Pending' = {})
    <2>1. IsFiniteSet(Pending) /\ Pending' \in SUBSET Sum!Elements BY ElementSets, <1>8 DEF Pending
    <2>2. Cardinality(Pending \ {t}) = Cardinality(Pending) - 1 BY <1>6, <2>1, FS_RemoveElement
    <2> QED BY <1>7, <1>8, <2>1, <2>2, ElementSets, FS_CardinalityType
  <1>10. \A u \in Sum!Elements : InRound(u)' BY <1>1, <1>3, <1>4 DEF PairsInv, InRound
  <1>11. Refillers' = IF spaces = 1 THEN {t} ELSE {} BY <1>1, <1>3, <1>7 DEF Refillers
  <1>12. \A u \in Sum!Elements : Refills(u)'
    <2>1. Refills(t)'
      <3>1. pc'[t] = to /\ (to \in Refilling => spaces = 1) BY <1>3
      <3>2. spaces = 1 => Pending' = {} /\ Refillers' = {t} /\ spaces' = 0 BY <1>4, <1>9, <1>11
      <3> QED BY <3>1, <3>2 DEF Refills
    <2>2. \A u \in Sum!Elements \ {t} : pc'[u] \notin Refilling BY <1>11 DEF Refillers
    <2> QED BY <2>1, <2>2 DEF Refills
  <1> QED BY <1>4, <1>5, <1>6, <1>9, <1>10, <1>11, <1>12 DEF PairsInv

LEMMA CountsKeep ==
    ASSUME Sum!SumAssumption, PairsInv, NEW t \in Sum!Elements, Sum!ReadCount(t) \/ Sum!Refill(t)
    PROVE  PairsInv'
  <1> USE DEF AtWork, Refilling, Gone
  <1>1. PairsTyped /\ pc[t] \in Refilling /\ Cardinality(Still) \in Nat
    BY ElementSets DEF PairsInv, Sum!ReadCount, Sum!Refill, Still
  <1>2. Pending = {} /\ Refillers = {t} BY <1>1 DEF PairsInv, Refills
  <1> DEFINE to == CASE pc[t] = "count" -> "refill" [] pc[t] = "last count" -> "last refill"
                     [] pc[t] = "refill" -> "open" [] pc[t] = "last refill" -> "last open"
  <1>3. Sum!Goto(t, to) /\ pc[t] \in {"count", "last count", "refill", "last refill"}
    BY <1>1 DEF Sum!ReadCount, Sum!Refill
  <1>4. \A u \in Sum!Elements : pc'[u] = IF u = t THEN to ELSE pc[u]
    BY <1>1, <1>3 DEF PairsTyped, Sum!Goto
  <1>5. /\ UNCHANGED <<round, gen, generation, count>> /\ refill' \in [Sum!Elements -> Nat]
        /\ pc[t] \in {"count", "last count"} => refill'[t] = Cardinality(Still) /\ spaces' = spaces
        /\ pc[t] \in {"refill", "last refill"} => spaces' = Cardinality(Still)
    BY <1>1 DEF PairsInv, PairsTyped, Refills, Sum!ReadCount, Sum!Refill
  <1>6. PairsTyped' BY <1>1, <1>3, <1>4, <1>5 DEF PairsTyped, Sum!Goto
  <1>7. Still' = Still /\ Pending' = Pending /\ Refillers' = Refillers
    BY <1>3, <1>4, <1>5 DEF Still, Pending, Refillers
  <1>8. \A u \in Sum!Elements : InRound(u)' BY <1>3, <1>4, <1>5 DEF PairsInv, InRound
  <1>9. \A u \in Sum!Elements : Refills(u)'
    <2>1. Refills(t)' BY <1>2, <1>3, <1>4, <1>5, <1>7 DEF PairsInv, Refills
    <2>2. \A u \in Sum!Elements \ {t} : pc'[u] \notin Refilling BY <1>2, <1>7 DEF Refillers
    <2> QED BY <2>1, <2>2 DEF Refills
  <1> QED BY <1>2, <1>5, <1>6, <1>7, <1>8, <1>9 DEF PairsInv

LEMMA OpensKeep ==
    ASSUME Sum!SumAssumption, PairsInv, NEW t \in Sum!Elements, Sum!Open(t) PROVE PairsInv'
  <1> USE DEF AtWork, Refilling, Gone
  <1>1. PairsTyped /\ pc[t] \in {"open", "last open"} BY DEF PairsInv, Sum!Open
  <1>2. Pending = {} /\ Refillers = {t} /\ spaces = Cardinality(Still)
    BY <1>1 DEF PairsInv, Refills
  <1>3. /\ \A u \in Sum!Elements : pc'[u] = IF u = t THEN IF pc[t] = "open" THEN "start" ELSE "done"
                                            ELSE pc[u]
        /\ \A u \in Sum!Elements : round'[u] = IF u = t /\ pc[t] = "open" THEN round[u] + 1 ELSE round[u]
        /\ generation' = generation + 1 /\ UNCHANGED <<gen, spaces, count, refill>>
    BY <1>1 DEF PairsTyped, Sum!Goto, Sum!Open
  <1>4. PairsTyped'
    <2>1. round' \in [Sum!Elements -> Nat]
      <3>1. round \in [Sum!Elements -> Nat] /\ (round' = round \/ round' = [round EXCEPT ![t] = @ + 1])
        BY <1>1 DEF PairsTyped, Sum!Open
      <3> QED BY <3>1
    <2>2. pc' \in [Sum!Elements -> AtWork \cup Refilling \cup {"spin", "done"}]
      BY <1>1 DEF PairsTyped, Sum!Open, Sum!Goto
    <2>3. generation' \in Nat /\ gen' \in [Sum!Elements -> Nat] /\ refill' \in [Sum!Elements -> Nat]
      <3>1. generation \in Nat /\ generation' = generation + 1 BY <1>1, <1>3 DEF PairsTyped
      <3>2. gen' = gen /\ refill' = refill BY <1>3
      <3>3. gen \in [Sum!Elements -> Nat] /\ refill \in [Sum!Elements -> Nat]
        BY <1>1 DEF PairsTyped
      <3> QED BY <3>1, <3>2, <3>3
    <2> QED BY <2>1, <2>2, <2>3 DEF PairsTyped
  <1>5. \A u \in Sum!Elements \ {t} : pc[u] \in {"spin", "done"} /\ (pc[u] = "spin" => gen[u] = generation)
    BY <1>1, <1>2 DEF PairsTyped, Pending, Refillers
  <1>6. Still' = Still /\ Pending' = Still' /\ Refillers' = {}
    <2>1. Still' = Still BY <1>1, <1>3 DEF Still
    <2>2. Refillers' = {} BY <1>1, <1>3, <1>5 DEF Refillers
    <2>3. Pending' = Still'
      <3>1. generation' # generation
        <4>1. generation \in Nat /\ generation' = generation + 1 BY <1>1, <1>3 DEF PairsTyped
        <4> QED BY <4>1
      <3>2. ASSUME NEW u \in Sum!Elements \ {t}
            PROVE  u \in Pending' <=> u \in Still'
        BY <1>3, <1>5, <3>1 DEF Pending, Still
      <3>3. t \in Pending' <=> t \in Still' BY <1>1, <1>3 DEF Pending, Still
      <3>4. Pending' \subseteq Sum!Elements /\ Still' \subseteq Sum!Elements BY DEF Pending, Still
      <3> QED BY <3>2, <3>3, <3>4
    <2> QED BY <2>1, <2>2, <2>3
  <1>7. \A u \in Sum!Elements : InRound(u)' BY <1>1, <1>3, <1>5 DEF PairsInv, PairsTyped, InRound
  <1>8. \A u \in Sum!Elements : Refills(u)' BY <1>6 DEF Refills, Refillers
  <1> QED BY <1>2, <1>3, <1>4, <1>6, <1>7, <1>8 DEF PairsInv

LEMMA SpinsKeep ==
    ASSUME Sum!SumAssumption, PairsInv, NEW t \in Sum!Elements, Sum!Spin(t) PROVE PairsInv'
  <1> USE DEF AtWork, Refilling, Gone
  <1>1. PairsTyped /\ pc[t] = "spin" /\ gen[t] # generation BY DEF PairsInv, Sum!Spin
  <1>2. /\ \A u \in Sum!Elements : pc'[u] = IF u = t THEN "start" ELSE pc[u]
        /\ \A u \in Sum!Elements : round'[u] = IF u = t THEN round[u] + 1 ELSE round[u]
        /\ UNCHANGED <<gen, generation, spaces, count, refill>>
    BY <1>1 DEF PairsTyped, Sum!Goto, Sum!Spin, Sum!barrier
  <1>3. PairsTyped'
    <2>1. round' \in [Sum!Elements -> Nat]
      <3>1. round \in [Sum!Elements -> Nat] /\ round' = [round EXCEPT ![t] = @ + 1]
        BY <1>1 DEF PairsTyped, Sum!Spin
      <3> QED BY <3>1
    <2>2. pc' \in [Sum!Elements -> AtWork \cup Refilling \cup {"spin", "done"}]
      BY <1>1 DEF PairsTyped, Sum!Spin, Sum!Goto
    <2> QED BY <1>1, <1>2, <2>1, <2>2 DEF PairsTyped
  <1>4. Still' = Still /\ Pending' = Pending /\ Refillers' = Refillers
    BY <1>1, <1>2 DEF Still, Pending, Refillers
  <1>5. \A u \in Sum!Elements : InRound(u)' BY <1>1, <1>2 DEF PairsInv, PairsTyped, InRound
  <1>6. \A u \in Sum!Elements : Refills(u)' BY <1>1, <1>2, <1>4 DEF PairsInv, Refills
  <1> QED BY <1>2, <1>3, <1>4, <1>5, <1>6 DEF PairsInv

LEMMA PairsFollow == ASSUME PairsInv, scheme = "pairs" PROVE Sum!InStep
  BY DEF PairsInv, InRound, Sum!InStep

LEMMA PairsKept ==
    ASSUME Sum!SumAssumption, scheme = "pairs", PairsInv, Sum!Next PROVE PairsInv'
  <1>1. PICK t \in Sum!Elements : Sum!Step(t) BY DEF Sum!Next, Sum!Threads
  <1>2. ~Sum!Chunks(t) BY DEF Sum!Chunks, Sum!SumBlock, Sum!GetPrevious, Sum!AddToRest
  <1> QED BY <1>1, <1>2, AddsKeep, LeavesKeep, ReadsKeep, DonesKeep, ArrivesKeep, CountsKeep, OpensKeep, SpinsKeep
           DEF Sum!Step, Sum!Pairs

-----------------------------------------------------------------------------
(* The sum in blocks.  Prefix and the sums within a block are recursive: that *)
(* they have values is induction over a set of natural numbers.              *)

LEMMA NatInduction1 ==
    ASSUME NEW S, 0 \in S, \A n \in Nat : n \in S => n + 1 \in S
    PROVE  Nat \subseteq S
  <1> DEFINE T == {n \in Nat : n \notin S}
  <1> SUFFICES ASSUME T # {}
               PROVE  FALSE
    OBVIOUS
  <1>1. PICK n \in T : \A k \in T : n <= k BY LeastNat
  <1>2. n - 1 \in Nat /\ n - 1 + 1 = n BY <1>1
  <1>3. n - 1 \in S BY <1>1, <1>2
  <1> QED BY <1>2, <1>3

Adds(g, n) == g \in [0 .. n -> Int] /\ g[0] = 0 /\ \A i \in 1 .. n : g[i] = g[i - 1] + Value[i]

LEMMA SumExists == ASSUME Sum!SumAssumption, NEW n \in 0 .. Length PROVE \E g : Adds(g, n)
  <1> DEFINE S == {k \in Nat : k <= Length => \E g : Adds(g, k)}
  <1>1. 0 \in S
    <2>1. Adds([i \in 0 .. 0 |-> 0], 0) BY DEF Adds
    <2> QED BY <2>1
  <1>2. ASSUME NEW k \in Nat, k \in S
        PROVE  k + 1 \in S
    <2> SUFFICES ASSUME k + 1 <= Length
                 PROVE  \E g : Adds(g, k + 1)
      OBVIOUS
    <2>1. PICK g : Adds(g, k) BY <1>2 DEF Sum!SumAssumption
    <2>2. Value[k + 1] \in Int /\ g[k] \in Int BY <2>1 DEF Sum!SumAssumption, Sum!Elements, Adds
    <2>3. PICK after \in Int : after = g[k] + Value[k + 1] BY <2>2
    <2> DEFINE h == [i \in 0 .. k + 1 |-> IF i = k + 1 THEN after ELSE g[i]]
    <2>4. h \in [0 .. k + 1 -> Int] /\ h[0] = 0 BY <2>1 DEF Adds
    <2>5. \A i \in 1 .. k : h[i] = h[i - 1] + Value[i] BY <2>1 DEF Adds
    <2>6. h[k + 1] = h[k] + Value[k + 1] BY <2>3
    <2> HIDE DEF h
    <2>7. Adds(h, k + 1) BY <2>4, <2>5, <2>6 DEF Adds
    <2> QED BY <2>7
  <1> HIDE DEF S
  <1>3. Nat \subseteq S BY <1>1, <1>2, NatInduction1
  <1>4. n \in Nat /\ n <= Length BY DEF Sum!SumAssumption
  <1>5. n \in S BY <1>3, <1>4
  <1> QED BY <1>4, <1>5 DEF S

LEMMA PrefixAdds == ASSUME Sum!SumAssumption PROVE Adds(Sum!Prefix, Length)
  <1> DEFINE Step(f) == [i \in 0 .. Length |-> IF i = 0 THEN 0 ELSE f[i - 1] + Value[i]]
  <1>1. Length \in Nat /\ 0 \in 0 .. Length BY DEF Sum!SumAssumption
  <1>2. PICK g : Adds(g, Length) BY <1>1, SumExists
  <1>3. g = Step(g) BY <1>2 DEF Adds
  <1>4. Sum!Prefix = CHOOSE f : f = Step(f) BY DEF Sum!Prefix
  <1>5. Sum!Prefix = Step(Sum!Prefix)
    <2> HIDE DEF Step
    <2> QED BY <1>3, <1>4
  <1>8. \A i \in 0 .. Length : Sum!Prefix[i] = IF i = 0 THEN 0 ELSE Sum!Prefix[i - 1] + Value[i]
    <2> DEFINE P == Sum!Prefix
    <2>1. P = Step(P) BY <1>5
    <2> HIDE DEF P
    <2>2. \A i \in 0 .. Length : P[i] = IF i = 0 THEN 0 ELSE P[i - 1] + Value[i] BY <2>1
    <2> QED BY <2>2 DEF P
  <1>6. \A i \in 0 .. Length : Sum!Prefix[i] = g[i]
    <2> DEFINE S == {k \in Nat : k <= Length => Sum!Prefix[k] = g[k]}
    <2>1. 0 \in S BY <1>1, <1>2, <1>8 DEF Adds
    <2>2. ASSUME NEW k \in Nat, k \in S
          PROVE  k + 1 \in S
      <3> SUFFICES ASSUME k + 1 <= Length
                   PROVE  Sum!Prefix[k + 1] = g[k + 1]
        OBVIOUS
      <3>1. k + 1 \in 0 .. Length /\ k + 1 # 0 /\ k + 1 - 1 = k /\ k + 1 \in 1 .. Length BY <1>1
      <3>2. Sum!Prefix[k + 1] = Sum!Prefix[k] + Value[k + 1] BY <1>8, <3>1
      <3> QED BY <1>1, <1>2, <2>2, <3>1, <3>2 DEF Adds
    <2> HIDE DEF S
    <2>3. Nat \subseteq S BY <2>1, <2>2, NatInduction1
    <2>4. \A i \in 0 .. Length : i \in Nat /\ i <= Length BY <1>1
    <2> QED BY <2>3, <2>4 DEF S
  <1>7. Sum!Prefix = g
    <2>1. DOMAIN g = 0 .. Length /\ g = [i \in 0 .. Length |-> g[i]] BY <1>2 DEF Adds
    <2>2. Sum!Prefix = [i \in 0 .. Length |-> Sum!Prefix[i]] BY <1>5
    <2> QED BY <1>6, <2>1, <2>2
  <1> QED BY <1>2, <1>7

\* The blocks of the sequence.
Ranges == DOMAIN Blocks
Span(b) == Sum!First(b) .. Sum!Final(b)
End == Len(Blocks)

LEMMA RangeFacts ==
    ASSUME Sum!SumAssumption
    PROVE  /\ Ranges = 1 .. End /\ End \in Nat /\ End >= 1 /\ Length \in Nat
           /\ \A b \in Ranges : /\ Sum!First(b) \in Sum!Elements /\ Sum!Final(b) \in Sum!Elements
                                /\ Sum!First(b) <= Sum!Final(b) /\ Span(b) \subseteq Sum!Elements
                                /\ Sum!First(b) = IF b = 1 THEN 1 ELSE Sum!Final(b - 1) + 1
  <1>1. Blocks \in Seq(Sum!Elements \X Sum!Elements) /\ Blocks # << >> BY DEF Sum!SumAssumption
  <1>2. Ranges = 1 .. End /\ End \in Nat /\ End >= 1 BY <1>1 DEF Ranges, End
  <1>3. \A b \in Ranges : Sum!First(b) \in Sum!Elements /\ Sum!Final(b) \in Sum!Elements
    BY <1>1 DEF Ranges, Sum!First, Sum!Final
  <1>4. \A b \in Ranges : Sum!First(b) <= Sum!Final(b) BY DEF Sum!SumAssumption, Ranges
  <1>5. \A b \in Ranges : Sum!First(b) = IF b = 1 THEN 1 ELSE Sum!Final(b - 1) + 1
    BY DEF Sum!SumAssumption, Ranges
  <1>6. Length \in Nat BY DEF Sum!SumAssumption
  <1>7. \A b \in Ranges : Span(b) \subseteq Sum!Elements
    <2> SUFFICES ASSUME NEW b \in Ranges, NEW i \in Span(b)
                 PROVE  i \in Sum!Elements
      OBVIOUS
    <2>1. Sum!First(b) \in 1 .. Length /\ Sum!Final(b) \in 1 .. Length BY <1>3 DEF Sum!Elements
    <2>2. i \in Sum!First(b) .. Sum!Final(b) BY DEF Span
    <2> QED BY <1>6, <2>1, <2>2 DEF Sum!Elements
  <1> QED BY <1>2, <1>3, <1>4, <1>5, <1>6, <1>7

LEMMA RangesApart ==
    ASSUME Sum!SumAssumption, NEW u \in Ranges, NEW b \in Ranges, u # b
    PROVE  Span(u) \cap Span(b) = {}
  <1>1. ASSUME NEW x \in Ranges, NEW y \in Ranges, x < y
        PROVE  Sum!Final(x) < Sum!First(y)
    <2> DEFINE T == {z \in Ranges : x < z /\ ~(Sum!Final(x) < Sum!First(z))}
    <2> SUFFICES ASSUME T # {}
                 PROVE  FALSE
      BY <1>1
    <2>1. T \in SUBSET Nat BY RangeFacts
    <2>2. PICK z \in T : \A k \in T : z <= k BY <2>1, LeastNat
    <2>3. z \in Ranges /\ x \in Nat /\ z \in Nat /\ x < z /\ x >= 1 /\ ~(Sum!Final(x) < Sum!First(z))
      BY <2>2, RangeFacts
    <2>4. z - 1 \in Ranges /\ z # 1 /\ x <= z - 1 /\ z - 1 < z /\ z - 1 \in Nat BY <2>3, RangeFacts
    <2>5. PICK fx \in Int, fz \in Int, bz \in Int, lz \in Int :
             /\ fx = Sum!Final(x) /\ fz = Sum!Final(z - 1) /\ bz = Sum!First(z - 1) /\ lz = Sum!First(z)
             /\ bz <= fz /\ lz = fz + 1
      <3>1. \A k \in Ranges : Sum!First(k) \in Int /\ Sum!Final(k) \in Int /\ Sum!First(k) <= Sum!Final(k)
        BY RangeFacts DEF Sum!Elements
      <3>2. Sum!First(z) = Sum!Final(z - 1) + 1 BY <2>3, <2>4, RangeFacts
      <3> QED BY <2>3, <2>4, <3>1, <3>2
    <2>6. z - 1 \notin T BY <2>1, <2>2, <2>4
    <2>7. x < z - 1 => fx < bz BY <2>4, <2>5, <2>6
    <2>8. x = z - 1 => fx = fz BY <2>5
    <2>9. fx <= fz BY <2>3, <2>4, <2>5, <2>7, <2>8
    <2>10. fx < lz BY <2>5, <2>9
    <2> QED BY <2>3, <2>5, <2>10
  <1>2. u < b \/ b < u BY RangeFacts
  <1>3. \A x \in Ranges : Sum!First(x) \in Int /\ Sum!Final(x) \in Int
    BY RangeFacts DEF Sum!Elements
  <1> QED BY <1>1, <1>2, <1>3 DEF Span

LEMMA RangesCover == ASSUME Sum!SumAssumption, NEW i \in Sum!Elements PROVE \E b \in Ranges : i \in Span(b)
  <1> DEFINE T == {b \in Ranges : i <= Sum!Final(b)}
  <1>1. T \in SUBSET Nat BY RangeFacts
  <1>5. End \in T
    <2>1. End \in Ranges BY RangeFacts
    <2>2. Sum!Final(End) = Length /\ i <= Length BY DEF Sum!SumAssumption, Sum!Elements, End
    <2> QED BY <2>1, <2>2
  <1>2. PICK b \in T : \A k \in T : b <= k BY <1>1, <1>5, LeastNat
  <1>3. CASE b = 1 BY <1>2, <1>3, RangeFacts DEF Span, Sum!Elements
  <1>4. CASE b # 1
    <2>1. b - 1 \in Ranges /\ ~(i <= Sum!Final(b - 1)) BY <1>2, <1>4, RangeFacts
    <2> QED BY <1>2, <1>4, <2>1, RangeFacts DEF Span, Sum!Elements
  <1> QED BY <1>3, <1>4

-----------------------------------------------------------------------------
\* What a block adds up to by itself, until i.
Within(b, i) == Sum!Prefix[i] - Sum!Prefix[Sum!First(b) - 1]
Fails(b) == \E k \in 1 .. b : <<k, "start">> \in bad \/ (k # 1 /\ <<k, "get">> \in bad)
Late(b) == b # 1 /\ <<b, "rest">> \in bad

Addition(x) == \E b \in Ranges : x = <<b, "start">> \/ (b # 1 /\ (x = <<b, "get">> \/ x = <<b, "rest">>))

ChunksTyped == /\ elem \in [Sum!Elements -> Int]
               /\ pc \in [Ranges -> {"start", "get", "rest", "done", "thrown", "terminated"}]
               /\ \A x \in bad : Addition(x)
               /\ DOMAIN promise = Ranges

ToStart(b) == pc[b] = "start" => promise[b] = Sum!Unset /\ \A i \in Span(b) : elem[i] = Value[i]
ToGet(b) == pc[b] = "get" => /\ b # 1 /\ <<b, "start">> \notin bad /\ promise[b] = Sum!Unset
                             /\ \A i \in Span(b) : elem[i] = Within(b, i)
ToAdd(b) == pc[b] = "rest" => /\ b # 1 /\ ~Fails(b)
                              /\ promise[b - 1] = Sum!Sent(Sum!Prefix[Sum!First(b) - 1])
                              /\ b # End => promise[b] = Sum!Sent(Sum!Prefix[Sum!Final(b)])
                              /\ \A i \in Span(b) : elem[i] = IF i = Sum!Final(b) THEN Sum!Prefix[i]
                                                               ELSE Within(b, i)
IsDone(b) == pc[b] = "done" => /\ b # End => promise[b] = IF Fails(b) THEN Sum!Thrown
                                                        ELSE Sum!Sent(Sum!Prefix[Sum!Final(b)])
                               /\ b = End => ~Fails(b)
                               /\ ~Fails(b) => ~Late(b)
                               /\ ~Fails(b) => \A i \in Span(b) : elem[i] = Sum!Prefix[i]
HasThrown(b) == /\ pc[b] = "thrown" => b = End /\ bad # {}
                /\ pc[b] = "terminated" => b # End /\ Late(b)
BlockInv(b) == ToStart(b) /\ ToGet(b) /\ ToAdd(b) /\ IsDone(b) /\ HasThrown(b)
ChunksInv == ChunksTyped /\ \A b \in Ranges : BlockInv(b)

LEMMA FailsOn ==
    ASSUME Sum!SumAssumption, NEW b \in Ranges
    PROVE  /\ b # 1 => (Fails(b) <=> Fails(b - 1) \/ <<b, "start">> \in bad \/ <<b, "get">> \in bad)
           /\ b = 1 => (Fails(b) <=> <<b, "start">> \in bad)
           /\ Fails(b) => bad # {} /\ Fails(End)
  <1> DEFINE F(k) == <<k, "start">> \in bad \/ (k # 1 /\ <<k, "get">> \in bad)
  <1>1. b \in Nat \ {0} /\ End \in Nat /\ b <= End BY RangeFacts
  <1>2. 1 .. b \subseteq 1 .. End /\ 1 .. b = (1 .. b - 1) \cup {b} /\ (b = 1 => 1 .. b = {1}) BY <1>1
  <1>3. \A x : Fails(x) <=> \E k \in 1 .. x : F(k) BY DEF Fails
  <1>4. F(b) <=> <<b, "start">> \in bad \/ (b # 1 /\ <<b, "get">> \in bad) OBVIOUS
  <1>5. \A k : F(k) => bad # {} OBVIOUS
  <1> HIDE DEF F
  <1> QED BY <1>2, <1>3, <1>4, <1>5

LEMMA ChunksBegin == ASSUME Sum!SumAssumption, Sum!Init, scheme = "chunks" PROVE ChunksInv
  <1>1. pc = [t \in Ranges |-> "start"] /\ promise = [b \in Ranges |-> Sum!Unset] /\ elem = Value
    BY DEF Sum!Init, Sum!Threads, Ranges
  <1>4. \A x \in bad : Addition(x)
    <2> SUFFICES ASSUME NEW x \in Sum!Additions
                 PROVE  Addition(x)
      BY DEF Sum!Init
    <2>1. CASE \E b \in Ranges : x = <<b, "start">> BY <2>1, Zenon DEF Addition
    <2>2. CASE \E b \in Ranges \ {1} : x = <<b, "get">> BY <2>2 DEF Addition
    <2>3. CASE \E b \in Ranges \ {1} : x = <<b, "rest">> BY <2>3 DEF Addition
    <2> QED BY <2>1, <2>2, <2>3, Zenon DEF Sum!Additions, Ranges
  <1>2. ChunksTyped BY <1>1, <1>4 DEF Sum!Init, ChunksTyped, Sum!SumAssumption, Ranges
  <1>3. \A b \in Ranges : BlockInv(b)
    BY <1>1 DEF BlockInv, ToStart, ToGet, ToAdd, IsDone, HasThrown
  <1> QED BY <1>2, <1>3 DEF ChunksInv

\* What is done to a block that keeps to its elements and its promise, when
\* it had not kept it, is nothing to the others.
LEMMA OthersKeep ==
    ASSUME Sum!SumAssumption, ChunksInv, NEW b \in Ranges, NEW u \in Ranges, u # b,
           \A i \in Sum!Elements \ Span(b) : elem'[i] = elem[i],
           \A x \in Ranges \ {b} : promise'[x] = promise[x],
           promise'[b] = promise[b] \/ promise[b] = Sum!Unset, pc'[u] = pc[u], bad' = bad
    PROVE  BlockInv(u)'
  <1>1. \A i \in Span(u) : elem'[i] = elem[i] BY RangesApart, RangeFacts
  <1>2. promise'[u] = promise[u] /\ Fails(u)' = Fails(u) /\ Late(u)' = Late(u) BY DEF Fails, Late
  <1>3. BlockInv(u) BY DEF ChunksInv
  <1>4. ToStart(u)' /\ ToGet(u)' BY <1>1, <1>2, <1>3 DEF BlockInv, ToStart, ToGet, Within
  <1>5. ToAdd(u)'
    <2> SUFFICES ASSUME pc[u] = "rest"
                 PROVE  ToAdd(u)'
      BY DEF ToAdd
    <2>1. u # 1 /\ promise[u - 1] = Sum!Sent(Sum!Prefix[Sum!First(u) - 1]) /\ u - 1 \in Ranges
      BY <1>3, RangeFacts DEF BlockInv, ToAdd
    <2>2. promise[u - 1] # Sum!Unset BY <2>1 DEF Sum!Sent, Sum!Unset
    <2>3. promise'[u - 1] = promise[u - 1] BY <2>1, <2>2
    <2> QED BY <1>1, <1>2, <1>3, <2>3 DEF BlockInv, ToAdd, Within
  <1>6. IsDone(u)' /\ HasThrown(u)' BY <1>1, <1>2, <1>3 DEF BlockInv, IsDone, HasThrown
  <1> QED BY <1>4, <1>5, <1>6 DEF BlockInv

\* The sums that SumBlock stores.
LEMMA BlockSums ==
    ASSUME Sum!SumAssumption, NEW b \in Ranges, \A i \in Span(b) : elem[i] = Value[i]
    PROVE  \A i \in Span(b) : Sum!Sums(b)[i] = Within(b, i)
  <1> DEFINE f == Sum!First(b)
             l == Sum!Final(b)
             Step(s) == [i \in f .. l |-> IF i = f THEN elem[i] ELSE s[i - 1] + elem[i]]
             g == [i \in f .. l |-> Within(b, i)]
  <1>1. f \in 1 .. Length /\ l \in 1 .. Length /\ f <= l /\ Length \in Nat
    BY RangeFacts DEF Sum!Elements
  <1>2. \A i \in f .. l : elem[i] = Value[i] BY DEF Span
  <1>3. \A i \in 0 .. Length : Sum!Prefix[i] \in Int BY PrefixAdds DEF Adds
  <1>4. \A i \in 1 .. Length : Sum!Prefix[i] = Sum!Prefix[i - 1] + Value[i] /\ Value[i] \in Int
    BY PrefixAdds DEF Adds, Sum!SumAssumption, Sum!Elements
  <1> HIDE DEF f, l
  <1>5. Within(b, f) = Value[f] BY <1>1, <1>3, <1>4 DEF Within, f
  <1>6. \A i \in f .. l : i # f => Within(b, i) = Within(b, i - 1) + Value[i]
    <2> SUFFICES ASSUME NEW i \in f .. l, i # f
                 PROVE  Within(b, i) = Within(b, i - 1) + Value[i]
      OBVIOUS
    <2>1. i \in 1 .. Length /\ i - 1 \in 0 .. Length /\ f - 1 \in 0 .. Length BY <1>1
    <2>2. Sum!Prefix[i] = Sum!Prefix[i - 1] + Value[i] /\ Value[i] \in Int BY <1>4, <2>1
    <2> QED BY <1>3, <2>1, <2>2 DEF Within, f
  <1>7. g = Step(g)
    <2>1. \A i \in f .. l : g[i] = IF i = f THEN elem[i] ELSE g[i - 1] + elem[i]
      <3> SUFFICES ASSUME NEW i \in f .. l
                   PROVE  g[i] = IF i = f THEN elem[i] ELSE g[i - 1] + elem[i]
        OBVIOUS
      <3>1. i # f => i - 1 \in f .. l BY <1>1
      <3> QED BY <1>2, <1>5, <1>6, <3>1
    <2> QED BY <2>1
  <1>8. Sum!Sums(b) = CHOOSE s : s = Step(s) BY DEF Sum!Sums, f, l
  <1>9. Sum!Sums(b) = Step(Sum!Sums(b))
    <2> HIDE DEF Step, g
    <2> QED BY <1>7, <1>8
  <1>10. PICK s : s = Sum!Sums(b) OBVIOUS
  <1>11. \A i \in f .. l : s[i] = IF i = f THEN elem[i] ELSE s[i - 1] + elem[i] BY <1>9, <1>10
  <1>12. \A i \in f .. l : s[i] = Within(b, i)
    <2> DEFINE T == {i \in f .. l : s[i] # Within(b, i)}
    <2> SUFFICES ASSUME T # {}
                 PROVE  FALSE
      OBVIOUS
    <2>1. T \in SUBSET Nat BY <1>1
    <2>2. PICK i \in T : \A k \in T : i <= k BY <2>1, LeastNat
    <2>3. i # f BY <1>2, <1>5, <1>11, <2>2
    <2>4. i - 1 \in f .. l /\ i - 1 \notin T BY <1>1, <2>2, <2>3
    <2>5. s[i] = s[i - 1] + elem[i] /\ s[i - 1] = Within(b, i - 1) /\ elem[i] = Value[i]
      BY <1>2, <1>11, <2>2, <2>3, <2>4
    <2> QED BY <1>6, <2>2, <2>3, <2>5
  <1> QED BY <1>10, <1>12 DEF f, l, Span

LEMMA PassFacts ==
    ASSUME Sum!SumAssumption, ChunksTyped, NEW b \in Ranges, NEW v, Sum!Pass(b, v)
    PROVE  /\ DOMAIN promise' = Ranges /\ \A x \in Ranges \ {b} : promise'[x] = promise[x]
           /\ IF b = End THEN promise'[b] = promise[b] ELSE promise'[b] = v
  BY DEF ChunksTyped, Sum!Pass, End

\* A block whose addition throws, or that learns that one before it has.
LEMMA ThrowKeeps ==
    ASSUME Sum!SumAssumption, ChunksInv, NEW b \in Ranges, promise[b] = Sum!Unset, Fails(b),
           Sum!PassException(b), elem' = elem, bad' = bad
    PROVE  ChunksInv'
  <1>1. ChunksTyped /\ Fails(b)' /\ bad' # {} BY FailsOn DEF ChunksInv, Fails
  <1>2. /\ DOMAIN promise' = Ranges /\ \A x \in Ranges \ {b} : promise'[x] = promise[x]
        /\ IF b = End THEN promise'[b] = promise[b] ELSE promise'[b] = Sum!Thrown
    BY <1>1, PassFacts DEF Sum!PassException, ChunksTyped, End
  <1>3. Sum!Goto(b, IF b = End THEN "thrown" ELSE "done") BY DEF Sum!PassException, End
  <1>7. \A x \in Ranges : pc'[x] = IF x = b THEN IF b = End THEN "thrown" ELSE "done" ELSE pc[x]
    BY <1>1, <1>3 DEF ChunksTyped, Sum!Goto
  <1>4. ChunksTyped' BY <1>1, <1>2, <1>3 DEF ChunksTyped, Sum!Goto, Addition
  <1>5. \A u \in Ranges \ {b} : BlockInv(u)' BY <1>2, <1>7, OthersKeep
  <1>6. BlockInv(b)' BY <1>1, <1>2, <1>7 DEF BlockInv, ToStart, ToGet, ToAdd, IsDone, HasThrown
  <1> QED BY <1>4, <1>5, <1>6 DEF ChunksInv

LEMMA SumsKeep ==
    ASSUME Sum!SumAssumption, ChunksInv, NEW b \in Ranges, Sum!SumBlock(b)
    PROVE  ChunksInv'
  <1>1. ChunksTyped /\ bad' = bad /\ pc[b] = "start" /\ BlockInv(b) BY DEF ChunksInv, Sum!SumBlock
  <1>2. promise[b] = Sum!Unset /\ \A i \in Span(b) : elem[i] = Value[i]
    BY <1>1 DEF BlockInv, ToStart
  <1>3. CASE Sum!Throws(b)
    <2>1. Fails(b) BY <1>1, <1>3, FailsOn DEF Sum!Throws
    <2> QED BY <1>1, <1>2, <1>3, <2>1, ThrowKeeps DEF Sum!SumBlock
  <1>4. CASE ~Sum!Throws(b)
    <2> DEFINE to == IF b = 1 THEN "done" ELSE "get"
    <2>1. /\ elem' = [i \in Sum!Elements |-> IF i \in Span(b) THEN Sum!Sums(b)[i] ELSE elem[i]]
          /\ IF b = 1 THEN Sum!Pass(b, Sum!Sent(elem'[Sum!Final(b)])) ELSE promise' = promise
          /\ Sum!Goto(b, to)
      BY <1>4 DEF Sum!SumBlock, Span
    <2>2. /\ \A i \in Span(b) : elem'[i] = Within(b, i)
          /\ \A i \in Sum!Elements \ Span(b) : elem'[i] = elem[i]
      BY <1>2, <2>1, BlockSums, RangeFacts
    <2>3. \A x \in Ranges : pc'[x] = IF x = b THEN to ELSE pc[x]
      BY <1>1, <2>1 DEF ChunksTyped, Sum!Goto
    <2>4. \A i \in Span(b) : Within(b, i) \in Int /\ (b = 1 => Within(b, i) = Sum!Prefix[i])
      <3>1. Sum!First(b) - 1 \in 0 .. Length /\ Span(b) \subseteq 0 .. Length /\ (b = 1 => Sum!First(b) - 1 = 0)
        BY RangeFacts DEF Sum!Elements
      <3>2. Sum!Prefix[0] = 0 /\ \A i \in 0 .. Length : Sum!Prefix[i] \in Int
        BY PrefixAdds DEF Adds
      <3> QED BY <3>1, <3>2 DEF Within
    <2>5. elem' \in [Sum!Elements -> Int]
      <3>1. \A i \in Sum!Elements : elem'[i] \in Int BY <1>1, <2>2, <2>4 DEF ChunksTyped
      <3> QED BY <2>1, <3>1
    <2>6. Sum!Final(b) \in Span(b) BY RangeFacts DEF Span, Sum!Elements
    <2>7. /\ DOMAIN promise' = Ranges /\ \A x \in Ranges \ {b} : promise'[x] = promise[x]
          /\ IF b = 1 /\ b # End THEN promise'[b] = Sum!Sent(Sum!Prefix[Sum!Final(b)])
                                 ELSE promise'[b] = promise[b]
      <3>1. CASE b = 1 BY <1>1, <2>1, <2>2, <2>4, <2>6, <3>1, PassFacts
      <3>2. CASE b # 1 BY <1>1, <2>1, <3>2 DEF ChunksTyped
      <3> QED BY <3>1, <3>2
    <2>8. ChunksTyped' BY <1>1, <2>1, <2>5, <2>7 DEF ChunksTyped, Sum!Goto
    <2>9. \A u \in Ranges \ {b} : BlockInv(u)' BY <1>1, <1>2, <2>2, <2>3, <2>7, OthersKeep
    <2>10. /\ b = 1 => ~Fails(b)' /\ ~Late(b)'
           /\ <<b, "start">> \notin bad'
      <3>1. <<b, "start">> \notin bad BY <1>1, <1>4 DEF Sum!Throws
      <3> QED BY <1>1, <3>1, FailsOn DEF Fails, Late
    <2>11. Within(b, Sum!Final(b))' = Within(b, Sum!Final(b)) /\ \A i \in Span(b) : Within(b, i)' = Within(b, i)
      BY DEF Within
    <2>12. BlockInv(b)'
      BY <1>1, <1>2, <1>4, <2>2, <2>3, <2>4, <2>7, <2>10, <2>11
         DEF BlockInv, ToStart, ToGet, ToAdd, IsDone, HasThrown
    <2> QED BY <2>8, <2>9, <2>12 DEF ChunksInv
  <1> QED BY <1>3, <1>4

LEMMA GetsKeep ==
    ASSUME Sum!SumAssumption, ChunksInv, \A k \in Ranges : pc[k] # "terminated",
           NEW b \in Ranges, Sum!GetPrevious(b)
    PROVE  ChunksInv'
  <1>1. ChunksTyped /\ bad' = bad /\ pc[b] = "get" /\ BlockInv(b) /\ promise[b - 1] # Sum!Unset
    BY DEF ChunksInv, Sum!GetPrevious
  <1>2. /\ b # 1 /\ <<b, "start">> \notin bad /\ promise[b] = Sum!Unset /\ \A i \in Span(b) : elem[i] = Within(b, i)
        /\ b - 1 \in Ranges
    BY <1>1, RangeFacts DEF BlockInv, ToGet
  <1>3. b - 1 # End /\ BlockInv(b - 1)
    BY <1>1, <1>2, RangeFacts DEF ChunksInv
  <1>4. /\ ~Fails(b - 1) => promise[b - 1] = Sum!Sent(Sum!Prefix[Sum!Final(b - 1)])
        /\ Fails(b - 1) => promise[b - 1] = Sum!Thrown
    <2>1. pc[b - 1] \in {"rest", "done"}
      BY <1>1, <1>2, <1>3 DEF BlockInv, ChunksTyped, ToStart, ToGet, HasThrown
    <2> QED BY <1>3, <2>1 DEF BlockInv, ToAdd, IsDone
  <1>5. Fails(b) <=> Fails(b - 1) \/ Sum!Throws(b) BY <1>1, <1>2, FailsOn DEF Sum!Throws
  <1>6. CASE Fails(b)
    <2>1. promise[b - 1] = Sum!Thrown \/ Sum!Throws(b) BY <1>4, <1>5, <1>6
    <2> QED BY <1>1, <1>2, <1>6, <2>1, ThrowKeeps DEF Sum!GetPrevious
  <1>7. CASE ~Fails(b)
    <2> DEFINE before == Sum!Prefix[Sum!First(b) - 1]
    <2>1. Sum!First(b) - 1 = Sum!Final(b - 1) BY <1>2, RangeFacts DEF Sum!Elements
    <2>2. /\ promise[b - 1] = Sum!Sent(before) /\ promise[b - 1] # Sum!Thrown /\ promise[b - 1].value = before
          /\ ~Sum!Throws(b)
      BY <1>4, <1>5, <1>7, <2>1 DEF Sum!Sent, Sum!Thrown
    <2> HIDE DEF before
    <2>3. /\ elem' = [elem EXCEPT ![Sum!Final(b)] = @ + before]
          /\ Sum!Pass(b, Sum!Sent(elem'[Sum!Final(b)])) /\ Sum!Goto(b, "rest")
      BY <2>2 DEF Sum!GetPrevious
    <2>4. Sum!Final(b) \in Span(b) /\ Span(b) \subseteq Sum!Elements
      BY RangeFacts DEF Span, Sum!Elements
    <2>5. Within(b, Sum!Final(b)) + before = Sum!Prefix[Sum!Final(b)] /\ Sum!Prefix[Sum!Final(b)] \in Int
      <3>1. Sum!First(b) - 1 \in 0 .. Length /\ Sum!Final(b) \in 0 .. Length
        BY RangeFacts DEF Sum!Elements
      <3>2. \A i \in 0 .. Length : Sum!Prefix[i] \in Int BY PrefixAdds DEF Adds
      <3> QED BY <3>1, <3>2 DEF Within, before
    <2>6. /\ \A i \in Sum!Elements : elem'[i] = IF i = Sum!Final(b) THEN Sum!Prefix[i] ELSE elem[i]
          /\ elem' \in [Sum!Elements -> Int]
      BY <1>1, <1>2, <2>3, <2>4, <2>5 DEF ChunksTyped
    <2>7. /\ DOMAIN promise' = Ranges /\ \A x \in Ranges \ {b} : promise'[x] = promise[x]
          /\ IF b # End THEN promise'[b] = Sum!Sent(Sum!Prefix[Sum!Final(b)]) ELSE promise'[b] = promise[b]
      BY <1>1, <2>3, <2>4, <2>6, PassFacts
    <2>8. \A x \in Ranges : pc'[x] = IF x = b THEN "rest" ELSE pc[x]
      BY <1>1, <2>3 DEF ChunksTyped, Sum!Goto
    <2>9. ChunksTyped' BY <1>1, <2>3, <2>6, <2>7 DEF ChunksTyped, Sum!Goto
    <2>10. \A u \in Ranges \ {b} : BlockInv(u)' BY <1>1, <1>2, <2>4, <2>6, <2>7, <2>8, OthersKeep
    <2>11. promise'[b - 1] = Sum!Sent(Sum!Prefix[Sum!First(b) - 1]) /\ ~Fails(b)'
      BY <1>1, <1>2, <1>3, <1>7, <2>2, <2>7 DEF Fails, before
    <2>12. \A i \in Span(b) : Within(b, i)' = Within(b, i) BY DEF Within
    <2>13. BlockInv(b)'
      BY <1>2, <2>4, <2>6, <2>7, <2>8, <2>11, <2>12 DEF BlockInv, ToStart, ToGet, ToAdd, IsDone, HasThrown
    <2> QED BY <2>9, <2>10, <2>13 DEF ChunksInv
  <1> QED BY <1>6, <1>7

LEMMA RestsKeep ==
    ASSUME Sum!SumAssumption, ChunksInv, NEW b \in Ranges, Sum!AddToRest(b), ~Sum!Throws(b)
    PROVE  ChunksInv'
  <1>1. /\ ChunksTyped /\ bad' = bad /\ pc[b] = "rest" /\ BlockInv(b) /\ promise' = promise
        /\ Sum!Goto(b, "done") /\ ~Late(b)'
    BY DEF ChunksInv, Sum!AddToRest, Sum!Throws, Late
  <1>2. /\ b # 1 /\ ~Fails(b) /\ promise[b - 1] = Sum!Sent(Sum!Prefix[Sum!First(b) - 1])
        /\ b # End => promise[b] = Sum!Sent(Sum!Prefix[Sum!Final(b)])
        /\ \A i \in Span(b) : elem[i] = IF i = Sum!Final(b) THEN Sum!Prefix[i] ELSE Within(b, i)
    BY <1>1 DEF BlockInv, ToAdd
  <1>3. promise[b - 1].value = Sum!Prefix[Sum!First(b) - 1] BY <1>2 DEF Sum!Sent
  <1>4. /\ \A i \in Span(b) : elem'[i] = Sum!Prefix[i] /\ Sum!Prefix[i] \in Int
        /\ \A i \in Sum!Elements \ Span(b) : elem'[i] = elem[i]
        /\ DOMAIN elem' = Sum!Elements
    <2>1. elem' = [i \in Sum!Elements |-> IF i \in Sum!First(b) .. Sum!Final(b) - 1
                                          THEN elem[i] + Sum!Prefix[Sum!First(b) - 1] ELSE elem[i]]
      BY <1>3 DEF Sum!AddToRest
    <2>2. /\ \A i \in Sum!Elements : i \in Nat
          /\ Sum!First(b) - 1 \in 0 .. Length /\ Span(b) \subseteq 0 .. Length
      BY RangeFacts DEF Sum!Elements
    <2>3. \A i \in 0 .. Length : Sum!Prefix[i] \in Int BY PrefixAdds DEF Adds
    <2>4. \A i \in Span(b) : Within(b, i) + Sum!Prefix[Sum!First(b) - 1] = Sum!Prefix[i] /\ Sum!Prefix[i] \in Int
      BY <2>2, <2>3 DEF Within
    <2>5. \A i \in Span(b) : i # Sum!Final(b) => i \in Sum!First(b) .. Sum!Final(b) - 1
      BY RangeFacts DEF Span, Sum!Elements
    <2>6. \A i \in Sum!First(b) .. Sum!Final(b) - 1 : i \in Span(b) /\ i # Sum!Final(b)
      BY RangeFacts DEF Span, Sum!Elements
    <2> QED BY <1>2, <2>1, <2>4, <2>5, <2>6, RangeFacts
  <1>5. elem' \in [Sum!Elements -> Int]
    <2>1. \A i \in Sum!Elements : elem'[i] \in Int BY <1>1, <1>4 DEF ChunksTyped
    <2>2. elem' = [i \in Sum!Elements |-> elem'[i]] BY DEF Sum!AddToRest
    <2> QED BY <2>1, <2>2
  <1>6. \A x \in Ranges : pc'[x] = IF x = b THEN "done" ELSE pc[x]
    BY <1>1 DEF ChunksTyped, Sum!Goto
  <1>7. ChunksTyped' BY <1>1, <1>5 DEF ChunksTyped, Sum!Goto
  <1>8. \A u \in Ranges \ {b} : BlockInv(u)' BY <1>1, <1>4, <1>6, OthersKeep
  <1>9. Fails(b)' = Fails(b) BY <1>1 DEF Fails
  <1>10. BlockInv(b)'
    BY <1>1, <1>2, <1>4, <1>6, <1>9 DEF BlockInv, ToStart, ToGet, ToAdd, IsDone, HasThrown
  <1> QED BY <1>7, <1>8, <1>10 DEF ChunksInv

\* Main throws; another thread, that has passed its sum on, ends the process.
LEMMA LateThrowKeeps ==
    ASSUME Sum!SumAssumption, ChunksInv, NEW b \in Ranges, Sum!AddToRest(b), Sum!Throws(b)
    PROVE  ChunksInv'
  <1>1. /\ ChunksTyped /\ bad' = bad /\ elem' = elem /\ pc[b] = "rest" /\ BlockInv(b) /\ Sum!PassException(b)
        /\ <<b, "rest">> \in bad
    BY DEF ChunksInv, Sum!AddToRest, Sum!Throws
  <1>2. Late(b)' /\ bad' # {} /\ (b # End => promise[b] # Sum!Unset)
    BY <1>1 DEF BlockInv, ToAdd, Late, Sum!Sent, Sum!Unset
  <1>3. promise' = promise /\ Sum!Goto(b, IF b = End THEN "thrown" ELSE "terminated")
    BY <1>1, <1>2 DEF Sum!PassException, End
  <1>4. \A x \in Ranges : pc'[x] = IF x = b THEN IF b = End THEN "thrown" ELSE "terminated" ELSE pc[x]
    BY <1>1, <1>3 DEF ChunksTyped, Sum!Goto
  <1>5. ChunksTyped' BY <1>1, <1>3 DEF ChunksTyped, Sum!Goto, Addition
  <1>6. \A u \in Ranges \ {b} : BlockInv(u)' BY <1>1, <1>3, <1>4, OthersKeep
  <1>7. BlockInv(b)' BY <1>2, <1>4 DEF BlockInv, ToStart, ToGet, ToAdd, IsDone, HasThrown
  <1> QED BY <1>5, <1>6, <1>7 DEF ChunksInv

LEMMA ChunksKept ==
    ASSUME Sum!SumAssumption, scheme = "chunks", ChunksInv, Sum!Next PROVE ChunksInv'
  <1>1. PICK t \in Ranges : Sum!Step(t) BY DEF Sum!Next, Sum!Threads, Ranges
  <1>3. \A k \in Ranges : pc[k] # "terminated"
    BY <1>1 DEF Sum!Step, Sum!Terminated, Sum!Threads, Ranges
  <1>2. ~Sum!Pairs(t)
    BY <1>1 DEF ChunksInv, ChunksTyped, Sum!Pairs, Sum!Add, Sum!Leave, Sum!ReadGeneration, Sum!DoneWaiting,
                Sum!Arrive, Sum!ReadCount, Sum!Refill, Sum!Open, Sum!Spin
  <1> QED BY <1>1, <1>2, <1>3, SumsKeep, GetsKeep, RestsKeep, LateThrowKeeps DEF Sum!Step, Sum!Chunks

LEMMA ChunksFollow ==
    ASSUME Sum!SumAssumption, ChunksInv, scheme = "chunks" PROVE Sum!SumsOrThrows
  <1> SUFFICES ASSUME Sum!Ended
               PROVE  IF bad = {} THEN Sum!PrefixSums
                      ELSE \/ pc[Len(Blocks)] = "thrown"
                           \/ Sum!Terminated /\ \E b \in 1 .. Len(Blocks) - 1 : <<b, "rest">> \in bad
    BY DEF Sum!SumsOrThrows
  <1>1. Sum!Threads = Ranges /\ \A b \in Ranges : BlockInv(b) BY DEF Sum!Threads, Ranges, ChunksInv
  <1>2. CASE bad = {}
    <2>1. \A b \in Ranges : pc[b] = "done" /\ ~Fails(b)
      BY <1>1, <1>2, FailsOn DEF Sum!Ended, Sum!Terminated, BlockInv, HasThrown, Late
    <2>2. \A b \in Ranges : \A i \in Span(b) : elem[i] = Sum!Prefix[i] BY <1>1, <2>1 DEF BlockInv, IsDone
    <2> QED BY <1>2, <2>2, RangesCover DEF Sum!PrefixSums
  <1>3. CASE bad # {} /\ Sum!Terminated
    <2>1. PICK b \in Ranges : pc[b] = "terminated" BY <1>1, <1>3 DEF Sum!Terminated
    <2>2. b # End /\ <<b, "rest">> \in bad BY <1>1, <2>1 DEF BlockInv, HasThrown, Late
    <2>3. b \in 1 .. Len(Blocks) - 1 BY <2>2, RangeFacts DEF End, Ranges
    <2> QED BY <1>3, <2>2, <2>3
  <1>4. CASE bad # {} /\ ~Sum!Terminated
    <2> SUFFICES ASSUME pc[End] # "thrown"
                 PROVE  FALSE
      BY <1>4 DEF End
    <2>1. \A b \in Ranges : pc[b] = "done"
      BY <1>1, <1>4 DEF Sum!Ended, BlockInv, HasThrown
    <2>2. ~Fails(End) BY <1>1, <2>1, RangeFacts DEF BlockInv, IsDone
    <2>3. \A b \in Ranges : ~Fails(b) BY <2>2, FailsOn
    <2>4. \A b \in Ranges : ~Late(b) BY <1>1, <2>1, <2>3 DEF BlockInv, IsDone
    <2>5. \A x \in bad : Addition(x) BY DEF ChunksInv, ChunksTyped
    <2>6. \A b \in Ranges : /\ <<b, "start">> \notin bad
                            /\ b # 1 => <<b, "get">> \notin bad /\ <<b, "rest">> \notin bad
      BY <2>3, <2>4, FailsOn DEF Late
    <2> QED BY <1>4, <2>5, <2>6 DEF Addition
  <1> QED BY <1>2, <1>3, <1>4

SumInv == /\ scheme \in {"pairs", "chunks"}
          /\ scheme = "pairs" => PairsInv
          /\ scheme = "chunks" => ChunksInv

LEMMA SumBegins == ASSUME Sum!SumAssumption, Sum!Init PROVE SumInv
  BY PairsBegin, ChunksBegin DEF SumInv, Sum!Init

LEMMA SumKept == ASSUME Sum!SumAssumption, SumInv, [Sum!Next]_(Sum!vars) PROVE SumInv'
  <1>1. CASE UNCHANGED Sum!vars
    <2>1. PairsInv => PairsInv'
      BY <1>1 DEF Sum!vars, PairsInv, PairsTyped, Still, Pending, Refillers, InRound, Refills
    <2>2. ChunksInv => ChunksInv'
      <3>1. \A b \in Ranges : BlockInv(b) => BlockInv(b)'
        BY <1>1 DEF Sum!vars, BlockInv, ToStart, ToGet, ToAdd, IsDone, HasThrown, Fails, Late, Within
      <3>2. ChunksTyped => ChunksTyped' BY <1>1 DEF Sum!vars, ChunksTyped
      <3> QED BY <3>1, <3>2 DEF ChunksInv
    <2> QED BY <1>1, <2>1, <2>2 DEF SumInv, Sum!vars
  <1>2. CASE Sum!Next
    <2>1. scheme' = scheme
      BY <1>2 DEF Sum!Next, Sum!Step, Sum!Pairs, Sum!Chunks, Sum!Add, Sum!Leave, Sum!ReadGeneration,
                  Sum!DoneWaiting, Sum!Arrive, Sum!ReadCount, Sum!Refill, Sum!Open, Sum!Spin, Sum!SumBlock,
                  Sum!GetPrevious, Sum!AddToRest
    <2> QED BY <1>2, <2>1, PairsKept, ChunksKept DEF SumInv
  <1> QED BY <1>1, <1>2

LEMMA SumFollows == ASSUME Sum!SumAssumption, SumInv PROVE Sum!SumsOrThrows /\ Sum!InStep
  BY ChunksFollow, PairsFollow DEF SumInv, Sum!SumsOrThrows, Sum!InStep

-----------------------------------------------------------------------------
(* The pipelines.  With one barrier the threads test, process and arrive     *)
(* together; with two, between the barriers all have a chunk of the one      *)
(* block, and outside them thread 0 alone takes blocks and writes results.   *)

Crew == Pipeline!Threads
PipelineTyped == /\ scheme \in {"barrier", "flex"} /\ blocks \in Nat
                 /\ given \in 0 .. blocks /\ chunks = given
                 /\ result \in [Crew -> Nat] /\ sink \in Seq([Crew -> Nat])
                 /\ pc \in [Crew -> {"test", "split", "before", "process", "after", "write", "end"}]
                 /\ arrived \in SUBSET Crew
                 /\ \A t \in arrived : pc[t] \in {"before", "after"}

Processed(t) == pc[t] = "after" => result[t] = given
InFlex == /\ Len(sink) = given - 1
          /\ \A t \in Crew : /\ pc[t] \in {"test", "process", "after", "end"} /\ Processed(t)
                             /\ pc[t] \in {"process", "after"} => given < blocks
                             /\ pc[t] = "end" => given = blocks
BetweenBarriers == /\ given = Len(sink) + 1
                   /\ \A t \in Crew : pc[t] \in {"process", "after"} /\ Processed(t)
OutsideBarriers ==
  /\ \A t \in Crew : /\ pc[t] \in {"test", "split", "before", "write", "end"}
                     /\ pc[t] \in {"split", "write"} => t = 0
  /\ pc[0] \in {"write", "before"} => given = Len(sink) + 1
  /\ pc[0] \in {"test", "split", "end"} => given = Len(sink)
  /\ pc[0] = "write" => \A t \in Crew : result[t] = given
  /\ pc[0] = "split" => given < blocks
  /\ pc[0] = "end" => given = blocks

PipelineInv == /\ PipelineTyped
               /\ \A i \in DOMAIN sink : \A t \in Crew : sink[i][t] = i
               /\ IF scheme = "flex" THEN InFlex ELSE BetweenBarriers \/ OutsideBarriers

LEMMA PipelineBegins == ASSUME Pipeline!PipelineAssumption, Pipeline!Init PROVE PipelineInv
  <1>1. 0 \in Crew /\ blocks \in Nat /\ blocks >= 1
    BY DEF Pipeline!Init, Pipeline!PipelineAssumption, Crew, Pipeline!Threads
  <1>2. PipelineTyped /\ sink = << >> BY <1>1 DEF Pipeline!Init, PipelineTyped, Crew
  <1>3. CASE scheme = "flex"
    BY <1>1, <1>2, <1>3 DEF Pipeline!Init, PipelineInv, InFlex, Crew, Processed
  <1>4. CASE scheme = "barrier"
    BY <1>1, <1>2, <1>4 DEF Pipeline!Init, PipelineInv, OutsideBarriers, Crew
  <1> QED BY <1>2, <1>3, <1>4 DEF PipelineTyped

LEMMA CrewHasZero == ASSUME Pipeline!PipelineAssumption PROVE 0 \in Crew
  BY DEF Pipeline!PipelineAssumption, Crew, Pipeline!Threads

LEMMA TestsKeep == ASSUME Pipeline!PipelineAssumption, PipelineInv, NEW t \in Crew, Pipeline!Test(t)
                   PROVE  PipelineInv'
  <1> USE CrewHasZero
  <1>1. /\ pc \in [Crew -> {"test", "split", "before", "process", "after", "write", "end"}]
        /\ given \in Nat /\ blocks \in Nat /\ given =< blocks /\ Len(sink) \in Nat
        /\ scheme \in {"flex", "barrier"} /\ pc[t] = "test" /\ t \notin arrived
    BY DEF PipelineInv, PipelineTyped, Pipeline!Test
  <1>2. \A u \in Crew : pc'[u] = IF u = t THEN IF given = blocks THEN "end"
                                               ELSE IF scheme = "flex" THEN "process"
                                               ELSE IF t = 0 THEN "split" ELSE "before"
                                 ELSE pc[u]
    BY <1>1 DEF Pipeline!Test, Pipeline!Goto, Pipeline!Done
  <1>3. PipelineTyped' BY <1>1, <1>2 DEF PipelineInv, PipelineTyped, Pipeline!Test, Pipeline!Goto
  <1>4. UNCHANGED <<scheme, blocks, given, chunks, result, sink>> BY DEF Pipeline!Test
  <1>5. CASE scheme = "flex"
    <2>1. InFlex' BY <1>1, <1>2, <1>4, <1>5 DEF PipelineInv, InFlex, Processed
    <2> QED BY <1>3, <1>4, <1>5, <2>1 DEF PipelineInv
  <1>6. CASE scheme = "barrier"
    <2>1. OutsideBarriers BY <1>1, <1>6 DEF PipelineInv, BetweenBarriers
    <2>2. OutsideBarriers' BY <1>1, <1>2, <1>4, <1>6, <2>1 DEF OutsideBarriers
    <2> QED BY <1>3, <1>4, <1>6, <2>2 DEF PipelineInv
  <1> QED BY <1>1, <1>5, <1>6

LEMMA SplitsKeep == ASSUME Pipeline!PipelineAssumption, PipelineInv, NEW t \in Crew, Pipeline!Split(t)
                    PROVE  PipelineInv'
  <1> USE CrewHasZero
  <1>1. /\ pc \in [Crew -> {"test", "split", "before", "process", "after", "write", "end"}]
        /\ given \in Nat /\ blocks \in Nat /\ given =< blocks /\ Len(sink) \in Nat
        /\ scheme = "barrier" /\ pc[t] = "split"
    <2>1. pc[t] = "split" /\ PipelineTyped BY DEF PipelineInv, Pipeline!Split
    <2>2. scheme # "flex" BY <2>1 DEF PipelineInv, InFlex
    <2> QED BY <2>1, <2>2 DEF PipelineTyped
  <1>2. OutsideBarriers /\ t = 0 BY <1>1 DEF PipelineInv, BetweenBarriers, OutsideBarriers
  <1>3. given < blocks /\ given = Len(sink) BY <1>1, <1>2 DEF OutsideBarriers
  <1>4. \A u \in Crew : pc'[u] = IF u = t THEN "before" ELSE pc[u]
    BY <1>1 DEF Pipeline!Split, Pipeline!Goto
  <1>5. PipelineTyped'
    BY <1>1, <1>3, <1>4 DEF PipelineInv, PipelineTyped, Pipeline!Split, Pipeline!Goto, Pipeline!SplitSource
  <1>6. OutsideBarriers'
    BY <1>1, <1>2, <1>3, <1>4 DEF OutsideBarriers, Pipeline!Split, Pipeline!SplitSource
  <1> QED BY <1>1, <1>5, <1>6 DEF PipelineInv, Pipeline!Split

LEMMA SetsKeep == ASSUME Pipeline!PipelineAssumption, PipelineInv, NEW t \in Crew, Pipeline!SetChunk(t)
                  PROVE  PipelineInv'
  <1> USE CrewHasZero
  <1>1. /\ pc \in [Crew -> {"test", "split", "before", "process", "after", "write", "end"}]
        /\ given \in Nat /\ blocks \in Nat /\ given =< blocks /\ Len(sink) \in Nat /\ chunks = given
        /\ scheme \in {"flex", "barrier"} /\ pc[t] = "process" /\ result \in [Crew -> Nat]
    BY DEF PipelineInv, PipelineTyped, Pipeline!SetChunk
  <1>2. \A u \in Crew : /\ pc'[u] = IF u = t THEN "after" ELSE pc[u]
                        /\ result'[u] = IF u = t THEN given ELSE result[u]
    BY <1>1 DEF Pipeline!SetChunk, Pipeline!Goto
  <1>3. PipelineTyped' /\ UNCHANGED <<scheme, blocks, given, sink>>
    BY <1>1, <1>2 DEF PipelineInv, PipelineTyped, Pipeline!SetChunk, Pipeline!Goto
  <1>4. CASE scheme = "flex"
    <2>1. InFlex' BY <1>1, <1>2, <1>3, <1>4 DEF PipelineInv, InFlex, Processed
    <2> QED BY <1>3, <1>4, <2>1 DEF PipelineInv
  <1>5. CASE scheme = "barrier"
    <2>1. BetweenBarriers BY <1>1, <1>5 DEF PipelineInv, OutsideBarriers
    <2>2. BetweenBarriers' BY <1>1, <1>2, <1>3, <2>1 DEF BetweenBarriers, Processed
    <2> QED BY <1>3, <1>5, <2>2 DEF PipelineInv
  <1> QED BY <1>1, <1>4, <1>5

LEMMA ArrivalsKeep ==
    ASSUME Pipeline!PipelineAssumption, PipelineInv, NEW t \in Crew, Pipeline!ArriveAndWait(t)
    PROVE  PipelineInv'
  <1> USE CrewHasZero
  <1>1. /\ pc \in [Crew -> {"test", "split", "before", "process", "after", "write", "end"}]
        /\ given \in Nat /\ blocks \in Nat /\ given =< blocks /\ Len(sink) \in Nat /\ chunks = given
        /\ scheme \in {"flex", "barrier"} /\ pc[t] \in {"before", "after"} /\ result \in [Crew -> Nat]
        /\ sink \in Seq([Crew -> Nat]) /\ UNCHANGED <<scheme, blocks, result>>
    BY DEF PipelineInv, PipelineTyped, Pipeline!ArriveAndWait
  <1>2. CASE arrived \cup {t} # Crew
    <2>1. UNCHANGED <<pc, given, chunks, sink>> /\ arrived' = arrived \cup {t}
      BY <1>2 DEF Pipeline!ArriveAndWait, Crew
    <2>2. PipelineTyped' BY <1>1, <2>1 DEF PipelineInv, PipelineTyped
    <2>3. UNCHANGED <<InFlex, BetweenBarriers, OutsideBarriers>>
      BY <1>1, <2>1 DEF InFlex, Processed, BetweenBarriers, OutsideBarriers, Crew, Pipeline!Threads
    <2> QED BY <1>1, <2>1, <2>2, <2>3 DEF PipelineInv, Crew, Pipeline!Threads
  <1>3. CASE arrived \cup {t} = Crew
    <2>1. /\ \A u \in Crew : pc[u] \in {"before", "after"}
          /\ arrived' = {} /\ pc' = [u \in Crew |-> Pipeline!Released(u)]
          /\ IF scheme = "flex" THEN Pipeline!Completion ELSE UNCHANGED <<given, chunks, sink>>
      BY <1>1, <1>3 DEF Pipeline!ArriveAndWait, PipelineInv, PipelineTyped, Crew
    <2>2. CASE scheme = "flex"
      <3>1. /\ \A u \in Crew : pc[u] = "after" /\ result[u] = given /\ pc'[u] = "test"
            /\ given < blocks /\ Len(sink) = given - 1
        BY <1>1, <2>1, <2>2 DEF PipelineInv, InFlex, Processed, Pipeline!Released
      <3>2. sink' = Append(sink, result) /\ given' = given + 1 /\ chunks' = given + 1
        <4>1. Pipeline!Completion /\ given # blocks BY <1>1, <2>1, <2>2, <3>1
        <4> QED BY <4>1 DEF Pipeline!Completion, Pipeline!WriteData, Pipeline!SplitSource, Pipeline!Done
      <3>3. \A i \in DOMAIN sink' : \A u \in Crew : sink'[i][u] = i
        BY <1>1, <3>1, <3>2 DEF PipelineInv
      <3>4. PipelineTyped' BY <1>1, <2>1, <3>1, <3>2 DEF PipelineTyped, Pipeline!Released
      <3>5. InFlex' BY <1>1, <3>1, <3>2 DEF InFlex, Processed
      <3> QED BY <1>1, <2>2, <3>3, <3>4, <3>5 DEF PipelineInv
    <2>3. CASE scheme = "barrier"
      <3>1. PipelineTyped' BY <1>1, <2>1, <2>3 DEF PipelineInv, PipelineTyped, Pipeline!Released
      <3>2. CASE BetweenBarriers
        <4>1. /\ pc'[0] = "write" /\ \A u \in Crew \ {0} : pc'[u] = "test"
              /\ \A u \in Crew : result[u] = given
          BY <2>1, <2>3, <3>2 DEF BetweenBarriers, Processed, Pipeline!Released
        <4>2. OutsideBarriers' BY <1>1, <2>1, <2>3, <3>2, <4>1 DEF BetweenBarriers, OutsideBarriers
        <4> QED BY <1>1, <2>1, <2>3, <3>1, <4>2 DEF PipelineInv
      <3>3. CASE OutsideBarriers
        <4>1. \A u \in Crew : pc[u] = "before" /\ pc'[u] = "process"
          BY <2>1, <2>3, <3>3 DEF OutsideBarriers, Pipeline!Released
        <4>2. BetweenBarriers'
          BY <1>1, <2>1, <2>3, <3>3, <4>1 DEF BetweenBarriers, OutsideBarriers, Processed
        <4> QED BY <1>1, <2>1, <2>3, <3>1, <4>2 DEF PipelineInv
      <3> QED BY <2>3, <3>2, <3>3 DEF PipelineInv
    <2> QED BY <1>1, <2>2, <2>3
  <1> QED BY <1>2, <1>3

LEMMA WritesKeep == ASSUME Pipeline!PipelineAssumption, PipelineInv, NEW t \in Crew, Pipeline!Write(t)
                    PROVE  PipelineInv'
  <1> USE CrewHasZero
  <1>1. /\ pc \in [Crew -> {"test", "split", "before", "process", "after", "write", "end"}]
        /\ given \in Nat /\ blocks \in Nat /\ given =< blocks /\ Len(sink) \in Nat
        /\ scheme = "barrier" /\ pc[t] = "write" /\ result \in [Crew -> Nat] /\ sink \in Seq([Crew -> Nat])
    <2>1. pc[t] = "write" /\ PipelineTyped BY DEF PipelineInv, Pipeline!Write
    <2>2. scheme # "flex" BY <2>1 DEF PipelineInv, InFlex
    <2> QED BY <2>1, <2>2 DEF PipelineTyped
  <1>2. OutsideBarriers /\ t = 0 BY <1>1 DEF PipelineInv, BetweenBarriers, OutsideBarriers
  <1>3. given = Len(sink) + 1 /\ \A u \in Crew : result[u] = given
    BY <1>1, <1>2 DEF OutsideBarriers
  <1>4. /\ \A u \in Crew : pc'[u] = IF u = t THEN "test" ELSE pc[u]
        /\ sink' = Append(sink, result) /\ UNCHANGED <<scheme, blocks, given, chunks, result, arrived>>
    BY <1>1 DEF Pipeline!Write, Pipeline!Goto, Pipeline!WriteData
  <1>5. PipelineTyped' BY <1>1, <1>4 DEF PipelineInv, PipelineTyped, Pipeline!Write, Pipeline!Goto
  <1>6. \A i \in DOMAIN sink' : \A u \in Crew : sink'[i][u] = i BY <1>1, <1>3, <1>4 DEF PipelineInv
  <1>7. OutsideBarriers' BY <1>1, <1>2, <1>3, <1>4 DEF OutsideBarriers
  <1> QED BY <1>1, <1>4, <1>5, <1>6, <1>7 DEF PipelineInv

LEMMA PipelineKept ==
    ASSUME Pipeline!PipelineAssumption, PipelineInv, [Pipeline!Next]_(Pipeline!vars) PROVE PipelineInv'
  <1>1. CASE UNCHANGED Pipeline!vars
    BY <1>1 DEF Pipeline!vars, PipelineInv, PipelineTyped, InFlex, Processed, BetweenBarriers,
                OutsideBarriers, Crew
  <1>2. CASE Pipeline!Next
    <2>1. PICK t \in Crew : Pipeline!Step(t) BY <1>2 DEF Pipeline!Next, Crew
    <2> QED BY <2>1, TestsKeep, SplitsKeep, SetsKeep, ArrivalsKeep, WritesKeep DEF Pipeline!Step
  <1> QED BY <1>1, <1>2

LEMMA BlocksFollow == ASSUME Pipeline!PipelineAssumption, PipelineInv PROVE Pipeline!BlocksWhole
  <1>1. ASSUME \A t \in Crew : pc[t] = "end"
        PROVE  Len(sink) = IF scheme = "flex" THEN blocks - 1 ELSE blocks
    BY <1>1, CrewHasZero DEF PipelineInv, PipelineTyped, InFlex, BetweenBarriers, OutsideBarriers
  <1> QED BY <1>1 DEF PipelineInv, Pipeline!BlocksWhole, Crew

-----------------------------------------------------------------------------
(* The stealing pools.  Apart from their orders the queues are sets of tasks *)
(* H, h = 0 the pool's, and what the threads are in is a set of calls C;     *)
(* with R, the tasks that have run, they hold each task once, and hold what  *)
(* is awaited.  What a call has yet to submit they do not hold, as they hold *)
(* no task of a call that has not begun.                                     *)

Queues == 0 .. N
Callable == {0} \cup Pool!Tasks
Makes(x) == Range(Pool!Submits(x))
Queued(H) == UNION {H[h] : h \in Queues}
Called(C) == {c.task : c \in C}
Held(H, C, R) == R \cup Queued(H) \cup Called(C)

SetsTyped(H, C, R) == /\ H \in [Queues -> SUBSET Pool!Tasks] /\ R \in SUBSET Pool!Tasks
                      /\ C \in SUBSET [task : Callable, submit : SUBSET Pool!Tasks, await : SUBSET Pool!Tasks]
HeldOnce(H, C, R) == /\ \A h, k \in Queues : h # k => H[h] \cap H[k] = {}
                     /\ \A h \in Queues : H[h] \cap R = {}
                     /\ \A c \in C : c.task \notin R /\ \A h \in Queues : c.task \notin H[h]
                     /\ \A c, d \in C : c.task = d.task => c = d
ToCome(H, C, R) == \A c \in C : /\ c.submit \subseteq Makes(c.task) /\ c.submit \cap Held(H, C, R) = {}
                                /\ c.await \subseteq Makes(c.task) /\ c.await \ c.submit \subseteq Held(H, C, R)
Begun(H, C, R) == \A y \in Pool!Tasks : Makes(y) \cap Held(H, C, R) # {} => y \in R \cup Called(C)
Sound(H, C, R) == SetsTyped(H, C, R) /\ HeldOnce(H, C, R) /\ ToCome(H, C, R) /\ Begun(H, C, R)

LEMMA MakesApart ==
    ASSUME Pool!PoolAssumption
    PROVE  /\ 0 \notin Pool!Tasks /\ \A x \in Callable : Pool!Submits(x) \in Seq(Pool!Tasks)
           /\ \A x \in Callable : Makes(x) \subseteq Pool!Tasks
           /\ \A x \in Callable : IsInjective(Pool!Submits(x))
           /\ \A x, y \in Callable : Makes(x) \cap Makes(y) # {} => x = y
           /\ Queues = {0} \cup Pool!Workers /\ 0 \notin Pool!Workers /\ N \in Nat \ {0}
  <1>1. 0 \notin Pool!Tasks BY DEF Pool!PoolAssumption, Pool!Tasks
  <1>2. \A x \in Callable : Pool!Submits(x) \in Seq(Pool!Tasks)
    BY DEF Pool!PoolAssumption, Callable
  <1>3. \A x \in Callable : Makes(x) \subseteq Pool!Tasks BY <1>2 DEF Makes, Range
  <1>4. \A x, y \in Callable : \A i \in DOMAIN Pool!Submits(x), j \in DOMAIN Pool!Submits(y) :
            Pool!Submits(x)[i] = Pool!Submits(y)[j] => x = y /\ i = j
    BY DEF Pool!PoolAssumption, Callable
  <1>5. /\ \A x \in Callable : IsInjective(Pool!Submits(x))
        /\ \A x, y \in Callable : Makes(x) \cap Makes(y) # {} => x = y
    BY <1>4 DEF IsInjective, Makes, Range
  <1>6. N \in Nat \ {0} BY DEF Pool!PoolAssumption
  <1> QED BY <1>1, <1>2, <1>3, <1>5, <1>6 DEF Queues, Pool!Workers

LEMMA IsCalled == ASSUME NEW C, NEW x PROVE x \in Called(C) <=> \E c \in C : c.task = x
  BY DEF Called

LEMMA IsHeld ==
    ASSUME NEW H, NEW C, NEW R, NEW x
    PROVE  x \in Held(H, C, R) <=> x \in R \/ (\E h \in Queues : x \in H[h]) \/ x \in Called(C)
  <1>1. x \in Queued(H) <=> \E h \in Queues : x \in H[h] BY DEF Queued
  <1> QED BY <1>1 DEF Held

LEMMA SameCalled ==
    ASSUME NEW C, NEW c \in C, NEW d, d.task = c.task PROVE Called((C \ {c}) \cup {d}) = Called(C)
  <1> DEFINE D == (C \ {c}) \cup {d}
  <1>1. \A z : (\E e \in D : e.task = z) <=> (\E e \in C : e.task = z) OBVIOUS
  <1> HIDE DEF D
  <1>2. \A z : z \in Called(D) <=> z \in Called(C) BY <1>1, IsCalled
  <1>3. Called(D) = Called(C) BY <1>2
  <1> QED BY <1>3 DEF D

\* A call submits one more task, to the queue of index k.
LEMMA SubmitSound ==
    ASSUME Pool!PoolAssumption, NEW H, NEW C, NEW R, Sound(H, C, R),
           NEW c \in C, NEW d, NEW x \in c.submit, NEW k \in Queues, NEW G, NEW D,
           d = [task |-> c.task, submit |-> c.submit \ {x}, await |-> c.await],
           D = (C \ {c}) \cup {d}, G = [H EXCEPT ![k] = @ \cup {x}]
    PROVE  Sound(G, D, R)
  <1>1. /\ SetsTyped(H, C, R) /\ HeldOnce(H, C, R) /\ ToCome(H, C, R) /\ Begun(H, C, R)
        /\ c.task \in Callable /\ c.submit \subseteq Pool!Tasks /\ c.await \subseteq Pool!Tasks
    BY DEF Sound, SetsTyped
  <1>2. d.task = c.task /\ d.submit = c.submit \ {x} /\ d.await = c.await OBVIOUS
  <1>3. \A h \in Queues : G[h] = IF h = k THEN H[h] \cup {x} ELSE H[h] BY <1>1 DEF SetsTyped
  <1>4. x \notin Held(H, C, R) /\ x \in Makes(c.task) BY <1>1 DEF ToCome
  <1>5. SetsTyped(G, D, R) BY <1>1 DEF SetsTyped
  <1>6. Called(D) = Called(C)
    <2>1. Called((C \ {c}) \cup {d}) = Called(C) BY <1>2, SameCalled
    <2> QED BY <2>1
  <1>7. Held(G, D, R) = Held(H, C, R) \cup {x}
    <2>1. Queued(G) = Queued(H) \cup {x}
      <3>1. ASSUME NEW z
            PROVE  z \in Queued(G) <=> z \in Queued(H) \/ z = x
        BY <1>3 DEF Queued
      <3> QED BY <3>1
    <2> QED BY <1>6, <2>1 DEF Held
  <1>8. HeldOnce(G, D, R)
    <2>1. x \notin R /\ (\A h \in Queues : x \notin H[h]) /\ \A e \in C : e.task # x
      BY <1>4, IsHeld, IsCalled
    <2>2. \A e \in D : e = d \/ (e \in C /\ e # c) OBVIOUS
    <2>3. \A e, f \in D : e.task = f.task => e = f
      <3>1. \A e, f \in C : e.task = f.task => e = f BY <1>1 DEF HeldOnce
      <3> QED BY <1>2, <2>2, <3>1
    <2>4. \A e \in D : e.task = c.task \/ \E f \in C : f.task = e.task BY <1>2
    <2>5. \A e \in D : e.task \notin R /\ \A h \in Queues : e.task \notin G[h]
      BY <1>1, <1>3, <2>1, <2>4 DEF HeldOnce
    <2>6. \A h, l \in Queues : h # l => G[h] \cap G[l] = {} BY <1>1, <1>3, <2>1 DEF HeldOnce
    <2>7. \A h \in Queues : G[h] \cap R = {} BY <1>1, <1>3, <2>1 DEF HeldOnce
    <2> QED BY <2>3, <2>5, <2>6, <2>7 DEF HeldOnce
  <1>9. ToCome(G, D, R)
    <2> SUFFICES ASSUME NEW e \in D
                 PROVE  /\ e.submit \subseteq Makes(e.task) /\ e.submit \cap Held(G, D, R) = {}
                        /\ e.await \subseteq Makes(e.task) /\ e.await \ e.submit \subseteq Held(G, D, R)
      BY DEF ToCome
    <2>1. CASE e = d BY <1>1, <1>2, <1>7, <2>1 DEF ToCome
    <2>2. CASE e # d
      <3>1. e \in C /\ e # c /\ e.task \in Callable BY <1>1, <2>2 DEF SetsTyped
      <3>2. e.task # c.task BY <1>1, <3>1 DEF HeldOnce
      <3>3. e.submit \subseteq Makes(e.task) BY <1>1, <3>1 DEF ToCome
      <3>4. x \notin e.submit BY <1>1, <1>4, <3>1, <3>2, <3>3, MakesApart
      <3>5. /\ e.submit \cap Held(H, C, R) = {} /\ e.await \subseteq Makes(e.task)
            /\ e.await \ e.submit \subseteq Held(H, C, R)
        BY <1>1, <3>1 DEF ToCome
      <3> QED BY <1>7, <3>3, <3>4, <3>5
    <2> QED BY <2>1, <2>2
  <1>10. Begun(G, D, R)
    <2> SUFFICES ASSUME NEW y \in Pool!Tasks, Makes(y) \cap Held(G, D, R) # {}
                 PROVE  y \in R \cup Called(D)
      BY DEF Begun
    <2>1. CASE x \in Makes(y)
      <3>1. y = c.task BY <1>1, <1>4, <2>1, MakesApart DEF Callable
      <3> QED BY <1>2, <3>1, IsCalled
    <2>2. CASE x \notin Makes(y) BY <1>1, <1>6, <1>7, <2>2 DEF Begun
    <2> QED BY <2>1, <2>2
  <1> QED BY <1>5, <1>8, <1>9, <1>10 DEF Sound

\* A task is taken from the queue of index k, and called.
LEMMA StartSound ==
    ASSUME Pool!PoolAssumption, NEW H, NEW C, NEW R, Sound(H, C, R),
           NEW k \in Queues, NEW x \in H[k], NEW d, NEW G, NEW D, NEW awaits \in SUBSET Makes(x),
           d = [task |-> x, submit |-> Makes(x), await |-> awaits],
           D = C \cup {d}, G = [H EXCEPT ![k] = @ \ {x}]
    PROVE  Sound(G, D, R)
  <1>1. /\ SetsTyped(H, C, R) /\ HeldOnce(H, C, R) /\ ToCome(H, C, R) /\ Begun(H, C, R)
        /\ x \in Pool!Tasks
    BY DEF Sound, SetsTyped
  <1>2. d.task = x /\ d.submit = Makes(x) /\ d.await = awaits OBVIOUS
  <1>3. \A h \in Queues : G[h] = IF h = k THEN H[h] \ {x} ELSE H[h] BY <1>1 DEF SetsTyped
  <1>4. SetsTyped(G, D, R)
    <2>1. x \in Callable /\ Makes(x) \in SUBSET Pool!Tasks /\ awaits \in SUBSET Pool!Tasks
      BY <1>1, MakesApart DEF Callable
    <2>2. d \in [task : Callable, submit : SUBSET Pool!Tasks, await : SUBSET Pool!Tasks] BY <2>1
    <2>3. D \in SUBSET [task : Callable, submit : SUBSET Pool!Tasks, await : SUBSET Pool!Tasks]
      BY <1>1, <2>2 DEF SetsTyped
    <2>4. G \in [Queues -> SUBSET Pool!Tasks] BY <1>1 DEF SetsTyped
    <2> QED BY <1>1, <2>3, <2>4 DEF SetsTyped
  <1>5. Called(D) = Called(C) \cup {x} BY <1>2, IsCalled
  <1>6. Held(G, D, R) = Held(H, C, R)
    <2>1. Queued(H) = Queued(G) \cup {x}
      <3>1. ASSUME NEW z
            PROVE  z \in Queued(H) <=> z \in Queued(G) \/ z = x
        BY <1>3 DEF Queued
      <3> QED BY <3>1
    <2> QED BY <1>5, <2>1 DEF Held
  <1>7. x \notin R /\ (\A h \in Queues \ {k} : x \notin H[h]) /\ \A e \in C : e.task # x
    BY <1>1 DEF HeldOnce
  <1>8. HeldOnce(G, D, R)
    <2>1. \A e, f \in D : e.task = f.task => e = f BY <1>1, <1>2, <1>7 DEF HeldOnce
    <2>2. \A e \in D : e.task \notin R /\ \A h \in Queues : e.task \notin G[h]
      BY <1>1, <1>2, <1>3, <1>7 DEF HeldOnce
    <2>3. \A h, l \in Queues : h # l => G[h] \cap G[l] = {} BY <1>1, <1>3 DEF HeldOnce
    <2>4. \A h \in Queues : G[h] \cap R = {} BY <1>1, <1>3 DEF HeldOnce
    <2> QED BY <2>1, <2>2, <2>3, <2>4 DEF HeldOnce
  <1>9. Makes(x) \cap Held(H, C, R) = {}
    <2>1. x \notin R \cup Called(C) BY <1>7, IsCalled
    <2> QED BY <1>1, <2>1 DEF Begun
  <1>10. ToCome(G, D, R)
    <2>1. /\ d.submit \subseteq Makes(d.task) /\ d.submit \cap Held(G, D, R) = {}
          /\ d.await \subseteq Makes(d.task) /\ d.await \ d.submit \subseteq Held(G, D, R)
      BY <1>2, <1>6, <1>9
    <2> QED BY <1>1, <1>6, <2>1 DEF ToCome
  <1>11. Begun(G, D, R) BY <1>1, <1>5, <1>6 DEF Begun
  <1> QED BY <1>4, <1>8, <1>10, <1>11 DEF Sound

\* A call has waited for one more.
LEMMA GetSound ==
    ASSUME Pool!PoolAssumption, NEW H, NEW C, NEW R, Sound(H, C, R),
           NEW c \in C, NEW d, NEW D, NEW awaits \in SUBSET c.await,
           d = [task |-> c.task, submit |-> c.submit, await |-> awaits], D = (C \ {c}) \cup {d}
    PROVE  Sound(H, D, R)
  <1>1. /\ SetsTyped(H, C, R) /\ HeldOnce(H, C, R) /\ ToCome(H, C, R) /\ Begun(H, C, R)
        /\ c.task \in Callable /\ c.submit \subseteq Pool!Tasks /\ c.await \subseteq Pool!Tasks
    BY DEF Sound, SetsTyped
  <1>2. d.task = c.task /\ d.submit = c.submit /\ d.await = awaits OBVIOUS
  <1>3. SetsTyped(H, D, R) BY <1>1 DEF SetsTyped
  <1>4. Called(D) = Called(C)
    <2>1. Called((C \ {c}) \cup {d}) = Called(C) BY <1>2, SameCalled
    <2> QED BY <2>1
  <1>5. Held(H, D, R) = Held(H, C, R) BY <1>4 DEF Held
  <1>6. HeldOnce(H, D, R)
    <2>1. \A e, f \in D : e.task = f.task => e = f BY <1>1, <1>2 DEF HeldOnce
    <2>2. \A e \in D : e.task \notin R /\ \A h \in Queues : e.task \notin H[h]
      BY <1>1, <1>2 DEF HeldOnce
    <2> QED BY <1>1, <2>1, <2>2 DEF HeldOnce
  <1>7. ToCome(H, D, R) BY <1>1, <1>2, <1>5 DEF ToCome
  <1>8. Begun(H, D, R) BY <1>1, <1>4, <1>5 DEF Begun
  <1> QED BY <1>3, <1>6, <1>7, <1>8 DEF Sound

\* A call ends; Main's is of no task.
LEMMA FinishSound ==
    ASSUME Pool!PoolAssumption, NEW H, NEW C, NEW R, Sound(H, C, R),
           NEW c \in C, NEW D, NEW S, D = C \ {c}, S = IF c.task = 0 THEN R ELSE R \cup {c.task}
    PROVE  Sound(H, D, S)
  <1>1. /\ SetsTyped(H, C, R) /\ HeldOnce(H, C, R) /\ ToCome(H, C, R) /\ Begun(H, C, R)
        /\ c.task \in Callable
    BY DEF Sound, SetsTyped
  <1>2. SetsTyped(H, D, S) BY <1>1 DEF SetsTyped, Callable
  <1>3. /\ Held(H, D, S) \subseteq Held(H, C, R)
        /\ Held(H, C, R) \subseteq Held(H, D, S) \cup {0}
    <2>1. ASSUME NEW z
          PROVE  /\ z \in Held(H, D, S) => z \in Held(H, C, R)
                 /\ z \in Held(H, C, R) => z = 0 \/ z \in Held(H, D, S)
      <3>1. z \in S => z \in R \/ z \in Called(C) BY IsCalled
      <3>2. z \in Called(C) => z = 0 \/ z \in S \/ z \in Called(D) BY IsCalled
      <3>4. z \in Called(D) => z \in Called(C) BY IsCalled
      <3>3. R \subseteq S /\ D \subseteq C OBVIOUS
      <3> QED BY <3>1, <3>2, <3>3, <3>4, IsHeld
    <2> QED BY <2>1
  <1>4. HeldOnce(H, D, S) BY <1>1 DEF HeldOnce
  <1>5. ToCome(H, D, S)
    <2> SUFFICES ASSUME NEW e \in D
                 PROVE  /\ e.submit \subseteq Makes(e.task) /\ e.submit \cap Held(H, D, S) = {}
                        /\ e.await \subseteq Makes(e.task) /\ e.await \ e.submit \subseteq Held(H, D, S)
      BY DEF ToCome
    <2>1. /\ e.submit \subseteq Makes(e.task) /\ e.submit \cap Held(H, C, R) = {}
          /\ e.await \subseteq Makes(e.task) /\ e.await \ e.submit \subseteq Held(H, C, R)
      BY <1>1 DEF ToCome
    <2>2. 0 \notin e.await BY <1>1, MakesApart DEF SetsTyped
    <2> QED BY <1>3, <2>1, <2>2
  <1>6. Begun(H, D, S)
    <2> SUFFICES ASSUME NEW y \in Pool!Tasks, Makes(y) \cap Held(H, D, S) # {}
                 PROVE  y \in S \cup Called(D)
      BY DEF Begun
    <2>1. y \in R \cup Called(C) /\ y # 0 BY <1>1, <1>3, MakesApart DEF Begun
    <2> QED BY <2>1, IsCalled
  <1> QED BY <1>2, <1>4, <1>5, <1>6 DEF Sound

-----------------------------------------------------------------------------
(* What is done to the ends of a queue.                                      *)

LEMMA FrontOf ==
    ASSUME NEW S, NEW q \in Seq(S), q # << >>
    PROVE  /\ Pool!pop_back(q) \in Seq(S) /\ Len(Pool!pop_back(q)) = Len(q) - 1
           /\ \A i \in 1 .. Len(q) - 1 : Pool!pop_back(q)[i] = q[i]
           /\ Pool!back(q) = q[Len(q)] /\ Len(q) \in DOMAIN q /\ DOMAIN q = 1 .. Len(q) /\ Len(q) \in Nat
  <1>1. Len(q) \in Nat \ {0} /\ DOMAIN q = 1 .. Len(q) BY EmptySeq
  <1>2. SubSeq(q, 1, Len(q) - 1) \in Seq(S) /\ Len(SubSeq(q, 1, Len(q) - 1)) = Len(q) - 1
    BY <1>1, SubSeqProperties
  <1>3. \A i \in 1 .. Len(q) - 1 : SubSeq(q, 1, Len(q) - 1)[i] = q[i] BY <1>1, SubSeqProperties
  <1> QED BY <1>1, <1>2, <1>3 DEF Pool!pop_back, Pool!back

LEMMA HeadTaken ==
    ASSUME NEW S, NEW q \in Seq(S), q # << >>
    PROVE  /\ Head(q) \in Range(q) /\ Tail(q) \in Seq(S) /\ Range(Tail(q)) \subseteq Range(q)
           /\ Range(q) = Range(Tail(q)) \cup {Head(q)}
           /\ IsInjective(q) => Range(Tail(q)) = Range(q) \ {Head(q)} /\ IsInjective(Tail(q))
  <1>1. /\ Len(q) \in Nat \ {0} /\ DOMAIN q = 1 .. Len(q) /\ Head(q) = q[1]
        /\ Tail(q) \in Seq(S) /\ DOMAIN Tail(q) = 1 .. Len(q) - 1
        /\ \A i \in 1 .. Len(q) - 1 : Tail(q)[i] = q[i + 1]
    BY HeadTailProperties, EmptySeq
  <1>2. \A i \in DOMAIN Tail(q) : i + 1 \in DOMAIN q /\ i + 1 # 1 /\ Tail(q)[i] = q[i + 1] BY <1>1
  <1>3. \A i \in DOMAIN q : i = 1 \/ (i - 1 \in DOMAIN Tail(q) /\ Tail(q)[i - 1] = q[i]) BY <1>1
  <1>4. Range(q) = Range(Tail(q)) \cup {Head(q)} BY <1>1, <1>2, <1>3 DEF Range
  <1>5. ASSUME IsInjective(q)
        PROVE  Head(q) \notin Range(Tail(q)) /\ IsInjective(Tail(q))
    <2>1. \A i \in DOMAIN Tail(q) : Tail(q)[i] # q[1] BY <1>1, <1>2, <1>5 DEF IsInjective
    <2>2. \A i, j \in DOMAIN Tail(q) : Tail(q)[i] = Tail(q)[j] => i + 1 = j + 1
      BY <1>2, <1>5 DEF IsInjective
    <2> QED BY <1>1, <2>1, <2>2 DEF Range, IsInjective
  <1>6. Head(q) \in Range(q) /\ Range(Tail(q)) \subseteq Range(q) BY <1>4
  <1> QED BY <1>1, <1>4, <1>5, <1>6

LEMMA LastTaken ==
    ASSUME NEW S, NEW q \in Seq(S), q # << >>, IsInjective(q)
    PROVE  /\ Pool!back(q) \in Range(q) /\ Pool!pop_back(q) \in Seq(S)
           /\ Range(Pool!pop_back(q)) = Range(q) \ {Pool!back(q)} /\ IsInjective(Pool!pop_back(q))
  <1>1. /\ Pool!pop_back(q) \in Seq(S) /\ Len(Pool!pop_back(q)) = Len(q) - 1
        /\ \A i \in 1 .. Len(q) - 1 : Pool!pop_back(q)[i] = q[i]
        /\ Pool!back(q) = q[Len(q)] /\ Len(q) \in DOMAIN q /\ DOMAIN q = 1 .. Len(q) /\ Len(q) \in Nat
    BY FrontOf
  <1>2. DOMAIN Pool!pop_back(q) = DOMAIN q \ {Len(q)}
    <2>1. DOMAIN Pool!pop_back(q) = 1 .. Len(q) - 1 BY <1>1
    <2>2. 1 .. Len(q) - 1 = (1 .. Len(q)) \ {Len(q)} BY <1>1
    <2> QED BY <1>1, <2>1, <2>2
  <1>3. \A i \in DOMAIN q \ {Len(q)} : Pool!pop_back(q)[i] = q[i] /\ q[i] # q[Len(q)]
    BY <1>1 DEF IsInjective
  <1>4. Range(Pool!pop_back(q)) = Range(q) \ {Pool!back(q)} BY <1>1, <1>2, <1>3 DEF Range
  <1>5. IsInjective(Pool!pop_back(q)) BY <1>1, <1>2, <1>3 DEF IsInjective
  <1> QED BY <1>1, <1>4, <1>5 DEF Range

LEMMA Put ==
    ASSUME NEW S, NEW q \in Seq(S), NEW x \in S, NEW p, p = Append(q, x) \/ p = <<x>> \o q,
           IsInjective(q), x \notin Range(q)
    PROVE  p \in Seq(S) /\ Range(p) = Range(q) \cup {x} /\ IsInjective(p)
  <1>1. Len(q) \in Nat /\ DOMAIN q = 1 .. Len(q) /\ \A i \in DOMAIN q : q[i] # x BY DEF Range
  <1>2. CASE p = Append(q, x)
    <2>1. /\ p \in Seq(S) /\ DOMAIN p = DOMAIN q \cup {Len(q) + 1} /\ p[Len(q) + 1] = x
          /\ \A i \in DOMAIN q : p[i] = q[i]
      BY <1>1, <1>2, AppendProperties
    <2>2. Range(p) = Range(q) \cup {x} BY <2>1 DEF Range
    <2>3. IsInjective(p) BY <1>1, <2>1 DEF IsInjective
    <2> QED BY <2>1, <2>2, <2>3
  <1>3. CASE p = <<x>> \o q
    <2>1. <<x>> \in Seq(S) /\ Len(<<x>>) = 1 /\ <<x>>[1] = x OBVIOUS
    <2>2. /\ p \in Seq(S) /\ Len(p) = 1 + Len(q) /\ p[1] = x
          /\ \A i \in DOMAIN q : p[i + 1] = q[i]
      BY <1>1, <1>3, <2>1, ConcatProperties
    <2>3. \A i \in DOMAIN p : i = 1 \/ (i - 1 \in DOMAIN q /\ p[i] = q[i - 1]) BY <1>1, <2>2
    <2>4. 1 \in DOMAIN p /\ \A i \in DOMAIN q : i + 1 \in DOMAIN p BY <1>1, <2>2
    <2>5. Range(p) = Range(q) \cup {x}
      <3>1. \A y \in Range(p) : y = x \/ y \in Range(q) BY <2>2, <2>3 DEF Range
      <3>2. x \in Range(p) /\ \A y \in Range(q) : y \in Range(p)
        <4>1. ASSUME NEW y \in Range(q)
              PROVE  y \in Range(p)
          <5>1. PICK i \in DOMAIN q : y = q[i] BY DEF Range
          <5>2. i + 1 \in DOMAIN p /\ p[i + 1] = y BY <2>2, <2>4, <5>1
          <5> QED BY <5>2 DEF Range
        <4>2. x \in Range(p) BY <2>2, <2>4 DEF Range
        <4> QED BY <4>1, <4>2
      <3> QED BY <3>1, <3>2
    <2>6. IsInjective(p)
      <3> SUFFICES ASSUME NEW i \in DOMAIN p, NEW j \in DOMAIN p, p[i] = p[j]
                   PROVE  i = j
        BY DEF IsInjective
      <3>1. i \in Nat /\ j \in Nat BY <2>2
      <3>2. i = 1 <=> j = 1 BY <1>1, <2>2, <2>3
      <3>3. i # 1 /\ j # 1 => i - 1 = j - 1 BY <2>3 DEF IsInjective
      <3> QED BY <3>1, <3>2, <3>3
    <2> QED BY <2>2, <2>5, <2>6
  <1> QED BY <1>2, <1>3

-----------------------------------------------------------------------------
(* The calls of all threads.                                                 *)

Frames == [task : Callable, submit : Seq(Pool!Tasks), await : Seq(Pool!Tasks)]
Stacks == [Pool!Threads -> Seq(Frames)]
CallOf(f) == [task |-> f.task, submit |-> Range(f.submit), await |-> Range(f.await)]
Calls(s) == UNION {{CallOf(s[t][i]) : i \in DOMAIN s[t]} : t \in Pool!Threads}
OneCallEach(s) == \A t, u \in Pool!Threads : \A i \in DOMAIN s[t], j \in DOMAIN s[u] :
                     s[t][i].task = s[u][j].task => t = u /\ i = j

Calling(s) == /\ s \in Stacks /\ OneCallEach(s)
              /\ \A t \in Pool!Threads : \A i \in DOMAIN s[t] : IsInjective(s[t][i].submit)

LEMMA IsCall == ASSUME NEW s, NEW c
                PROVE  c \in Calls(s) <=> \E t \in Pool!Threads : \E i \in DOMAIN s[t] : c = CallOf(s[t][i])
  BY DEF Calls

LEMMA CallIn == ASSUME NEW s, NEW t \in Pool!Threads, NEW i \in DOMAIN s[t] PROVE CallOf(s[t][i]) \in Calls(s)
  BY IsCall

Replaced(s, z, old, new) ==
  /\ \A u \in Pool!Threads : \A i \in DOMAIN z[u] :
        CallOf(z[u][i]) \in new \/ (i \in DOMAIN s[u] /\ z[u][i] = s[u][i] /\ CallOf(s[u][i]) \notin old)
  /\ \A u \in Pool!Threads : \A i \in DOMAIN s[u] :
        CallOf(s[u][i]) \in old \/ (i \in DOMAIN z[u] /\ z[u][i] = s[u][i])
  /\ new \subseteq Calls(z)

LEMMA CallsAre == ASSUME NEW s, NEW z, NEW old, NEW new, Replaced(s, z, old, new)
                  PROVE  Calls(z) = (Calls(s) \ old) \cup new
  <1> USE DEF Replaced
  <1>1. ASSUME NEW c \in Calls(z)
        PROVE  c \in (Calls(s) \ old) \cup new
    <2>1. PICK u \in Pool!Threads : \E i \in DOMAIN z[u] : c = CallOf(z[u][i]) BY IsCall
    <2>2. PICK i \in DOMAIN z[u] : c = CallOf(z[u][i]) BY <2>1
    <2> QED BY <2>2, CallIn
  <1>2. ASSUME NEW c \in Calls(s), c \notin old
        PROVE  c \in Calls(z)
    <2>1. PICK u \in Pool!Threads : \E i \in DOMAIN s[u] : c = CallOf(s[u][i]) BY IsCall
    <2>2. PICK i \in DOMAIN s[u] : c = CallOf(s[u][i]) BY <2>1
    <2>3. i \in DOMAIN z[u] /\ z[u][i] = s[u][i] BY <1>2, <2>2
    <2> QED BY <2>2, <2>3, CallIn
  <1> QED BY <1>1, <1>2

WithTop(s, t, f) == [s EXCEPT ![t] = Append(Pool!pop_back(@), f)]

LEMMA TopChanges ==
    ASSUME NEW s, Calling(s), NEW t \in Pool!Threads, s[t] # << >>, NEW f \in Frames, IsInjective(f.submit),
           f.task = Pool!back(s[t]).task, NEW z, z = WithTop(s, t, f)
    PROVE  Calling(z) /\ Calls(z) = (Calls(s) \ {CallOf(Pool!back(s[t]))}) \cup {CallOf(f)}
  <1>0. /\ s \in Stacks /\ OneCallEach(s)
        /\ \A u \in Pool!Threads : \A i \in DOMAIN s[u] : IsInjective(s[u][i].submit)
    BY DEF Calling
  <1> DEFINE n == Len(s[t])
  <1>1. s[t] \in Seq(Frames) BY <1>0 DEF Stacks
  <1>2. /\ Pool!pop_back(s[t]) \in Seq(Frames) /\ Len(Pool!pop_back(s[t])) = n - 1
        /\ \A i \in 1 .. n - 1 : Pool!pop_back(s[t])[i] = s[t][i]
        /\ Pool!back(s[t]) = s[t][n] /\ n \in DOMAIN s[t] /\ DOMAIN s[t] = 1 .. n /\ n \in Nat
    BY <1>1, FrontOf
  <1>14. z = [s EXCEPT ![t] = Append(Pool!pop_back(@), f)] BY DEF WithTop
  <1>3. z[t] = Append(Pool!pop_back(s[t]), f) /\ \A u \in Pool!Threads \ {t} : z[u] = s[u]
    BY <1>0, <1>14 DEF Stacks
  <1>4. /\ z[t] \in Seq(Frames) /\ DOMAIN z[t] = 1 .. n /\ z[t][n] = f
        /\ \A i \in 1 .. n - 1 : z[t][i] = s[t][i]
    BY <1>2, <1>3, AppendProperties
  <1>5. z \in Stacks BY <1>0, <1>4, <1>14 DEF Stacks
  <1>6. /\ \A u \in Pool!Threads : DOMAIN z[u] = DOMAIN s[u]
        /\ \A u \in Pool!Threads : \A i \in DOMAIN s[u] : z[u][i] = IF u = t /\ i = n THEN f ELSE s[u][i]
    <2>1. DOMAIN z[t] = DOMAIN s[t] /\ \A i \in DOMAIN s[t] : z[t][i] = IF i = n THEN f ELSE s[t][i]
      BY <1>2, <1>4
    <2>2. \A u \in Pool!Threads \ {t} : z[u] = s[u] BY <1>3
    <2> HIDE DEF n
    <2> QED BY <2>1, <2>2, Zenon
  <1> HIDE DEF n
  <1>8. \A u \in Pool!Threads : \A i \in DOMAIN s[u] : z[u][i].task = s[u][i].task BY <1>2, <1>6
  <1>9. OneCallEach(z) BY <1>0, <1>6, <1>8 DEF OneCallEach
  <1>10. \A u \in Pool!Threads : \A i \in DOMAIN s[u] :
            (u = t /\ i = n) \/ CallOf(s[u][i]) # CallOf(Pool!back(s[t]))
    BY <1>0, <1>2 DEF OneCallEach, CallOf
  <1>11. n \in DOMAIN z[t] /\ z[t][n] = f BY <1>2, <1>6
  <1>15. {CallOf(f)} \subseteq Calls(z) BY <1>11, CallIn
  <1>12. Calls(z) = (Calls(s) \ {CallOf(Pool!back(s[t]))}) \cup {CallOf(f)}
    <2> DEFINE old == {CallOf(Pool!back(s[t]))}
               new == {CallOf(f)}
    <2>1. \A u \in Pool!Threads : \A i \in DOMAIN z[u] :
            CallOf(z[u][i]) \in new \/ (i \in DOMAIN s[u] /\ z[u][i] = s[u][i] /\ CallOf(s[u][i]) \notin old)
      BY <1>6, <1>10
    <2>2. \A u \in Pool!Threads : \A i \in DOMAIN s[u] :
            CallOf(s[u][i]) \in old \/ (i \in DOMAIN z[u] /\ z[u][i] = s[u][i])
      BY <1>2, <1>6
    <2> HIDE DEF old
    <2>3. new \subseteq Calls(z) BY <1>15
    <2> HIDE DEF new
    <2>4. Replaced(s, z, old, new) BY <2>1, <2>2, <2>3 DEF Replaced
    <2>5. Calls(z) = (Calls(s) \ old) \cup new BY <2>4, CallsAre
    <2> QED BY <2>5 DEF old, new
  <1>13. \A u \in Pool!Threads : \A i \in DOMAIN z[u] : IsInjective(z[u][i].submit) BY <1>0, <1>6
  <1> QED BY <1>5, <1>9, <1>12, <1>13 DEF Calling

LEMMA CallAdded ==
    ASSUME NEW s, Calling(s), NEW t \in Pool!Threads, NEW f \in Frames, IsInjective(f.submit),
           \A c \in Calls(s) : c.task # f.task, NEW z, z = [s EXCEPT ![t] = Append(@, f)]
    PROVE  Calling(z) /\ Calls(z) = Calls(s) \cup {CallOf(f)}
  <1>0. /\ s \in Stacks /\ OneCallEach(s)
        /\ \A u \in Pool!Threads : \A i \in DOMAIN s[u] : IsInjective(s[u][i].submit)
    BY DEF Calling
  <1> DEFINE n == Len(s[t])
  <1>1. s[t] \in Seq(Frames) /\ n \in Nat /\ DOMAIN s[t] = 1 .. n BY <1>0 DEF Stacks
  <1>2. z[t] = Append(s[t], f) /\ \A u \in Pool!Threads \ {t} : z[u] = s[u] BY <1>0 DEF Stacks
  <1>3. /\ z[t] \in Seq(Frames) /\ DOMAIN z[t] = DOMAIN s[t] \cup {n + 1} /\ z[t][n + 1] = f
        /\ \A i \in DOMAIN s[t] : z[t][i] = s[t][i]
    BY <1>1, <1>2, AppendProperties
  <1>4. z \in Stacks BY <1>0, <1>3 DEF Stacks
  <1>5. n + 1 \notin DOMAIN s[t] BY <1>1
  <1> HIDE DEF n
  <1>6. \A u \in Pool!Threads : \A i \in DOMAIN z[u] :
            \/ u = t /\ i = n + 1 /\ z[u][i] = f
            \/ i \in DOMAIN s[u] /\ z[u][i] = s[u][i]
    BY <1>2, <1>3
  <1>7. \A u \in Pool!Threads : \A i \in DOMAIN s[u] : i \in DOMAIN z[u] /\ z[u][i] = s[u][i]
    BY <1>2, <1>3
  <1>8. \A u \in Pool!Threads : \A i \in DOMAIN s[u] : s[u][i].task # f.task
    <2> SUFFICES ASSUME NEW u \in Pool!Threads, NEW i \in DOMAIN s[u]
                 PROVE  s[u][i].task # f.task
      OBVIOUS
    <2>1. CallOf(s[u][i]) \in Calls(s) /\ CallOf(s[u][i]).task = s[u][i].task BY CallIn DEF CallOf
    <2> QED BY <2>1
  <1>9. OneCallEach(z) BY <1>0, <1>6, <1>8 DEF OneCallEach
  <1>10. {CallOf(f)} \subseteq Calls(z)
    <2>1. n + 1 \in DOMAIN z[t] /\ z[t][n + 1] = f BY <1>3
    <2> QED BY <2>1, CallIn
  <1>11. Calls(z) = (Calls(s) \ {}) \cup {CallOf(f)}
    <2> DEFINE new == {CallOf(f)}
    <2>1. \A u \in Pool!Threads : \A i \in DOMAIN z[u] :
            CallOf(z[u][i]) \in new \/ (i \in DOMAIN s[u] /\ z[u][i] = s[u][i] /\ CallOf(s[u][i]) \notin {})
      BY <1>6
    <2>2. \A u \in Pool!Threads : \A i \in DOMAIN s[u] :
            CallOf(s[u][i]) \in {} \/ (i \in DOMAIN z[u] /\ z[u][i] = s[u][i])
      BY <1>7
    <2>3. new \subseteq Calls(z) BY <1>10
    <2> HIDE DEF new
    <2>4. Replaced(s, z, {}, new) BY <2>1, <2>2, <2>3 DEF Replaced
    <2>5. Calls(z) = (Calls(s) \ {}) \cup new BY <2>4, CallsAre
    <2> QED BY <2>5 DEF new
  <1>12. \A u \in Pool!Threads : \A i \in DOMAIN z[u] : IsInjective(z[u][i].submit) BY <1>0, <1>6
  <1> QED BY <1>4, <1>9, <1>11, <1>12 DEF Calling

LEMMA CallEnded ==
    ASSUME NEW s, Calling(s), NEW t \in Pool!Threads, s[t] # << >>,
           NEW z, z = [s EXCEPT ![t] = Pool!pop_back(@)]
    PROVE  Calling(z) /\ Calls(z) = Calls(s) \ {CallOf(Pool!back(s[t]))}
  <1>0. /\ s \in Stacks /\ OneCallEach(s)
        /\ \A u \in Pool!Threads : \A i \in DOMAIN s[u] : IsInjective(s[u][i].submit)
    BY DEF Calling
  <1> DEFINE n == Len(s[t])
  <1>1. s[t] \in Seq(Frames) BY <1>0 DEF Stacks
  <1>2. /\ Pool!pop_back(s[t]) \in Seq(Frames) /\ Len(Pool!pop_back(s[t])) = n - 1
        /\ \A i \in 1 .. n - 1 : Pool!pop_back(s[t])[i] = s[t][i]
        /\ Pool!back(s[t]) = s[t][n] /\ n \in DOMAIN s[t] /\ DOMAIN s[t] = 1 .. n /\ n \in Nat
    BY <1>1, FrontOf
  <1>3. z[t] = Pool!pop_back(s[t]) /\ \A u \in Pool!Threads \ {t} : z[u] = s[u] BY <1>0 DEF Stacks
  <1>4. /\ z[t] \in Seq(Frames) /\ DOMAIN z[t] = DOMAIN s[t] \ {n}
        /\ \A i \in DOMAIN s[t] \ {n} : z[t][i] = s[t][i]
    BY <1>2, <1>3
  <1>5. z \in Stacks BY <1>0, <1>4 DEF Stacks
  <1> HIDE DEF n
  <1>6. \A u \in Pool!Threads : \A i \in DOMAIN z[u] : i \in DOMAIN s[u] /\ z[u][i] = s[u][i] /\ ~(u = t /\ i = n)
    BY <1>3, <1>4
  <1>7. \A u \in Pool!Threads : \A i \in DOMAIN s[u] : (u = t /\ i = n) \/ (i \in DOMAIN z[u] /\ z[u][i] = s[u][i])
    BY <1>3, <1>4
  <1>8. OneCallEach(z) BY <1>0, <1>6 DEF OneCallEach
  <1>9. \A u \in Pool!Threads : \A i \in DOMAIN s[u] :
            (u = t /\ i = n) \/ CallOf(s[u][i]) # CallOf(Pool!back(s[t]))
    BY <1>0, <1>2 DEF OneCallEach, CallOf
  <1>11. Calls(z) = (Calls(s) \ {CallOf(Pool!back(s[t]))}) \cup {}
    <2> DEFINE old == {CallOf(Pool!back(s[t]))}
    <2>1. \A u \in Pool!Threads : \A i \in DOMAIN z[u] :
            CallOf(z[u][i]) \in {} \/ (i \in DOMAIN s[u] /\ z[u][i] = s[u][i] /\ CallOf(s[u][i]) \notin old)
      BY <1>6, <1>9
    <2>2. \A u \in Pool!Threads : \A i \in DOMAIN s[u] :
            CallOf(s[u][i]) \in old \/ (i \in DOMAIN z[u] /\ z[u][i] = s[u][i])
      BY <1>2, <1>7
    <2> HIDE DEF old
    <2>3. Replaced(s, z, old, {}) BY <2>1, <2>2 DEF Replaced
    <2>4. Calls(z) = (Calls(s) \ old) \cup {} BY <2>3, CallsAre
    <2> QED BY <2>4 DEF old
  <1>12. \A u \in Pool!Threads : \A i \in DOMAIN z[u] : IsInjective(z[u][i].submit) BY <1>0, <1>6
  <1> QED BY <1>5, <1>8, <1>11, <1>12 DEF Calling

LEMMA TopIsCall ==
    ASSUME NEW s, Calling(s), NEW t \in Pool!Threads, s[t] # << >>
    PROVE  /\ Pool!back(s[t]) \in Frames /\ IsInjective(Pool!back(s[t]).submit)
           /\ CallOf(Pool!back(s[t])) \in Calls(s)
  <1>1. s[t] \in Seq(Frames) /\ \A i \in DOMAIN s[t] : IsInjective(s[t][i].submit)
    BY DEF Calling, Stacks
  <1>2. Pool!back(s[t]) = s[t][Len(s[t])] /\ Len(s[t]) \in DOMAIN s[t] BY <1>1, FrontOf
  <1> QED BY <1>1, <1>2, CallIn

-----------------------------------------------------------------------------
QueueOf(h) == IF h = 0 THEN pool_work_queue ELSE local_work_queue[h]
InQueues == [h \in Queues |-> Range(QueueOf(h))]

PoolTyped == /\ version \in 1 .. 5 /\ look \in [Pool!Threads -> -1 .. N + 1]
             /\ pool_work_queue \in Seq(Pool!Tasks) /\ local_work_queue \in [Pool!Workers -> Seq(Pool!Tasks)]
PoolInv == /\ PoolTyped /\ Calling(stack)
           /\ \A h \in Queues : IsInjective(QueueOf(h))
           /\ Sound(InQueues, Calls(stack), ready)

LEMMA QueueTypes == ASSUME Pool!PoolAssumption, PoolTyped PROVE \A h \in Queues : QueueOf(h) \in Seq(Pool!Tasks)
  BY MakesApart DEF PoolTyped, QueueOf

LEMMA QueueChanged ==
    ASSUME NEW k \in Queues, \A h \in Queues \ {k} : QueueOf(h)' = QueueOf(h), NEW S, Range(QueueOf(k)') = S
    PROVE  InQueues' = [InQueues EXCEPT ![k] = S]
  <1>1. \A h \in Queues : Range(QueueOf(h)') = IF h = k THEN S ELSE Range(QueueOf(h)) OBVIOUS
  <1>2. InQueues' = [h \in Queues |-> Range(QueueOf(h)')] BY DEF InQueues
  <1>3. [InQueues EXCEPT ![k] = S] = [h \in Queues |-> IF h = k THEN S ELSE Range(QueueOf(h))]
    BY DEF InQueues
  <1> QED BY <1>1, <1>2, <1>3

LEMMA CallFacts ==
    ASSUME Pool!PoolAssumption, NEW x \in Callable, NEW awaits, awaits \in {<< >>, Pool!Submits(x)},
           NEW f, f = Pool!Call(x, Pool!Submits(x), awaits)
    PROVE  /\ f \in Frames /\ f.task = x /\ IsInjective(f.submit) /\ Range(f.await) \subseteq Makes(x)
           /\ CallOf(f) = [task |-> x, submit |-> Makes(x), await |-> Range(f.await)]
  <1>1. Pool!Submits(x) \in Seq(Pool!Tasks) /\ IsInjective(Pool!Submits(x)) /\ << >> \in Seq(Pool!Tasks)
    BY MakesApart
  <1>2. f.task = x /\ f.submit = Pool!Submits(x) /\ f.await \in {<< >>, Pool!Submits(x)}
    BY DEF Pool!Call
  <1>3. f \in Frames BY <1>1, <1>2 DEF Pool!Call, Frames
  <1>4. Range(f.await) \subseteq Makes(x) BY <1>2 DEF Makes, Range
  <1> QED BY <1>1, <1>2, <1>3, <1>4 DEF CallOf, Makes

LEMMA PoolBegins == ASSUME Pool!PoolAssumption, Pool!Init PROVE PoolInv
  <1>1. PICK awaits \in {<< >>, Roots} :
           stack = [t \in Pool!Threads |-> IF t = Pool!Main THEN <<Pool!Call(0, Roots, awaits)>> ELSE << >>]
    BY DEF Pool!Init
  <1>2. 0 \in Callable /\ Roots = Pool!Submits(0) /\ Pool!Main = 0 /\ 0 \in Pool!Threads /\ Queues = {0} \cup Pool!Workers
    BY MakesApart DEF Callable, Pool!Submits, Pool!Main, Pool!Threads
  <1>3. PICK f : f = Pool!Call(0, Roots, awaits) OBVIOUS
  <1>4. /\ f \in Frames /\ f.task = 0 /\ IsInjective(f.submit) /\ Range(f.await) \subseteq Makes(0)
        /\ CallOf(f) = [task |-> 0, submit |-> Makes(0), await |-> Range(f.await)]
    BY <1>2, <1>3, CallFacts
  <1>5. \A t \in Pool!Threads : stack[t] = IF t = 0 THEN <<f>> ELSE << >> BY <1>1, <1>2, <1>3
  <1>6. <<f>> \in Seq(Frames) /\ << >> \in Seq(Frames) /\ DOMAIN <<f>> = {1} /\ <<f>>[1] = f
    BY <1>4
  <1>7. stack \in Stacks BY <1>1, <1>2, <1>3, <1>6 DEF Stacks
  <1>8. \A t \in Pool!Threads : \A i \in DOMAIN stack[t] : t = 0 /\ i = 1 /\ stack[t][i] = f
    BY <1>5, <1>6
  <1>9. PoolTyped BY MakesApart DEF Pool!Init, PoolTyped
  <1>10. \A h \in Queues : QueueOf(h) = << >> BY <1>2 DEF Pool!Init, QueueOf
  <1>11. \A h \in Queues : IsInjective(QueueOf(h)) /\ InQueues[h] = {}
    BY <1>10 DEF IsInjective, InQueues, Range
  <1>12. Calls(stack) = {CallOf(f)}
    <2>1. \A c \in Calls(stack) : c = CallOf(f) BY <1>8, IsCall
    <2>2. 1 \in DOMAIN stack[0] /\ stack[0][1] = f BY <1>2, <1>5, <1>6
    <2>3. CallOf(f) \in Calls(stack) BY <1>2, <2>2, CallIn
    <2> QED BY <2>1, <2>3
  <1>13. ready = {} /\ InQueues \in [Queues -> SUBSET Pool!Tasks]
    <2>1. InQueues = [h \in Queues |-> InQueues[h]] BY DEF InQueues
    <2> QED BY <1>11, <2>1 DEF Pool!Init
  <1>14. Sound(InQueues, {CallOf(f)}, {})
    <2> DEFINE H == InQueues
               c == CallOf(f)
    <2>1. c.task = 0 /\ c.submit = Makes(0) /\ c.await \subseteq Makes(0) /\ Makes(0) \subseteq Pool!Tasks
      BY <1>2, <1>4, MakesApart
    <2>2. c \in [task : Callable, submit : SUBSET Pool!Tasks, await : SUBSET Pool!Tasks]
      BY <1>2, <1>4, <2>1
    <2>3. \A h \in Queues : H[h] = {} BY <1>11
    <2>4. \A z : z \in Held(H, {c}, {}) => z = 0
      <3>1. \A z : z \in Called({c}) => z = 0 BY <2>1, IsCalled
      <3> QED BY <2>3, <3>1, IsHeld
    <2>5. SetsTyped(H, {c}, {}) BY <1>13, <2>2 DEF SetsTyped
    <2> HIDE DEF c, H
    <2>6. HeldOnce(H, {c}, {}) BY <2>3 DEF HeldOnce
    <2>7. ToCome(H, {c}, {})
      <3>1. \A z \in Makes(0) : z \notin Held(H, {c}, {}) BY <2>1, <2>4, MakesApart
      <3> QED BY <2>1, <3>1 DEF ToCome
    <2>8. Begun(H, {c}, {})
      <3>1. \A y \in Pool!Tasks : Makes(y) \subseteq Pool!Tasks BY MakesApart DEF Callable
      <3> QED BY <2>4, <3>1, MakesApart DEF Begun
    <2>9. Sound(H, {c}, {}) BY <2>5, <2>6, <2>7, <2>8 DEF Sound
    <2> QED BY <2>9 DEF c, H
  <1>15. OneCallEach(stack) BY <1>8 DEF OneCallEach
  <1>16. Calling(stack) BY <1>4, <1>7, <1>8, <1>15 DEF Calling
  <1> QED BY <1>9, <1>11, <1>12, <1>13, <1>14, <1>16 DEF PoolInv

\* A task is taken from the queue of index k, and run.
LEMMA StartKeeps ==
    ASSUME Pool!PoolAssumption, PoolInv, NEW t \in Pool!Threads, NEW k \in Queues,
           NEW x \in Range(QueueOf(k)), Pool!Start(t, x), version' = version, ready' = ready,
           \A h \in Queues \ {k} : QueueOf(h)' = QueueOf(h),
           Range(QueueOf(k)') = Range(QueueOf(k)) \ {x}, IsInjective(QueueOf(k)'),
           pool_work_queue' \in Seq(Pool!Tasks), local_work_queue' \in [Pool!Workers -> Seq(Pool!Tasks)]
    PROVE  PoolInv'
  <1>1. PoolTyped /\ Calling(stack) /\ Sound(InQueues, Calls(stack), ready) BY DEF PoolInv
  <1>2. x \in InQueues[k] BY DEF InQueues
  <1>3. InQueues' = [InQueues EXCEPT ![k] = @ \ {x}]
    <2>1. InQueues' = [InQueues EXCEPT ![k] = Range(QueueOf(k)) \ {x}] BY QueueChanged
    <2>2. InQueues[k] = Range(QueueOf(k)) BY DEF InQueues
    <2> QED BY <2>1, <2>2
  <1>4. x \in Pool!Tasks /\ x \in Callable /\ \A c \in Calls(stack) : c.task # x
    BY <1>1, <1>2 DEF Sound, SetsTyped, HeldOnce, Callable
  <1>5. Pool!Submits(x) = Kids[x] BY <1>4, MakesApart DEF Pool!Submits
  <1>6. PICK f : f = Pool!Run(x) OBVIOUS
  <1>7. f = Pool!Call(x, Pool!Submits(x), Pool!Submits(x)) BY <1>5, <1>6 DEF Pool!Run
  <1>8. /\ f \in Frames /\ f.task = x /\ IsInjective(f.submit) /\ Range(f.await) \subseteq Makes(x)
        /\ CallOf(f) = [task |-> x, submit |-> Makes(x), await |-> Range(f.await)]
    BY <1>4, <1>7, CallFacts
  <1>9. stack' = [stack EXCEPT ![t] = Append(@, f)] /\ look' = [look EXCEPT ![t] = -1]
    BY <1>6 DEF Pool!Start
  <1>10. Calling(stack') /\ Calls(stack') = Calls(stack) \cup {CallOf(f)}
    <2>1. stack' = [stack EXCEPT ![t] = Append(@, f)] BY <1>9
    <2>2. \A c \in Calls(stack) : c.task # f.task BY <1>4, <1>8
    <2>3. f \in Frames /\ IsInjective(f.submit) BY <1>8
    <2> QED BY <1>1, <2>1, <2>2, <2>3, CallAdded
  <1>11. Sound(InQueues', Calls(stack'), ready)
    <2> DEFINE awaits == Range(f.await)
               d == CallOf(f)
    <2>1. d = [task |-> x, submit |-> Makes(x), await |-> awaits] /\ awaits \in SUBSET Makes(x)
      BY <1>8
    <2>2. Calls(stack') = Calls(stack) \cup {d} BY <1>10
    <2> HIDE DEF d, awaits
    <2> QED BY <1>1, <1>2, <1>3, <2>1, <2>2, StartSound
  <1>12. PoolTyped'
    <2>1. look' \in [Pool!Threads -> -1 .. N + 1] BY <1>1, <1>9, MakesApart DEF PoolTyped
    <2> QED BY <1>1, <2>1 DEF PoolTyped
  <1>13. \A h \in Queues : IsInjective(QueueOf(h)') BY DEF PoolInv
  <1> QED BY <1>10, <1>11, <1>12, <1>13 DEF PoolInv

LEMMA PoolSubmits ==
    ASSUME Pool!PoolAssumption, PoolInv, NEW t \in Pool!Threads, Pool!Submit(t) PROVE PoolInv'
  <1>1. /\ PoolTyped /\ Calling(stack) /\ Sound(InQueues, Calls(stack), ready)
        /\ \A h \in Queues : IsInjective(QueueOf(h)) /\ QueueOf(h) \in Seq(Pool!Tasks)
    BY QueueTypes DEF PoolInv
  <1>20. PICK top, x, f, k :
            /\ top = Pool!back(stack[t]) /\ x = Head(top.submit) /\ f = [top EXCEPT !.submit = Tail(@)]
            /\ k = IF version >= 4 /\ t \in Pool!Workers THEN t ELSE 0
    OBVIOUS
  <1>2. stack[t] # << >> /\ top.submit # << >> /\ UNCHANGED <<version, look, ready>>
    BY <1>20 DEF Pool!Submit, Pool!InTask, Pool!Idle, Pool!Top
  <1>3. stack' = [stack EXCEPT ![t] = Append(Pool!pop_back(@), f)]
    BY <1>20 DEF Pool!Submit, Pool!SetTop, Pool!Top
  <1>4. k \in Queues /\ k \in {0} \cup Pool!Workers BY <1>20, MakesApart
  <1>5. /\ \A h \in Queues \ {k} : QueueOf(h)' = QueueOf(h)
        /\ (QueueOf(k)' = Append(QueueOf(k), x) \/ QueueOf(k)' = <<x>> \o QueueOf(k))
        /\ local_work_queue' = [w \in Pool!Workers |-> local_work_queue'[w]]
    <2>1. local_work_queue \in [Pool!Workers -> Seq(Pool!Tasks)] BY <1>1 DEF PoolTyped
    <2>2. CASE version >= 4 /\ t \in Pool!Workers
      <3>1. /\ local_work_queue' = [local_work_queue EXCEPT ![t] = IF version = 4 THEN Append(@, x) ELSE <<x>> \o @]
            /\ pool_work_queue' = pool_work_queue
        BY <1>20, <2>2 DEF Pool!Submit, Pool!Top
      <3>2. k = t /\ k # 0 BY <1>20, <2>2, MakesApart
      <3>3. local_work_queue'[t] = Append(local_work_queue[t], x) \/ local_work_queue'[t] = <<x>> \o local_work_queue[t]
        BY <2>1, <2>2, <3>1
      <3>4. \A w \in Pool!Workers \ {t} : local_work_queue'[w] = local_work_queue[w]
        BY <2>1, <2>2, <3>1
      <3>5. QueueOf(t)' = local_work_queue'[t] /\ QueueOf(t) = local_work_queue[t]
        BY <3>2 DEF QueueOf
      <3>6. \A h \in Queues \ {t} : QueueOf(h)' = QueueOf(h) BY <3>1, <3>4, MakesApart DEF QueueOf
      <3>7. local_work_queue' = [w \in Pool!Workers |-> local_work_queue'[w]] BY <2>1, <3>1
      <3> QED BY <3>2, <3>3, <3>5, <3>6, <3>7
    <2>3. CASE ~(version >= 4 /\ t \in Pool!Workers)
      <3>1. local_work_queue' = local_work_queue /\ pool_work_queue' = Append(pool_work_queue, x)
        BY <1>20, <2>3 DEF Pool!Submit, Pool!Top
      <3>2. k = 0 BY <1>20, <2>3
      <3>3. QueueOf(0)' = Append(QueueOf(0), x) /\ \A h \in Queues \ {0} : QueueOf(h)' = QueueOf(h)
        BY <3>1 DEF QueueOf
      <3> QED BY <2>1, <3>1, <3>2, <3>3
    <2> QED BY <2>2, <2>3
  <1>6. top \in Frames /\ IsInjective(top.submit) /\ CallOf(top) \in Calls(stack)
    BY <1>1, <1>2, <1>20, TopIsCall
  <1>7. top.submit \in Seq(Pool!Tasks) /\ top.await \in Seq(Pool!Tasks) /\ top.task \in Callable
    BY <1>6 DEF Frames
  <1>8. /\ x \in Range(top.submit) /\ x \in Pool!Tasks /\ Tail(top.submit) \in Seq(Pool!Tasks)
        /\ Range(Tail(top.submit)) = Range(top.submit) \ {x} /\ IsInjective(Tail(top.submit))
    BY <1>2, <1>6, <1>7, <1>20, HeadTaken, HeadTailProperties
  <1>9. /\ f \in Frames /\ f.task = top.task /\ f.submit = Tail(top.submit) /\ f.await = top.await
    BY <1>6, <1>7, <1>8, <1>20 DEF Frames
  <1>10. CallOf(f) = [task |-> CallOf(top).task, submit |-> CallOf(top).submit \ {x}, await |-> CallOf(top).await]
    <2>1. Range(f.submit) = Range(top.submit) \ {x} /\ f.task = top.task /\ f.await = top.await
      BY <1>8, <1>9
    <2>2. CallOf(top).task = top.task /\ CallOf(top).submit = Range(top.submit) /\ CallOf(top).await = Range(top.await)
      BY DEF CallOf
    <2>3. CallOf(f) = [task |-> f.task, submit |-> Range(f.submit), await |-> Range(f.await)]
      BY DEF CallOf
    <2> QED BY <2>1, <2>2, <2>3
  <1>11. x \in CallOf(top).submit BY <1>8 DEF CallOf
  <1>12. IsInjective(f.submit) BY <1>8, <1>9
  <1>13. Calling(stack') /\ Calls(stack') = (Calls(stack) \ {CallOf(top)}) \cup {CallOf(f)}
    <2>1. f \in Frames /\ f.task = Pool!back(stack[t]).task /\ IsInjective(f.submit)
      BY <1>9, <1>12, <1>20
    <2>2. stack' = WithTop(stack, t, f) BY <1>3 DEF WithTop
    <2>4. Calling(stack) /\ stack[t] # << >> BY <1>1, <1>2
    <2>3. Calling(stack') /\ Calls(stack') = (Calls(stack) \ {CallOf(Pool!back(stack[t]))}) \cup {CallOf(f)}
      BY <2>1, <2>2, <2>4, TopChanges
    <2> QED BY <1>20, <2>3
  <1>14. x \notin Range(QueueOf(k))
    <2>1. x \notin Held(InQueues, Calls(stack), ready) BY <1>1, <1>6, <1>11 DEF Sound, ToCome
    <2>2. x \notin InQueues[k] BY <1>4, <2>1, IsHeld
    <2> QED BY <1>4, <2>2 DEF InQueues
  <1>15. /\ QueueOf(k)' \in Seq(Pool!Tasks) /\ Range(QueueOf(k)') = Range(QueueOf(k)) \cup {x}
         /\ IsInjective(QueueOf(k)')
    BY <1>1, <1>4, <1>5, <1>8, <1>14, Put
  <1>16. InQueues' = [InQueues EXCEPT ![k] = @ \cup {x}]
    <2>1. InQueues' = [InQueues EXCEPT ![k] = Range(QueueOf(k)) \cup {x}]
      <3>1. Range(QueueOf(k)') = Range(QueueOf(k)) \cup {x} /\ \A h \in Queues \ {k} : QueueOf(h)' = QueueOf(h)
        BY <1>5, <1>15
      <3> QED BY <1>4, <3>1, QueueChanged
    <2>2. InQueues[k] = Range(QueueOf(k)) BY <1>4 DEF InQueues
    <2> QED BY <2>1, <2>2
  <1>17. Sound(InQueues', Calls(stack'), ready)
    BY <1>1, <1>4, <1>6, <1>10, <1>11, <1>13, <1>16, SubmitSound
  <1>18. \A h \in Queues : IsInjective(QueueOf(h)') /\ QueueOf(h)' \in Seq(Pool!Tasks)
    <2>1. \A h \in Queues \ {k} : IsInjective(QueueOf(h)') /\ QueueOf(h)' \in Seq(Pool!Tasks)
      BY <1>1, <1>5
    <2>2. IsInjective(QueueOf(k)') /\ QueueOf(k)' \in Seq(Pool!Tasks) BY <1>15
    <2> QED BY <2>1, <2>2
  <1>19. PoolTyped'
    <2>3. pool_work_queue' = QueueOf(0)' /\ \A w \in Pool!Workers : local_work_queue'[w] = QueueOf(w)'
      BY MakesApart DEF QueueOf
    <2>1. pool_work_queue' \in Seq(Pool!Tasks) /\ \A w \in Pool!Workers : local_work_queue'[w] \in Seq(Pool!Tasks)
      BY <1>18, <2>3, MakesApart
    <2>2. local_work_queue' \in [Pool!Workers -> Seq(Pool!Tasks)] BY <1>5, <2>1
    <2> QED BY <1>1, <1>2, <2>1, <2>2 DEF PoolTyped
  <1> QED BY <1>2, <1>13, <1>17, <1>18, <1>19 DEF PoolInv

LEMMA PoolGets ==
    ASSUME Pool!PoolAssumption, PoolInv, NEW t \in Pool!Threads, Pool!Get(t) PROVE PoolInv'
  <1>1. /\ PoolTyped /\ Calling(stack) /\ Sound(InQueues, Calls(stack), ready)
        /\ \A h \in Queues : IsInjective(QueueOf(h))
    BY DEF PoolInv
  <1>20. PICK top, f : top = Pool!back(stack[t]) /\ f = [top EXCEPT !.await = Tail(@)] OBVIOUS
  <1>2. /\ stack[t] # << >> /\ top.await # << >>
        /\ UNCHANGED <<version, look, ready, pool_work_queue, local_work_queue>>
    BY <1>20 DEF Pool!Get, Pool!Waits, Pool!InTask, Pool!Idle, Pool!Top, Pool!queues
  <1>3. stack' = [stack EXCEPT ![t] = Append(Pool!pop_back(@), f)]
    BY <1>20 DEF Pool!Get, Pool!SetTop, Pool!Top
  <1>4. top \in Frames /\ IsInjective(top.submit) /\ CallOf(top) \in Calls(stack)
    BY <1>1, <1>2, <1>20, TopIsCall
  <1>5. top.submit \in Seq(Pool!Tasks) /\ top.await \in Seq(Pool!Tasks) /\ top.task \in Callable
    BY <1>4 DEF Frames
  <1>6. Tail(top.await) \in Seq(Pool!Tasks) /\ Range(Tail(top.await)) \subseteq Range(top.await)
    BY <1>2, <1>5, HeadTaken
  <1>7. /\ f \in Frames /\ f.task = top.task /\ f.submit = top.submit /\ f.await = Tail(top.await)
        /\ IsInjective(f.submit)
    BY <1>4, <1>5, <1>6, <1>20 DEF Frames
  <1>8. CallOf(f) = [task |-> CallOf(top).task, submit |-> CallOf(top).submit, await |-> Range(Tail(top.await))]
    BY <1>7 DEF CallOf
  <1>9. Range(Tail(top.await)) \in SUBSET CallOf(top).await BY <1>6 DEF CallOf
  <1>10. Calling(stack') /\ Calls(stack') = (Calls(stack) \ {CallOf(top)}) \cup {CallOf(f)}
    <2>1. f \in Frames /\ f.task = Pool!back(stack[t]).task /\ IsInjective(f.submit) BY <1>7, <1>20
    <2>2. stack' = WithTop(stack, t, f) BY <1>3 DEF WithTop
    <2>4. Calling(stack) /\ stack[t] # << >> BY <1>1, <1>2
    <2>3. Calling(stack') /\ Calls(stack') = (Calls(stack) \ {CallOf(Pool!back(stack[t]))}) \cup {CallOf(f)}
      BY <2>1, <2>2, <2>4, TopChanges
    <2> QED BY <1>20, <2>3
  <1>11. Sound(InQueues, Calls(stack'), ready) BY <1>1, <1>4, <1>8, <1>9, <1>10, GetSound
  <1>12. InQueues' = InQueues /\ \A h \in Queues : QueueOf(h)' = QueueOf(h)
    BY <1>2 DEF InQueues, QueueOf
  <1>13. PoolTyped' BY <1>1, <1>2 DEF PoolTyped
  <1> QED BY <1>1, <1>2, <1>10, <1>11, <1>12, <1>13 DEF PoolInv

LEMMA PoolFinishes ==
    ASSUME Pool!PoolAssumption, PoolInv, NEW t \in Pool!Threads, Pool!Finish(t) PROVE PoolInv'
  <1>1. /\ PoolTyped /\ Calling(stack) /\ Sound(InQueues, Calls(stack), ready)
        /\ \A h \in Queues : IsInjective(QueueOf(h))
    BY DEF PoolInv
  <1> DEFINE top == Pool!back(stack[t])
             after == IF top.task = 0 THEN ready ELSE ready \cup {top.task}
  <1>2. /\ stack[t] # << >> /\ UNCHANGED <<version, look, pool_work_queue, local_work_queue>>
        /\ stack' = [stack EXCEPT ![t] = Pool!pop_back(@)] /\ ready' = after
    BY DEF Pool!Finish, Pool!InTask, Pool!Idle, Pool!Top, Pool!queues
  <1>3. CallOf(top) \in Calls(stack) /\ CallOf(top).task = top.task
    BY <1>1, <1>2, TopIsCall DEF CallOf
  <1>4. Calling(stack') /\ Calls(stack') = Calls(stack) \ {CallOf(top)} BY <1>1, <1>2, CallEnded
  <1> HIDE DEF top
  <1>5. after = IF CallOf(top).task = 0 THEN ready ELSE ready \cup {CallOf(top).task} BY <1>3
  <1> HIDE DEF after
  <1>6. Sound(InQueues, Calls(stack'), after) BY <1>1, <1>3, <1>4, <1>5, FinishSound
  <1>7. InQueues' = InQueues /\ \A h \in Queues : QueueOf(h)' = QueueOf(h)
    BY <1>2 DEF InQueues, QueueOf
  <1>8. PoolTyped' BY <1>1, <1>2 DEF PoolTyped
  <1> QED BY <1>1, <1>2, <1>4, <1>6, <1>7, <1>8 DEF PoolInv

LEMMA OnlyLooks ==
    ASSUME PoolInv, UNCHANGED <<version, pool_work_queue, local_work_queue, stack, ready>>,
           look' \in [Pool!Threads -> -1 .. N + 1]
    PROVE  PoolInv'
  <1>1. PoolTyped' BY DEF PoolInv, PoolTyped
  <1>2. InQueues' = InQueues /\ \A h \in Queues : QueueOf(h)' = QueueOf(h) BY DEF InQueues, QueueOf
  <1> QED BY <1>1, <1>2 DEF PoolInv

LEMMA PoolLooks ==
    ASSUME Pool!PoolAssumption, PoolInv, NEW t \in Pool!Threads, Pool!RunPendingTask(t) \/ Pool!Exit(t)
    PROVE  PoolInv'
  <1>1. look' \in [Pool!Threads -> -1 .. N + 1]
    BY MakesApart DEF PoolInv, PoolTyped, Pool!RunPendingTask, Pool!Exit
  <1> QED BY <1>1, OnlyLooks DEF Pool!RunPendingTask, Pool!Exit, Pool!queues

LEMMA PoolPopsLocal ==
    ASSUME Pool!PoolAssumption, PoolInv, NEW t \in Pool!Threads, Pool!PopLocal(t) PROVE PoolInv'
  <1>1. /\ PoolTyped /\ local_work_queue \in [Pool!Workers -> Seq(Pool!Tasks)]
        /\ pool_work_queue \in Seq(Pool!Tasks)
        /\ \A h \in Queues : IsInjective(QueueOf(h))
    BY DEF PoolInv, PoolTyped
  <1>2. CASE t \in Pool!Workers /\ local_work_queue[t] # << >>
    <2> DEFINE q == local_work_queue[t]
    <2>1. /\ Pool!Start(t, Head(q)) /\ local_work_queue' = [local_work_queue EXCEPT ![t] = Tail(@)]
          /\ UNCHANGED <<version, pool_work_queue, ready>>
      BY <1>2 DEF Pool!PopLocal
    <2>2. t \in Queues /\ t # 0 /\ QueueOf(t) = q /\ q \in Seq(Pool!Tasks) /\ q # << >>
      BY <1>1, <1>2, MakesApart DEF QueueOf
    <2>3. QueueOf(t)' = Tail(q) /\ \A h \in Queues \ {t} : QueueOf(h)' = QueueOf(h)
      BY <1>1, <1>2, <2>1, <2>2, MakesApart DEF QueueOf
    <2> HIDE DEF q
    <2>4. IsInjective(q) BY <1>1, <2>2
    <2>5. /\ Head(q) \in Range(q) /\ Tail(q) \in Seq(Pool!Tasks)
          /\ Range(Tail(q)) = Range(q) \ {Head(q)} /\ IsInjective(Tail(q))
      BY <2>2, <2>4, HeadTaken
    <2>6. local_work_queue' \in [Pool!Workers -> Seq(Pool!Tasks)] BY <1>1, <2>1, <2>5 DEF q
    <2> QED BY <1>1, <2>1, <2>2, <2>3, <2>5, <2>6, StartKeeps
  <1>3. CASE ~(t \in Pool!Workers /\ local_work_queue[t] # << >>)
    <2>1. look' = [look EXCEPT ![t] = 1] /\ UNCHANGED <<version, pool_work_queue, local_work_queue, stack, ready>>
      BY <1>3 DEF Pool!PopLocal
    <2>2. look' \in [Pool!Threads -> -1 .. N + 1] BY <1>1, <2>1, MakesApart DEF PoolTyped
    <2> QED BY <2>1, <2>2, OnlyLooks
  <1> QED BY <1>2, <1>3

LEMMA PoolPopsPool ==
    ASSUME Pool!PoolAssumption, PoolInv, NEW t \in Pool!Threads, Pool!PopPool(t) PROVE PoolInv'
  <1>1. /\ PoolTyped /\ local_work_queue \in [Pool!Workers -> Seq(Pool!Tasks)]
        /\ pool_work_queue \in Seq(Pool!Tasks)
        /\ \A h \in Queues : IsInjective(QueueOf(h))
    BY DEF PoolInv, PoolTyped
  <1>2. CASE pool_work_queue # << >>
    <2> DEFINE q == pool_work_queue
    <2>1. /\ Pool!Start(t, Head(q)) /\ pool_work_queue' = Tail(q)
          /\ UNCHANGED <<version, local_work_queue, ready>>
      BY <1>2 DEF Pool!PopPool
    <2>2. 0 \in Queues /\ QueueOf(0) = q /\ q \in Seq(Pool!Tasks) /\ q # << >>
      BY <1>1, <1>2, MakesApart DEF QueueOf
    <2>3. QueueOf(0)' = Tail(q) /\ \A h \in Queues \ {0} : QueueOf(h)' = QueueOf(h)
      BY <2>1 DEF QueueOf
    <2>4. IsInjective(q) BY <1>1, <2>2
    <2>5. /\ Head(q) \in Range(q) /\ Tail(q) \in Seq(Pool!Tasks)
          /\ Range(Tail(q)) = Range(q) \ {Head(q)} /\ IsInjective(Tail(q))
      BY <2>2, <2>4, HeadTaken
    <2> QED BY <1>1, <2>1, <2>2, <2>3, <2>5, StartKeeps
  <1>3. CASE pool_work_queue = << >>
    <2>1. /\ look' = [look EXCEPT ![t] = IF version = 5 THEN 2 ELSE -1]
          /\ UNCHANGED <<version, pool_work_queue, local_work_queue, stack, ready>>
      BY <1>3 DEF Pool!PopPool
    <2>2. look' \in [Pool!Threads -> -1 .. N + 1] BY <1>1, <2>1, MakesApart DEF PoolTyped
    <2> QED BY <2>1, <2>2, OnlyLooks
  <1> QED BY <1>2, <1>3

LEMMA PoolSteals ==
    ASSUME Pool!PoolAssumption, PoolInv, NEW t \in Pool!Threads, Pool!Steal(t) PROVE PoolInv'
  <1>1. /\ PoolTyped /\ local_work_queue \in [Pool!Workers -> Seq(Pool!Tasks)]
        /\ pool_work_queue \in Seq(Pool!Tasks) /\ look \in [Pool!Threads -> -1 .. N + 1]
        /\ \A h \in Queues : IsInjective(QueueOf(h))
    BY DEF PoolInv, PoolTyped
  <1> DEFINE my_index == IF t = Pool!Main THEN 0 ELSE t - 1
  <1>5. PICK victim : victim = 1 + ((my_index + look[t] - 1) % N) OBVIOUS
  <1>2. victim \in Pool!Workers
    <2>1. ASSUME NEW a \in Int, NEW n \in Nat \ {0} PROVE 1 + (a % n) \in 1 .. n OBVIOUS
    <2>2. my_index + look[t] - 1 \in Int /\ N \in Nat \ {0}
      <3>1. t \in Int /\ look[t] \in Int /\ N \in Nat \ {0}
        BY <1>1, MakesApart DEF Pool!Threads, Pool!Main
      <3> QED BY <3>1 DEF Pool!Main
    <2> HIDE DEF my_index
    <2> QED BY <1>5, <2>1, <2>2 DEF Pool!Workers
  <1>3. CASE local_work_queue[victim] # << >>
    <2>7. PICK q : q = local_work_queue[victim] OBVIOUS
    <2>1. /\ Pool!Start(t, Pool!back(q))
          /\ local_work_queue' = [local_work_queue EXCEPT ![victim] = Pool!pop_back(@)]
          /\ UNCHANGED <<version, pool_work_queue, ready>>
      BY <1>3, <1>5, <2>7 DEF Pool!Steal, Pool!Stolen
    <2>2. victim \in Queues /\ victim # 0 /\ QueueOf(victim) = q /\ q \in Seq(Pool!Tasks) /\ q # << >>
      BY <1>1, <1>2, <1>3, <2>7, MakesApart DEF QueueOf
    <2>3. QueueOf(victim)' = Pool!pop_back(q) /\ \A h \in Queues \ {victim} : QueueOf(h)' = QueueOf(h)
      <3>1. local_work_queue'[victim] = Pool!pop_back(q) BY <1>1, <1>2, <2>1, <2>7
      <3>2. \A w \in Pool!Workers \ {victim} : local_work_queue'[w] = local_work_queue[w]
        BY <1>1, <2>1
      <3>3. QueueOf(victim)' = local_work_queue'[victim] BY <2>2 DEF QueueOf
      <3>4. \A h \in Queues \ {victim} : QueueOf(h)' = QueueOf(h)
        BY <2>1, <3>2, MakesApart DEF QueueOf
      <3> QED BY <3>1, <3>3, <3>4
    <2>4. IsInjective(q) BY <1>1, <2>2
    <2>5. /\ Pool!back(q) \in Range(q) /\ Pool!pop_back(q) \in Seq(Pool!Tasks)
          /\ Range(Pool!pop_back(q)) = Range(q) \ {Pool!back(q)} /\ IsInjective(Pool!pop_back(q))
      BY <2>2, <2>4, LastTaken
    <2>6. local_work_queue' \in [Pool!Workers -> Seq(Pool!Tasks)] BY <1>1, <2>1, <2>5, <2>7
    <2>8. /\ Range(QueueOf(victim)') = Range(QueueOf(victim)) \ {Pool!back(q)} /\ IsInjective(QueueOf(victim)')
          /\ Pool!back(q) \in Range(QueueOf(victim)) /\ pool_work_queue' \in Seq(Pool!Tasks)
      BY <1>1, <2>1, <2>2, <2>3, <2>5
    <2> QED BY <2>1, <2>2, <2>3, <2>6, <2>8, StartKeeps
  <1>4. CASE local_work_queue[victim] = << >>
    <2>1. /\ look' = [look EXCEPT ![t] = IF @ = N + 1 THEN -1 ELSE @ + 1]
          /\ UNCHANGED <<version, pool_work_queue, local_work_queue, stack, ready>>
      BY <1>4, <1>5 DEF Pool!Steal
    <2>2. look' \in [Pool!Threads -> -1 .. N + 1] BY <1>1, <2>1, MakesApart
    <2> QED BY <2>1, <2>2, OnlyLooks
  <1> QED BY <1>3, <1>4

LEMMA PoolKept == ASSUME Pool!PoolAssumption, PoolInv, [Pool!Next]_(Pool!vars) PROVE PoolInv'
  <1>1. CASE UNCHANGED Pool!vars
    <2>1. UNCHANGED <<version, pool_work_queue, local_work_queue, stack, ready, look>>
      BY <1>1 DEF Pool!vars
    <2> QED BY <2>1, OnlyLooks DEF PoolInv, PoolTyped
  <1>2. CASE Pool!Next
    <2>1. PICK t \in Pool!Threads : Pool!Step(t) BY <1>2 DEF Pool!Next
    <2> QED BY <2>1, PoolSubmits, PoolGets, PoolLooks, PoolPopsLocal, PoolPopsPool, PoolSteals, PoolFinishes
             DEF Pool!Step
  <1> QED BY <1>1, <1>2

-----------------------------------------------------------------------------
(* Where a task is.                                                          *)

InPool(x) == {i \in DOMAIN pool_work_queue : pool_work_queue[i] = x}
InLocals(x) == UNION {{<<w, i>> : i \in {j \in DOMAIN local_work_queue[w] : local_work_queue[w][j] = x}} : w \in Pool!Workers}
InCalls(x) == UNION {{<<t, i>> : i \in {j \in DOMAIN stack[t] : stack[t][j].task = x}} : t \in Pool!Threads}

LEMMA PlacesAre == ASSUME NEW x
                   PROVE  Pool!Places(x) = Cardinality(InPool(x)) + Cardinality(InLocals(x)) + Cardinality(InCalls(x))
                                           + Cardinality(ready \cap {x})
  <1>1. \A S : Pool!Cardinality(S) = Cardinality(S)
    BY DEF Pool!Cardinality, Cardinality, Pool!IsFiniteSet, IsFiniteSet
  <1>2. Pool!Places(x) = Pool!Cardinality(InPool(x)) + Pool!Cardinality(InLocals(x)) + Pool!Cardinality(InCalls(x))
                         + Pool!Cardinality(ready \cap {x})
    BY DEF Pool!Places, InPool, InLocals, InCalls
  <1> QED BY <1>1, <1>2

LEMMA AtMostOne == ASSUME NEW S, \A a, b \in S : a = b PROVE Cardinality(S) = IF S = {} THEN 0 ELSE 1
  <1>1. CASE S = {} BY <1>1, FS_EmptySet
  <1>2. CASE S # {}
    <2>1. PICK a \in S : TRUE BY <1>2
    <2>2. S = {a} BY <2>1
    <2> QED BY <1>2, <2>2, FS_Singleton
  <1> QED BY <1>1, <1>2

LEMMA InCallsIs == ASSUME NEW x, NEW p
                   PROVE  p \in InCalls(x) <=> \E t \in Pool!Threads : \E i \in DOMAIN stack[t] :
                                                  p = <<t, i>> /\ stack[t][i].task = x
  BY DEF InCalls

LEMMA InLocalsIs == ASSUME NEW x, NEW p
                    PROVE  p \in InLocals(x) <=> \E w \in Pool!Workers : \E i \in DOMAIN local_work_queue[w] :
                                                    p = <<w, i>> /\ local_work_queue[w][i] = x
  BY DEF InLocals

LEMMA WhereTasksAre ==
    ASSUME Pool!PoolAssumption, PoolInv, NEW x \in Pool!Tasks
    PROVE  /\ Pool!Places(x) =< 1
           /\ x \in Held(InQueues, Calls(stack), ready) => Pool!Places(x) = 1
  <1>1. /\ PoolTyped /\ Calling(stack) /\ HeldOnce(InQueues, Calls(stack), ready)
        /\ \A h \in Queues : IsInjective(QueueOf(h)) /\ InQueues[h] = Range(QueueOf(h))
    BY DEF PoolInv, Sound, InQueues
  <1> DEFINE a == Cardinality(InPool(x))
             b == Cardinality(InLocals(x))
             c == Cardinality(InCalls(x))
             d == Cardinality(ready \cap {x})
             called == x \in Called(Calls(stack))
  <1>2. a = IF x \in InQueues[0] THEN 1 ELSE 0
    <2>1. 0 \in Queues /\ QueueOf(0) = pool_work_queue BY MakesApart DEF QueueOf
    <2>2. \A i, j \in InPool(x) : i = j BY <1>1, <2>1 DEF InPool, IsInjective
    <2>3. InPool(x) = {} <=> x \notin InQueues[0] BY <1>1, <2>1 DEF InPool, Range
    <2> QED BY <2>2, <2>3, AtMostOne
  <1>3. b = IF \E w \in Pool!Workers : x \in InQueues[w] THEN 1 ELSE 0
    <2>1. \A w \in Pool!Workers : /\ w \in Queues /\ QueueOf(w) = local_work_queue[w]
                                  /\ InQueues[w] = Range(local_work_queue[w]) /\ IsInjective(local_work_queue[w])
      BY <1>1, MakesApart DEF QueueOf
    <2>2. ASSUME NEW w \in Pool!Workers, NEW v \in Pool!Workers, NEW i \in DOMAIN local_work_queue[w],
                 NEW j \in DOMAIN local_work_queue[v], local_work_queue[w][i] = x, local_work_queue[v][j] = x
          PROVE  w = v /\ i = j
      <3>1. x \in InQueues[w] /\ x \in InQueues[v] BY <2>1, <2>2 DEF Range
      <3>2. w = v BY <1>1, <2>1, <3>1 DEF HeldOnce
      <3> QED BY <2>1, <2>2, <3>2 DEF IsInjective
    <2>3. \A p, q \in InLocals(x) : p = q BY <2>2, InLocalsIs
    <2>4. (\E w \in Pool!Workers : x \in InQueues[w]) <=> \E p : p \in InLocals(x)
      <3>1. ASSUME NEW w \in Pool!Workers, x \in InQueues[w]
            PROVE  \E p : p \in InLocals(x)
        <4>1. PICK i \in DOMAIN local_work_queue[w] : local_work_queue[w][i] = x
          BY <2>1, <3>1 DEF Range
        <4> QED BY <4>1, InLocalsIs
      <3>2. ASSUME NEW p \in InLocals(x)
            PROVE  \E w \in Pool!Workers : x \in InQueues[w]
        <4>1. PICK w \in Pool!Workers : \E i \in DOMAIN local_work_queue[w] : local_work_queue[w][i] = x
          BY InLocalsIs
        <4> QED BY <2>1, <4>1 DEF Range
      <3> QED BY <3>1, <3>2
    <2> QED BY <2>3, <2>4, AtMostOne
  <1>4. c = IF called THEN 1 ELSE 0
    <2>1. \A t, u \in Pool!Threads : \A i \in DOMAIN stack[t], j \in DOMAIN stack[u] :
             stack[t][i].task = stack[u][j].task => t = u /\ i = j
      BY <1>1 DEF Calling, OneCallEach
    <2>2. \A p, q \in InCalls(x) : p = q BY <2>1, InCallsIs
    <2>3. called <=> \E p : p \in InCalls(x)
      <3>1. ASSUME called
            PROVE  \E p : p \in InCalls(x)
        <4>1. PICK e \in Calls(stack) : e.task = x BY <3>1, IsCalled
        <4>2. PICK t \in Pool!Threads : \E i \in DOMAIN stack[t] : e = CallOf(stack[t][i])
          BY IsCall
        <4>3. PICK i \in DOMAIN stack[t] : e = CallOf(stack[t][i]) BY <4>2
        <4>4. stack[t][i].task = x BY <4>1, <4>3 DEF CallOf
        <4> QED BY <4>4, InCallsIs
      <3>2. ASSUME NEW p \in InCalls(x)
            PROVE  called
        <4>1. PICK t \in Pool!Threads : \E i \in DOMAIN stack[t] : stack[t][i].task = x
          BY InCallsIs
        <4>2. PICK i \in DOMAIN stack[t] : stack[t][i].task = x BY <4>1
        <4>3. CallOf(stack[t][i]) \in Calls(stack) /\ CallOf(stack[t][i]).task = x
          BY <4>2, CallIn DEF CallOf
        <4> QED BY <4>3, IsCalled
      <3> QED BY <3>1, <3>2
    <2> HIDE DEF called
    <2> QED BY <2>2, <2>3, AtMostOne
  <1>5. d = IF x \in ready THEN 1 ELSE 0
    <2>1. \A p, q \in ready \cap {x} : p = q OBVIOUS
    <2>2. ready \cap {x} = {} <=> x \notin ready OBVIOUS
    <2> QED BY <2>1, <2>2, AtMostOne
  <1>6. Pool!Places(x) = a + b + c + d BY PlacesAre
  <1> DEFINE queued == \E w \in Pool!Workers : x \in InQueues[w]
             pooled == x \in InQueues[0]
             ran == x \in ready
  <1>7. /\ pooled => ~queued /\ ~called /\ ~ran
        /\ queued => ~called /\ ~ran
        /\ called => ~ran
    <2>1. 0 \in Queues /\ \A w \in Pool!Workers : w \in Queues /\ w # 0 BY MakesApart
    <2>2. called => \E e \in Calls(stack) : e.task = x BY IsCalled
    <2>3. called => ~ran /\ \A h \in Queues : x \notin InQueues[h] BY <1>1, <2>2 DEF HeldOnce
    <2>4. ran => \A h \in Queues : x \notin InQueues[h] BY <1>1 DEF HeldOnce
    <2>5. pooled => ~queued BY <1>1, <2>1 DEF HeldOnce
    <2> HIDE DEF called
    <2> QED BY <2>1, <2>3, <2>4, <2>5
  <1>8. x \in Held(InQueues, Calls(stack), ready) => pooled \/ queued \/ called \/ ran
    BY MakesApart, IsHeld
  <1> HIDE DEF a, b, c, d, queued, pooled, called, ran
  <1>9. /\ a = IF pooled THEN 1 ELSE 0
        /\ b = IF queued THEN 1 ELSE 0
        /\ c = IF called THEN 1 ELSE 0
        /\ d = IF ran THEN 1 ELSE 0
    BY <1>2, <1>3, <1>4, <1>5 DEF queued, pooled, ran
  <1> QED BY <1>6, <1>7, <1>8, <1>9

LEMMA PoolFollows == ASSUME Pool!PoolAssumption, PoolInv PROVE Pool!TaskRunsOnce
  <1>1. \A x \in Pool!Tasks : Pool!Places(x) =< 1 BY WhereTasksAre
  <1>2. ASSUME NEW t \in Pool!Threads, NEW i \in DOMAIN stack[t],
               NEW x \in Pool!Range(stack[t][i].await) \ Pool!Range(stack[t][i].submit)
        PROVE  Pool!Places(x) = 1
    <2>1. \A q : Pool!Range(q) = Range(q) BY DEF Pool!Range, Range
    <2> DEFINE c == CallOf(stack[t][i])
    <2>2. c \in Calls(stack) /\ x \in c.await \ c.submit BY <2>1, CallIn DEF CallOf
    <2> HIDE DEF c
    <2>3. x \in Held(InQueues, Calls(stack), ready) /\ x \in Pool!Tasks
      BY <2>2 DEF PoolInv, Sound, ToCome, SetsTyped
    <2> QED BY <2>3, WhereTasksAre
  <1> QED BY <1>1, <1>2 DEF Pool!TaskRunsOnce

-----------------------------------------------------------------------------
(* The list.  Nodes of the list have a rank, which a new one, at the front,  *)
(* gets below all others', so that ranks never change: each node leads to    *)
(* the next in rank.  A walk holds the node it is at, so what it has passed  *)
(* can only be taken away, and what is put in is behind it.                  *)

InList == {n \in live : \A t \in Lockers : pc[t] = "delete" => following[t] # n}
Walking(t) == pc[t] \in {"walk", "at", "delete"}
Ahead(rank, x, y) == x = Root \/ rank[x] < rank[y]
Passed(rank, t, y) == Walking(t) => ~Ahead(rank, current[t], y)

ListTyped == /\ live \in SUBSET Nodes /\ next \in [Nodes \cup {Root} -> Nodes \cup {Null}]
             /\ DOMAIN data = Nodes /\ DOMAIN node_mutex = Nodes \cup {Root}
             /\ pc \in [Lockers -> {"idle", "walk", "at", "delete", "end", "found"}]
             /\ op \in [Lockers -> {"none", "for_each", "find", "remove"}]
             /\ DOMAIN match = Lockers
             /\ current \in [Lockers -> Nodes \cup {Root, Null}] /\ following \in [Lockers -> Nodes \cup {Null}]
             /\ seen \in [Lockers -> Seq(Nodes)] /\ due \in [Lockers -> SUBSET InList]
InRank(rank) == /\ rank \in [Nodes -> Int]
                /\ \A x, y \in InList : rank[x] = rank[y] => x = y
                /\ \A x \in InList \cup {Root} :
                     /\ next[x] # Null => next[x] \in InList /\ Ahead(rank, x, next[x])
                     /\ \A y \in InList : Ahead(rank, x, y) => next[x] # Null /\ (y = next[x] \/ Ahead(rank, next[x], y))
Holds(t) == /\ Walking(t) => current[t] \in InList \cup {Root} /\ node_mutex[current[t]] = t
            /\ pc[t] = "at" => /\ following[t] = next[current[t]] /\ following[t] \in InList
                               /\ node_mutex[following[t]] = t
            /\ pc[t] = "delete" => /\ following[t] \in live
                                   /\ \A u \in Lockers : pc[u] = "delete" /\ following[u] = following[t] => u = t
            /\ pc[t] \in {"walk", "at", "delete", "end"} => op[t] # "none"
            /\ pc[t] = "idle" => due[t] = {}
Met(rank, t) == /\ IsInjective(seen[t])
                /\ Walking(t) => \A y \in Range(seen[t]) \cap InList : ~Ahead(rank, current[t], y)
                /\ pc[t] # "found" =>
                     \A y \in due[t] : Passed(rank, t, y) =>
                        IF op[t] = "for_each" THEN y \in Range(seen[t]) ELSE data[y] \notin match[t]

WalksSound(rank) == /\ ListTyped /\ InRank(rank) /\ \A t \in Lockers : Holds(t) /\ Met(rank, t)
ListInv == \E rank : WalksSound(rank)

LEMMA ListBegins == ASSUME List!ListAssumption, List!Init PROVE ListInv
  <1> DEFINE rank == [n \in Nodes |-> 0]
  <1>1. InList = {} BY DEF List!Init, InList
  <1>2. ListTyped BY <1>1 DEF List!Init, ListTyped
  <1>3. InRank(rank) BY <1>1 DEF List!Init, InRank, Ahead
  <1>4. ASSUME NEW t \in Lockers
        PROVE  Holds(t) /\ Met(rank, t)
    <2>1. Holds(t) BY DEF List!Init, Holds, Walking
    <2>2. seen[t] = << >> /\ due[t] = {} /\ ~Walking(t) BY DEF List!Init, Walking
    <2>3. IsInjective(<< >>) BY DEF IsInjective
    <2> QED BY <2>1, <2>2, <2>3 DEF Met
  <1> QED BY <1>2, <1>3, <1>4 DEF WalksSound, ListInv

\* A walk that is not moved and whose nodes are left alone goes on as it was,
\* when nodes are taken out of the list or put in at its front.
LEMMA OthersWalkOn ==
    ASSUME List!ListAssumption, NEW rank, NEW rank1, WalksSound(rank), NEW u \in Lockers,
           pc'[u] = pc[u], op'[u] = op[u], match'[u] = match[u], current'[u] = current[u],
           following'[u] = following[u], seen'[u] = seen[u], due'[u] \subseteq due[u],
           Walking(u) => node_mutex'[current[u]] = u /\ current[u] \in InList' \cup {Root},
           pc[u] = "at" => /\ node_mutex'[following[u]] = u /\ following[u] \in InList'
                           /\ next'[current[u]] = next[current[u]],
           pc[u] = "delete" => /\ following[u] \in live'
                               /\ \A x \in Lockers : pc'[x] = "delete" /\ following'[x] = following[u] => x = u,
           Walking(u) => \A y \in InList' : Ahead(rank1, current[u], y) => y \in InList /\ Ahead(rank, current[u], y),
           Walking(u) => \A y \in due'[u] : Ahead(rank, current[u], y) => Ahead(rank1, current[u], y),
           \A y \in due[u] : data'[y] = data[y]
    PROVE  (Holds(u) /\ Met(rank1, u))'
  <1>1. Holds(u) /\ Met(rank, u) /\ ListTyped BY DEF WalksSound
  <1>2. Walking(u)' = Walking(u) BY DEF Walking
  <1>3. Holds(u)' BY <1>1, <1>2 DEF Holds
  <1>4. ASSUME Walking(u), NEW y \in Range(seen[u]) \cap InList', Ahead(rank1, current[u], y)
        PROVE  FALSE
    BY <1>1, <1>4 DEF Met
  <1>5. ASSUME pc[u] # "found", NEW y \in due'[u], Passed(rank1, u, y)'
        PROVE  Passed(rank, u, y) /\ data'[y] = data[y] /\ y \in due[u]
    <2>1. y \in due[u] /\ y \in InList BY <1>1, <1>5 DEF ListTyped
    <2> QED BY <1>2, <1>5, <2>1 DEF Passed
  <1>6. Met(rank1, u)' BY <1>1, <1>2, <1>4, <1>5 DEF Met
  <1> QED BY <1>3, <1>6

LEMMA AppendsOnce ==
    ASSUME NEW S, NEW s \in Seq(S), NEW n \in S
    PROVE  /\ Append(s, n) \in Seq(S) /\ Range(Append(s, n)) = Range(s) \cup {n}
           /\ IsInjective(s) /\ n \notin Range(s) => IsInjective(Append(s, n))
  <1>1. Append(s, n) \in Seq(S) /\ Len(s) \in Nat /\ Len(Append(s, n)) = Len(s) + 1
        /\ Append(s, n)[Len(s) + 1] = n /\ \A i \in 1 .. Len(s) : Append(s, n)[i] = s[i]
    BY AppendProperties, LenProperties
  <1>2. DOMAIN s = 1 .. Len(s) /\ DOMAIN Append(s, n) = 1 .. (Len(s) + 1) BY <1>1, LenProperties
  <1>3. Range(Append(s, n)) = Range(s) \cup {n} BY <1>1, <1>2 DEF Range
  <1>4. IsInjective(s) /\ n \notin Range(s) => IsInjective(Append(s, n))
    BY <1>1, <1>2 DEF Range, IsInjective
  <1> QED BY <1>1, <1>3, <1>4

LEMMA PushesKeepList ==
    ASSUME List!ListAssumption, ListInv, NEW t \in Lockers, List!PushFront(t) PROVE ListInv'
  <1>1. PICK rank : WalksSound(rank) BY DEF ListInv
  <1>2. PICK n \in Nodes \ live, v \in Values :
          /\ live' = live \cup {n} /\ data' = [data EXCEPT ![n] = v]
          /\ next' = [next EXCEPT ![n] = next[Root], ![Root] = n]
    BY DEF List!PushFront
  <1>3. node_mutex[Root] = NoThread
        /\ UNCHANGED <<node_mutex, pc, op, match, current, following, seen, due>>
    BY DEF List!PushFront
  <1>4. ListTyped /\ InRank(rank) /\ InList \subseteq live BY <1>1 DEF WalksSound, InList
  <1>5. \A u \in Lockers : pc[u] = "delete" => following[u] # n BY <1>1, <1>2 DEF WalksSound, Holds
  <1>6. InList' = InList \cup {n} /\ n \notin InList BY <1>2, <1>3, <1>5 DEF InList
  <1>7. PICK low \in Int : \A y \in InList : low < rank[y]
    <2>1. CASE next[Root] = Null
      <3>1. InList = {} BY <1>4, <2>1 DEF InRank, Ahead
      <3> QED BY <3>1
    <2>2. CASE next[Root] # Null
      <3>1. next[Root] \in InList /\ next[Root] \in Nodes /\ next[Root] # Root
        BY <1>4, <2>2 DEF InRank, Ahead, ListTyped, List!ListAssumption
      <3>2. rank[next[Root]] \in Int /\ rank[next[Root]] - 1 \in Int BY <1>4, <3>1 DEF InRank
      <3>3. \A y \in InList : rank[y] \in Int /\ (y = next[Root] \/ rank[next[Root]] < rank[y])
        BY <1>4, <3>1 DEF InRank, Ahead, ListTyped
      <3> QED BY <3>2, <3>3
    <2> QED BY <2>1, <2>2
  <1> PICK rank1 : rank1 = [rank EXCEPT ![n] = low] OBVIOUS
  <1>8. ListTyped'
    <2>1. due' \in [Lockers -> SUBSET InList'] BY <1>3, <1>4, <1>6 DEF ListTyped
    <2> QED BY <1>2, <1>3, <1>4, <2>1 DEF ListTyped
  <1>9. rank1 \in [Nodes -> Int] /\ rank1[n] = low
        /\ \A y \in InList : rank1[y] = rank[y] /\ rank[y] \in Int /\ y \in Nodes /\ y # Root
    BY <1>2, <1>4, <1>6 DEF InRank, ListTyped, List!ListAssumption
  <1>10. /\ \A x \in InList : ~Ahead(rank1, x, n)
         /\ \A x \in InList \cup {Root}, y \in InList : Ahead(rank1, x, y) <=> Ahead(rank, x, y)
         /\ \A y \in InList : Ahead(rank1, n, y)
         /\ ~Ahead(rank1, n, n) /\ Ahead(rank1, Root, n)
    BY <1>2, <1>6, <1>7, <1>9 DEF Ahead, List!ListAssumption
  <1>11. InRank(rank1)'
    <2>1. n # Root /\ n # Null /\ next[Root] # n
      BY <1>2, <1>4, <1>6 DEF List!ListAssumption, InRank
    <2>2. next'[n] = next[Root] /\ next'[Root] = n /\ \A x \in InList : next'[x] = next[x]
      BY <1>2, <1>4, <1>6, <1>9, <2>1 DEF ListTyped
    <2>3. \A x, y \in InList' : rank1[x] = rank1[y] => x = y BY <1>4, <1>6, <1>7, <1>9 DEF InRank
    <2>4. ASSUME NEW x \in InList
          PROVE  /\ next'[x] # Null => next'[x] \in InList' /\ Ahead(rank1, x, next'[x])
                 /\ \A y \in InList' : Ahead(rank1, x, y) => next'[x] # Null /\ (y = next'[x] \/ Ahead(rank1, next'[x], y))
      <3>1. next[x] # Null => Ahead(rank, x, next[x]) /\ next[x] \in InList BY <1>4 DEF InRank
      <3>2. next'[x] # Null => next'[x] \in InList' /\ Ahead(rank1, x, next'[x])
        BY <1>6, <1>10, <2>2, <3>1
      <3>3. ASSUME NEW y \in InList', Ahead(rank1, x, y)
            PROVE  next'[x] # Null /\ (y = next'[x] \/ Ahead(rank1, next'[x], y))
        <4>1. y \in InList /\ Ahead(rank, x, y) BY <1>6, <1>10, <3>3
        <4>2. next[x] # Null /\ (y = next[x] \/ Ahead(rank, next[x], y)) BY <1>4, <4>1 DEF InRank
        <4> QED BY <1>6, <1>10, <2>2, <3>1, <4>1, <4>2
      <3> QED BY <3>2, <3>3
    <2>5. /\ next'[Root] # Null /\ next'[Root] \in InList' /\ Ahead(rank1, Root, n)
          /\ \A y \in InList' : y = n \/ Ahead(rank1, n, y)
      BY <1>6, <1>10, <2>1, <2>2
    <2>6. /\ next'[n] # Null => next'[n] \in InList' /\ Ahead(rank1, n, next'[n])
          /\ \A y \in InList' : Ahead(rank1, n, y) => next'[n] # Null /\ (y = next'[n] \/ Ahead(rank1, next'[n], y))
      <3>1. next[Root] # Null => next[Root] \in InList BY <1>4 DEF InRank
      <3>2. \A y \in InList : next[Root] # Null /\ (y = next[Root] \/ Ahead(rank, next[Root], y))
        BY <1>4 DEF InRank, Ahead
      <3>5. \A y \in InList : next'[n] # Null /\ (y = next'[n] \/ Ahead(rank1, next'[n], y))
        BY <1>6, <1>10, <2>2, <3>1, <3>2
      <3> QED BY <1>6, <1>10, <2>2, <3>1, <3>5
    <2>7. \A x \in InList' \cup {Root} : x = n \/ x = Root \/ x \in InList BY <1>6
    <2>8. ASSUME NEW x \in InList' \cup {Root}
          PROVE  /\ next'[x] # Null => next'[x] \in InList' /\ Ahead(rank1, x, next'[x])
                 /\ \A y \in InList' : Ahead(rank1, x, y) => next'[x] # Null /\ (y = next'[x] \/ Ahead(rank1, next'[x], y))
      <3>1. CASE x = Root BY <2>2, <2>5, <3>1
      <3>2. CASE x = n BY <2>6, <3>2
      <3> QED BY <2>4, <2>7, <3>1, <3>2
    <2> QED BY <1>9, <2>3, <2>8 DEF InRank
  <1>12. ASSUME NEW u \in Lockers
         PROVE  (Holds(u) /\ Met(rank1, u))'
    <2>1. Holds(u) BY <1>1 DEF WalksSound
    <2>2. Walking(u) => current[u] \in InList /\ node_mutex[current[u]] = u
      BY <1>3, <2>1 DEF Holds, List!ListAssumption
    <2>3. pc[u] = "at" => next'[current[u]] = next[current[u]]
      BY <1>2, <1>4, <1>6, <1>9, <2>2 DEF Walking, ListTyped
    <2>4. \A y \in due[u] : data'[y] = data[y] /\ y \in InList
      BY <1>2, <1>4, <1>6, <1>9 DEF ListTyped
    <2>5. due'[u] \subseteq due[u] BY <1>3
    <2>6. Walking(u) => \A y \in InList' : Ahead(rank1, current[u], y) => y \in InList /\ Ahead(rank, current[u], y)
      BY <1>6, <1>10, <2>2
    <2>7. Walking(u) => \A y \in due'[u] : Ahead(rank, current[u], y) => Ahead(rank1, current[u], y)
      BY <1>10, <2>2, <2>4, <2>5
    <2>8. pc[u] = "at" => node_mutex'[following[u]] = u /\ following[u] \in InList'
      BY <1>3, <1>6, <2>1 DEF Holds
    <2>9. pc[u] = "delete" => /\ following[u] \in live'
                              /\ \A x \in Lockers : pc'[x] = "delete" /\ following'[x] = following[u] => x = u
      BY <1>2, <1>3, <2>1 DEF Holds
    <2> QED BY <1>1, <1>3, <1>6, <2>2, <2>3, <2>4, <2>5, <2>6, <2>7, <2>8, <2>9, OthersWalkOn
  <1>13. WalksSound(rank1)' BY <1>8, <1>11, <1>12 DEF WalksSound
  <1> QED BY <1>13 DEF ListInv


\* A step of t that leaves the list's nodes as they are, and only t's own
\* locks and walk change.
LEMMA OthersStay ==
    ASSUME List!ListAssumption, NEW rank, WalksSound(rank), NEW t \in Lockers, NEW u \in Lockers \ {t},
           UNCHANGED <<next, data, live>>, InList' = InList, due'[u] = due[u],
           \A x \in Lockers \ {t} : /\ pc'[x] = pc[x] /\ op'[x] = op[x] /\ match'[x] = match[x] /\ current'[x] = current[x]
                                   /\ following'[x] = following[x] /\ seen'[x] = seen[x],
           \A n \in Nodes \cup {Root} : node_mutex[n] \notin {t, NoThread} => node_mutex'[n] = node_mutex[n],
           pc'[t] = "delete" => pc[t] = "delete" /\ following'[t] = following[t]
    PROVE  (Holds(u) /\ Met(rank, u))'
  <1>1. Holds(u) /\ ListTyped BY DEF WalksSound
  <1>2. \A n \in Nodes \cup {Root} : node_mutex[n] = u => node_mutex'[n] = u
    BY DEF List!ListAssumption
  <1>3. InList \subseteq Nodes BY <1>1 DEF ListTyped, InList
  <1>4. Walking(u) => node_mutex'[current[u]] = u /\ current[u] \in InList' \cup {Root}
    BY <1>1, <1>2, <1>3 DEF Holds
  <1>5. pc[u] = "at" => /\ node_mutex'[following[u]] = u /\ following[u] \in InList'
                        /\ next'[current[u]] = next[current[u]]
    BY <1>1, <1>2, <1>3 DEF Holds
  <1>6. pc[u] = "delete" => /\ following[u] \in live'
                            /\ \A x \in Lockers : pc'[x] = "delete" /\ following'[x] = following[u] => x = u
    BY <1>1 DEF Holds
  <1> QED BY <1>4, <1>5, <1>6, OthersWalkOn

LEMMA SameInList ==
    ASSUME NEW t \in Lockers, live' = live, pc[t] # "delete", pc'[t] # "delete",
           \A x \in Lockers \ {t} : pc'[x] = pc[x] /\ following'[x] = following[x]
    PROVE  InList' = InList
  BY DEF InList

LEMMA InRankStays == ASSUME NEW rank, InRank(rank), next' = next, InList' = InList PROVE InRank(rank)'
  BY DEF InRank

\* The values of far turns from a first one.
Turns(g, first, Turn, far) == g[0] = first /\ \A k \in 1 .. far : g[k] = Turn[g[k - 1]]

LEMMA TurnsExist ==
    ASSUME NEW X, NEW first \in X, NEW far \in Nat, NEW Turn \in [X -> X]
    PROVE  \E g \in [0 .. far -> X] : Turns(g, first, Turn, far)
  <1> DEFINE Upon(g, k) == g \in [0 .. k -> X] /\ g[0] = first /\ \A j \in 1 .. k : g[j] = Turn[g[j - 1]]
             S == {k \in Nat : \E g : Upon(g, k)}
  <1>1. 0 \in S
    <2>1. Upon([j \in 0 .. 0 |-> first], 0) OBVIOUS
    <2> QED BY <2>1
  <1>2. ASSUME NEW k \in Nat, k \in S
        PROVE  k + 1 \in S
    <2>1. PICK g : Upon(g, k) BY <1>2
    <2>2. PICK after \in X : after = Turn[g[k]] BY <2>1
    <2> DEFINE h == [j \in 0 .. k + 1 |-> IF j <= k THEN g[j] ELSE after]
    <2>3. h \in [0 .. k + 1 -> X] /\ h[0] = first BY <2>1
    <2>4. \A j \in 1 .. k : h[j] = Turn[h[j - 1]] BY <2>1
    <2>5. h[k + 1] = Turn[h[k]] BY <2>2
    <2> HIDE DEF h
    <2>6. \A j \in 1 .. k + 1 : h[j] = Turn[h[j - 1]]
      <3> SUFFICES ASSUME NEW j \in 1 .. k + 1
                   PROVE  h[j] = Turn[h[j - 1]]
        OBVIOUS
      <3>1. CASE j \in 1 .. k BY <2>4, <3>1
      <3>2. CASE j = k + 1
        <4>1. j - 1 = k BY <3>2
        <4> QED BY <2>5, <3>2, <4>1
      <3> QED BY <3>1, <3>2
    <2> QED BY <2>3, <2>6
  <1>3. Nat \subseteq S
    <2> HIDE DEF S
    <2> QED BY <1>1, <1>2, NatInduction1
  <1>4. PICK g : Upon(g, far) BY <1>3
  <1> QED BY <1>4 DEF Turns

LEMMA LinkedInList == ASSUME List!ListAssumption, ListInv PROVE List!Linked \subseteq InList
  <1>1. PICK rank : WalksSound(rank) BY DEF ListInv
  <1>2. ListTyped /\ InRank(rank) BY <1>1 DEF WalksSound
  <1> DEFINE X == SUBSET (Nodes \cup {Null})
             more(s) == {next[n] : n \in s \ {Null}}
             Turn == [s \in X |-> s \cup more(s)]
             M == Cardinality(Nodes)
             Step(f) == [k \in 0 .. M |-> IF k = 0 THEN {next[Root]} ELSE f[k - 1] \cup more(f[k - 1])]
             Walk == CHOOSE f : f = Step(f)
  <1>0. \A E : /\ List!IsFiniteSet(E) <=> IsFiniteSet(E)
               /\ List!Cardinality(E) = Cardinality(E)
    BY DEF List!IsFiniteSet, IsFiniteSet, List!Cardinality, Cardinality
  <1>3. M \in Nat BY <1>0, FS_CardinalityType DEF List!ListAssumption
  <1>4. Turn \in [X -> X] /\ {next[Root]} \in X BY <1>2 DEF ListTyped
  <1>5. PICK g \in [0 .. M -> X] : Turns(g, {next[Root]}, Turn, M)
    <2> HIDE DEF M, Turn, X
    <2> QED BY <1>3, <1>4, TurnsExist
  <1>6. g = Step(g)
    <2>1. \A k \in 0 .. M : k # 0 => g[k - 1] \in X BY <1>3
    <2>2. \A k \in 0 .. M : k # 0 => Turn[g[k - 1]] = g[k - 1] \cup more(g[k - 1]) BY <2>1
    <2>3. \A k \in 0 .. M : g[k] = IF k = 0 THEN {next[Root]} ELSE g[k - 1] \cup more(g[k - 1])
      <3>1. g[0] = {next[Root]} /\ \A k \in 1 .. M : g[k] = Turn[g[k - 1]]
        <4> HIDE DEF X, M, Turn, more
        <4> QED BY <1>5 DEF Turns
      <3>2. \A k \in 0 .. M : k # 0 => k \in 1 .. M BY <1>3
      <3> HIDE DEF X, M, Turn, more
      <3> QED BY <2>2, <3>1, <3>2, Zenon
    <2> HIDE DEF X, M, Turn, more
    <2> QED BY <1>5, <2>3
  <1>7. Walk = Step(Walk)
    <2> HIDE DEF Step
    <2> QED BY <1>6
  <1>8. Walk[0] = {next[Root]} /\ \A k \in 1 .. M : Walk[k] = Walk[k - 1] \cup more(Walk[k - 1])
    <2>1. \A k \in 0 .. M : Walk[k] = IF k = 0 THEN {next[Root]} ELSE Walk[k - 1] \cup more(Walk[k - 1])
      <3> HIDE DEF Walk, M, more
      <3> QED BY <1>7
    <2>2. 0 \in 0 .. M /\ \A k \in 1 .. M : k \in 0 .. M /\ k # 0 BY <1>3
    <2> HIDE DEF Walk, M, more
    <2> QED BY <2>1, <2>2, Zenon
  <1> DEFINE S == {k \in Nat : k <= M => Walk[k] \subseteq InList \cup {Null}}
  <1>9. 0 \in S
    <2>1. next[Root] \in InList \cup {Null} BY <1>2 DEF InRank
    <2> HIDE DEF Walk, M, more
    <2> QED BY <1>8, <2>1
  <1>10. ASSUME NEW k \in Nat, k \in S
         PROVE  k + 1 \in S
    <2> SUFFICES ASSUME k + 1 <= M
                 PROVE  Walk[k + 1] \subseteq InList \cup {Null}
      OBVIOUS
    <2> HIDE DEF Walk, M
    <2>1. Walk[k] \subseteq InList \cup {Null} BY <1>3, <1>10
    <2>2. Walk[k + 1] = Walk[k] \cup more(Walk[k])
      <3>1. k + 1 \in 1 .. M /\ k + 1 - 1 = k BY <1>3
      <3> HIDE DEF more
      <3>2. PICK j \in 1 .. M : j = k + 1 /\ j - 1 = k BY <3>1
      <3>3. Walk[j] = Walk[j - 1] \cup more(Walk[j - 1]) BY <1>8, Zenon
      <3> QED BY <3>2, <3>3, Zenon
    <2>3. \A n \in InList : next[n] \in InList \cup {Null} BY <1>2 DEF InRank
    <2>4. more(Walk[k]) \subseteq InList \cup {Null} BY <2>1, <2>3
    <2> QED BY <2>1, <2>2, <2>4
  <1>11. Walk[M] \subseteq InList \cup {Null}
    <2> HIDE DEF Walk
    <2>1. Nat \subseteq S
      <3> HIDE DEF S
      <3> QED BY <1>9, <1>10, NatInduction1
    <2> QED BY <1>3, <2>1
  <1>12. List!Linked = Walk[M] \ {Null} BY <1>0 DEF List!Linked
  <1> QED BY <1>11, <1>12

LEMMA BeginsKeepList ==
    ASSUME List!ListAssumption, ListInv, NEW t \in Lockers, List!Begin(t) PROVE ListInv'
  <1>1. PICK rank : WalksSound(rank) BY DEF ListInv
  <1>2. ListTyped /\ InRank(rank) BY <1>1 DEF WalksSound
  <1>3. PICK o \in {"for_each", "find", "remove"}, s \in SUBSET Values :
          op' = [op EXCEPT ![t] = o] /\ match' = [match EXCEPT ![t] = s]
    <2>1. \A s \in {{v} : v \in Values} \cup {Values} : s \in SUBSET Values OBVIOUS
    <2> QED BY <2>1 DEF List!Begin
  <1>4. /\ pc[t] = "idle" /\ node_mutex[Root] = NoThread
        /\ node_mutex' = [node_mutex EXCEPT ![Root] = t] /\ current' = [current EXCEPT ![t] = Root]
        /\ seen' = [seen EXCEPT ![t] = << >>] /\ due' = [due EXCEPT ![t] = List!Linked]
        /\ pc' = [pc EXCEPT ![t] = "walk"]
        /\ UNCHANGED <<next, data, live, following>>
    BY DEF List!Begin, List!Goto
  <1>5. InList' = InList BY <1>2, <1>4, SameInList DEF ListTyped
  <1>6. List!Linked \in SUBSET InList BY LinkedInList
  <1>7. << >> \in Seq(Nodes) /\ IsInjective(<< >>) /\ Range(<< >>) = {} BY DEF IsInjective, Range
  <1>8. ListTyped'
    <2>1. due' \in [Lockers -> SUBSET InList'] BY <1>2, <1>4, <1>5, <1>6 DEF ListTyped
    <2>2. seen' \in [Lockers -> Seq(Nodes)] BY <1>2, <1>4, <1>7 DEF ListTyped
    <2>3. op' \in [Lockers -> {"none", "for_each", "find", "remove"}] /\ DOMAIN match' = Lockers
      BY <1>2, <1>3 DEF ListTyped
    <2>4. UNCHANGED <<next, data, live, following>> /\ DOMAIN node_mutex' = Nodes \cup {Root}
      BY <1>2, <1>4 DEF ListTyped
    <2>5. /\ pc' \in [Lockers -> {"idle", "walk", "at", "delete", "end", "found"}]
          /\ current' \in [Lockers -> Nodes \cup {Root, Null}]
      BY <1>2, <1>4 DEF ListTyped
    <2> QED BY <1>2, <2>1, <2>2, <2>3, <2>4, <2>5 DEF ListTyped
  <1>9. ASSUME NEW u \in Lockers \ {t}
        PROVE  (Holds(u) /\ Met(rank, u))'
    BY <1>1, <1>2, <1>3, <1>4, <1>5, OthersStay DEF ListTyped
  <1>10. pc'[t] = "walk" /\ current'[t] = Root /\ node_mutex'[Root] = t /\ seen'[t] = << >> /\ op'[t] # "none"
    BY <1>2, <1>3, <1>4 DEF ListTyped
  <1>11. Holds(t)' BY <1>10 DEF Holds, Walking
  <1>12. \A y : Ahead(rank, Root, y) BY DEF Ahead
  <1>13. Met(rank, t)' BY <1>7, <1>10, <1>12 DEF Met, Passed, Walking
  <1>14. WalksSound(rank)'
    BY <1>2, <1>5, <1>8, <1>9, <1>11, <1>13, InRankStays DEF WalksSound, List!Begin
  <1> QED BY <1>14 DEF ListInv

LEMMA LocksKeepList ==
    ASSUME List!ListAssumption, ListInv, NEW t \in Lockers, List!LockNext(t) PROVE ListInv'
  <1>1. PICK rank : WalksSound(rank) BY DEF ListInv
  <1>2. ListTyped /\ InRank(rank) /\ Holds(t) /\ Met(rank, t) BY <1>1 DEF WalksSound
  <1> PICK n : n = next[current[t]] OBVIOUS
  <1>3. pc[t] = "walk" /\ UNCHANGED <<next, data, live, op, match, current, seen, due>>
    BY DEF List!LockNext
  <1>4. \/ /\ n = Null /\ node_mutex' = [node_mutex EXCEPT ![current[t]] = NoThread]
           /\ pc' = [pc EXCEPT ![t] = "end"] /\ following' = following
        \/ /\ n # Null /\ node_mutex[n] = NoThread /\ node_mutex' = [node_mutex EXCEPT ![n] = t]
           /\ following' = [following EXCEPT ![t] = n] /\ pc' = [pc EXCEPT ![t] = "at"]
    BY DEF List!LockNext, List!Goto
  <1>5. InList' = InList BY <1>2, <1>3, <1>4, SameInList DEF ListTyped
  <1>6. Walking(t) /\ current[t] \in InList \cup {Root} /\ node_mutex[current[t]] = t /\ op[t] # "none"
    BY <1>2, <1>3 DEF Holds, Walking
  <1>7. n # Null => n \in InList /\ n \in Nodes /\ Ahead(rank, current[t], n)
    BY <1>2, <1>6 DEF InRank, ListTyped, InList
  <1>8. ListTyped' BY <1>2, <1>3, <1>4, <1>5, <1>7 DEF ListTyped
  <1>9. ASSUME NEW u \in Lockers \ {t}
        PROVE  (Holds(u) /\ Met(rank, u))'
    <2>1. \A x \in Nodes \cup {Root} : node_mutex[x] \notin {t, NoThread} => node_mutex'[x] = node_mutex[x]
      BY <1>2, <1>4, <1>6 DEF ListTyped
    <2>2. \A x \in Lockers \ {t} : /\ pc'[x] = pc[x] /\ op'[x] = op[x] /\ match'[x] = match[x]
                                   /\ current'[x] = current[x] /\ following'[x] = following[x]
                                   /\ seen'[x] = seen[x]
      BY <1>2, <1>3, <1>4 DEF ListTyped
    <2>3. pc'[t] # "delete" /\ due'[u] = due[u] BY <1>2, <1>3, <1>4 DEF ListTyped
    <2> QED BY <1>1, <1>3, <1>5, <2>1, <2>2, <2>3, OthersStay
  <1>10. Holds(t)'
    <2>1. CASE n = Null BY <1>2, <1>3, <1>4, <1>6, <2>1 DEF ListTyped, Holds, Walking
    <2>2. CASE n # Null
      <3>1. pc'[t] = "at" /\ following'[t] = n /\ node_mutex'[n] = t /\ current'[t] = current[t]
        BY <1>2, <1>3, <1>4, <1>7, <2>2 DEF ListTyped
      <3>2. node_mutex'[current[t]] = t BY <1>2, <1>4, <1>6, <2>2 DEF ListTyped, InList
      <3> QED BY <1>3, <1>5, <1>6, <1>7, <2>2, <3>1, <3>2 DEF Holds, Walking
    <2> QED BY <2>1, <2>2
  <1>11. Met(rank, t)'
    <2>1. CASE n = Null
      <3>1. pc'[t] = "end" /\ ~Walking(t)' BY <1>2, <1>4, <2>1 DEF ListTyped, Walking
      <3>2. \A y \in InList : ~Ahead(rank, current[t], y) BY <1>2, <1>6, <2>1 DEF InRank
      <3>3. \A y \in due[t] : Passed(rank, t, y) BY <1>2, <3>2 DEF Passed, ListTyped
      <3> QED BY <1>2, <1>3, <3>1, <3>3 DEF Met
    <2>2. CASE n # Null
      <3>1. pc'[t] = "at" /\ Walking(t)' BY <1>2, <1>4, <2>2 DEF ListTyped, Walking
      <3> QED BY <1>2, <1>3, <1>5, <1>6, <3>1 DEF Met, Passed
    <2> QED BY <2>1, <2>2
  <1>12. WalksSound(rank)'
    BY <1>2, <1>3, <1>5, <1>8, <1>9, <1>10, <1>11, InRankStays DEF WalksSound
  <1> QED BY <1>12 DEF ListInv

LEMMA VisitsKeepList ==
    ASSUME List!ListAssumption, ListInv, NEW t \in Lockers, List!Visit(t) PROVE ListInv'
  <1>1. PICK rank : WalksSound(rank) BY DEF ListInv
  <1>2. ListTyped /\ InRank(rank) /\ Holds(t) /\ Met(rank, t) BY <1>1 DEF WalksSound
  <1> PICK n : n = following[t] OBVIOUS
  <1>3. pc[t] = "at" /\ op[t] # "remove" /\ UNCHANGED <<next, data, live, op, match, following, due>>
    BY DEF List!Visit
  <1>4. /\ n = next[current[t]] /\ n \in InList /\ n \in live /\ n \in Nodes /\ n # Root
        /\ node_mutex[n] = t /\ node_mutex[current[t]] = t
        /\ current[t] \in InList \cup {Root} /\ current[t] # n /\ op[t] # "none" /\ Ahead(rank, current[t], n)
        /\ \A y \in InList : Ahead(rank, current[t], y) => y = n \/ Ahead(rank, n, y)
    <2>1. /\ n = next[current[t]] /\ n \in InList /\ node_mutex[n] = t /\ node_mutex[current[t]] = t
          /\ current[t] \in InList \cup {Root} /\ op[t] # "none"
      BY <1>2, <1>3 DEF Holds, Walking
    <2>2. n \in live /\ n \in Nodes /\ n # Root /\ n # Null
      BY <1>2, <2>1 DEF ListTyped, InList, List!ListAssumption
    <2>3. Ahead(rank, current[t], n) /\ \A y \in InList : Ahead(rank, current[t], y) => y = n \/ Ahead(rank, n, y)
      BY <1>2, <2>1, <2>2 DEF InRank
    <2>4. rank[n] \in Int BY <1>2, <2>2 DEF InRank
    <2>5. current[t] # n BY <2>2, <2>3, <2>4 DEF Ahead
    <2> QED BY <2>1, <2>2, <2>3, <2>5
  <1> PICK stops \in BOOLEAN : stops = (op[t] = "find" /\ data[n] \in match[t]) OBVIOUS
  <1>5. /\ node_mutex' = [node_mutex EXCEPT ![current[t]] = NoThread, ![n] = IF stops THEN NoThread ELSE t]
        /\ current' = [current EXCEPT ![t] = n] /\ seen' = [seen EXCEPT ![t] = Append(@, n)]
        /\ pc' = [pc EXCEPT ![t] = IF stops THEN "found" ELSE "walk"]
    BY <1>4 DEF List!Visit, List!Goto
  <1>6. InList' = InList BY <1>2, <1>3, <1>5, SameInList DEF ListTyped
  <1>7. /\ seen'[t] = Append(seen[t], n) /\ seen'[t] \in Seq(Nodes) /\ Range(seen'[t]) = Range(seen[t]) \cup {n}
        /\ IsInjective(seen'[t])
    <2>1. seen[t] \in Seq(Nodes) /\ seen'[t] = Append(seen[t], n) BY <1>2, <1>5 DEF ListTyped
    <2>2. n \notin Range(seen[t]) BY <1>2, <1>3, <1>4 DEF Met, Walking
    <2> QED BY <1>2, <1>4, <2>1, <2>2, AppendsOnce DEF Met
  <1>8. ListTyped'
    <2>1. seen' \in [Lockers -> Seq(Nodes)]
      <3>1. seen' = [seen EXCEPT ![t] = seen'[t]] BY <1>2, <1>5 DEF ListTyped
      <3> QED BY <1>2, <1>7, <3>1 DEF ListTyped
    <2>2. DOMAIN node_mutex' = Nodes \cup {Root} /\ pc' \in [Lockers -> {"idle", "walk", "at", "delete", "end", "found"}]
          /\ current' \in [Lockers -> Nodes \cup {Root, Null}]
      BY <1>2, <1>4, <1>5 DEF ListTyped
    <2> QED BY <1>2, <1>3, <1>6, <2>1, <2>2 DEF ListTyped
  <1>9. ASSUME NEW u \in Lockers \ {t}
        PROVE  (Holds(u) /\ Met(rank, u))'
    <2>1. \A x \in Nodes \cup {Root} : node_mutex[x] \notin {t, NoThread} => node_mutex'[x] = node_mutex[x]
      BY <1>2, <1>4, <1>5 DEF ListTyped
    <2> QED BY <1>1, <1>2, <1>3, <1>5, <1>6, <2>1, OthersStay DEF ListTyped
  <1>10. pc'[t] = (IF stops THEN "found" ELSE "walk") /\ current'[t] = n /\ (~stops => node_mutex'[n] = t)
    BY <1>2, <1>4, <1>5 DEF ListTyped
  <1>11. Holds(t)' BY <1>3, <1>4, <1>6, <1>10 DEF Holds, Walking
  <1>12. Met(rank, t)'
    <2>1. CASE stops BY <1>7, <1>10, <2>1 DEF Met, Walking
    <2>2. CASE ~stops
      <3>1. Walking(t) /\ Walking(t)' /\ pc'[t] = "walk" /\ pc[t] = "at"
        BY <1>3, <1>10, <2>2 DEF Walking
      <3>2. ASSUME NEW y \in InList, Ahead(rank, n, y)
            PROVE  y # n /\ Ahead(rank, current[t], y)
        <4>1. rank[n] \in Int /\ rank[y] \in Int /\ y \in Nodes /\ (current[t] # Root => rank[current[t]] \in Int)
          BY <1>2, <1>4 DEF InRank, ListTyped, InList
        <4> QED BY <1>4, <3>2, <4>1 DEF Ahead
      <3>3. \A y \in Range(seen'[t]) \cap InList' : ~Ahead(rank, current'[t], y)
        BY <1>2, <1>6, <1>7, <1>10, <3>1, <3>2 DEF Met
      <3>4. ASSUME NEW y \in due[t], ~Ahead(rank, n, y)
            PROVE  IF op[t] = "for_each" THEN y \in Range(seen'[t]) ELSE data[y] \notin match[t]
        <4>1. CASE y = n
          <5>1. op[t] \in {"for_each", "find"} BY <1>2, <1>3, <1>4 DEF ListTyped
          <5> QED BY <1>7, <2>2, <4>1, <5>1
        <4>2. CASE y # n
          <5>1. y \in InList /\ ~Ahead(rank, current[t], y) BY <1>2, <1>4, <3>4, <4>2 DEF ListTyped
          <5> QED BY <1>2, <1>7, <3>1, <5>1 DEF Met, Passed
        <4> QED BY <4>1, <4>2
      <3> QED BY <1>3, <1>7, <1>10, <3>1, <3>3, <3>4 DEF Met, Passed
    <2> QED BY <2>1, <2>2
  <1>13. WalksSound(rank)'
    BY <1>2, <1>3, <1>6, <1>8, <1>9, <1>11, <1>12, InRankStays DEF WalksSound
  <1> QED BY <1>13 DEF ListInv

\* What a thread at a node knows of it.
LEMMA AtFacts ==
    ASSUME List!ListAssumption, NEW rank, WalksSound(rank), NEW t \in Lockers, pc[t] = "at"
    PROVE  LET n == following[t]
           IN  /\ n = next[current[t]] /\ n \in InList /\ n \in live /\ n \in Nodes /\ n # Root
               /\ node_mutex[n] = t /\ node_mutex[current[t]] = t
               /\ current[t] \in InList \cup {Root} /\ current[t] # n /\ op[t] # "none" /\ Ahead(rank, current[t], n)
               /\ \A y \in InList : Ahead(rank, current[t], y) => y = n \/ Ahead(rank, n, y)
               /\ \A y \in InList : Ahead(rank, n, y) => y # n /\ Ahead(rank, current[t], y)
               /\ rank[n] \in Int /\ (current[t] # Root => rank[current[t]] \in Int)
  <1>1. ListTyped /\ InRank(rank) /\ Holds(t) BY DEF WalksSound
  <1> PICK n : n = following[t] OBVIOUS
  <1>2. /\ n = next[current[t]] /\ n \in InList /\ node_mutex[n] = t /\ node_mutex[current[t]] = t
        /\ current[t] \in InList \cup {Root} /\ op[t] # "none"
    BY <1>1 DEF Holds, Walking
  <1>3. n \in live /\ n \in Nodes /\ n # Root /\ n # Null
    BY <1>1, <1>2 DEF ListTyped, InList, List!ListAssumption
  <1>4. Ahead(rank, current[t], n) /\ \A y \in InList : Ahead(rank, current[t], y) => y = n \/ Ahead(rank, n, y)
    BY <1>1, <1>2, <1>3 DEF InRank
  <1>5. rank[n] \in Int /\ (current[t] # Root => rank[current[t]] \in Int) /\ \A y \in InList : rank[y] \in Int
    BY <1>1, <1>2, <1>3 DEF InRank, ListTyped, InList
  <1>6. current[t] # n BY <1>3, <1>4, <1>5 DEF Ahead
  <1>7. \A y \in InList : Ahead(rank, n, y) => y # n /\ Ahead(rank, current[t], y)
    BY <1>3, <1>4, <1>5 DEF Ahead
  <1> QED BY <1>2, <1>3, <1>4, <1>5, <1>6, <1>7

LEMMA PassesKeepList ==
    ASSUME List!ListAssumption, ListInv, NEW t \in Lockers, List!TakeOut(t), data[following[t]] \notin match[t]
    PROVE  ListInv'
  <1>1. PICK rank : WalksSound(rank) BY DEF ListInv
  <1>2. ListTyped /\ InRank(rank) /\ Holds(t) /\ Met(rank, t) BY <1>1 DEF WalksSound
  <1> PICK n : n = following[t] OBVIOUS
  <1>3. pc[t] = "at" /\ op[t] = "remove" /\ UNCHANGED <<data, live, op, match, following, seen>>
    BY DEF List!TakeOut
  <1>4. /\ n = next[current[t]] /\ n \in InList /\ n \in live /\ n \in Nodes /\ n # Root
        /\ node_mutex[n] = t /\ node_mutex[current[t]] = t
        /\ current[t] \in InList \cup {Root} /\ current[t] # n
        /\ \A y \in InList : Ahead(rank, current[t], y) => y = n \/ Ahead(rank, n, y)
        /\ \A y \in InList : Ahead(rank, n, y) => y # n /\ Ahead(rank, current[t], y)
    BY <1>1, <1>3, AtFacts
  <1>5. /\ node_mutex' = [node_mutex EXCEPT ![current[t]] = NoThread] /\ next' = next /\ due' = due
        /\ current' = [current EXCEPT ![t] = n] /\ pc' = [pc EXCEPT ![t] = "walk"]
    BY <1>4 DEF List!TakeOut, List!Goto
  <1>6. InList' = InList BY <1>2, <1>3, <1>5, SameInList DEF ListTyped
  <1>7. ListTyped' BY <1>2, <1>3, <1>4, <1>5, <1>6 DEF ListTyped
  <1>8. ASSUME NEW u \in Lockers \ {t}
        PROVE  (Holds(u) /\ Met(rank, u))'
    <2>1. \A x \in Nodes \cup {Root} : node_mutex[x] \notin {t, NoThread} => node_mutex'[x] = node_mutex[x]
      BY <1>2, <1>4, <1>5 DEF ListTyped
    <2> QED BY <1>1, <1>2, <1>3, <1>5, <1>6, <2>1, OthersStay DEF ListTyped
  <1>9. pc'[t] = "walk" /\ current'[t] = n /\ node_mutex'[n] = t BY <1>2, <1>4, <1>5 DEF ListTyped
  <1>10. Holds(t)' BY <1>3, <1>4, <1>6, <1>9 DEF Holds, Walking
  <1>11. Met(rank, t)'
    <2>1. Walking(t) /\ Walking(t)' BY <1>3, <1>9 DEF Walking
    <2>2. \A y \in Range(seen'[t]) \cap InList' : ~Ahead(rank, current'[t], y)
      BY <1>2, <1>3, <1>4, <1>6, <1>9, <2>1 DEF Met
    <2>3. ASSUME NEW y \in due[t], ~Ahead(rank, n, y)
          PROVE  data[y] \notin match[t]
      <3>1. CASE y # n
        <4>1. y \in InList /\ ~Ahead(rank, current[t], y) BY <1>2, <1>4, <2>3, <3>1 DEF ListTyped
        <4> QED BY <1>2, <1>3, <2>1, <4>1 DEF Met, Passed
      <3> QED BY <3>1
    <2> QED BY <1>2, <1>3, <1>5, <1>9, <2>1, <2>2, <2>3 DEF Met, Passed
  <1>12. WalksSound(rank)'
    BY <1>2, <1>5, <1>6, <1>7, <1>8, <1>10, <1>11, InRankStays DEF WalksSound
  <1> QED BY <1>12 DEF ListInv

\* A node that the thread at it unlinks.
LEMMA UnlinksKeepRank ==
    ASSUME List!ListAssumption, NEW rank, WalksSound(rank), NEW c \in InList \cup {Root}, NEW n \in InList,
           n = next[c], n # Root, c # n, next' = [next EXCEPT ![c] = next[n]], InList' = InList \ {n}
    PROVE  InRank(rank)'
  <1>1. ListTyped /\ InRank(rank) /\ InList \subseteq Nodes /\ n # Null
    BY DEF WalksSound, ListTyped, InList, List!ListAssumption
  <1>2. Ahead(rank, c, n) /\ \A y \in InList : Ahead(rank, c, y) => y = n \/ Ahead(rank, n, y)
    BY <1>1 DEF InRank
  <1>3. next[n] # Null => next[n] \in InList /\ Ahead(rank, n, next[n]) BY <1>1 DEF InRank
  <1>4. rank[n] \in Int /\ \A y \in InList : rank[y] \in Int /\ y # Root
    BY <1>1 DEF InRank, ListTyped, List!ListAssumption, InList
  <1>5. \A x \in InList' \cup {Root} : next'[x] = IF x = c THEN next[n] ELSE next[x]
    BY <1>1 DEF ListTyped
  <1>6. \A x \in InList' \cup {Root} : x # c => next[x] # n
    <2> SUFFICES ASSUME NEW x \in InList \cup {Root}, x # n, x # c, next[x] = n
                 PROVE  FALSE
      OBVIOUS
    <2>1. Ahead(rank, x, n) /\ \A y \in InList : Ahead(rank, x, y) => y = n \/ Ahead(rank, n, y)
      BY <1>1 DEF InRank
    <2>2. c = Root => x \in InList /\ Ahead(rank, c, x) BY DEF Ahead
    <2>3. x = Root => c \in InList /\ Ahead(rank, x, c) BY DEF Ahead
    <2>4. c \in InList /\ x \in InList => rank[c] # rank[x] BY <1>1 DEF InRank
    <2>5. c \in InList => ~Ahead(rank, n, c) BY <1>2, <1>4 DEF Ahead
    <2>6. x \in InList => ~Ahead(rank, n, x) BY <1>4, <2>1 DEF Ahead
    <2>7. CASE c \in InList /\ x \in InList
      <3>1. Ahead(rank, c, x) \/ Ahead(rank, x, c) BY <1>4, <2>4, <2>7 DEF Ahead
      <3> QED BY <1>2, <2>1, <2>5, <2>6, <2>7, <3>1
    <2> QED BY <1>2, <2>1, <2>2, <2>3, <2>5, <2>6, <2>7
  <1>7. ASSUME NEW x \in InList' \cup {Root}
        PROVE  /\ next'[x] # Null => next'[x] \in InList' /\ Ahead(rank, x, next'[x])
               /\ \A y \in InList' : Ahead(rank, x, y) => next'[x] # Null /\ (y = next'[x] \/ Ahead(rank, next'[x], y))
    <2>1. CASE x # c BY <1>1, <1>5, <1>6, <2>1 DEF InRank
    <2>2. CASE x = c
      <3>1. next'[x] = next[n] BY <1>5, <2>2
      <3>2. next[n] # Null => next[n] # n /\ Ahead(rank, c, next[n]) BY <1>2, <1>3, <1>4 DEF Ahead
      <3>3. \A y \in InList' : Ahead(rank, n, y) => next[n] # Null /\ (y = next[n] \/ Ahead(rank, next[n], y))
        BY <1>1 DEF InRank
      <3> QED BY <1>2, <1>3, <2>2, <3>1, <3>2, <3>3
    <2> QED BY <2>1, <2>2
  <1> QED BY <1>1, <1>7 DEF InRank

LEMMA TakesKeepList ==
    ASSUME List!ListAssumption, ListInv, NEW t \in Lockers, List!TakeOut(t), data[following[t]] \in match[t]
    PROVE  ListInv'
  <1>1. PICK rank : WalksSound(rank) BY DEF ListInv
  <1>2. ListTyped /\ InRank(rank) /\ Holds(t) /\ Met(rank, t) BY <1>1 DEF WalksSound
  <1> PICK n : n = following[t] OBVIOUS
  <1>3. pc[t] = "at" /\ op[t] = "remove" /\ UNCHANGED <<data, live, op, match, following, seen>>
    BY DEF List!TakeOut
  <1>4. /\ n = next[current[t]] /\ n \in InList /\ n \in live /\ n \in Nodes /\ n # Root
        /\ node_mutex[n] = t /\ node_mutex[current[t]] = t
        /\ current[t] \in InList \cup {Root} /\ current[t] # n
        /\ \A y \in InList : Ahead(rank, n, y) => y # n /\ Ahead(rank, current[t], y)
    BY <1>1, <1>3, AtFacts
  <1>5. /\ next' = [next EXCEPT ![current[t]] = next[n]] /\ node_mutex' = [node_mutex EXCEPT ![n] = NoThread]
        /\ due' = [u \in Lockers |-> due[u] \ {n}] /\ current' = current /\ pc' = [pc EXCEPT ![t] = "delete"]
    BY <1>4 DEF List!TakeOut, List!KeepCurrent, List!Goto
  <1>6. InList' = InList \ {n} /\ \A x \in Lockers : pc[x] = "delete" => following[x] # n
    BY <1>2, <1>3, <1>4, <1>5 DEF InList, ListTyped
  <1>7. InRank(rank)' BY <1>1, <1>4, <1>5, <1>6, UnlinksKeepRank
  <1>8. ListTyped'
    <2>1. due' \in [Lockers -> SUBSET InList'] BY <1>2, <1>5, <1>6 DEF ListTyped
    <2>2. next' \in [Nodes \cup {Root} -> Nodes \cup {Null}] BY <1>2, <1>4, <1>5 DEF ListTyped
    <2> QED BY <1>2, <1>3, <1>5, <2>1, <2>2 DEF ListTyped
  <1>9. ASSUME NEW u \in Lockers \ {t}
        PROVE  (Holds(u) /\ Met(rank, u))'
    <2>1. Holds(u) BY <1>1 DEF WalksSound
    <2>2. Walking(u) => /\ current[u] # n /\ current[u] # current[t] /\ current[u] \in InList' \cup {Root}
                        /\ node_mutex'[current[u]] = u
      BY <1>2, <1>4, <1>5, <1>6, <2>1 DEF Holds, ListTyped
    <2>3. pc[u] = "at" => /\ node_mutex'[following[u]] = u /\ following[u] \in InList'
                          /\ next'[current[u]] = next[current[u]]
      <3> SUFFICES ASSUME pc[u] = "at"
                   PROVE  /\ node_mutex'[following[u]] = u /\ following[u] \in InList'
                          /\ next'[current[u]] = next[current[u]]
        OBVIOUS
      <3>1. node_mutex[following[u]] = u /\ following[u] \in InList /\ Walking(u)
        BY <2>1 DEF Holds, Walking
      <3>2. following[u] # n /\ following[u] \in DOMAIN node_mutex
        BY <1>2, <1>4, <3>1 DEF ListTyped, InList
      <3> QED BY <1>2, <1>5, <1>6, <2>2, <3>1, <3>2
    <2>4. pc[u] = "delete" => /\ following[u] \in live'
                              /\ \A x \in Lockers : pc'[x] = "delete" /\ following'[x] = following[u] => x = u
      BY <1>2, <1>3, <1>5, <1>6, <2>1 DEF Holds, ListTyped
    <2>5. due'[u] \subseteq due[u] BY <1>5
    <2>6. pc'[u] = pc[u] BY <1>2, <1>5 DEF ListTyped
    <2>7. Walking(u) => \A y \in InList' : Ahead(rank, current[u], y) => y \in InList /\ Ahead(rank, current[u], y)
      BY <1>6
    <2> QED BY <1>1, <1>3, <1>5, <2>2, <2>3, <2>4, <2>5, <2>6, <2>7, OthersWalkOn
  <1>10. pc'[t] = "delete" /\ current'[t] = current[t] /\ node_mutex'[current[t]] = t /\ following'[t] = n
    BY <1>2, <1>3, <1>4, <1>5 DEF ListTyped
  <1>11. Holds(t)'
    <2>1. \A x \in Lockers : pc'[x] = "delete" /\ following'[x] = n => x = t
      BY <1>2, <1>3, <1>5, <1>6 DEF ListTyped
    <2> QED BY <1>3, <1>4, <1>6, <1>10, <2>1 DEF Holds, Walking
  <1>12. Met(rank, t)'
    <2>1. Walking(t) /\ Walking(t)' /\ due'[t] \subseteq due[t] BY <1>3, <1>5, <1>10 DEF Walking
    <2> QED BY <1>2, <1>3, <1>6, <1>10, <2>1 DEF Met, Passed
  <1>13. WalksSound(rank)' BY <1>7, <1>8, <1>9, <1>11, <1>12 DEF WalksSound
  <1> QED BY <1>13 DEF ListInv

LEMMA DeletesKeepList ==
    ASSUME List!ListAssumption, ListInv, NEW t \in Lockers, List!Delete(t) PROVE ListInv'
  <1>1. PICK rank : WalksSound(rank) BY DEF ListInv
  <1>2. ListTyped /\ InRank(rank) /\ Holds(t) /\ Met(rank, t) BY <1>1 DEF WalksSound
  <1>3. /\ pc[t] = "delete" /\ following[t] \in live /\ live' = live \ {following[t]} /\ pc' = [pc EXCEPT ![t] = "walk"]
        /\ UNCHANGED <<next, data, node_mutex, op, match, current, following, seen, due>>
    BY <1>2 DEF List!Delete, List!Goto, Holds
  <1>4. InList' = InList BY <1>2, <1>3 DEF InList, ListTyped
  <1>5. ListTyped' BY <1>2, <1>3, <1>4 DEF ListTyped
  <1>6. ASSUME NEW u \in Lockers
        PROVE  (Holds(u) /\ Met(rank, u))'
    <2>1. Holds(u) /\ Met(rank, u) BY <1>1 DEF WalksSound
    <2>2. Walking(u)' = Walking(u) /\ (pc'[u] = "found" <=> pc[u] = "found")
      BY <1>2, <1>3 DEF ListTyped, Walking
    <2>3. Met(rank, u)' BY <1>3, <1>4, <2>1, <2>2 DEF Met, Passed
    <2>4. /\ pc'[u] # "idle" <=> pc[u] # "idle"
          /\ pc'[u] \in {"walk", "at", "delete", "end"} <=> pc[u] \in {"walk", "at", "delete", "end"}
          /\ pc'[u] = "at" <=> pc[u] = "at"
          /\ pc'[u] = "delete" <=> pc[u] = "delete" /\ u # t
      BY <1>2, <1>3 DEF ListTyped
    <2>5. pc'[u] = "delete" => /\ following[u] \in live'
                               /\ \A x \in Lockers : pc'[x] = "delete" /\ following[x] = following[u] => x = u
      BY <1>2, <1>3, <2>1, <2>4 DEF Holds, ListTyped
    <2>6. Holds(u)' BY <1>3, <1>4, <2>1, <2>2, <2>4, <2>5 DEF Holds
    <2> QED BY <2>3, <2>6
  <1>7. WalksSound(rank)' BY <1>2, <1>3, <1>4, <1>5, <1>6, InRankStays DEF WalksSound
  <1> QED BY <1>7 DEF ListInv

LEMMA ReturnsKeepList ==
    ASSUME List!ListAssumption, ListInv, NEW t \in Lockers, List!Return(t) PROVE ListInv'
  <1>1. PICK rank : WalksSound(rank) BY DEF ListInv
  <1>2. ListTyped /\ InRank(rank) BY <1>1 DEF WalksSound
  <1>3. /\ pc[t] \in {"end", "found"} /\ pc' = [pc EXCEPT ![t] = "idle"]
        /\ current' = [current EXCEPT ![t] = Null] /\ following' = [following EXCEPT ![t] = Null]
        /\ seen' = [seen EXCEPT ![t] = << >>] /\ due' = [due EXCEPT ![t] = {}]
        /\ op' = [op EXCEPT ![t] = "none"] /\ match' = [match EXCEPT ![t] = {}]
        /\ UNCHANGED <<next, data, live, node_mutex>>
    BY DEF List!Return, List!Goto
  <1>4. InList' = InList BY <1>2, <1>3, SameInList DEF ListTyped
  <1>5. << >> \in Seq(Nodes) /\ IsInjective(<< >>) BY DEF IsInjective
  <1>6. ListTyped'
    <2>1. due' \in [Lockers -> SUBSET InList'] /\ seen' \in [Lockers -> Seq(Nodes)]
      BY <1>2, <1>3, <1>4, <1>5 DEF ListTyped
    <2> QED BY <1>2, <1>3, <2>1 DEF ListTyped
  <1>7. ASSUME NEW u \in Lockers \ {t}
        PROVE  (Holds(u) /\ Met(rank, u))'
    BY <1>1, <1>2, <1>3, <1>4, OthersStay DEF ListTyped
  <1>8. pc'[t] = "idle" /\ seen'[t] = << >> /\ due'[t] = {} /\ ~Walking(t)'
    BY <1>2, <1>3 DEF ListTyped, Walking
  <1>9. (Holds(t) /\ Met(rank, t))' BY <1>5, <1>8 DEF Holds, Met, Walking
  <1>10. WalksSound(rank)' BY <1>2, <1>3, <1>4, <1>6, <1>7, <1>9, InRankStays DEF WalksSound
  <1> QED BY <1>10 DEF ListInv

LEMMA ListKept == ASSUME List!ListAssumption, ListInv, [List!Next]_(List!vars) PROVE ListInv'
  <1>1. CASE UNCHANGED List!vars
    <2>1. UNCHANGED <<next, data, live, node_mutex, pc, op, match, current, following, seen, due>>
      BY <1>1 DEF List!vars
    <2>2. PICK rank : WalksSound(rank) BY DEF ListInv
    <2>3. InList' = InList /\ ListTyped' /\ InRank(rank)'
      BY <2>1, <2>2 DEF InList, ListTyped, InRank, WalksSound
    <2>4. \A t \in Lockers : (Holds(t) /\ Met(rank, t))'
      BY <2>1, <2>2, <2>3 DEF WalksSound, Holds, Met, Passed, Walking
    <2>5. WalksSound(rank)' BY <2>3, <2>4 DEF WalksSound
    <2> QED BY <2>5 DEF ListInv
  <1>2. CASE List!Next
    BY <1>2, PushesKeepList, BeginsKeepList, LocksKeepList, VisitsKeepList, PassesKeepList, TakesKeepList,
       DeletesKeepList, ReturnsKeepList DEF List!Next
  <1> QED BY <1>1, <1>2

LEMMA ListFollows == ASSUME List!ListAssumption, ListInv PROVE List!NoUseAfterDelete /\ List!MeetsAll
  <1>1. PICK rank : WalksSound(rank) BY DEF ListInv
  <1>2. \A t \in Lockers : Met(rank, t) /\ Holds(t) /\ pc[t] # "fault" /\ op[t] \in {"none", "for_each", "find", "remove"}
    BY <1>1 DEF WalksSound, ListTyped
  <1>3. \A s : (List!IsInjective(s) <=> IsInjective(s)) /\ List!Range(s) = Range(s)
    BY DEF List!IsInjective, IsInjective, List!Range, Range
  <1>4. List!NoUseAfterDelete BY <1>2, LinkedInList DEF List!NoUseAfterDelete, List!Running, InList
  <1>5. ASSUME NEW t \in Lockers, pc[t] = "end"
        PROVE  /\ IsInjective(seen[t])
               /\ op[t] = "for_each" => due[t] \subseteq Range(seen[t])
               /\ op[t] = "find" => \A n \in due[t] : data[n] \notin match[t]
               /\ op[t] = "remove" => \A n \in due[t] : data[n] \notin match[t]
    BY <1>2, <1>5 DEF Met, Passed, Walking
  <1>6. List!MeetsAll BY <1>3, <1>5 DEF List!MeetsAll
  <1> QED BY <1>4, <1>6

-----------------------------------------------------------------------------
(* The skip list.  On each level a node leads to the next of those that have *)
(* a link there (Leads), and these are among those of the level below.  An   *)
(* insertion has still to link its key on the levels from insert.level on,   *)
(* between a node before it and the one that follows (Fits).                 *)

Level == 1 .. Height
InLevel(l) == {x \in SkipKeys : next_[x][l] # Skip!Wild}
FromTop(l) == InLevel(l) \cup {Skip!Top}
Leads(l, x, n) == /\ n # Skip!Nil => n \in InLevel(l) /\ n > x
                  /\ \A y \in InLevel(l) : y > x => n # Skip!Nil /\ n <= y
InOrder(l) == \A x \in FromTop(l) : Leads(l, x, next_[x][l])
Fits(l, p, key) == /\ p \in FromTop(l) /\ p < key
                   /\ next_[p][l] = Skip!Nil \/ next_[p][l] >= key

Inserts == [key : SkipKeys, height : Level, prev : UNION {[1 .. h -> SkipKeys \cup {Skip!Top}] : h \in Level}, level : Level]
Finds == [what : {"Contains", "Seek", "Prev", "SeekToLast"}, key : SkipKeys, x : SkipKeys \cup {Skip!Top}, level : Level]

SkipTyped == /\ next_ \in [SkipKeys \cup {Skip!Top} -> [Level -> SkipKeys \cup {Skip!Nil, Skip!Wild}]]
             /\ max_height_ \in Level /\ heights \in SUBSET Level
             /\ insert \in {Skip!Idle} \cup Inserts
             /\ find \in [Readers -> {Skip!Standing} \cup Finds]
             /\ node_ \in [Readers -> SkipKeys \cup {Skip!Nil}]
             /\ DOMAIN asked = Readers
LevelsLinked == /\ \A l \in Level : InOrder(l)
                /\ \A l \in Level \ {1} : InLevel(l) \subseteq InLevel(l - 1)
                /\ \A l \in Level : l > max_height_ => InLevel(l) = {}
Inserting == insert # Skip!Idle =>
               /\ insert.level <= insert.height /\ insert.height <= max_height_
               /\ DOMAIN insert.prev = 1 .. insert.height
               /\ insert.level > 1 => insert.key \in InLevel(insert.level - 1)
               /\ \A l \in insert.level .. insert.height :
                     insert.key \notin InLevel(l) /\ Fits(l, insert.prev[l], insert.key)
Finding(r) == /\ find[r] # Skip!Standing =>
                   /\ find[r].x \in FromTop(find[r].level)
                   /\ find[r].what # "SeekToLast" => find[r].x < find[r].key
              /\ node_[r] # Skip!Nil => node_[r] \in InLevel(1)

SkipInv == SkipTyped /\ LevelsLinked /\ Inserting /\ \A r \in Readers : Finding(r)

LEMMA KeyTypes ==
    ASSUME Skip!SkipAssumption
    PROVE  /\ Height \in Nat /\ Height >= 1 /\ 1 \in Level /\ Skip!Levels = Level
           /\ Skip!Top = 0 /\ Skip!Nil = -1 /\ Skip!Wild = -2
           /\ \A x \in SkipKeys : x \in Nat /\ x > 0
           /\ \A l : \A x \in FromTop(l) : x \in Nat
           /\ Skip!Top \notin SkipKeys /\ Skip!Nil \notin SkipKeys \cup {Skip!Top} /\ Skip!Wild \notin SkipKeys \cup {Skip!Top, Skip!Nil}
  <1>1. Height \in Nat /\ Height >= 1 /\ 1 \in Level /\ Skip!Levels = Level
    BY DEF Skip!SkipAssumption, Skip!Levels, Level
  <1>2. Skip!Top = 0 /\ Skip!Nil = -1 /\ Skip!Wild = -2 BY DEF Skip!Top, Skip!Nil, Skip!Wild
  <1>3. \A x \in SkipKeys : x \in Nat /\ x > 0 BY DEF Skip!SkipAssumption
  <1>4. \A l : \A x \in FromTop(l) : x \in Nat BY <1>2, <1>3 DEF FromTop, InLevel
  <1>5. Skip!Top \notin SkipKeys /\ Skip!Nil \notin SkipKeys \cup {Skip!Top} /\ Skip!Wild \notin SkipKeys \cup {Skip!Top, Skip!Nil}
    BY <1>2, <1>3
  <1> QED BY <1>1, <1>2, <1>3, <1>4, <1>5

LEMMA SkipBegins == ASSUME Skip!SkipAssumption, Skip!Init PROVE SkipInv
  <1>1. next_ = [x \in SkipKeys \cup {Skip!Top} |-> [l \in Level |-> IF x = Skip!Top THEN Skip!Nil ELSE Skip!Wild]]
    BY KeyTypes DEF Skip!Init
  <1>2. \A l \in Level : InLevel(l) = {} /\ next_[Skip!Top][l] = Skip!Nil
    BY <1>1, KeyTypes DEF InLevel
  <1>3. SkipTyped BY <1>1, KeyTypes DEF Skip!Init, SkipTyped, Level
  <1>4. LevelsLinked BY <1>2, KeyTypes DEF LevelsLinked, InOrder, FromTop, Leads
  <1>5. Inserting /\ \A r \in Readers : Finding(r) BY DEF Skip!Init, Inserting, Finding
  <1> QED BY <1>3, <1>4, <1>5 DEF SkipInv

\* The keys, finitely many, have a bound.
LEMMA KeysBounded == ASSUME Skip!SkipAssumption PROVE \E b \in Nat : \A x \in SkipKeys : x <= b
  <1>1. \A E : Skip!IsFiniteSet(E) <=> IsFiniteSet(E) BY DEF Skip!IsFiniteSet, IsFiniteSet
  <1>2. PICK size \in Nat : ExistsBijection(1 .. size, SkipKeys)
    BY <1>1, FS_CardinalityType DEF Skip!SkipAssumption
  <1>3. PICK f \in [1 .. size -> SkipKeys] : \A x \in SkipKeys : \E i \in 1 .. size : f[i] = x
    BY <1>2 DEF ExistsBijection, Bijection, Surjection
  <1> DEFINE S == {k \in Nat : \E b \in Nat : \A i \in 1 .. size : i <= k => f[i] <= b}
  <1>4. 0 \in S OBVIOUS
  <1>5. ASSUME NEW k \in Nat, k \in S
        PROVE  k + 1 \in S
    <2>1. PICK b \in Nat : \A i \in 1 .. size : i <= k => f[i] <= b BY <1>5
    <2>2. CASE k + 1 \in 1 .. size
      <3>1. f[k + 1] \in Nat /\ \A i \in 1 .. size : f[i] \in Nat BY <2>2, KeyTypes
      <3>2. PICK c \in Nat : b <= c /\ f[k + 1] <= c
        <4>1. CASE b <= f[k + 1] BY <3>1, <4>1
        <4>2. CASE f[k + 1] <= b BY <4>2
        <4> QED BY <3>1, <4>1, <4>2
      <3>3. \A i \in 1 .. size : i <= k + 1 => i <= k \/ i = k + 1 OBVIOUS
      <3>4. \A i \in 1 .. size : i <= k + 1 => f[i] <= c BY <2>1, <3>1, <3>2, <3>3
      <3> QED BY <3>4
    <2>3. CASE k + 1 \notin 1 .. size
      <3>1. \A i \in 1 .. size : i <= k + 1 => i <= k BY <2>3
      <3>2. \A i \in 1 .. size : i <= k + 1 => f[i] <= b BY <2>1, <3>1
      <3> QED BY <3>2
    <2> QED BY <2>2, <2>3
  <1>6. size \in S
    <2> HIDE DEF S
    <2> QED BY <1>4, <1>5, NatInduction1
  <1> QED BY <1>3, <1>6

LEMMA FitsOnce ==
    ASSUME Skip!SkipAssumption, SkipTyped, LevelsLinked, NEW l \in Level, NEW key \in SkipKeys
    PROVE  \E p : Fits(l, p, key) /\ \A q : Fits(l, q, key) => q = p
  <1> DEFINE T == {key - x : x \in {y \in FromTop(l) : y < key}}
  <1>1. T \in SUBSET Nat BY KeyTypes
  <1>2. key - Skip!Top \in T BY KeyTypes DEF FromTop
  <1>3. PICK d \in T : \A e \in T : d <= e BY <1>1, <1>2, LeastNat
  <1>4. PICK p \in FromTop(l) : p < key /\ d = key - p BY <1>3
  <1>5. \A y \in FromTop(l) : y < key => y <= p
    <2> SUFFICES ASSUME NEW y \in FromTop(l), y < key
                 PROVE  y <= p
      OBVIOUS
    <2>1. d <= key - y BY <1>3
    <2> QED BY <1>4, <2>1, KeyTypes
  <1>6. Leads(l, p, next_[p][l]) BY <1>4 DEF LevelsLinked, InOrder
  <1>7. next_[p][l] = Skip!Nil \/ next_[p][l] >= key
    <2> SUFFICES ASSUME next_[p][l] # Skip!Nil
                 PROVE  next_[p][l] >= key
      OBVIOUS
    <2>1. next_[p][l] \in FromTop(l) /\ next_[p][l] > p BY <1>6 DEF Leads, FromTop
    <2> QED BY <1>5, <2>1, KeyTypes
  <1>8. ASSUME NEW q, Fits(l, q, key), q # p
        PROVE  FALSE
    <2>1. q \in FromTop(l) /\ q < p /\ q \in Nat /\ p \in Nat
      BY <1>4, <1>5, <1>8, KeyTypes DEF Fits
    <2>2. Leads(l, q, next_[q][l]) /\ p \in InLevel(l)
      BY <2>1, KeyTypes DEF LevelsLinked, InOrder, FromTop
    <2>3. next_[q][l] # Skip!Nil /\ next_[q][l] <= p /\ next_[q][l] \in InLevel(l)
      BY <2>1, <2>2 DEF Leads
    <2>4. next_[q][l] \in Nat BY <2>3, KeyTypes DEF InLevel
    <2> QED BY <1>4, <1>8, <2>1, <2>3, <2>4, KeyTypes DEF Fits
  <1> QED BY <1>4, <1>7, <1>8 DEF Fits

\* What the nodes from x on are.
After(l, x) == IF x \in {Skip!Nil, Skip!Wild} THEN {} ELSE {x} \cup {y \in InLevel(l) : x \in FromTop(l) /\ y > x}

LEMMA OnIsInLevel ==
    ASSUME Skip!SkipAssumption, SkipTyped, LevelsLinked, NEW l \in Level
    PROVE  Skip!On(l) = InLevel(l)
  <1> DEFINE D == SkipKeys \cup {Skip!Top, Skip!Nil, Skip!Wild}
             Empty(x) == x \in {Skip!Nil, Skip!Wild}
             Step(g) == [x \in D |-> IF Empty(x) THEN {} ELSE {x} \cup g[next_[x][l]]]
             on == CHOOSE g : g = Step(g)
             f == [x \in D |-> After(l, x)]
  <1>1. \A x \in D : ~Empty(x) => x \in SkipKeys \cup {Skip!Top} /\ next_[x][l] \in D
    BY KeyTypes DEF SkipTyped
  <1>2. ASSUME NEW x \in FromTop(l)
        PROVE  /\ x \in D /\ ~Empty(x) /\ next_[x][l] # Skip!Wild
               /\ {y \in InLevel(l) : y > x} = After(l, next_[x][l])
    <2>1. x \in D /\ ~Empty(x) /\ Leads(l, x, next_[x][l]) /\ x \in Nat
      BY KeyTypes DEF LevelsLinked, InOrder, FromTop, InLevel
    <2>2. CASE next_[x][l] = Skip!Nil BY <2>1, <2>2, KeyTypes DEF Leads, After
    <2>3. CASE next_[x][l] # Skip!Nil
      <3> PICK n : n = next_[x][l] OBVIOUS
      <3>1. n \in InLevel(l) /\ n > x /\ n \in Nat /\ \A y \in InLevel(l) : y > x => n <= y
        BY <2>1, <2>3, KeyTypes DEF Leads, InLevel
      <3>2. n \notin {Skip!Nil, Skip!Wild} /\ n \in FromTop(l) /\ \A y \in InLevel(l) : y \in Nat
        BY <3>1, KeyTypes DEF FromTop, InLevel
      <3>3. \A y \in InLevel(l) : y > x <=> y = n \/ y > n BY <2>1, <3>1, <3>2
      <3>4. After(l, n) = {n} \cup {y \in InLevel(l) : y > n} BY <3>2 DEF After
      <3>5. {y \in InLevel(l) : y > x} = {n} \cup {y \in InLevel(l) : y > n} BY <3>1, <3>3
      <3>6. After(l, next_[x][l]) = After(l, n) /\ next_[x][l] # Skip!Wild BY <3>2
      <3> QED BY <2>1, <3>4, <3>5, <3>6
    <2> QED BY <2>1, <2>2, <2>3
  <1>3. f = Step(f)
    <2>1. ASSUME NEW x \in D
          PROVE  After(l, x) = IF Empty(x) THEN {} ELSE {x} \cup f[next_[x][l]]
      <3>1. CASE Empty(x) BY <3>1 DEF After
      <3>2. CASE ~Empty(x) /\ x \in FromTop(l)
        <4>1. f[next_[x][l]] = After(l, next_[x][l]) BY <1>1, <3>2
        <4>2. After(l, x) = {x} \cup {y \in InLevel(l) : y > x} BY <3>2 DEF After
        <4> HIDE DEF f
        <4> QED BY <1>2, <3>2, <4>1, <4>2
      <3>3. CASE ~Empty(x) /\ x \notin FromTop(l)
        <4>1. next_[x][l] = Skip!Wild BY <3>3, KeyTypes DEF FromTop, InLevel
        <4>2. f[Skip!Wild] = {} BY DEF After
        <4>3. After(l, x) = {x} BY <3>3 DEF After
        <4> HIDE DEF f
        <4> QED BY <3>3, <4>1, <4>2, <4>3
      <3> QED BY <3>1, <3>2, <3>3
    <2> QED BY <2>1
  <1>4. on = Step(on)
    <2> HIDE DEF Step, f
    <2> QED BY <1>3
  <1>5. \A x \in D : on[x] = IF Empty(x) THEN {} ELSE {x} \cup on[next_[x][l]]
    <2> HIDE DEF on, D, Empty
    <2> QED BY <1>4
  <1> HIDE DEF on, f
  <1>6. PICK b \in Nat : \A x \in SkipKeys : x <= b BY KeysBounded
  <1>7. \A x \in FromTop(l) : on[x] = {x} \cup {y \in InLevel(l) : y > x}
    <2> DEFINE Bad == {x \in FromTop(l) : on[x] # {x} \cup {y \in InLevel(l) : y > x}}
               T == {b - x : x \in Bad}
    <2> SUFFICES ASSUME Bad # {}
                 PROVE  FALSE
      OBVIOUS
    <2>1. T \in SUBSET Nat /\ T # {}
      <3>1. \A x \in FromTop(l) : x \in Nat /\ x <= b BY <1>6, KeyTypes DEF FromTop, InLevel
      <3> QED BY <3>1
    <2>2. PICK d \in T : \A e \in T : d <= e BY <2>1, LeastNat
    <2>3. PICK x \in Bad : d = b - x BY <2>2
    <2>4. \A y \in Bad : y <= x
      <3> SUFFICES ASSUME NEW y \in Bad
                   PROVE  y <= x
        OBVIOUS
      <3>1. x \in Nat /\ y \in Nat BY KeyTypes
      <3>2. b - y \in T OBVIOUS
      <3>3. d <= b - y BY <2>2, <3>2
      <3> HIDE DEF Bad, T
      <3> QED BY <2>3, <3>1, <3>3
    <2>5. on[x] = {x} \cup on[next_[x][l]] /\ {y \in InLevel(l) : y > x} = After(l, next_[x][l])
      BY <1>2, <1>5
    <2>6. on[next_[x][l]] = After(l, next_[x][l])
      <3>1. Leads(l, x, next_[x][l]) BY DEF LevelsLinked, InOrder
      <3>2. CASE next_[x][l] = Skip!Nil BY <1>5, <3>2 DEF After
      <3>3. CASE next_[x][l] # Skip!Nil
        <4> PICK n : n = next_[x][l] OBVIOUS
        <4>1. n \in InLevel(l) /\ n > x /\ n \in FromTop(l) BY <3>1, <3>3 DEF Leads, FromTop
        <4>2. n \notin Bad BY <2>4, <4>1, KeyTypes
        <4>3. n \notin {Skip!Nil, Skip!Wild} BY <4>1, KeyTypes DEF InLevel
        <4> QED BY <4>1, <4>2, <4>3 DEF After
      <3> QED BY <3>2, <3>3
    <2> QED BY <2>3, <2>5, <2>6
  <1>8. on[next_[Skip!Top][l]] = InLevel(l)
    <2>1. Leads(l, Skip!Top, next_[Skip!Top][l]) /\ \A y \in InLevel(l) : y \in Nat /\ y > Skip!Top
      BY KeyTypes DEF LevelsLinked, InOrder, FromTop, InLevel
    <2>2. CASE next_[Skip!Top][l] = Skip!Nil BY <1>5, <2>1, <2>2 DEF Leads
    <2>3. CASE next_[Skip!Top][l] # Skip!Nil
      <3> PICK n : n = next_[Skip!Top][l] OBVIOUS
      <3>1. n \in InLevel(l) /\ \A y \in InLevel(l) : n <= y BY <2>1, <2>3 DEF Leads
      <3>2. on[n] = {n} \cup {y \in InLevel(l) : y > n} BY <1>7, <3>1 DEF FromTop
      <3>3. \A y \in InLevel(l) : y = n \/ y > n BY <2>1, <3>1
      <3> QED BY <3>1, <3>2, <3>3
    <2> QED BY <2>2, <2>3
  <1>9. Skip!On(l) = on[next_[Skip!Top][l]] BY DEF Skip!On, on
  <1> QED BY <1>8, <1>9

LEMMA AlongFits ==
    ASSUME Skip!SkipAssumption, SkipTyped, LevelsLinked, NEW l \in Level, NEW key \in SkipKeys,
           NEW from \in FromTop(l), from < key
    PROVE  Fits(l, Skip!Along(key, l, from), key)
  <1> DEFINE D == {y \in SkipKeys \cup {Skip!Top} : next_[y][l] # Skip!Wild}
             Step(g) == [x \in D |-> IF Skip!KeyIsAfterNode(key, next_[x][l]) THEN g[next_[x][l]] ELSE x]
             go == CHOOSE g : g = Step(g)
  <1>1. D = FromTop(l)
    <2>1. Leads(l, Skip!Top, next_[Skip!Top][l]) BY DEF LevelsLinked, InOrder, FromTop
    <2>2. next_[Skip!Top][l] # Skip!Wild BY <2>1, KeyTypes DEF Leads, InLevel
    <2> QED BY <2>2 DEF FromTop, InLevel
  <1>2. PICK p : Fits(l, p, key) /\ \A q : Fits(l, q, key) => q = p BY FitsOnce
  <1> DEFINE f == [x \in D |-> IF x < key THEN p ELSE x]
             After_(x) == Skip!KeyIsAfterNode(key, next_[x][l])
  <1>3. ASSUME NEW x \in D
        PROVE  /\ After_(x) => next_[x][l] \in D /\ next_[x][l] > x /\ next_[x][l] < key /\ x < key
               /\ ~After_(x) /\ x < key => x = p
    <2>1. Leads(l, x, next_[x][l]) /\ x \in FromTop(l) /\ x \in Nat /\ key \in Nat
      BY <1>1, KeyTypes DEF LevelsLinked, InOrder
    <2>2. ASSUME After_(x)
          PROVE  next_[x][l] \in D /\ next_[x][l] > x /\ next_[x][l] < key /\ x < key
      <3> PICK n : n = next_[x][l] OBVIOUS
      <3>1. n \in FromTop(l) /\ n > x /\ n < key
        BY <2>1, <2>2 DEF Leads, FromTop, Skip!KeyIsAfterNode
      <3>2. n \in Nat BY <3>1, KeyTypes
      <3> QED BY <1>1, <2>1, <3>1, <3>2
    <2>3. ASSUME ~After_(x), x < key
          PROVE  x = p
      <3>1. next_[x][l] = Skip!Nil \/ next_[x][l] >= key
        <4> SUFFICES ASSUME next_[x][l] # Skip!Nil
                     PROVE  next_[x][l] >= key
          OBVIOUS
        <4>1. next_[x][l] \in Nat BY <2>1, KeyTypes DEF Leads, InLevel
        <4> QED BY <2>1, <2>3, <4>1 DEF Skip!KeyIsAfterNode
      <3> QED BY <1>2, <2>1, <2>3, <3>1 DEF Fits
    <2> QED BY <2>2, <2>3
  <1>4. f = Step(f)
    <2>1. ASSUME NEW x \in D
          PROVE  f[x] = IF After_(x) THEN f[next_[x][l]] ELSE x
      BY <1>3
    <2> HIDE DEF D
    <2> QED BY <2>1
  <1>5. go = Step(go)
    <2> HIDE DEF Step, f
    <2> QED BY <1>4
  <1>6. \A x \in D : go[x] = IF After_(x) THEN go[next_[x][l]] ELSE x
    <2> HIDE DEF go, D
    <2> QED BY <1>5
  <1>7. go[from] = p
    <2> HIDE DEF go
    <2> DEFINE Bad == {x \in D : x < key /\ go[x] # p}
               T == {key - x : x \in Bad}
    <2> SUFFICES ASSUME Bad # {}
                 PROVE  FALSE
      BY <1>1
    <2>1. T \in SUBSET Nat /\ T # {} BY <1>1, KeyTypes
    <2>2. PICK d \in T : \A e \in T : d <= e BY <2>1, LeastNat
    <2>3. PICK x \in Bad : d = key - x BY <2>2
    <2>4. ASSUME After_(x)
          PROVE  FALSE
      <3> PICK n : n = next_[x][l] OBVIOUS
      <3>1. n \in D /\ n > x /\ n < key /\ go[x] = go[n] BY <1>3, <1>6, <2>4
      <3>2. n \in Bad BY <2>3, <3>1
      <3>3. d <= key - n BY <2>2, <3>2
      <3>4. n \in Nat /\ x \in Nat /\ key \in Nat BY <1>1, <2>3, <3>1, KeyTypes
      <3> HIDE DEF Bad, T, D
      <3> QED BY <2>3, <3>1, <3>3, <3>4
    <2>5. ASSUME ~After_(x)
          PROVE  FALSE
      BY <1>3, <1>6, <2>3, <2>5
    <2> QED BY <2>4, <2>5
  <1>8. Skip!Along(key, l, from) = go[from] BY DEF Skip!Along, go
  <1> QED BY <1>2, <1>7, <1>8

LEMMA PredsFit ==
    ASSUME Skip!SkipAssumption, SkipTyped, LevelsLinked, NEW key \in SkipKeys
    PROVE  \A l \in 1 .. max_height_ : Fits(l, Skip!Preds(key)[l], key)
  <1> DEFINE M == max_height_
             Step(g) == [l \in 1 .. M |-> Skip!Along(key, l, IF l = M THEN Skip!Top ELSE g[l + 1])]
             prev == CHOOSE g : g = Step(g)
             f == [l \in 1 .. M |-> CHOOSE p : Fits(l, p, key)]
  <1>1. M \in Nat /\ M >= 1 /\ \A l \in 1 .. M : l \in Level BY KeyTypes DEF SkipTyped, Level
  <1>2. \A l \in 1 .. M : Fits(l, f[l], key) BY <1>1, FitsOnce
  <1>3. ASSUME NEW l \in 1 .. M, NEW g, l # M => Fits(l + 1, g[l + 1], key)
        PROVE  Fits(l, Skip!Along(key, l, IF l = M THEN Skip!Top ELSE g[l + 1]), key)
    <2> DEFINE from == IF l = M THEN Skip!Top ELSE g[l + 1]
    <2>1. CASE l = M
      <3>1. from = Skip!Top /\ from \in FromTop(l) /\ from < key BY <2>1, KeyTypes DEF FromTop
      <3> QED BY <1>1, <3>1, AlongFits
    <2>2. CASE l # M
      <3>1. l + 1 \in Level \ {1} /\ l = l + 1 - 1 BY <1>1, <2>2
      <3>2. FromTop(l + 1) \subseteq FromTop(l) BY <3>1 DEF LevelsLinked, FromTop
      <3>3. from \in FromTop(l) /\ from < key BY <1>3, <2>2, <3>2 DEF Fits
      <3> QED BY <1>1, <3>3, AlongFits
    <2> QED BY <2>1, <2>2
  <1>4. f = Step(f)
    <2>1. ASSUME NEW l \in 1 .. M
          PROVE  f[l] = Skip!Along(key, l, IF l = M THEN Skip!Top ELSE f[l + 1])
      <3>1. l # M => l + 1 \in 1 .. M BY <1>1
      <3>2. Fits(l, Skip!Along(key, l, IF l = M THEN Skip!Top ELSE f[l + 1]), key)
        <4> HIDE DEF f
        <4> QED BY <1>2, <1>3, <3>1
      <3> QED BY <1>1, <1>2, <3>2, FitsOnce
    <2>2. f = [l \in 1 .. M |-> f[l]] OBVIOUS
    <2> HIDE DEF f
    <2> QED BY <2>1, <2>2, Zenon
  <1>5. prev = Step(prev)
    <2> HIDE DEF Step, f
    <2> QED BY <1>4
  <1>6. \A l \in 1 .. M : prev[l] = Skip!Along(key, l, IF l = M THEN Skip!Top ELSE prev[l + 1])
    <2> HIDE DEF prev
    <2> QED BY <1>5
  <1>7. Skip!Preds(key) = prev BY DEF Skip!Preds, prev
  <1> HIDE DEF prev
  <1> DEFINE Bad == {l \in 1 .. M : ~Fits(l, prev[l], key)}
             T == {M - l : l \in Bad}
  <1> SUFFICES ASSUME Bad # {}
               PROVE  FALSE
    BY <1>7
  <1>8. T \in SUBSET Nat /\ T # {} BY <1>1
  <1>9. PICK d \in T : \A e \in T : d <= e BY <1>8, LeastNat
  <1>10. PICK l \in Bad : d = M - l BY <1>9
  <1>11. ASSUME l # M, l + 1 \in Bad
         PROVE  FALSE
    <2>1. d <= M - (l + 1) BY <1>9, <1>11
    <2> QED BY <1>1, <1>10, <2>1
  <1>12. l # M => Fits(l + 1, prev[l + 1], key)
    <2>1. l # M => l + 1 \in 1 .. M BY <1>1, <1>10
    <2> QED BY <1>11, <2>1
  <1>13. Fits(l, prev[l], key)
    <2>1. Fits(l, Skip!Along(key, l, IF l = M THEN Skip!Top ELSE prev[l + 1]), key)
      BY <1>3, <1>10, <1>12
    <2> QED BY <1>6, <1>10, <2>1
  <1> QED BY <1>10, <1>13

LEMMA LevelsDown ==
    ASSUME Skip!SkipAssumption, LevelsLinked, NEW l \in Level
    PROVE  InLevel(l) \subseteq InLevel(1)
  <1> DEFINE S == {k \in Nat : k + 1 \in Level => InLevel(k + 1) \subseteq InLevel(1)}
  <1>1. 0 \in S OBVIOUS
  <1>2. ASSUME NEW k \in Nat, k \in S
        PROVE  k + 1 \in S
    <2> SUFFICES ASSUME k + 1 + 1 \in Level
                 PROVE  InLevel(k + 1 + 1) \subseteq InLevel(1)
      OBVIOUS
    <2>1. k + 1 \in Level /\ k + 1 + 1 \in Level \ {1} /\ k + 1 + 1 - 1 = k + 1
      BY KeyTypes DEF Level
    <2>2. InLevel(k + 1 + 1) \subseteq InLevel(k + 1) BY <2>1 DEF LevelsLinked
    <2> QED BY <1>2, <2>1, <2>2
  <1>3. Nat \subseteq S
    <2> HIDE DEF S
    <2> QED BY <1>1, <1>2, NatInduction1
  <1>4. l - 1 \in Nat /\ l - 1 + 1 = l BY DEF Level
  <1> QED BY <1>3, <1>4

\* The links decide who is on a level and whether they are in order.
LEMMA SameLinks ==
    ASSUME UNCHANGED next_
    PROVE  /\ \A l : InLevel(l)' = InLevel(l) /\ FromTop(l)' = FromTop(l)
           /\ \A l, p, key : Fits(l, p, key)' <=> Fits(l, p, key)
           /\ \A l : InOrder(l)' <=> InOrder(l)
  BY DEF InLevel, FromTop, Fits, InOrder, Leads

LEMMA InsertBeginKeepsSkip ==
    ASSUME Skip!SkipAssumption, SkipInv, NEW key \in SkipKeys, NEW height \in Level, Skip!InsertBegin(key, height)
    PROVE  SkipInv'
  <1>1. SkipTyped /\ LevelsLinked /\ UNCHANGED <<next_, find, node_, asked>>
    BY DEF SkipInv, Skip!InsertBegin
  <1>2. \A l \in 1 .. max_height_ : Fits(l, Skip!Preds(key)[l], key) BY <1>1, PredsFit
  <1> DEFINE prev == [l \in 1 .. height |-> IF l <= max_height_ THEN Skip!Preds(key)[l] ELSE Skip!Top]
  <1>3. /\ next_[Skip!Preds(key)[1]][1] # key
        /\ insert' = [key |-> key, height |-> height, level |-> 1, prev |-> prev]
    BY DEF Skip!InsertBegin
  <1>4. /\ max_height_' = IF height > max_height_ THEN height ELSE max_height_
        /\ heights' \in SUBSET Level
    BY <1>1 DEF Skip!InsertBegin, SkipTyped
  <1>5. max_height_ \in Nat /\ max_height_ >= 1 /\ height \in Nat /\ height >= 1 /\ max_height_ \in Level /\ 1 .. height \subseteq Level
    BY <1>1, KeyTypes DEF SkipTyped, Level
  <1>6. key \notin InLevel(1)
    <2> SUFFICES ASSUME key \in InLevel(1)
                 PROVE  FALSE
      OBVIOUS
    <2> PICK p : p = Skip!Preds(key)[1] OBVIOUS
    <2> PICK n : n = next_[p][1] OBVIOUS
    <2>1. Fits(1, p, key) /\ n # key BY <1>2, <1>3, <1>5
    <2>2. Leads(1, p, n) BY <1>1, <2>1, KeyTypes DEF Fits, LevelsLinked, InOrder
    <2>3. n # Skip!Nil /\ n <= key /\ n >= key /\ n \in InLevel(1) BY <2>1, <2>2 DEF Leads, Fits
    <2> QED BY <2>1, <2>3, KeyTypes DEF InLevel
  <1>7. ASSUME NEW l \in 1 .. height
        PROVE  key \notin InLevel(l) /\ Fits(l, prev[l], key)
    <2>1. l \in Level /\ key \notin InLevel(l) BY <1>1, <1>5, <1>6, LevelsDown
    <2>2. CASE l <= max_height_ BY <1>2, <2>1, <2>2, <1>5
    <2>3. CASE ~(l <= max_height_)
      <3>1. l > max_height_ /\ InLevel(l) = {} BY <1>1, <1>5, <2>1, <2>3 DEF LevelsLinked
      <3>2. Leads(l, Skip!Top, next_[Skip!Top][l]) BY <1>1, <2>1 DEF LevelsLinked, InOrder, FromTop
      <3>3. next_[Skip!Top][l] = Skip!Nil BY <3>1, <3>2 DEF Leads
      <3>4. prev[l] = Skip!Top BY <2>3
      <3> QED BY <2>1, <3>3, <3>4, KeyTypes DEF Fits, FromTop
    <2> QED BY <2>1, <2>2, <2>3
  <1>8. max_height_' \in Level /\ max_height_' >= height /\ max_height_' >= max_height_ /\ max_height_' \in Nat
    BY <1>4, <1>5
  <1>9. prev \in [1 .. height -> SkipKeys \cup {Skip!Top}]
    <2>1. \A l \in 1 .. height : prev[l] \in SkipKeys \cup {Skip!Top}
      BY <1>7 DEF Fits, FromTop, InLevel
    <2> QED BY <2>1
  <1> HIDE DEF prev
  <1>10. SkipTyped'
    <2>1. insert' \in Inserts BY <1>3, <1>9, KeyTypes DEF Inserts
    <2> QED BY <1>1, <1>4, <1>8, <2>1 DEF SkipTyped
  <1>11. LevelsLinked' BY <1>1, <1>5, <1>8, SameLinks DEF LevelsLinked, Level
  <1>12. Inserting'
    <2> PICK before : before = prev OBVIOUS
    <2>1. \A l \in 1 .. height : (key \notin InLevel(l))' /\ Fits(l, before[l], key)'
      BY <1>1, <1>7, SameLinks
    <2>2. /\ insert'.key = key /\ insert'.height = height /\ insert'.level = 1
          /\ insert'.prev = before /\ DOMAIN before = 1 .. height
      BY <1>3, <1>9
    <2> QED BY <1>5, <1>8, <2>1, <2>2 DEF Inserting
  <1>13. \A r \in Readers : Finding(r)' BY <1>1, SameLinks DEF SkipInv, Finding
  <1> QED BY <1>10, <1>11, <1>12, <1>13 DEF SkipInv

\* Linking a key before which it fits keeps the level in order.
LEMMA LinkKeepsOrder ==
    ASSUME Skip!SkipAssumption, SkipTyped, LevelsLinked, NEW l \in Level, NEW k \in SkipKeys, NEW b,
           k \notin InLevel(l), Fits(l, b, k),
           next_' = [next_ EXCEPT ![k][l] = next_[b][l], ![b][l] = k]
    PROVE  /\ InLevel(l)' = InLevel(l) \cup {k} /\ InOrder(l)'
           /\ \A j \in Level \ {l} : /\ InLevel(j)' = InLevel(j) /\ (InOrder(j)' <=> InOrder(j))
                                     /\ \A p, key : Fits(j, p, key)' <=> Fits(j, p, key)
           /\ next_' \in [SkipKeys \cup {Skip!Top} -> [Level -> SkipKeys \cup {Skip!Nil, Skip!Wild}]]
  <1> DEFINE D == SkipKeys \cup {Skip!Top}
  <1> PICK n : n = next_[b][l] OBVIOUS
  <1>1. b \in FromTop(l) /\ b \in D /\ b \in Nat /\ k \in Nat /\ b < k /\ b # k /\ k \in D
    BY KeyTypes DEF Fits, FromTop, InLevel
  <1>2. Leads(l, b, n) BY <1>1 DEF LevelsLinked, InOrder
  <1>3. n \in SkipKeys \cup {Skip!Nil} BY <1>2 DEF Leads, InLevel
  <1>4. next_' \in [D -> [Level -> SkipKeys \cup {Skip!Nil, Skip!Wild}]]
    BY <1>1, <1>3 DEF SkipTyped
  <1>5. /\ next_'[k][l] = n /\ next_'[b][l] = k
        /\ \A x \in D, j \in Level : j # l \/ x \notin {k, b} => next_'[x][j] = next_[x][j]
    BY <1>1 DEF SkipTyped
  <1>6. InLevel(l)' = InLevel(l) \cup {k}
    <2>1. \A x \in SkipKeys : x \notin {k, b} => next_'[x][l] = next_[x][l] BY <1>5
    <2>2. next_'[k][l] # Skip!Wild /\ next_'[b][l] # Skip!Wild BY <1>3, <1>5, KeyTypes
    <2>3. b \in SkipKeys => b \in InLevel(l) BY <1>1, KeyTypes DEF FromTop
    <2> QED BY <2>1, <2>2, <2>3 DEF InLevel
  <1>7. ASSUME NEW j \in Level \ {l}
        PROVE  /\ InLevel(j)' = InLevel(j) /\ (InOrder(j)' <=> InOrder(j))
               /\ \A p, key : Fits(j, p, key)' <=> Fits(j, p, key)
    <2>1. \A x \in D : next_'[x][j] = next_[x][j] BY <1>5
    <2>2. InLevel(j)' = InLevel(j) BY <2>1 DEF InLevel
    <2>3. FromTop(j)' = FromTop(j) /\ FromTop(j) \subseteq D BY <2>2 DEF FromTop, InLevel
    <2>4. InOrder(j)' <=> InOrder(j) BY <2>1, <2>2, <2>3 DEF InOrder, Leads
    <2>5. \A p, key : Fits(j, p, key)' <=> Fits(j, p, key) BY <2>1, <2>3 DEF Fits
    <2> QED BY <2>2, <2>4, <2>5
  <1>8. InOrder(l)'
    <2> SUFFICES ASSUME NEW x \in FromTop(l) \cup {k}
                 PROVE  Leads(l, x, next_[x][l])'
      BY <1>6 DEF InOrder, FromTop
    <2> PICK s : s = next_'[x][l] OBVIOUS
    <2>1. n # Skip!Nil => n \in InLevel(l) /\ n > k
      <3>1. n # Skip!Nil => n \in InLevel(l) /\ n >= k /\ n # k BY <1>2 DEF Fits, Leads
      <3> QED BY <3>1, <1>1, KeyTypes DEF InLevel
    <2>2. \A y \in InLevel(l) : y \in Nat BY KeyTypes DEF FromTop
    <2>3. CASE x = k
      <3>1. s = n BY <1>5, <2>3
      <3>2. \A y \in InLevel(l) \cup {k} : y > k => n # Skip!Nil /\ n <= y
        BY <1>1, <1>2, <2>2 DEF Leads
      <3> QED BY <1>6, <2>1, <2>3, <3>1, <3>2 DEF Leads
    <2>4. CASE x = b
      <3>1. s = k /\ k # Skip!Nil /\ k \in InLevel(l) \cup {k} /\ k > b
        BY <1>1, <1>5, <2>4, KeyTypes
      <3>2. ASSUME NEW y \in InLevel(l), y > b
            PROVE  k <= y
        <4>1. n # Skip!Nil /\ n <= y BY <1>2, <3>2 DEF Leads
        <4> QED BY <1>1, <2>1, <2>2, <4>1
      <3>3. \A y \in InLevel(l) \cup {k} : y > b => k <= y BY <1>1, <3>2
      <3> QED BY <1>6, <2>4, <3>1, <3>3 DEF Leads
    <2>5. CASE x \notin {k, b}
      <3>1. x \in FromTop(l) /\ x \in Nat /\ x \in D BY <2>5, KeyTypes DEF FromTop, InLevel
      <3>2. s = next_[x][l] /\ Leads(l, x, s) BY <1>5, <2>5, <3>1 DEF LevelsLinked, InOrder
      <3>3. ASSUME k > x
            PROVE  s # Skip!Nil /\ s <= k
        <4>1. ~Fits(l, x, k) BY <2>5, FitsOnce
        <4>2. s # Skip!Nil /\ ~(s >= k) BY <3>1, <3>2, <3>3, <4>1, <1>1 DEF Fits
        <4>3. s \in Nat BY <3>2, <4>2, <2>2 DEF Leads
        <4> QED BY <4>2, <4>3, <1>1
      <3> QED BY <1>6, <3>2, <3>3 DEF Leads
    <2> QED BY <2>3, <2>4, <2>5
  <1> QED BY <1>4, <1>6, <1>7, <1>8

LEMMA InsertFacts ==
    ASSUME Skip!SkipAssumption, SkipInv, Skip!InsertLink
    PROVE  \E k \in SkipKeys, l \in Level :
               /\ insert # Skip!Idle /\ k = insert.key /\ l = insert.level
               /\ k \notin InLevel(l) /\ Fits(l, insert.prev[l], k)
               /\ insert.height \in Level /\ l <= insert.height /\ insert.height <= max_height_
               /\ l # 1 => k \in InLevel(l - 1)
               /\ InLevel(l)' = InLevel(l) \cup {k} /\ InOrder(l)'
               /\ \A j \in Level \ {l} : /\ InLevel(j)' = InLevel(j) /\ (InOrder(j)' <=> InOrder(j))
                                         /\ \A p, key : Fits(j, p, key)' <=> Fits(j, p, key)
               /\ next_' \in [SkipKeys \cup {Skip!Top} -> [Level -> SkipKeys \cup {Skip!Nil, Skip!Wild}]]
               /\ UNCHANGED <<max_height_, heights, find, node_, asked>>
  <1>1. /\ SkipTyped /\ LevelsLinked /\ Inserting /\ insert # Skip!Idle
        /\ UNCHANGED <<max_height_, heights, find, node_, asked>>
    BY DEF SkipInv, Skip!InsertLink
  <1>2. insert \in Inserts BY <1>1 DEF SkipTyped
  <1> PICK k \in SkipKeys, l \in Level, h \in Level : k = insert.key /\ l = insert.level /\ h = insert.height
    BY <1>2 DEF Inserts
  <1>3. l <= h /\ h <= max_height_ /\ (l > 1 => k \in InLevel(l - 1)) /\ k \notin InLevel(l) /\ Fits(l, insert.prev[l], k)
    BY <1>1 DEF Inserting, Level
  <1>4. next_' = [next_ EXCEPT ![k][l] = next_[insert.prev[l]][l], ![insert.prev[l]][l] = k]
    BY DEF Skip!InsertLink
  <1>5. l # 1 => l > 1 BY DEF Level
  <1>6. /\ InLevel(l)' = InLevel(l) \cup {k} /\ InOrder(l)'
        /\ \A j \in Level \ {l} : /\ InLevel(j)' = InLevel(j) /\ (InOrder(j)' <=> InOrder(j))
                                  /\ \A p, key : Fits(j, p, key)' <=> Fits(j, p, key)
        /\ next_' \in [SkipKeys \cup {Skip!Top} -> [Level -> SkipKeys \cup {Skip!Nil, Skip!Wild}]]
    BY <1>1, <1>3, <1>4, LinkKeepsOrder
  <1> QED BY <1>1, <1>3, <1>5, <1>6

LEMMA InsertLinkKeepsSkip ==
    ASSUME Skip!SkipAssumption, SkipInv, Skip!InsertLink
    PROVE  SkipInv'
  <1>1. PICK k \in SkipKeys, l \in Level :
               /\ insert # Skip!Idle /\ k = insert.key /\ l = insert.level
               /\ k \notin InLevel(l) /\ Fits(l, insert.prev[l], k)
               /\ insert.height \in Level /\ l <= insert.height /\ insert.height <= max_height_
               /\ l # 1 => k \in InLevel(l - 1)
               /\ InLevel(l)' = InLevel(l) \cup {k} /\ InOrder(l)'
               /\ \A j \in Level \ {l} : /\ InLevel(j)' = InLevel(j) /\ (InOrder(j)' <=> InOrder(j))
                                         /\ \A p, key : Fits(j, p, key)' <=> Fits(j, p, key)
               /\ next_' \in [SkipKeys \cup {Skip!Top} -> [Level -> SkipKeys \cup {Skip!Nil, Skip!Wild}]]
               /\ UNCHANGED <<max_height_, heights, find, node_, asked>>
    BY InsertFacts
  <1>2. SkipTyped /\ LevelsLinked /\ Inserting /\ insert \in Inserts BY <1>1 DEF SkipInv, SkipTyped
  <1>3. insert' = IF l = insert.height THEN Skip!Idle ELSE [insert EXCEPT !.level = l + 1]
    BY <1>1 DEF Skip!InsertLink
  <1>4. /\ insert' # Skip!Idle => l + 1 <= insert.height /\ l + 1 \in Level /\ insert' = [insert EXCEPT !.level = l + 1]
        /\ insert.height \in Nat /\ l \in Nat
    <2> PICK h : h = insert.height OBVIOUS
    <2>1. h \in Nat /\ l \in Nat /\ (l # h => l + 1 <= h /\ l + 1 \in Level)
      BY <1>1, KeyTypes DEF Level
    <2> QED BY <1>3, <2>1
  <1>5. SkipTyped'
    <2>1. insert' \in {Skip!Idle} \cup Inserts
      <3>1. CASE insert' = Skip!Idle BY <3>1
      <3>2. CASE insert' # Skip!Idle BY <1>2, <1>4, <3>2 DEF Inserts
      <3> QED BY <3>1, <3>2
    <2> QED BY <1>1, <1>2, <2>1 DEF SkipTyped
  <1>6. \A j \in Level : InLevel(j) \subseteq InLevel(j)' /\ FromTop(j) \subseteq FromTop(j)'
    BY <1>1 DEF FromTop
  <1>7. LevelsLinked'
    <2>1. \A j \in Level : InOrder(j)' BY <1>1, <1>2 DEF LevelsLinked
    <2>2. ASSUME NEW j \in Level \ {1}
          PROVE  InLevel(j)' \subseteq InLevel(j - 1)'
      <3>1. j - 1 \in Level /\ InLevel(j) \subseteq InLevel(j - 1)
        BY <1>2, KeyTypes DEF LevelsLinked, Level
      <3>2. CASE j = l BY <1>1, <1>6, <3>1, <3>2
      <3>3. CASE j # l BY <1>1, <1>6, <3>1, <3>3
      <3> QED BY <3>2, <3>3
    <2>3. \A j \in Level : j > max_height_' => InLevel(j)' = {}
      <3>1. \A j \in Level : j > max_height_ => j # l BY <1>1, <1>2 DEF Level, SkipTyped
      <3> QED BY <1>1, <1>2, <3>1 DEF LevelsLinked
    <2> QED BY <2>1, <2>2, <2>3 DEF LevelsLinked
  <1>8. Inserting'
    <2> SUFFICES ASSUME insert' # Skip!Idle
                 PROVE  Inserting'
      BY DEF Inserting
    <2> PICK h \in Level : h = insert.height BY <1>1
    <2> PICK prev : prev = insert.prev OBVIOUS
    <2>1. insert'.level = l + 1 /\ insert'.height = h /\ insert'.prev = prev /\ insert'.key = k /\ l + 1 <= h
      BY <1>1, <1>2, <1>4 DEF Inserts
    <2>2. DOMAIN prev = 1 .. h /\ \A j \in l .. h : k \notin InLevel(j) /\ Fits(j, prev[j], k)
      BY <1>1, <1>2 DEF Inserting
    <2>3. \A j \in l + 1 .. h : j \in Level \ {l} /\ j \in l .. h BY KeyTypes DEF Level
    <2>4. \A j \in l + 1 .. h : (k \notin InLevel(j))' /\ Fits(j, prev[j], k)' BY <1>1, <2>2, <2>3
    <2>5. insert'.level - 1 = l /\ k \in InLevel(l)' /\ max_height_' = max_height_
      BY <1>1, <1>4, <2>1
    <2> QED BY <1>1, <2>1, <2>2, <2>4, <2>5 DEF Inserting, InLevel, Fits, FromTop
  <1>9. \A r \in Readers : Finding(r)'
    <2> SUFFICES ASSUME NEW r \in Readers
                 PROVE  Finding(r)'
      OBVIOUS
    <2>1. Finding(r) /\ (find[r] # Skip!Standing => find[r].level \in Level)
      BY <1>2 DEF SkipInv, SkipTyped, Finds
    <2> QED BY <1>1, <1>6, <2>1, KeyTypes DEF Finding
  <1> QED BY <1>5, <1>7, <1>8, <1>9 DEF SkipInv

LEMMA SkipElems == SkipInv => Skip!On(1) = InLevel(1)
  BY Assumptions, KeyTypes, OnIsInLevel DEF SkipInv

\* What the walk of a reader looks at.
LEMMA FindFacts ==
    ASSUME Skip!SkipAssumption, SkipInv, NEW r \in Readers, Skip!FindStep(r)
    PROVE  \E f, n :
               /\ f \in Finds /\ f = find[r] /\ f # Skip!Standing /\ n = next_[f.x][f.level]
               /\ f.x \in FromTop(f.level) /\ f.x \in Nat /\ Leads(f.level, f.x, n)
               /\ (f.what # "SeekToLast" => f.x < f.key)
               /\ UNCHANGED <<next_, max_height_, heights, insert>>
  <1>1. SkipTyped /\ LevelsLinked /\ Finding(r) /\ find[r] # Skip!Standing /\ UNCHANGED <<next_, max_height_, heights, insert>>
    BY DEF SkipInv, Skip!FindStep
  <1>2. find[r] \in Finds BY <1>1 DEF SkipTyped
  <1> PICK f \in Finds : f = find[r] BY <1>2
  <1>3. f.x \in FromTop(f.level) /\ (f.what # "SeekToLast" => f.x < f.key) BY <1>1 DEF Finding
  <1>4. f.level \in Level BY DEF Finds
  <1>5. f.x \in Nat /\ Leads(f.level, f.x, next_[f.x][f.level])
    BY <1>1, <1>3, <1>4, KeyTypes DEF LevelsLinked, InOrder
  <1> QED BY <1>1, <1>3, <1>5

\* An iterator on a node of the lowest level is on one that stays there.
LEMMA AnswersKeepSkip ==
    ASSUME Skip!SkipAssumption, SkipInv, NEW r \in Readers, NEW what, NEW key, NEW told \in InLevel(1) \cup {Skip!Nil, TRUE, FALSE},
           what # "Contains" => told \in InLevel(1) \cup {Skip!Nil},
           Skip!Return(r, what, key, told), UNCHANGED <<next_, max_height_, heights, insert>>,
           find' = find \/ find' = [find EXCEPT ![r] = Skip!Standing]
    PROVE  SkipInv'
  <1>1. SkipTyped /\ LevelsLinked /\ Inserting /\ \A q \in Readers : Finding(q) BY DEF SkipInv
  <1>2. /\ DOMAIN asked' = Readers
        /\ node_' \in [Readers -> SkipKeys \cup {Skip!Nil}]
        /\ \A q \in Readers : node_'[q] = node_[q] \/ node_'[q] \in InLevel(1) \cup {Skip!Nil}
    BY <1>1 DEF Skip!Return, SkipTyped, InLevel
  <1>3. /\ find' \in [Readers -> {Skip!Standing} \cup Finds]
        /\ \A q \in Readers : find'[q] = find[q] \/ find'[q] = Skip!Standing
    BY <1>1 DEF SkipTyped
  <1>4. SkipTyped' BY <1>1, <1>2, <1>3 DEF SkipTyped
  <1>5. LevelsLinked' /\ Inserting' BY <1>1, SameLinks DEF LevelsLinked, Inserting
  <1>6. ASSUME NEW q \in Readers
        PROVE  Finding(q)'
    <2>1. Finding(q) BY <1>1
    <2>2. node_'[q] # Skip!Nil => node_'[q] \in InLevel(1)' BY <1>2, <2>1, SameLinks DEF Finding
    <2>3. CASE find'[q] = find[q] BY <2>1, <2>2, <2>3 DEF Finding, FromTop, InLevel
    <2>4. CASE find'[q] = Skip!Standing BY <2>2, <2>4 DEF Finding
    <2> QED BY <1>3, <2>3, <2>4
  <1> QED BY <1>4, <1>5, <1>6 DEF SkipInv

\* A walk that begins or goes on is within the level it is on.
LEMMA WalksKeepSkip ==
    ASSUME Skip!SkipAssumption, SkipInv, NEW r \in Readers, NEW f \in Finds,
           f.x \in FromTop(f.level), f.what # "SeekToLast" => f.x < f.key,
           find' = [find EXCEPT ![r] = f],
           UNCHANGED <<next_, max_height_, heights, insert, node_, asked>>
    PROVE  SkipInv'
  <1>1. SkipTyped /\ LevelsLinked /\ Inserting /\ \A q \in Readers : Finding(q) BY DEF SkipInv
  <1>2. /\ find' \in [Readers -> {Skip!Standing} \cup Finds]
        /\ \A q \in Readers : find'[q] = IF q = r THEN f ELSE find[q]
    BY <1>1 DEF SkipTyped
  <1>3. SkipTyped' BY <1>1, <1>2 DEF SkipTyped
  <1>4. LevelsLinked' /\ Inserting' BY <1>1, SameLinks DEF LevelsLinked, Inserting
  <1>5. ASSUME NEW q \in Readers
        PROVE  Finding(q)'
    BY <1>1, <1>2 DEF Finding, FromTop, InLevel
  <1> QED BY <1>3, <1>4, <1>5 DEF SkipInv

LEMMA FindBeginKeepsSkip ==
    ASSUME Skip!SkipAssumption, SkipInv, NEW r \in Readers, NEW what \in {"Contains", "Seek", "Prev", "SeekToLast"},
           NEW key \in SkipKeys, NEW h \in Level, Skip!FindBegin(r, what, key, h)
    PROVE  SkipInv'
  <1> DEFINE f == [what |-> what, key |-> key, x |-> Skip!Top, level |-> h]
  <1>1. f \in Finds /\ f.x \in FromTop(f.level) /\ f.x < f.key BY KeyTypes DEF Finds, FromTop
  <1>2. find' = [find EXCEPT ![r] = f] /\ UNCHANGED <<next_, max_height_, heights, insert, node_, asked>>
    BY DEF Skip!FindBegin
  <1> HIDE DEF f
  <1> QED BY <1>1, <1>2, WalksKeepSkip

LEMMA FindStepKeepsSkip ==
    ASSUME Skip!SkipAssumption, SkipInv, NEW r \in Readers, Skip!FindStep(r)
    PROVE  SkipInv'
  <1>1. PICK f, n :
               /\ f \in Finds /\ f = find[r] /\ f # Skip!Standing /\ n = next_[f.x][f.level]
               /\ f.x \in FromTop(f.level) /\ f.x \in Nat /\ Leads(f.level, f.x, n)
               /\ (f.what # "SeekToLast" => f.x < f.key)
               /\ UNCHANGED <<next_, max_height_, heights, insert>>
    BY FindFacts
  <1>2. /\ SkipTyped /\ LevelsLinked /\ f.level \in Level /\ DOMAIN find = Readers
        /\ f.what \in {"Contains", "Seek", "Prev", "SeekToLast"} /\ f.key \in SkipKeys
    BY <1>1 DEF SkipInv, SkipTyped, Finds
  <1>3. CASE Skip!Onward(f, n)
    <2> DEFINE g == [f EXCEPT !.x = n]
    <2>1. n # Skip!Nil /\ (f.what # "SeekToLast" => n < f.key)
      BY <1>3 DEF Skip!Onward, Skip!KeyIsAfterNode
    <2>2. n \in InLevel(f.level) BY <1>1, <2>1 DEF Leads
    <2>3. g \in Finds /\ g.x \in FromTop(g.level) /\ (g.what # "SeekToLast" => g.x < g.key)
      BY <1>1, <2>1, <2>2 DEF Finds, FromTop, InLevel
    <2>4. find' = [find EXCEPT ![r] = g] /\ UNCHANGED <<next_, max_height_, heights, insert, node_, asked>>
      BY <1>1, <1>2, <1>3 DEF Skip!FindStep
    <2> HIDE DEF g
    <2> QED BY <2>3, <2>4, WalksKeepSkip
  <1>4. CASE ~Skip!Onward(f, n) /\ f.level > 1
    <2> DEFINE g == [f EXCEPT !.level = f.level - 1]
    <2>1. f.level - 1 \in Level /\ f.level \in Level \ {1} BY <1>2, <1>4, KeyTypes DEF Level
    <2>2. FromTop(f.level) \subseteq FromTop(f.level - 1) BY <1>2, <2>1 DEF LevelsLinked, FromTop
    <2>3. g \in Finds /\ g.x \in FromTop(g.level) /\ (g.what # "SeekToLast" => g.x < g.key)
      BY <1>1, <2>1, <2>2 DEF Finds
    <2>4. find' = [find EXCEPT ![r] = g] /\ UNCHANGED <<next_, max_height_, heights, insert, node_, asked>>
      BY <1>1, <1>2, <1>4 DEF Skip!FindStep
    <2> HIDE DEF g
    <2> QED BY <2>3, <2>4, WalksKeepSkip
  <1>5. CASE ~Skip!Onward(f, n) /\ ~(f.level > 1)
    <2>1. f.level = 1 BY <1>2, <1>5, KeyTypes DEF Level
    <2>2. find' = [find EXCEPT ![r] = Skip!Standing] /\ Skip!Return(r, f.what, f.key, Skip!Found(f, n))
      BY <1>1, <1>5 DEF Skip!FindStep
    <2>3. n \in InLevel(1) \cup {Skip!Nil} /\ Skip!Shown(f.x) \in InLevel(1) \cup {Skip!Nil}
      BY <1>1, <2>1 DEF Leads, Skip!Shown, FromTop
    <2>4. /\ Skip!Found(f, n) \in InLevel(1) \cup {Skip!Nil, TRUE, FALSE}
          /\ f.what # "Contains" => Skip!Found(f, n) \in InLevel(1) \cup {Skip!Nil}
      BY <1>2, <2>3 DEF Skip!Found
    <2> QED BY <1>1, <2>2, <2>4, AnswersKeepSkip
  <1> QED BY <1>3, <1>4, <1>5

LEMMA FollowKeepsSkip ==
    ASSUME Skip!SkipAssumption, SkipInv, NEW r \in Readers, NEW what, what # "Contains", NEW x \in FromTop(1), NEW key, Skip!Follow(r, what, x, key)
    PROVE  SkipInv'
  <1>1. Leads(1, x, next_[x][1]) BY KeyTypes DEF SkipInv, LevelsLinked, InOrder
  <1>2. next_[x][1] \in InLevel(1) \cup {Skip!Nil} BY <1>1 DEF Leads
  <1>3. Skip!Return(r, what, key, next_[x][1]) /\ UNCHANGED <<next_, max_height_, heights, insert, find>>
    BY DEF Skip!Follow
  <1> QED BY <1>2, <1>3, AnswersKeepSkip

LEMMA SkipKept ==
    ASSUME Skip!SkipAssumption, SkipInv, [Skip!Next]_(Skip!vars)
    PROVE  SkipInv'
  <1>1. CASE UNCHANGED Skip!vars
    BY <1>1, SameLinks DEF SkipInv, Skip!vars, SkipTyped, LevelsLinked, Inserting, Finding, FromTop, InLevel
  <1>2. CASE \E key \in SkipKeys, height \in Skip!Levels : Skip!InsertBegin(key, height)
    BY <1>2, KeyTypes, InsertBeginKeepsSkip
  <1>3. CASE Skip!InsertLink BY <1>3, InsertLinkKeepsSkip
  <1>4. CASE \E r \in Readers, what \in {"Contains", "Seek", "Prev", "SeekToLast"}, key \in SkipKeys, h \in Skip!Levels :
                Skip!FindBegin(r, what, key, h)
    BY <1>4, KeyTypes, FindBeginKeepsSkip
  <1>5. CASE \E r \in Readers : Skip!FindStep(r) BY <1>5, FindStepKeepsSkip
  <1>6. CASE \E r \in Readers : Skip!SeekToFirst(r)
    BY <1>6, FollowKeepsSkip DEF Skip!SeekToFirst, FromTop
  <1>7. CASE \E r \in Readers : Skip!IteratorNext(r)
    <2> PICK r \in Readers : Skip!IteratorNext(r) BY <1>7
    <2>1. node_[r] \in FromTop(1) /\ Skip!Follow(r, "Next", node_[r], node_[r])
      BY DEF SkipInv, Finding, FromTop, Skip!IteratorNext
    <2> QED BY <2>1, FollowKeepsSkip
  <1> QED BY <1>1, <1>2, <1>3, <1>4, <1>5, <1>6, <1>7 DEF Skip!Next

LEMMA SkipFollows == ASSUME Skip!SkipAssumption, SkipInv PROVE Skip!LevelsNested
  <1>1. SkipTyped /\ LevelsLinked BY DEF SkipInv
  <1>2. \A l \in Level : Skip!On(l) = InLevel(l) BY <1>1, OnIsInLevel
  <1>3. ASSUME NEW r \in Readers, find[r] # Skip!Standing
        PROVE  next_[find[r].x][find[r].level] # Skip!Wild
    <2>1. find[r].level \in Level /\ find[r].x \in FromTop(find[r].level)
      BY <1>1, <1>3 DEF SkipInv, Finding, SkipTyped, Finds
    <2> PICK l \in Level : l = find[r].level BY <2>1
    <2> PICK x \in FromTop(l) : x = find[r].x BY <2>1
    <2>2. Leads(l, x, next_[x][l]) BY <1>1 DEF LevelsLinked, InOrder
    <2>3. next_[x][l] # Skip!Wild BY <2>2, KeyTypes DEF Leads, InLevel
    <2> QED BY <2>3
  <1>4. ASSUME NEW l \in Level, NEW x \in Skip!On(l)
        PROVE  next_[x][l] = Skip!Nil \/ next_[x][l] > x
    <2>1. x \in FromTop(l) BY <1>2 DEF FromTop
    <2>2. Leads(l, x, next_[x][l]) BY <1>1, <2>1 DEF LevelsLinked, InOrder
    <2> QED BY <2>2 DEF Leads
  <1>5. \A l \in Level \ {1} : Skip!On(l) \subseteq Skip!On(l - 1)
    <2>1. \A l \in Level \ {1} : l - 1 \in Level BY KeyTypes DEF Level
    <2> QED BY <1>1, <1>2, <2>1 DEF LevelsLinked
  <1> QED BY <1>3, <1>4, <1>5, KeyTypes DEF Skip!LevelsNested

\* The least of some keys, and the greatest.
LEMMA LeastIsMin ==
    ASSUME Skip!SkipAssumption, NEW S \in SUBSET SkipKeys, NEW n \in S, \A y \in S : n <= y
    PROVE  Skip!Set!First(S) = n
  <1>1. \A y \in S : y \in Nat BY KeyTypes
  <1>2. Skip!Set!Min(S) = n BY <1>1 DEF Skip!Set!Min
  <1> QED BY <1>2 DEF Skip!Set!First

LEMMA GreatestIsMax ==
    ASSUME Skip!SkipAssumption, NEW S \in SUBSET SkipKeys, NEW n \in S, \A y \in S : y <= n
    PROVE  Skip!Set!Final(S) = n
  <1>1. \A y \in S : y \in Nat BY KeyTypes
  <1>2. Skip!Set!Max(S) = n BY <1>1 DEF Skip!Set!Max
  <1> QED BY <1>2 DEF Skip!Set!Final

\* The node that another leads to is the first of those after it, and of those from any
\* key on that is between the two.
LEMMA LedToIsFirst ==
    ASSUME Skip!SkipAssumption, NEW x \in FromTop(1), NEW n, Leads(1, x, n)
    PROVE  /\ Skip!Set!First({y \in InLevel(1) : y > x}) = n
           /\ \A key \in SkipKeys : x < key /\ (n = Skip!Nil \/ n >= key) =>
                 Skip!Set!First({y \in InLevel(1) : y >= key}) = n
  <1>1. x \in Nat /\ InLevel(1) \subseteq SkipKeys /\ \A y \in InLevel(1) : y \in Nat
    BY KeyTypes DEF InLevel, FromTop
  <1>2. ASSUME NEW S \in SUBSET InLevel(1), \A y \in S : y > x, n # Skip!Nil => n \in S
        PROVE  Skip!Set!First(S) = n
    <2>1. CASE n = Skip!Nil
      <3>1. S = {} BY <1>2, <2>1 DEF Leads
      <3> QED BY <2>1, <3>1 DEF Skip!Set!First
    <2>2. CASE n # Skip!Nil
      <3>1. n \in S /\ \A y \in S : n <= y BY <1>2, <2>2 DEF Leads
      <3> QED BY <1>1, <3>1, LeastIsMin
    <2> QED BY <2>1, <2>2
  <1>3. Skip!Set!First({y \in InLevel(1) : y > x}) = n
    <2> DEFINE S == {y \in InLevel(1) : y > x}
    <2>1. S \in SUBSET InLevel(1) /\ (\A y \in S : y > x) /\ (n # Skip!Nil => n \in S) BY DEF Leads
    <2> SUFFICES Skip!Set!First(S) = n OBVIOUS
    <2> HIDE DEF S
    <2> QED BY <1>2, <2>1
  <1>4. ASSUME NEW key \in SkipKeys, x < key, n = Skip!Nil \/ n >= key
        PROVE  Skip!Set!First({y \in InLevel(1) : y >= key}) = n
    <2> DEFINE S == {y \in InLevel(1) : y >= key}
    <2>1. \A y \in S : y > x BY <1>1, <1>4, KeyTypes
    <2>2. S \in SUBSET InLevel(1) /\ (n # Skip!Nil => n \in S) BY <1>4 DEF Leads
    <2> SUFFICES Skip!Set!First(S) = n OBVIOUS
    <2> HIDE DEF S
    <2> QED BY <1>2, <2>1, <2>2
  <1> QED BY <1>3, <1>4

\* And that node is the last of those before any key that is between the two.
LEMMA LeaderIsLast ==
    ASSUME Skip!SkipAssumption, NEW x \in FromTop(1), NEW n, Leads(1, x, n)
    PROVE  /\ n = Skip!Nil => Skip!Set!Final(InLevel(1)) = Skip!Shown(x)
           /\ \A key \in SkipKeys : x < key /\ (n = Skip!Nil \/ n >= key) =>
                 Skip!Set!Final({y \in InLevel(1) : y < key}) = Skip!Shown(x)
  <1>1. x \in Nat /\ InLevel(1) \subseteq SkipKeys /\ \A y \in InLevel(1) : y \in Nat
    BY KeyTypes DEF InLevel, FromTop
  <1>2. ASSUME NEW S \in SUBSET InLevel(1), \A y \in S : ~(y > x), x # Skip!Top => x \in S
        PROVE  Skip!Set!Final(S) = Skip!Shown(x)
    <2>1. CASE x = Skip!Top
      <3>1. \A y \in InLevel(1) : y > x BY <1>1, <2>1, KeyTypes
      <3>2. S = {} BY <1>2, <3>1
      <3> QED BY <2>1, <3>2 DEF Skip!Set!Final, Skip!Shown
    <2>2. CASE x # Skip!Top
      <3>1. x \in S /\ \A y \in S : y <= x BY <1>1, <1>2, <2>2
      <3>2. Skip!Set!Final(S) = x BY <1>1, <3>1, GreatestIsMax
      <3> QED BY <2>2, <3>2 DEF Skip!Shown
    <2> QED BY <2>1, <2>2
  <1>3. ASSUME n = Skip!Nil
        PROVE  Skip!Set!Final(InLevel(1)) = Skip!Shown(x)
    <2>1. (\A y \in InLevel(1) : ~(y > x)) /\ (x # Skip!Top => x \in InLevel(1))
      BY <1>3 DEF Leads, FromTop
    <2> QED BY <1>2, <2>1
  <1>4. ASSUME NEW key \in SkipKeys, x < key, n = Skip!Nil \/ n >= key
        PROVE  Skip!Set!Final({y \in InLevel(1) : y < key}) = Skip!Shown(x)
    <2> DEFINE S == {y \in InLevel(1) : y < key}
    <2>1. ASSUME NEW y \in S, y > x
          PROVE  FALSE
      <3>1. n # Skip!Nil /\ n <= y /\ n \in InLevel(1) BY <2>1 DEF Leads
      <3> QED BY <1>1, <1>4, <2>1, <3>1, KeyTypes
    <2>2. S \in SUBSET InLevel(1) /\ (x # Skip!Top => x \in S) BY <1>4 DEF FromTop
    <2> SUFFICES Skip!Set!Final(S) = Skip!Shown(x) OBVIOUS
    <2> HIDE DEF S
    <2> QED BY <1>2, <2>1, <2>2
  <1> QED BY <1>3, <1>4

LEMMA SetBegins == ASSUME Skip!SkipAssumption, Skip!Init PROVE Skip!Set!Init
  <1>1. SkipInv BY SkipBegins
  <1>2. Skip!On(1) = InLevel(1) BY <1>1, SkipElems
  <1>3. InLevel(1) = {} BY KeyTypes DEF Skip!Init, InLevel
  <1> QED BY <1>2, <1>3 DEF Skip!Init, Skip!Set!Init

LEMMA InsertIsInsert ==
    ASSUME Skip!SkipAssumption, SkipInv, Skip!InsertLink
    PROVE  [Skip!Set!Next]_(Skip!Set!vars)
  <1>1. PICK k \in SkipKeys, l \in Level :
               /\ insert # Skip!Idle /\ k = insert.key /\ l = insert.level
               /\ k \notin InLevel(l) /\ Fits(l, insert.prev[l], k)
               /\ insert.height \in Level /\ l <= insert.height /\ insert.height <= max_height_
               /\ l # 1 => k \in InLevel(l - 1)
               /\ InLevel(l)' = InLevel(l) \cup {k} /\ InOrder(l)'
               /\ \A j \in Level \ {l} : /\ InLevel(j)' = InLevel(j) /\ (InOrder(j)' <=> InOrder(j))
                                         /\ \A p, key : Fits(j, p, key)' <=> Fits(j, p, key)
               /\ next_' \in [SkipKeys \cup {Skip!Top} -> [Level -> SkipKeys \cup {Skip!Nil, Skip!Wild}]]
               /\ UNCHANGED <<max_height_, heights, find, node_, asked>>
    BY InsertFacts
  <1>2. SkipInv' BY InsertLinkKeepsSkip
  <1>3. Skip!On(1) = InLevel(1) /\ Skip!On(1)' = InLevel(1)'
    <2>1. Skip!On(1) = InLevel(1) BY SkipElems
    <2>2. (Skip!On(1) = InLevel(1))' BY <1>2, SkipElems, PTL
    <2> QED BY <2>1, <2>2
  <1>4. CASE l = 1 BY <1>1, <1>3, <1>4 DEF Skip!Set!Next, Skip!Set!Insert
  <1>5. CASE l # 1
    <2>1. InLevel(1)' = InLevel(1) BY <1>1, <1>5, KeyTypes
    <2> QED BY <1>1, <1>3, <2>1 DEF Skip!Set!vars
  <1> QED BY <1>4, <1>5

LEMMA SameSet ==
    ASSUME Skip!SkipAssumption, SkipInv, SkipInv', UNCHANGED next_
    PROVE  Skip!On(1)' = Skip!On(1) /\ Skip!On(1) = InLevel(1)
  <1>1. Skip!On(1) = InLevel(1) BY SkipElems
  <1>2. (Skip!On(1) = InLevel(1))' BY SkipElems, PTL
  <1> QED BY <1>1, <1>2, SameLinks

LEMMA FindIsAsk ==
    ASSUME Skip!SkipAssumption, SkipInv, NEW r \in Readers, Skip!FindStep(r)
    PROVE  [Skip!Set!Next]_(Skip!Set!vars)
  <1>1. PICK f, n :
               /\ f \in Finds /\ f = find[r] /\ f # Skip!Standing /\ n = next_[f.x][f.level]
               /\ f.x \in FromTop(f.level) /\ f.x \in Nat /\ Leads(f.level, f.x, n)
               /\ (f.what # "SeekToLast" => f.x < f.key)
               /\ UNCHANGED <<next_, max_height_, heights, insert>>
    BY FindFacts
  <1>2. Skip!On(1)' = Skip!On(1) /\ Skip!On(1) = InLevel(1) BY <1>1, FindStepKeepsSkip, SameSet
  <1>3. CASE Skip!Onward(f, n) \/ f.level > 1
    <2>1. UNCHANGED asked BY <1>1, <1>3 DEF Skip!FindStep
    <2> QED BY <1>2, <2>1 DEF Skip!Set!vars
  <1>4. CASE ~Skip!Onward(f, n) /\ ~(f.level > 1)
    <2>1. f.level = 1 /\ f.what \in {"Contains", "Seek", "Prev", "SeekToLast"} /\ f.key \in SkipKeys
      BY <1>1, <1>4, KeyTypes DEF Level, Finds
    <2>2. asked' = [asked EXCEPT ![r] = <<f.what, f.key, Skip!Found(f, n)>>]
      BY <1>1, <1>4 DEF Skip!FindStep, Skip!Return
    <2>3. DOMAIN asked = Readers BY DEF SkipInv, SkipTyped
    <2> PICK x : x = f.x OBVIOUS
    <2>4. x \in FromTop(1) /\ x \in Nat /\ Leads(1, x, n) BY <1>1, <2>1
    <2>5. InLevel(1) \subseteq SkipKeys /\ \A y \in InLevel(1) : y \in Nat BY KeyTypes DEF InLevel
    <2>6. ASSUME f.what # "SeekToLast"
          PROVE  x < f.key /\ (n = Skip!Nil \/ n >= f.key)
      <3>1. n \in Nat \/ n = Skip!Nil BY <2>4, <2>5 DEF Leads
      <3> QED BY <1>1, <1>4, <2>1, <2>6, <3>1, KeyTypes DEF Skip!Onward, Skip!KeyIsAfterNode
    <2>7. Skip!Found(f, n) = Skip!Set!Answer(f.what, f.key)
      <3>1. CASE f.what = "Contains"
        <4>1. n = f.key => f.key \in InLevel(1) BY <2>1, <2>4, KeyTypes DEF Leads
        <4>2. f.key \in InLevel(1) => n # Skip!Nil /\ n <= f.key /\ n >= f.key /\ n \in InLevel(1)
          BY <2>4, <2>6, <3>1 DEF Leads
        <4>3. f.key \in InLevel(1) => n = f.key BY <2>1, <2>5, <4>2
        <4>4. Skip!Found(f, n) = (n = f.key) BY <3>1 DEF Skip!Found
        <4>5. Skip!Set!Answer(f.what, f.key) = (f.key \in Skip!On(1)) BY <3>1 DEF Skip!Set!Answer
        <4> QED BY <1>2, <4>1, <4>3, <4>4, <4>5
      <3>2. CASE f.what = "Seek"
        <4>1. Skip!Found(f, n) = n BY <3>2 DEF Skip!Found
        <4>2. Skip!Set!Answer(f.what, f.key) = Skip!Set!First({y \in InLevel(1) : y >= f.key})
          BY <1>2, <3>2 DEF Skip!Set!Answer
        <4> QED BY <2>1, <2>4, <2>6, <3>2, <4>1, <4>2, LedToIsFirst
      <3>3. CASE f.what = "Prev"
        <4>1. Skip!Found(f, n) = Skip!Shown(x) BY <3>3 DEF Skip!Found
        <4>2. Skip!Set!Answer(f.what, f.key) = Skip!Set!Final({y \in InLevel(1) : y < f.key})
          BY <1>2, <3>3 DEF Skip!Set!Answer
        <4> QED BY <2>1, <2>4, <2>6, <3>3, <4>1, <4>2, LeaderIsLast
      <3>4. CASE f.what = "SeekToLast"
        <4>1. Skip!Found(f, n) = Skip!Shown(x) /\ n = Skip!Nil
          BY <1>4, <3>4 DEF Skip!Found, Skip!Onward
        <4>2. Skip!Set!Answer(f.what, f.key) = Skip!Set!Final(InLevel(1))
          BY <1>2, <3>4 DEF Skip!Set!Answer
        <4> QED BY <2>4, <4>1, <4>2, LeaderIsLast
      <3> QED BY <2>1, <3>1, <3>2, <3>3, <3>4
    <2>8. Skip!Set!Ask BY <1>2, <2>1, <2>2, <2>7 DEF Skip!Set!Ask, Skip!Set!Questions
    <2> QED BY <2>8 DEF Skip!Set!Next
  <1> QED BY <1>3, <1>4

LEMMA FollowIsAsk ==
    ASSUME Skip!SkipAssumption, SkipInv, NEW r \in Readers, NEW what, NEW x \in FromTop(1), NEW key \in SkipKeys,
           \/ what = "SeekToFirst" /\ x = Skip!Top
           \/ what = "Next" /\ x = key,
           Skip!Follow(r, what, x, key)
    PROVE  [Skip!Set!Next]_(Skip!Set!vars)
  <1>1. UNCHANGED next_ /\ asked' = [asked EXCEPT ![r] = <<what, key, next_[x][1]>>]
    BY DEF Skip!Follow, Skip!Return
  <1>2. Skip!On(1)' = Skip!On(1) /\ Skip!On(1) = InLevel(1) BY <1>1, FollowKeepsSkip, SameSet
  <1>3. Leads(1, x, next_[x][1]) BY KeyTypes DEF SkipInv, LevelsLinked, InOrder
  <1>4. Skip!Set!First({y \in InLevel(1) : y > x}) = next_[x][1] BY <1>3, LedToIsFirst
  <1>5. Skip!Set!Answer(what, key) = next_[x][1] /\ what \in Skip!Set!Questions
    <2>1. CASE what = "SeekToFirst" /\ x = Skip!Top
      <3>1. \A y \in InLevel(1) : y > x BY <2>1, KeyTypes DEF InLevel
      <3>2. {y \in InLevel(1) : y > x} = InLevel(1) BY <3>1
      <3> QED BY <1>2, <1>4, <2>1, <3>2 DEF Skip!Set!Answer, Skip!Set!Questions
    <2>2. CASE what = "Next" /\ x = key BY <1>2, <1>4, <2>2 DEF Skip!Set!Answer, Skip!Set!Questions
    <2> QED BY <2>1, <2>2
  <1>6. Skip!Set!Ask BY <1>1, <1>2, <1>5 DEF Skip!Set!Ask
  <1> QED BY <1>6 DEF Skip!Set!Next

LEMMA SkipImplementsSet ==
    ASSUME Skip!SkipAssumption, SkipInv, [Skip!Next]_(Skip!vars)
    PROVE  [Skip!Set!Next]_(Skip!Set!vars)
  <1>0. SkipInv' BY SkipKept
  <1>1. ASSUME UNCHANGED <<next_, asked>>
        PROVE  [Skip!Set!Next]_(Skip!Set!vars)
    BY <1>0, <1>1, SameSet DEF Skip!Set!vars
  <1>2. CASE UNCHANGED Skip!vars BY <1>1, <1>2 DEF Skip!vars
  <1>3. CASE \E key \in SkipKeys, height \in Skip!Levels : Skip!InsertBegin(key, height)
    BY <1>1, <1>3 DEF Skip!InsertBegin
  <1>4. CASE Skip!InsertLink BY <1>4, InsertIsInsert
  <1>5. CASE \E r \in Readers, what \in {"Contains", "Seek", "Prev", "SeekToLast"}, key \in SkipKeys, h \in Skip!Levels :
                Skip!FindBegin(r, what, key, h)
    BY <1>1, <1>5 DEF Skip!FindBegin
  <1>6. CASE \E r \in Readers : Skip!FindStep(r) BY <1>6, FindIsAsk
  <1>7. CASE \E r \in Readers : Skip!SeekToFirst(r)
    <2>1. (CHOOSE k \in SkipKeys : TRUE) \in SkipKeys BY DEF Skip!SkipAssumption
    <2> QED BY <1>7, <2>1, FollowIsAsk DEF Skip!SeekToFirst, FromTop
  <1>8. CASE \E r \in Readers : Skip!IteratorNext(r)
    <2> PICK r \in Readers : Skip!IteratorNext(r) BY <1>8
    <2>1. node_[r] \in FromTop(1) /\ node_[r] \in SkipKeys /\ Skip!Follow(r, "Next", node_[r], node_[r])
      BY DEF SkipInv, Finding, FromTop, InLevel, Skip!IteratorNext
    <2> QED BY <2>1, FollowIsAsk
  <1> QED BY <1>2, <1>3, <1>4, <1>5, <1>6, <1>7, <1>8 DEF Skip!Next

-----------------------------------------------------------------------------
(* The evaluation plan.  What a unit waits for is evaluated, or is put out   *)
(* by a lower level of its layer; what a layer puts out and is not evaluated *)
(* has a unit waiting, in the layer or in the one its own units fill.        *)

\* A recursive function exists if its value depends on those before it.
Backward(D, X, G) == /\ X # {} /\ \E a \in Nat : \E n \in Nat : D = a .. n
                     /\ G \in [[D -> X] -> [D -> X]]
                     /\ \A f, g \in [D -> X], i \in D :
                           (\A j \in D : j < i => f[j] = g[j]) => G[f][i] = G[g][i]

LEMMA RecursiveIs ==
    ASSUME NEW D, NEW X, NEW G, Backward(D, X, G)
    PROVE  \E f \in [D -> X] : f = G[f]
  <1> USE DEF Backward
  <1> DEFINE Good(f, k) == f \in [D -> X] /\ \A i \in D : i <= k => f[i] = G[f][i]
             S == {k \in Nat : \E f : Good(f, k)}
  <1>1. PICK n \in Nat : \A i \in D : i \in Nat /\ i <= n
    <2> PICK a \in Nat, ls \in Nat : D = a .. ls OBVIOUS
    <2>1. \A i \in D : i \in Nat /\ i <= ls OBVIOUS
    <2> QED BY <2>1
  <1>2. ASSUME NEW k \in Int, NEW f, Good(f, k)
        PROVE  \E h : Good(h, k + 1)
    <2>1. CASE k + 1 \notin D BY <1>1, <2>1, <1>2
    <2>2. CASE k + 1 \in D BY <1>2, <2>2, <1>1
    <2> QED BY <2>1, <2>2
  <1>3. \E f : Good(f, 0)
    <2>1. PICK x \in X : TRUE OBVIOUS
    <2>2. Good([i \in D |-> x], -1) BY <1>1
    <2> HIDE DEF Good
    <2>3. \E h : Good(h, -1 + 1) BY <1>2, <2>2
    <2> QED BY <2>3
  <1>4. Nat \subseteq S
    <2>1. 0 \in S BY <1>3
    <2>2. ASSUME NEW k \in Nat, k \in S
          PROVE  k + 1 \in S
      BY <1>2, <2>2
    <2> HIDE DEF S
    <2> QED BY <2>1, <2>2, NatInduction1
  <1>5. PICK f : Good(f, n) BY <1>4
  <1>6. G[f] \in [D -> X] /\ \A i \in D : f[i] = G[f][i] BY <1>1, <1>5
  <1> QED BY <1>5, <1>6

LEMMA IsSeq == ASSUME NEW S, NEW n \in Nat, NEW f \in [1 .. n -> S] PROVE f \in Seq(S) /\ Len(f) = n
  BY SeqDef

LEMMA ExprsNumbered ==
    ASSUME Plan!PlanAssumption
    PROVE  /\ Exprs \subseteq Nat
           /\ \E k \in Nat : Exprs = 1 .. k
           /\ \A e \in Exprs : Operands[e] \in Seq(Exprs)
  <1>1. Len(Operands) \in Nat /\ Exprs = 1 .. Len(Operands) BY DEF Plan!PlanAssumption
  <1>2. \A e \in Exprs : Operands[e] \in Seq(Exprs) BY <1>1, ElementOfSeq DEF Plan!PlanAssumption
  <1> QED BY <1>1, <1>2

LEMMA BehindIs ==
    ASSUME Plan!PlanAssumption, NEW e \in Exprs
    PROVE  Plan!Behind[e] \in Exprs /\ Plan!Behind[e] <= e
  <1>1. PICK k \in Nat : Exprs = 1 .. k BY ExprsNumbered
  <1> DEFINE Eq(f) == [x \in Exprs |-> IF Kind[x] = "Dynamic" THEN f[Operands[x][1]] ELSE x]
             G == [f \in [1 .. k -> Nat] |-> Eq(f)]
  <1>2. ASSUME NEW x \in Exprs, Kind[x] = "Dynamic"
        PROVE  Operands[x][1] \in Exprs /\ Operands[x][1] < x
    <2>1. Operands[x] \in Seq(Exprs) /\ Operands[x] # << >>
      BY <1>2, ExprsNumbered DEF Plan!PlanAssumption
    <2>2. 1 \in DOMAIN Operands[x] BY <2>1
    <2> QED BY <2>1, <2>2 DEF Plan!PlanAssumption
  <1>3. ASSUME NEW f \in [1 .. k -> Nat]
        PROVE  G[f] = Eq(f) /\ Eq(f) \in [1 .. k -> Nat]
    <2>1. \A x \in 1 .. k : (IF Kind[x] = "Dynamic" THEN f[Operands[x][1]] ELSE x) \in Nat
      <3> SUFFICES ASSUME NEW x \in 1 .. k
                   PROVE  (IF Kind[x] = "Dynamic" THEN f[Operands[x][1]] ELSE x) \in Nat
        OBVIOUS
      <3>1. Kind[x] = "Dynamic" => Operands[x][1] \in 1 .. k BY <1>1, <1>2
      <3>2. Kind[x] = "Dynamic" => f[Operands[x][1]] \in Nat BY <3>1
      <3> QED BY <3>2
    <2> QED BY <1>1, <2>1
  <1>4. ASSUME NEW f \in [1 .. k -> Nat], NEW g \in [1 .. k -> Nat], NEW i \in 1 .. k,
               \A j \in 1 .. k : j < i => f[j] = g[j]
        PROVE  Eq(f)[i] = Eq(g)[i]
    BY <1>1, <1>2, <1>4
  <1>5. \E f : f = Eq(f)
    <2>1. G \in [[1 .. k -> Nat] -> [1 .. k -> Nat]] BY <1>3
    <2> HIDE DEF G, Eq
    <2>2. \A f, g \in [1 .. k -> Nat], i \in 1 .. k :
             (\A j \in 1 .. k : j < i => f[j] = g[j]) => G[f][i] = G[g][i]
      <3> SUFFICES ASSUME NEW f \in [1 .. k -> Nat], NEW g \in [1 .. k -> Nat], NEW i \in 1 .. k,
                          \A j \in 1 .. k : j < i => f[j] = g[j]
                   PROVE  G[f][i] = G[g][i]
        OBVIOUS
      <3>1. Eq(f)[i] = Eq(g)[i] BY <1>4
      <3>2. G[f] = Eq(f) /\ G[g] = Eq(g) BY <1>3
      <3> QED BY <3>1, <3>2
    <2>3. 1 \in Nat /\ Nat # {} OBVIOUS
    <2>4. \E f \in [1 .. k -> Nat] : f = G[f]
      <3>1. \E a \in Nat : \E n \in Nat : 1 .. k = a .. n BY <2>3
      <3>2. Backward(1 .. k, Nat, G) BY <2>1, <2>2, <2>3, <3>1 DEF Backward
      <3> HIDE DEF G
      <3>3. PICK D, X : D = 1 .. k /\ X = Nat OBVIOUS
      <3>4. Backward(D, X, G) BY <3>2, <3>3
      <3>5. \E f \in [D -> X] : f = G[f] BY ONLY <3>4, RecursiveIs
      <3> QED BY <3>3, <3>5
    <2> QED BY <1>3, <2>4
  <1>6. Plan!Behind = Eq(Plan!Behind) BY <1>5 DEF Plan!Behind
  <1>7. \A x \in Exprs : Plan!Behind[x] = IF Kind[x] = "Dynamic" THEN Plan!Behind[Operands[x][1]] ELSE x
    BY <1>6
  <1> DEFINE b == Plan!Behind
             Bad == {x \in Exprs : ~(b[x] \in Exprs /\ b[x] <= x)}
  <1> HIDE DEF b
  <1>8. \A x \in Exprs : b[x] = IF Kind[x] = "Dynamic" THEN b[Operands[x][1]] ELSE x BY <1>7 DEF b
  <1>9. Bad = {}
    <2> SUFFICES ASSUME Bad # {}
                 PROVE  FALSE
      OBVIOUS
    <2>1. PICK x \in Bad : \A y \in Bad : x <= y BY ExprsNumbered, LeastNat
    <2>2. Kind[x] = "Dynamic" BY <2>1, <1>8, ExprsNumbered
    <2> PICK y \in Exprs : y = Operands[x][1] /\ y < x BY <1>2, <2>2
    <2>3. y \notin Bad BY ONLY <2>1, y \in Exprs, y < x, ExprsNumbered, Plan!PlanAssumption
    <2>4. b[x] = b[y] BY <1>8, <2>2
    <2>5. b[x] \in Exprs /\ b[x] <= x BY <2>3, <2>4, ExprsNumbered
    <2> QED BY <2>5
  <1> QED BY <1>9 DEF b

Ordered == /\ elems \in [Exprs -> Seq(Exprs)] /\ evaluated \in [Exprs -> BOOLEAN]
           /\ \A e \in Exprs : \A i \in DOMAIN elems[e] : elems[e][i] < e
           /\ \A e \in Exprs : Kind[e] = "Late" => elems[e] # << >>

Has(s, o) == evaluated[o] \/ \E h \in 1 .. Len(s) : s[h] = o
Operand(n, j) == Plan!Behind[elems[n][j]]

\* What a walk meets is not evaluated and comes after its operands.
InTurn(s) == /\ s \in Seq(Exprs)
             /\ \A i \in 1 .. Len(s) : /\ ~evaluated[s[i]]
                                       /\ \A j \in DOMAIN elems[s[i]] : Has(SubSeq(s, 1, i - 1), Operand(s[i], j))

LEMMA SubSeqIs ==
    ASSUME NEW s \in Seq(Exprs), NEW i \in 1 .. Len(s)
    PROVE  /\ SubSeq(s, 1, i - 1) \in Seq(Exprs) /\ Len(SubSeq(s, 1, i - 1)) = i - 1
           /\ \A h \in 1 .. i - 1 : SubSeq(s, 1, i - 1)[h] = s[h]
  <1>1. \A j \in 1 .. i - 1 : s[j] \in Exprs OBVIOUS
  <1> QED BY <1>1, SubSeqProperties

LEMMA HasBefore ==
    ASSUME NEW s \in Seq(Exprs), NEW i \in 1 .. Len(s), NEW o
    PROVE  Has(SubSeq(s, 1, i - 1), o) <=> evaluated[o] \/ \E h \in 1 .. i - 1 : s[h] = o
  BY SubSeqIs DEF Has

LEMMA ThenInTurn ==
    ASSUME NEW s, NEW t, InTurn(s), InTurn(t)
    PROVE  InTurn(s \o t) /\ \A o : Has(s, o) \/ Has(t, o) => Has(s \o t, o)
  <1> DEFINE r == s \o t
  <1>1. s \in Seq(Exprs) /\ t \in Seq(Exprs) BY DEF InTurn
  <1>2. /\ r \in Seq(Exprs) /\ Len(r) = Len(s) + Len(t)
        /\ \A i \in 1 .. Len(s) : r[i] = s[i]
        /\ \A i \in 1 .. Len(t) : r[Len(s) + i] = t[i]
    BY <1>1, ConcatProperties
  <1> HIDE DEF r
  <1>3. \A o : Has(s, o) \/ Has(t, o) => Has(r, o)
    <2> SUFFICES ASSUME NEW o, Has(s, o) \/ Has(t, o), ~evaluated[o]
                 PROVE  \E h \in 1 .. Len(r) : r[h] = o
      BY DEF Has
    <2>1. CASE Has(s, o) BY <2>1, <1>1, <1>2 DEF Has
    <2>2. CASE Has(t, o)
      <3> PICK h \in 1 .. Len(t) : t[h] = o BY <2>2 DEF Has
      <3>1. Len(s) + h \in 1 .. Len(r) /\ r[Len(s) + h] = o BY <1>1, <1>2
      <3> QED BY <3>1
    <2> QED BY <2>1, <2>2
  <1>4. ASSUME NEW i \in 1 .. Len(r)
        PROVE  /\ ~evaluated[r[i]]
               /\ \A j \in DOMAIN elems[r[i]] : Has(SubSeq(r, 1, i - 1), Operand(r[i], j))
    <2>1. CASE i \in 1 .. Len(s)
      <3>1. r[i] = s[i] /\ \A h \in 1 .. i - 1 : r[h] = s[h] BY <1>1, <1>2, <2>1
      <3>2. ASSUME NEW j \in DOMAIN elems[s[i]]
            PROVE  Has(SubSeq(r, 1, i - 1), Operand(s[i], j))
        <4>1. Has(SubSeq(s, 1, i - 1), Operand(s[i], j)) BY <2>1, <3>2 DEF InTurn
        <4>2. evaluated[Operand(s[i], j)] \/ \E h \in 1 .. i - 1 : s[h] = Operand(s[i], j)
          BY <1>1, <2>1, <4>1, HasBefore
        <4>3. evaluated[Operand(s[i], j)] \/ \E h \in 1 .. i - 1 : r[h] = Operand(s[i], j)
          BY <3>1, <4>2
        <4> QED BY <1>2, <4>3, HasBefore
      <3> QED BY <2>1, <3>1, <3>2 DEF InTurn
    <2>2. CASE i \notin 1 .. Len(s)
      <3> PICK k \in 1 .. Len(t) : i = Len(s) + k
        <4>1. i - Len(s) \in 1 .. Len(t) /\ i = Len(s) + (i - Len(s)) BY <1>1, <1>2, <2>2
        <4> QED BY <4>1
      <3>1. r[i] = t[k] /\ \A h \in 1 .. k - 1 : r[Len(s) + h] = t[h] BY <1>1, <1>2
      <3>2. ASSUME NEW j \in DOMAIN elems[t[k]]
            PROVE  Has(SubSeq(r, 1, i - 1), Operand(t[k], j))
        <4>1. Has(SubSeq(t, 1, k - 1), Operand(t[k], j)) BY <3>2 DEF InTurn
        <4>2. CASE evaluated[Operand(t[k], j)] BY <1>2, <4>2, HasBefore
        <4>3. CASE \E h \in 1 .. k - 1 : t[h] = Operand(t[k], j)
          <5> PICK h \in 1 .. k - 1 : t[h] = Operand(t[k], j) BY <4>3
          <5>1. Len(s) + h \in 1 .. i - 1 /\ r[Len(s) + h] = Operand(t[k], j) BY <1>1, <3>1
          <5> QED BY <1>2, <5>1, HasBefore
        <4> QED BY <1>1, <4>1, <4>2, <4>3, HasBefore
      <3> QED BY <3>1, <3>2 DEF InTurn
    <2> QED BY <2>1, <2>2
  <1> QED BY <1>2, <1>3, <1>4 DEF InTurn, r

LEMMA NothingInTurn == InTurn(<< >>)
  BY EmptySeq DEF InTurn

LEMMA OneMore ==
    ASSUME NEW s, InTurn(s), NEW n \in Exprs, ~evaluated[n],
           \A j \in DOMAIN elems[n] : Has(s, Operand(n, j))
    PROVE  InTurn(s \o <<n>>) /\ Has(s \o <<n>>, n)
  <1> DEFINE r == s \o <<n>>
  <1>1. s \in Seq(Exprs) /\ <<n>> \in Seq(Exprs) /\ Len(<<n>>) = 1 /\ <<n>>[1] = n BY DEF InTurn
  <1>2. /\ r \in Seq(Exprs) /\ Len(r) = Len(s) + 1
        /\ \A i \in 1 .. Len(s) : r[i] = s[i]
        /\ r[Len(s) + 1] = n
    BY <1>1, ConcatProperties
  <1> HIDE DEF r
  <1>3. ASSUME NEW i \in 1 .. Len(r)
        PROVE  /\ ~evaluated[r[i]]
               /\ \A j \in DOMAIN elems[r[i]] : Has(SubSeq(r, 1, i - 1), Operand(r[i], j))
    <2>1. CASE i \in 1 .. Len(s)
      <3>1. r[i] = s[i] /\ \A h \in 1 .. i - 1 : r[h] = s[h] BY <1>1, <1>2, <2>1
      <3>2. ASSUME NEW j \in DOMAIN elems[s[i]]
            PROVE  Has(SubSeq(r, 1, i - 1), Operand(s[i], j))
        <4>1. Has(SubSeq(s, 1, i - 1), Operand(s[i], j)) BY <2>1, <3>2 DEF InTurn
        <4>2. evaluated[Operand(s[i], j)] \/ \E h \in 1 .. i - 1 : s[h] = Operand(s[i], j)
          BY <1>1, <2>1, <4>1, HasBefore
        <4>3. evaluated[Operand(s[i], j)] \/ \E h \in 1 .. i - 1 : r[h] = Operand(s[i], j)
          BY <3>1, <4>2
        <4> QED BY <1>2, <4>3, HasBefore
      <3> QED BY <2>1, <3>1, <3>2 DEF InTurn
    <2>2. CASE i = Len(s) + 1 BY <1>1, <1>2, <2>2, HasBefore DEF Has
    <2> QED BY <1>1, <1>2, <2>1, <2>2
  <1>4. Has(r, n) BY <1>1, <1>2 DEF Has
  <1> QED BY <1>2, <1>3, <1>4 DEF InTurn, r

\* The parts joined; that they are is a recursion over their number.
LEMMA JoinedTurns ==
    ASSUME NEW S, NEW parts \in Seq(Seq(S))
    PROVE  \E upto \in [0 .. Len(parts) -> Seq(S)] :
              /\ Plan!Joined(parts) = upto[Len(parts)]
              /\ upto[0] = << >>
              /\ \A i \in 1 .. Len(parts) : upto[i] = upto[i - 1] \o parts[i]
  <1> DEFINE n == Len(parts)
             Eq(f) == [i \in 0 .. n |-> IF i = 0 THEN << >> ELSE f[i - 1] \o parts[i]]
             G == [f \in [0 .. n -> Seq(S)] |-> Eq(f)]
             u == CHOOSE f : f = Eq(f)
  <1>1. n \in Nat /\ \A i \in 1 .. n : parts[i] \in Seq(S) OBVIOUS
  <1>2. Plan!Joined(parts) = u[n] BY DEF Plan!Joined
  <1> HIDE DEF n
  <1>3. ASSUME NEW f \in [0 .. n -> Seq(S)]
        PROVE  G[f] = Eq(f) /\ Eq(f) \in [0 .. n -> Seq(S)]
    BY EmptySeq, <1>1, ConcatProperties
  <1>4. \E f \in [0 .. n -> Seq(S)] : f = Eq(f)
    <2>1. Seq(S) # {} /\ \E a \in Nat : \E ls \in Nat : 0 .. n = a .. ls BY <1>1, EmptySeq
    <2>2. Backward(0 .. n, Seq(S), G)
      <3>1. G \in [[0 .. n -> Seq(S)] -> [0 .. n -> Seq(S)]] BY <1>3
      <3>2. ASSUME NEW f \in [0 .. n -> Seq(S)], NEW g \in [0 .. n -> Seq(S)], NEW i \in 0 .. n,
                   \A j \in 0 .. n : j < i => f[j] = g[j]
            PROVE  G[f][i] = G[g][i]
        BY <1>1, <3>2, <1>3
      <3> HIDE DEF G, Eq
      <3> QED BY <2>1, <3>1, <3>2 DEF Backward
    <2> HIDE DEF G, Eq
    <2>3. \E f \in [0 .. n -> Seq(S)] : f = G[f]
      <3> DEFINE D == 0 .. n
                 X == Seq(S)
      <3>1. Backward(D, X, G) BY <2>2
      <3> HIDE DEF D, X
      <3>2. \E f \in [D -> X] : f = G[f] BY ONLY <3>1, RecursiveIs
      <3> QED BY <3>2 DEF D, X
    <2> QED BY <1>3, <2>3
  <1>5. u = Eq(u)
    <2> HIDE DEF Eq
    <2> QED BY <1>4
  <1> HIDE DEF u
  <1>6. DOMAIN u = 0 .. n /\ u[0] = << >> /\ \A i \in 1 .. n : u[i] = u[i - 1] \o parts[i]
    <2>1. \A i \in 0 .. n : u[i] = Eq(u)[i] BY <1>5
    <2>2. 0 \in 0 .. n /\ \A i \in 1 .. n : i \in 0 .. n /\ i # 0 BY <1>1
    <2>3. Eq(u)[0] = << >> BY <2>2
    <2>4. ASSUME NEW i \in 1 .. n
          PROVE  Eq(u)[i] = u[i - 1] \o parts[i]
      BY <2>2
    <2>5. DOMAIN u = DOMAIN Eq(u) /\ DOMAIN Eq(u) = 0 .. n BY <1>5
    <2> HIDE DEF Eq
    <2> QED BY <2>1, <2>2, <2>3, <2>4, <2>5
  <1> DEFINE T == {k \in Nat : k <= n => u[k] \in Seq(S)}
  <1>7. Nat \subseteq T BY <1>1, <1>6, EmptySeq, ConcatProperties, NatInduction1
  <1>8. DOMAIN u = 0 .. n /\ \A i \in 0 .. n : u[i] \in Seq(S) BY <1>1, <1>6, <1>7
  <1>9. u \in [0 .. n -> Seq(S)] BY <1>5, <1>8
  <1> QED BY <1>2, <1>6, <1>9 DEF n

\* The units met are registered one by one.
Registered(met, layer) ==
    LET after[i \in 0 .. Len(met)] ==
            IF i = 0 THEN layer
            ELSE Plan!LayerRegister(after[i - 1], Group[met[i]], Plan!Unit(met[i]))
    IN  after[Len(met)]

LEMMA JoinedInTurn ==
    ASSUME NEW parts \in Seq(Seq(Exprs)), \A i \in 1 .. Len(parts) : InTurn(parts[i])
    PROVE  /\ InTurn(Plan!Joined(parts))
           /\ \A i \in 1 .. Len(parts) : \A o : Has(parts[i], o) => Has(Plan!Joined(parts), o)
  <1> DEFINE n == Len(parts)
  <1>1. PICK upto \in [0 .. n -> Seq(Exprs)] :
              /\ Plan!Joined(parts) = upto[n]
              /\ upto[0] = << >>
              /\ \A i \in 1 .. n : upto[i] = upto[i - 1] \o parts[i]
    BY JoinedTurns
  <1> DEFINE Good(k) == /\ InTurn(upto[k])
                        /\ \A i \in 1 .. k : \A o : Has(parts[i], o) => Has(upto[k], o)
             T == {k \in Nat : k <= n => Good(k)}
  <1>2. n \in Nat OBVIOUS
  <1> HIDE DEF n
  <1>3. Nat \subseteq T
    <2>1. 0 \in T BY <1>1, NothingInTurn
    <2>2. ASSUME NEW k \in Nat, k \in T
          PROVE  k + 1 \in T
      <3> SUFFICES ASSUME k + 1 <= n
                   PROVE  Good(k + 1)
        OBVIOUS
      <3>1. Good(k) BY <1>2, <2>2
      <3> PICK j \in 1 .. n : j = k + 1 /\ j - 1 = k BY <1>2
      <3>2. upto[j] = upto[k] \o parts[j] BY <1>1
      <3>3. InTurn(upto[k]) /\ InTurn(parts[j]) BY <3>1 DEF n
      <3>4. InTurn(upto[j]) /\ \A o : Has(upto[k], o) \/ Has(parts[j], o) => Has(upto[j], o)
        BY <3>2, <3>3, ThenInTurn
      <3>5. ASSUME NEW i \in 1 .. j, NEW o, Has(parts[i], o)
            PROVE  Has(upto[j], o)
        BY <3>4, <3>5, <3>1
      <3> QED BY <3>4, <3>5
    <2> HIDE DEF T
    <2> QED BY <2>1, <2>2, NatInduction1
  <1>4. Good(n)
    <2> HIDE DEF Good
    <2> QED BY <1>2, <1>3
  <1> QED BY <1>1, <1>4 DEF n

LEMMA OperandFacts ==
    ASSUME Plan!PlanAssumption, Ordered, NEW n \in Exprs
    PROVE  /\ elems[n] \in Seq(Exprs) /\ DOMAIN elems[n] = 1 .. Len(elems[n])
           /\ \A i \in DOMAIN elems[n] : elems[n][i] \in Exprs /\ elems[n][i] < n
  BY DEF Ordered

LEMMA StillBefore ==
    ASSUME Plan!PlanAssumption, NEW o \in Exprs, NEW n \in Exprs, NEW x \in Exprs, o < n, n <= x
    PROVE  o < x
  <1>1. o \in Nat /\ n \in Nat /\ x \in Nat BY ExprsNumbered
  <1> QED BY <1>1

LEMMA WalkInTurn ==
    ASSUME Plan!PlanAssumption, Ordered, NEW e \in Exprs, NEW layer
    PROVE  \E met : /\ InTurn(met) /\ Has(met, Plan!Behind[e])
                    /\ Plan!EvalRegister(e, layer) = Registered(met, layer)
  <1> DEFINE Of(w, n) == [i \in DOMAIN elems[n] |-> w[elems[n][i]]]
             At(w, n) == IF evaluated[n] THEN << >> ELSE Plan!Joined(Of(w, n)) \o <<n>>
             Eq(w) == [x \in Exprs |-> At(w, Plan!Behind[x])]
             G == [w \in [Exprs -> Seq(Exprs)] |-> Eq(w)]
             walk == CHOOSE w : w = Eq(w)
  <1>1. Plan!EvalRegister(e, layer) = Registered(walk[e], layer)
    BY DEF Plan!EvalRegister, Registered
  <1>2. ASSUME NEW w \in [Exprs -> Seq(Exprs)], NEW n \in Exprs
        PROVE  Of(w, n) \in Seq(Seq(Exprs)) /\ Len(Of(w, n)) = Len(elems[n])
    <2>1. \A i \in 1 .. Len(elems[n]) : w[elems[n][i]] \in Seq(Exprs) BY OperandFacts
    <2>2. Of(w, n) \in [1 .. Len(elems[n]) -> Seq(Exprs)] BY <2>1, OperandFacts
    <2>3. Len(elems[n]) \in Nat BY OperandFacts
    <2> HIDE DEF Of
    <2> QED BY <2>2, <2>3, IsSeq
  <1>3. ASSUME NEW w \in [Exprs -> Seq(Exprs)], NEW n \in Exprs
        PROVE  At(w, n) \in Seq(Exprs)
    <2> DEFINE parts == Of(w, n)
    <2>1. parts \in Seq(Seq(Exprs)) BY <1>2
    <2> HIDE DEF parts
    <2>2. PICK upto \in [0 .. Len(parts) -> Seq(Exprs)] : Plan!Joined(parts) = upto[Len(parts)]
      BY <2>1, JoinedTurns
    <2>3. Len(parts) \in 0 .. Len(parts) BY <2>1
    <2>4. Plan!Joined(parts) \in Seq(Exprs) /\ <<n>> \in Seq(Exprs)
      <3>1. upto[Len(parts)] \in Seq(Exprs) BY <2>3
      <3> QED BY <2>2, <3>1
    <2>5. Plan!Joined(parts) \o <<n>> \in Seq(Exprs) BY <2>4, ConcatProperties
    <2> QED BY <2>5, EmptySeq DEF parts
  <1>4. ASSUME NEW w \in [Exprs -> Seq(Exprs)]
        PROVE  G[w] = Eq(w) /\ Eq(w) \in [Exprs -> Seq(Exprs)]
    BY <1>3, BehindIs
  <1>5. \E w \in [Exprs -> Seq(Exprs)] : w = Eq(w)
    <2>1. PICK k \in Nat : Exprs = 1 .. k BY ExprsNumbered
    <2>2. ASSUME NEW w \in [Exprs -> Seq(Exprs)], NEW v \in [Exprs -> Seq(Exprs)], NEW x \in Exprs,
                 \A y \in Exprs : y < x => w[y] = v[y]
          PROVE  Eq(w)[x] = Eq(v)[x]
      <3> PICK n \in Exprs : n = Plan!Behind[x] /\ n <= x BY BehindIs
      <3>1. ASSUME NEW i \in DOMAIN elems[n]
            PROVE  elems[n][i] \in Exprs /\ elems[n][i] < x
        <4> PICK o : o = elems[n][i] OBVIOUS
        <4>1. o \in Exprs /\ o < n /\ Exprs \subseteq Nat BY OperandFacts, ExprsNumbered
        <4>2. o < x BY <4>1, StillBefore
        <4> QED BY <4>1, <4>2
      <3>2. Of(w, n) = Of(v, n) BY <2>2, <3>1
      <3>3. At(w, n) = At(v, n) BY <3>2
      <3>4. Eq(w)[x] = At(w, n) /\ Eq(v)[x] = At(v, n) OBVIOUS
      <3> HIDE DEF Eq, At
      <3> QED BY <3>3, <3>4
    <2>3. Seq(Exprs) # {} /\ \E a \in Nat : \E ls \in Nat : Exprs = a .. ls BY <2>1, EmptySeq
    <2>4. Backward(Exprs, Seq(Exprs), G)
      <3>1. G \in [[Exprs -> Seq(Exprs)] -> [Exprs -> Seq(Exprs)]] BY <1>4
      <3>2. ASSUME NEW f \in [Exprs -> Seq(Exprs)], NEW g \in [Exprs -> Seq(Exprs)], NEW i \in Exprs,
                   \A j \in Exprs : j < i => f[j] = g[j]
            PROVE  G[f][i] = G[g][i]
        <4> HIDE DEF Eq, G
        <4>1. Eq(f)[i] = Eq(g)[i] BY <2>2, <3>2
        <4> QED BY <1>4, <4>1
      <3> HIDE DEF G, Eq
      <3> QED BY <2>3, <3>1, <3>2 DEF Backward
    <2> HIDE DEF G, Eq
    <2>5. \E f \in [Exprs -> Seq(Exprs)] : f = G[f] BY ONLY <2>4, RecursiveIs
    <2> QED BY <1>4, <2>5
  <1>6. walk = Eq(walk)
    <2> HIDE DEF Eq
    <2> QED BY <1>5
  <1> HIDE DEF walk
  <1>7. \A x \in Exprs : walk[x] = At(walk, Plan!Behind[x])
    <2>1. \A x \in Exprs : walk[x] = Eq(walk)[x] BY <1>6
    <2> HIDE DEF At
    <2> QED BY <2>1
  <1> DEFINE Good(x) == InTurn(walk[x]) /\ Has(walk[x], Plan!Behind[x])
             Bad == {x \in Exprs : ~Good(x)}
  <1>8. ASSUME NEW x \in Exprs, \A y \in Exprs : y < x => Good(y)
        PROVE  Good(x)
    <2> PICK n \in Exprs : n = Plan!Behind[x] /\ n <= x BY BehindIs
    <2>1. walk[x] = At(walk, n) BY <1>7
    <2>2. CASE evaluated[n] BY <2>1, <2>2, NothingInTurn DEF Has
    <2>3. CASE ~evaluated[n]
      <3> DEFINE parts == Of(walk, n)
      <3>1. ASSUME NEW i \in DOMAIN elems[n]
            PROVE  elems[n][i] \in Exprs /\ elems[n][i] < x
        <4> PICK o : o = elems[n][i] OBVIOUS
        <4>1. o \in Exprs /\ o < n /\ Exprs \subseteq Nat BY OperandFacts, ExprsNumbered
        <4>2. o < x BY <4>1, StillBefore
        <4> QED BY <4>1, <4>2
      <3>2. DOMAIN parts = 1 .. Len(elems[n]) /\ DOMAIN elems[n] = 1 .. Len(elems[n]) /\ Len(elems[n]) \in Nat
        BY OperandFacts
      <3>3. \A i \in DOMAIN elems[n] : parts[i] = walk[elems[n][i]] OBVIOUS
      <3>4. walk[x] = Plan!Joined(parts) \o <<n>> BY <2>1, <2>3
      <3>5. parts = [i \in 1 .. Len(elems[n]) |-> parts[i]] BY <3>2
      <3> HIDE DEF parts, Of, At
      <3>6. ASSUME NEW i \in 1 .. Len(elems[n])
            PROVE  InTurn(parts[i]) /\ Has(parts[i], Operand(n, i)) /\ parts[i] \in Seq(Exprs)
        <4>1. Good(elems[n][i]) BY <1>8, <3>1, <3>2
        <4> QED BY <3>2, <3>3, <4>1 DEF Operand, InTurn
      <3>7. parts \in Seq(Seq(Exprs)) /\ Len(parts) = Len(elems[n])
        <4>1. parts \in [1 .. Len(elems[n]) -> Seq(Exprs)] BY <3>5, <3>6
        <4> QED BY <3>2, <4>1, IsSeq
      <3>8. InTurn(Plan!Joined(parts)) /\ \A i \in DOMAIN elems[n] : Has(Plan!Joined(parts), Operand(n, i))
        BY <3>2, <3>6, <3>7, JoinedInTurn
      <3> QED BY <2>3, <3>4, <3>8, OneMore
    <2> QED BY <2>2, <2>3
  <1>9. Bad = {}
    <2> SUFFICES ASSUME Bad # {}
                 PROVE  FALSE
      OBVIOUS
    <2>1. PICK x \in Bad : \A y \in Bad : x <= y BY ExprsNumbered, LeastNat
    <2>2. \A y \in Exprs : y < x => Good(y)
      <3> HIDE DEF Good
      <3> QED BY <2>1, ExprsNumbered
    <2> HIDE DEF Good
    <2> QED BY <1>8, <2>1, <2>2
  <1>10. Good(e) BY <1>9
  <1> QED BY <1>1, <1>10

-----------------------------------------------------------------------------
\* The units of a level, by the group of their type, and the layers of them.
PlanGroups == {Group[e] : e \in Exprs} \cup {"Dot"}
PlanUnits == [out : Exprs, ops : Seq(Exprs), late : BOOLEAN]
Clusters == UNION {[D -> Seq(PlanUnits)] : D \in SUBSET PlanGroups}
Puts == UNION {[D -> Nat] : D \in SUBSET Exprs}
PlanLayers == {L \in [seq : Seq(Clusters), outputs : Puts] :
                  \A o \in DOMAIN L.outputs : L.outputs[o] < Len(L.seq)}

Among(c, u) == \E g \in DOMAIN c : \E i \in DOMAIN c[g] : c[g][i] = u
Once(c) == \A g, h \in DOMAIN c : \A i \in DOMAIN c[g], j \in DOMAIN c[h] :
                   c[g][i].out = c[h][j].out => g = h /\ i = j

LEMMA ClusterIs ==
    ASSUME NEW c
    PROVE  c \in Clusters <=> DOMAIN c \in SUBSET PlanGroups /\ c \in [DOMAIN c -> Seq(PlanUnits)]
  BY DEF Clusters

LEMMA NoCluster == << >> \in Clusters /\ (\A u : ~Among(<< >>, u)) /\ Once(<< >>)
  <1>1. DOMAIN << >> = {} /\ << >> \in [{} -> Seq(PlanUnits)] OBVIOUS
  <1> QED BY <1>1, ClusterIs DEF Among, Once

LEMMA ClusterGrows ==
    ASSUME NEW c \in Clusters, NEW g \in PlanGroups, NEW u \in PlanUnits
    PROVE  /\ Plan!More(c, g, u) \in Clusters
           /\ \A v : Among(Plan!More(c, g, u), v) <=> Among(c, v) \/ v = u
           /\ Once(c) /\ (\A v : Among(c, v) => v.out # u.out) => Once(Plan!More(c, g, u))
  <1> DEFINE n == Plan!More(c, g, u)
             s == IF g \in DOMAIN c THEN c[g] ELSE << >>
  <1>1. s \in Seq(PlanUnits) /\ \A h \in DOMAIN c : c[h] \in Seq(PlanUnits) BY ClusterIs, EmptySeq
  <1>2. DOMAIN n = DOMAIN c \cup {g} /\ n[g] = Append(s, u) /\ \A h \in DOMAIN c : h # g => n[h] = c[h]
    BY DEF Plan!More
  <1>3. n = [h \in DOMAIN c \cup {g} |-> n[h]] BY DEF Plan!More
  <1>4. g \notin DOMAIN c => s = << >> OBVIOUS
  <1>5. g \in DOMAIN c => s = c[g] OBVIOUS
  <1> HIDE DEF n, s
  <1>6. /\ Append(s, u) \in Seq(PlanUnits)
        /\ DOMAIN Append(s, u) = DOMAIN s \cup {Len(s) + 1} /\ Len(s) + 1 \notin DOMAIN s
        /\ Append(s, u)[Len(s) + 1] = u /\ \A i \in DOMAIN s : Append(s, u)[i] = s[i]
    BY <1>1, AppendProperties
  <1>7. n \in Clusters BY <1>1, <1>2, <1>6, ClusterIs, <1>3
  <1>8. ASSUME NEW v
        PROVE  Among(n, v) <=> Among(c, v) \/ v = u
    BY <1>2, <1>6, <1>4, <1>5 DEF Among
  <1>9. ASSUME Once(c), \A v : Among(c, v) => v.out # u.out
        PROVE  Once(n)
    <2>1. \A h \in DOMAIN c : \A i \in DOMAIN c[h] : c[h][i].out # u.out BY <1>9 DEF Among
    <2>2. \A h \in DOMAIN n : \A i \in DOMAIN n[h] :
             \/ h = g /\ i = Len(s) + 1 /\ n[h][i] = u
             \/ h \in DOMAIN c /\ i \in DOMAIN c[h] /\ n[h][i] = c[h][i]
      BY <1>2, <1>6, <1>4, <1>5
    <2> SUFFICES ASSUME NEW h \in DOMAIN n, NEW k \in DOMAIN n, NEW i \in DOMAIN n[h], NEW j \in DOMAIN n[k],
                        n[h][i].out = n[k][j].out
                 PROVE  h = k /\ i = j
      BY DEF Once
    <2>3. CASE h \in DOMAIN c /\ i \in DOMAIN c[h] /\ n[h][i] = c[h][i]
      BY <2>1, <2>2, <2>3, <1>9 DEF Once
    <2>4. CASE h = g /\ i = Len(s) + 1 /\ n[h][i] = u BY <2>1, <2>2, <2>4
    <2> QED BY <2>2, <2>3, <2>4
  <1> QED BY <1>7, <1>8, <1>9 DEF n

LEMMA ClusterGives ==
    ASSUME NEW c \in Clusters, NEW g \in DOMAIN c, c[g] # << >>
    PROVE  LET n == [c EXCEPT ![g] = Tail(@)]
               u == Head(c[g])
           IN  /\ n \in Clusters /\ u \in PlanUnits /\ Among(c, u)
               /\ \A v : Among(n, v) => Among(c, v)
               /\ \A v : Among(c, v) => Among(n, v) \/ v = u
               /\ Once(c) => Once(n) /\ \A v : Among(n, v) => v.out # u.out
  <1> DEFINE n == [c EXCEPT ![g] = Tail(@)]
             u == Head(c[g])
             s == c[g]
  <1>1. DOMAIN c \in SUBSET PlanGroups /\ c \in [DOMAIN c -> Seq(PlanUnits)] /\ s \in Seq(PlanUnits)
    BY ClusterIs
  <1>2. DOMAIN n = DOMAIN c /\ n[g] = Tail(s) /\ \A h \in DOMAIN c : h # g => n[h] = c[h] BY <1>1
  <1>3. /\ u = s[1] /\ Tail(s) \in Seq(PlanUnits) /\ DOMAIN s = 1 .. Len(s) /\ 1 \in DOMAIN s
        /\ DOMAIN Tail(s) = 1 .. Len(s) - 1 /\ \A i \in DOMAIN Tail(s) : Tail(s)[i] = s[i + 1]
    BY <1>1, HeadTailProperties
  <1>4. u \in PlanUnits BY <1>1, <1>3
  <1>5. n \in Clusters BY <1>1, <1>3, <1>2, ClusterIs
  <1> HIDE DEF n, u
  <1>6. \A h \in DOMAIN n : \A i \in DOMAIN n[h] :
           \/ h = g /\ i + 1 \in DOMAIN s /\ i \in Nat /\ i # 0 /\ n[h][i] = s[i + 1]
           \/ h # g /\ i \in DOMAIN c[h] /\ n[h][i] = c[h][i]
    <2>1. \A i \in DOMAIN n[g] : i + 1 \in DOMAIN s /\ i \in Nat /\ i # 0 /\ n[g][i] = s[i + 1]
      BY <1>1, <1>2, <1>3
    <2>2. \A h \in DOMAIN n : h # g => n[h] = c[h] BY <1>2
    <2> HIDE DEF s
    <2> QED BY <2>1, <2>2
  <1>7. \A h \in DOMAIN c : \A i \in DOMAIN c[h] :
           \/ h = g /\ i = 1 /\ c[h][i] = u
           \/ h \in DOMAIN n /\ \E j \in DOMAIN n[h] : n[h][j] = c[h][i]
    <2> SUFFICES ASSUME NEW h \in DOMAIN c, NEW i \in DOMAIN c[h]
                 PROVE  \/ h = g /\ i = 1 /\ c[h][i] = u
                        \/ h \in DOMAIN n /\ \E j \in DOMAIN n[h] : n[h][j] = c[h][i]
      OBVIOUS
    <2>1. CASE h = g /\ i # 1
      <3>1. i \in Nat /\ i - 1 \in DOMAIN Tail(s) /\ i - 1 + 1 = i BY <1>1, <1>3, <2>1
      <3>2. Tail(s)[i - 1] = s[i - 1 + 1] BY <1>3, <3>1
      <3>3. i - 1 \in DOMAIN n[h] /\ n[h][i - 1] = c[h][i] /\ h \in DOMAIN n
        BY <1>2, <2>1, <3>1, <3>2
      <3> QED BY <3>3
    <2>2. CASE h # g BY <1>2, <2>2
    <2> QED BY <1>3, <2>1, <2>2
  <1>8. \A v : Among(n, v) => Among(c, v) BY <1>2, <1>6 DEF Among
  <1>9. \A v : Among(c, v) => Among(n, v) \/ v = u BY <1>7 DEF Among
  <1>10. ASSUME Once(c)
         PROVE  Once(n) /\ \A v : Among(n, v) => v.out # u.out
    <2>1. Once(n)
      <3> SUFFICES ASSUME NEW h \in DOMAIN n, NEW k \in DOMAIN n, NEW i \in DOMAIN n[h], NEW j \in DOMAIN n[k],
                          n[h][i].out = n[k][j].out
                   PROVE  h = k /\ i = j
        BY DEF Once
      <3>1. CASE h = g /\ k = g BY <1>6, <3>1, <1>10 DEF Once
      <3>2. CASE h = g /\ k # g BY <1>2, <1>6, <3>2, <1>10 DEF Once
      <3>3. CASE h # g /\ k = g BY <1>2, <1>6, <3>3, <1>10 DEF Once
      <3>4. CASE h # g /\ k # g BY <1>2, <1>6, <3>4, <1>10 DEF Once
      <3> QED BY <3>1, <3>2, <3>3, <3>4
    <2>2. ASSUME NEW h \in DOMAIN n, NEW i \in DOMAIN n[h]
          PROVE  n[h][i].out # u.out
      <3>1. CASE h = g BY <1>6, <3>1, <1>3, <1>10 DEF Once
      <3>2. CASE h # g BY <1>2, <1>6, <3>2, <1>3, <1>10 DEF Once
      <3> QED BY <3>1, <3>2
    <2> QED BY <2>1, <2>2 DEF Among
  <1>11. Among(c, u) BY <1>3 DEF Among
  <1> QED BY <1>4, <1>5, <1>8, <1>9, <1>10, <1>11 DEF n, u

\* A set of integers with a bound has a greatest element.
LEMMA GreatestIs ==
    ASSUME NEW S \in SUBSET Int, S # {}, NEW n \in Int, \A d \in S : d <= n
    PROVE  \E d \in S : \A c \in S : c <= d
  <1> DEFINE T == {n - d : d \in S}
  <1>1. T \in SUBSET Nat /\ T # {}
    <2>1. \A d \in S : n - d \in Nat OBVIOUS
    <2> QED BY <2>1
  <1>2. PICK t \in T : \A k \in T : t <= k BY <1>1, LeastNat
  <1>3. PICK d \in S : t = n - d OBVIOUS
  <1>4. \A c \in S : n - d <= n - c BY <1>2, <1>3
  <1> QED BY <1>4

LEMMA DepthIs ==
    ASSUME NEW outputs \in Puts, NEW n \in Nat, \A o \in DOMAIN outputs : outputs[o] < n, NEW ops
    PROVE  /\ Plan!OperandDepth(outputs, ops) \in -1 .. n - 1
           /\ \A i \in DOMAIN ops : ops[i] \in DOMAIN outputs => outputs[ops[i]] <= Plan!OperandDepth(outputs, ops)
  <1> DEFINE depths == {outputs[o] : o \in Plan!Range(ops) \cap DOMAIN outputs} \cup {-1}
             d == Plan!OperandDepth(outputs, ops)
  <1>1. \A o \in DOMAIN outputs : outputs[o] \in Nat BY DEF Puts
  <1>2. depths \in SUBSET Int /\ depths # {} /\ \A c \in depths : c \in -1 .. n - 1 BY <1>1
  <1>3. d = CHOOSE x \in depths : \A c \in depths : c <= x BY DEF Plan!OperandDepth
  <1> HIDE DEF d
  <1>4. d \in depths /\ \A c \in depths : c <= d
    <2> HIDE DEF depths
    <2>1. n - 1 \in Int /\ \A c \in depths : c <= n - 1 BY <1>2
    <2>2. \E x \in depths : \A c \in depths : c <= x BY <1>2, <2>1, GreatestIs
    <2> QED BY <1>3, <2>2
  <1>5. \A i \in DOMAIN ops : ops[i] \in DOMAIN outputs => outputs[ops[i]] \in depths
    BY DEF Plan!Range
  <1> HIDE DEF depths
  <1> QED BY <1>2, <1>4, <1>5 DEF d

LEMMA PaddedIs ==
    ASSUME NEW s \in Seq(Clusters), NEW n \in 1 .. Len(s) + 1
    PROVE  /\ Plan!Padded(s, n) \in Seq(Clusters)
           /\ Len(Plan!Padded(s, n)) = IF n <= Len(s) THEN Len(s) ELSE n
           /\ \A k \in 1 .. Len(s) : Plan!Padded(s, n)[k] = s[k]
           /\ n > Len(s) => Plan!Padded(s, n)[n] = << >>
  <1> DEFINE t == [i \in 1 .. (n - Len(s)) |-> << >>]
             l == IF n <= Len(s) THEN 0 ELSE 1
  <1>1. Len(s) \in Nat /\ n \in Nat OBVIOUS
  <1>2. 1 .. (n - Len(s)) = 1 .. l /\ l \in Nat BY <1>1
  <1>3. t \in [1 .. l -> Clusters] /\ \A i \in 1 .. l : t[i] = << >> BY <1>2, NoCluster
  <1> HIDE DEF t
  <1>4. t \in Seq(Clusters) /\ Len(t) = l BY <1>2, <1>3, IsSeq
  <1>5. Plan!Padded(s, n) = s \o t BY DEF Plan!Padded, t
  <1>10. l \in {0, 1} /\ l = IF n <= Len(s) THEN 0 ELSE 1 OBVIOUS
  <1> HIDE DEF l
  <1>6. /\ s \o t \in Seq(Clusters) /\ Len(s \o t) = Len(s) + l
        /\ \A k \in 1 .. Len(s) : (s \o t)[k] = s[k]
        /\ \A k \in 1 .. l : (s \o t)[Len(s) + k] = t[k]
    BY <1>4, ConcatProperties, <1>1, <1>2
  <1>7. n > Len(s) => n = Len(s) + 1 /\ l = 1 BY <1>1, <1>10
  <1>8. Len(s) + l = IF n <= Len(s) THEN Len(s) ELSE n BY <1>1, <1>10
  <1>9. n > Len(s) => (s \o t)[n] = << >> BY <1>3, <1>6, <1>7
  <1> QED BY <1>5, <1>6, <1>8, <1>9

Waits(L, k, u) == k \in DOMAIN L.seq /\ Among(L.seq[k], u)
Depth(L, u) == Plan!OperandDepth(L.outputs, u.ops) + 1

LEMMA LayerIs ==
    ASSUME NEW L \in PlanLayers
    PROVE  /\ L.seq \in Seq(Clusters) /\ Len(L.seq) \in Nat /\ DOMAIN L.seq = 1 .. Len(L.seq)
           /\ \A k \in DOMAIN L.seq : L.seq[k] \in Clusters
           /\ L.outputs \in Puts /\ DOMAIN L.outputs \in SUBSET Exprs
           /\ \A o \in DOMAIN L.outputs : L.outputs[o] \in Nat /\ L.outputs[o] < Len(L.seq)
  BY DEF PlanLayers, Puts

LEMMA LayerGrows ==
    ASSUME NEW L \in PlanLayers, NEW g \in PlanGroups, NEW u \in PlanUnits, u.out \notin DOMAIN L.outputs
    PROVE  LET n == Plan!LayerRegister(L, g, u)
               d == Depth(L, u)
           IN  /\ n \in PlanLayers /\ n.seq # << >>
               /\ DOMAIN n.outputs = DOMAIN L.outputs \cup {u.out}
               /\ n.outputs[u.out] = d /\ \A o \in DOMAIN L.outputs : n.outputs[o] = L.outputs[o]
               /\ d \in Nat
               /\ \A i \in DOMAIN u.ops : u.ops[i] \in DOMAIN L.outputs => L.outputs[u.ops[i]] < d
               /\ \A k, v : Waits(n, k, v) <=> Waits(L, k, v) \/ (k = d + 1 /\ v = u)
               /\ (\A k \in DOMAIN L.seq : Once(L.seq[k])) /\ (\A v : Waits(L, d + 1, v) => v.out # u.out)
                    => \A k \in DOMAIN n.seq : Once(n.seq[k])
  <1> DEFINE n == Plan!LayerRegister(L, g, u)
             d == Depth(L, u)
             p == Plan!Padded(L.seq, d + 1)
             c == Plan!More(p[d + 1], g, u)
  <1>1. d \in Nat /\ d <= Len(L.seq)
        /\ \A i \in DOMAIN u.ops : u.ops[i] \in DOMAIN L.outputs => L.outputs[u.ops[i]] < d
    <2>1. /\ Plan!OperandDepth(L.outputs, u.ops) \in -1 .. Len(L.seq) - 1
          /\ \A i \in DOMAIN u.ops : u.ops[i] \in DOMAIN L.outputs
                => L.outputs[u.ops[i]] <= Plan!OperandDepth(L.outputs, u.ops)
      BY LayerIs, DepthIs
    <2>2. \A i \in DOMAIN u.ops : u.ops[i] \in DOMAIN L.outputs => L.outputs[u.ops[i]] \in Nat
      BY LayerIs
    <2>3. Len(L.seq) \in Nat BY LayerIs
    <2> QED BY <2>1, <2>2, <2>3 DEF Depth
  <1>2. n = [seq |-> [p EXCEPT ![d + 1] = c],
             outputs |-> [o \in DOMAIN L.outputs \cup {u.out} |-> IF o = u.out THEN d ELSE L.outputs[o]]]
    BY DEF Plan!LayerRegister, Depth
  <1> HIDE DEF d, n
  <1>3. d + 1 \in 1 .. Len(L.seq) + 1 /\ L.seq \in Seq(Clusters) /\ Len(L.seq) \in Nat
    BY <1>1, LayerIs
  <1>4. /\ p \in Seq(Clusters) /\ Len(p) = IF d + 1 <= Len(L.seq) THEN Len(L.seq) ELSE d + 1
        /\ \A k \in 1 .. Len(L.seq) : p[k] = L.seq[k]
        /\ d + 1 > Len(L.seq) => p[d + 1] = << >>
    BY <1>3, PaddedIs
  <1> HIDE DEF p
  <1>5. /\ Len(p) \in Nat /\ Len(L.seq) <= Len(p) /\ d < Len(p) /\ d + 1 \in 1 .. Len(p)
        /\ \A k \in 1 .. Len(p) : k \in 1 .. Len(L.seq) \/ k = d + 1
    BY <1>1, <1>3, <1>4
  <1>6. p[d + 1] \in Clusters BY <1>4, <1>5
  <1>7. \A v : Among(p[d + 1], v) <=> Waits(L, d + 1, v)
    BY <1>4, LayerIs, <1>1, <1>3, NoCluster DEF Waits
  <1>8. /\ c \in Clusters /\ \A v : Among(c, v) <=> Among(p[d + 1], v) \/ v = u
        /\ Once(p[d + 1]) /\ (\A v : Among(p[d + 1], v) => v.out # u.out) => Once(c)
    BY <1>6, ClusterGrows
  <1> HIDE DEF c
  <1>9. /\ n.seq \in Seq(Clusters) /\ Len(n.seq) = Len(p) /\ DOMAIN n.seq = 1 .. Len(p)
        /\ n.seq[d + 1] = c /\ \A k \in 1 .. Len(p) : k # d + 1 => n.seq[k] = p[k]
    BY <1>4, <1>5, <1>8, ExceptSeq, <1>2
  <1>10. /\ DOMAIN n.outputs = DOMAIN L.outputs \cup {u.out}
         /\ n.outputs[u.out] = d /\ \A o \in DOMAIN L.outputs : n.outputs[o] = L.outputs[o]
         /\ n.outputs \in [DOMAIN n.outputs -> Nat]
    BY <1>1, <1>2, LayerIs
  <1>11. n \in PlanLayers
    <2>1. u.out \in Exprs BY DEF PlanUnits
    <2>2. DOMAIN n.outputs \in SUBSET Exprs BY <1>10, <2>1, LayerIs
    <2>3. n.outputs \in Puts BY <1>10, <2>2 DEF Puts
    <2>4. n \in [seq : Seq(Clusters), outputs : Puts] BY <1>2, <1>9, <2>3
    <2>5. \A o \in DOMAIN n.outputs : n.outputs[o] < Len(n.seq) BY <1>5, <1>9, <1>10, LayerIs
    <2> QED BY <2>4, <2>5 DEF PlanLayers
  <1>12. n.seq # << >> BY <1>5, <1>9
  <1>13. ASSUME NEW k, NEW v
         PROVE  Waits(n, k, v) <=> Waits(L, k, v) \/ (k = d + 1 /\ v = u)
    <2>1. CASE k = d + 1 BY <1>5, <1>7, <1>8, <1>9, <2>1 DEF Waits
    <2>2. CASE k # d + 1 BY <1>3, <1>5, <2>2, <1>4, <1>9, LayerIs DEF Waits
    <2> QED BY <2>1, <2>2
  <1>14. ASSUME \A k \in DOMAIN L.seq : Once(L.seq[k]), \A v : Waits(L, d + 1, v) => v.out # u.out
         PROVE  \A k \in DOMAIN n.seq : Once(n.seq[k])
    BY <1>4, <1>14, LayerIs, <1>1, <1>3, NoCluster, <1>7, <1>8, <1>5, <1>9
  <1> QED BY <1>1, <1>10, <1>11, <1>12, <1>13, <1>14 DEF n, d

\* A unit is taken from a group of a level.
Gives(L, k, g, u, n) == /\ k \in DOMAIN L.seq /\ g \in DOMAIN L.seq[k] /\ L.seq[k][g] # << >>
                        /\ u = Head(L.seq[k][g]) /\ n = [L EXCEPT !.seq[k][g] = Tail(@)]

LEMMA LayerGives ==
    ASSUME NEW L \in PlanLayers, NEW k, NEW g, NEW u, NEW n, Gives(L, k, g, u, n)
    PROVE  /\ n \in PlanLayers /\ n.outputs = L.outputs /\ Len(n.seq) = Len(L.seq)
           /\ u \in PlanUnits /\ Waits(L, k, u)
           /\ \A j, v : Waits(n, j, v) => Waits(L, j, v)
           /\ \A j, v : Waits(L, j, v) => Waits(n, j, v) \/ (j = k /\ v = u)
           /\ (\A j \in DOMAIN L.seq : Once(L.seq[j]))
                => /\ \A j \in DOMAIN n.seq : Once(n.seq[j])
                   /\ \A v : Waits(n, k, v) => v.out # u.out
  <1> DEFINE c == [L.seq[k] EXCEPT ![g] = Tail(@)]
  <1>0. k \in DOMAIN L.seq /\ g \in DOMAIN L.seq[k] /\ L.seq[k][g] # << >> /\ u = Head(L.seq[k][g])
    BY DEF Gives
  <1>1. L.seq \in Seq(Clusters) /\ L.seq[k] \in Clusters /\ DOMAIN L.seq = 1 .. Len(L.seq) /\ Len(L.seq) \in Nat
    BY <1>0, LayerIs
  <1>2. /\ c \in Clusters /\ u \in PlanUnits /\ Among(L.seq[k], u)
        /\ \A v : Among(c, v) => Among(L.seq[k], v)
        /\ \A v : Among(L.seq[k], v) => Among(c, v) \/ v = u
        /\ Once(L.seq[k]) => Once(c) /\ \A v : Among(c, v) => v.out # u.out
    BY <1>0, <1>1, ClusterGives
  <1>3. n = [seq |-> [L.seq EXCEPT ![k] = c], outputs |-> L.outputs] BY DEF Gives, PlanLayers
  <1> HIDE DEF c
  <1>4. /\ n.seq \in Seq(Clusters) /\ Len(n.seq) = Len(L.seq) /\ DOMAIN n.seq = DOMAIN L.seq
        /\ n.seq[k] = c /\ \A j \in DOMAIN L.seq : j # k => n.seq[j] = L.seq[j]
    BY <1>0, <1>1, <1>2, ExceptSeq, <1>3
  <1>5. n \in PlanLayers /\ n.outputs = L.outputs BY <1>3, <1>4, LayerIs DEF PlanLayers
  <1>6. \A j, v : Waits(n, j, v) => Waits(L, j, v) BY <1>0, <1>2, <1>4 DEF Waits
  <1>7. \A j, v : Waits(L, j, v) => Waits(n, j, v) \/ (j = k /\ v = u)
    BY <1>0, <1>2, <1>4 DEF Waits
  <1>8. (\A j \in DOMAIN L.seq : Once(L.seq[j]))
           => /\ \A j \in DOMAIN n.seq : Once(n.seq[j])
              /\ \A v : Waits(n, k, v) => v.out # u.out
    BY <1>0, <1>2, <1>4 DEF Waits
  <1>9. Waits(L, k, u) BY <1>0, <1>2 DEF Waits
  <1> QED BY <1>2, <1>4, <1>5, <1>6, <1>7, <1>8, <1>9

\* A unit that waits is not evaluated, is put out at its level only, and finds
\* its operands evaluated or put out at a lower level; ev is evaluated.
IsSet(ev, o) == ev[o] \/ Kind[o] = "Void"
Placed(ev, L, k, u) ==
    /\ u.out \in DOMAIN L.outputs /\ L.outputs[u.out] + 1 = k
    /\ ~ev[u.out]
    /\ u.late => u.ops # << >>
    /\ \A i \in DOMAIN u.ops : \/ IsSet(ev, u.ops[i])
                               \/ u.ops[i] \in DOMAIN L.outputs /\ L.outputs[u.ops[i]] + 1 < k
Settled(ev, L) == /\ \A k, u : Waits(L, k, u) => Placed(ev, L, k, u)
                  /\ \A k \in DOMAIN L.seq : Once(L.seq[k])
PutOut(L, o) == \E k, u : Waits(L, k, u) /\ u.out = o
Whole(ev, L) == \A o \in DOMAIN L.outputs : IsSet(ev, o) \/ PutOut(L, o)

\* What a unit waits for when it is registered.
Fitting(ev, L, u) == /\ u \in PlanUnits /\ ~ev[u.out]
                     /\ u.late => u.ops # << >>
                     /\ \A i \in DOMAIN u.ops : IsSet(ev, u.ops[i]) \/ u.ops[i] \in DOMAIN L.outputs

LEMMA RegisterKeeps ==
    ASSUME NEW ev, NEW L \in PlanLayers, Settled(ev, L), NEW g \in PlanGroups, NEW u, Fitting(ev, L, u)
    PROVE  LET n == Plan!LayerRegister(L, g, u)
           IN  /\ n \in PlanLayers /\ Settled(ev, n)
               /\ Whole(ev, L) => Whole(ev, n)
               /\ DOMAIN n.outputs = DOMAIN L.outputs \cup {u.out}
               /\ \A o : PutOut(L, o) => PutOut(n, o)
               /\ \A o : PutOut(n, o) => PutOut(L, o) \/ o = u.out
               /\ \A k, v : Waits(n, k, v) => Waits(L, k, v) \/ v = u
  <1> DEFINE n == Plan!LayerRegister(L, g, u)
             d == Depth(L, u)
  <1>1. CASE u.out \in DOMAIN L.outputs BY <1>1 DEF Plan!LayerRegister, n
  <1>2. CASE u.out \notin DOMAIN L.outputs
    <2>1. /\ n \in PlanLayers
          /\ DOMAIN n.outputs = DOMAIN L.outputs \cup {u.out}
          /\ n.outputs[u.out] = d /\ \A o \in DOMAIN L.outputs : n.outputs[o] = L.outputs[o]
          /\ d \in Nat
          /\ \A i \in DOMAIN u.ops : u.ops[i] \in DOMAIN L.outputs => L.outputs[u.ops[i]] < d
          /\ \A k, v : Waits(n, k, v) <=> Waits(L, k, v) \/ (k = d + 1 /\ v = u)
          /\ (\A k \in DOMAIN L.seq : Once(L.seq[k])) /\ (\A v : Waits(L, d + 1, v) => v.out # u.out)
               => \A k \in DOMAIN n.seq : Once(n.seq[k])
      BY <1>2, LayerGrows DEF Fitting
    <2> HIDE DEF n, d
    <2>2. \A v : Waits(L, d + 1, v) => v.out # u.out BY <1>2 DEF Settled, Placed
    <2>3. ASSUME NEW k, NEW v, Waits(n, k, v)
          PROVE  Placed(ev, n, k, v)
      <3>1. CASE Waits(L, k, v) BY <3>1, <2>1 DEF Settled, Placed
      <3>2. CASE k = d + 1 /\ v = u
        <4>1. n.outputs[u.out] + 1 = k /\ u.out \in DOMAIN n.outputs BY <2>1, <3>2
        <4>2. \A i \in DOMAIN u.ops : \/ IsSet(ev, u.ops[i])
                                      \/ u.ops[i] \in DOMAIN n.outputs /\ n.outputs[u.ops[i]] + 1 < k
          <5> SUFFICES ASSUME NEW i \in DOMAIN u.ops, ~IsSet(ev, u.ops[i])
                       PROVE  u.ops[i] \in DOMAIN n.outputs /\ n.outputs[u.ops[i]] + 1 < k
            OBVIOUS
          <5> PICK o : o = u.ops[i] OBVIOUS
          <5>1. o \in DOMAIN L.outputs /\ L.outputs[o] < d BY <2>1 DEF Fitting
          <5>2. o \in DOMAIN n.outputs /\ n.outputs[o] = L.outputs[o] /\ L.outputs[o] \in Nat
            BY <2>1, <5>1, LayerIs
          <5>3. n.outputs[o] + 1 < k BY <2>1, <3>2, <5>1, <5>2
          <5> QED BY <5>2, <5>3
        <4> QED BY <3>2, <4>1, <4>2 DEF Placed, Fitting
      <3> QED BY <2>1, <2>3, <3>1, <3>2
    <2>4. Settled(ev, n) BY <2>1, <2>2, <2>3 DEF Settled
    <2>5. \A o : PutOut(n, o) => PutOut(L, o) \/ o = u.out BY <2>1 DEF PutOut
    <2>6. PutOut(n, u.out) /\ \A o : PutOut(L, o) => PutOut(n, o) BY <2>1 DEF PutOut
    <2>7. Whole(ev, L) => Whole(ev, n) BY <2>1, <2>6 DEF Whole
    <2> QED BY <2>1, <2>4, <2>5, <2>6, <2>7 DEF n
  <1> QED BY <1>1, <1>2

LEMMA UnitIs ==
    ASSUME Plan!PlanAssumption, Ordered, NEW n \in Exprs
    PROVE  LET u == Plan!Unit(n)
           IN  /\ u \in PlanUnits /\ u.out = n /\ (u.late => u.ops # << >>)
               /\ DOMAIN u.ops = DOMAIN elems[n] /\ \A i \in DOMAIN elems[n] : u.ops[i] = Operand(n, i)
  <1> DEFINE ops == [i \in DOMAIN elems[n] |-> Plan!Behind[elems[n][i]]]
             l == Len(elems[n])
  <1>1. l \in Nat /\ DOMAIN elems[n] = 1 .. l BY OperandFacts
  <1>2. \A i \in 1 .. l : Plan!Behind[elems[n][i]] \in Exprs BY <1>1, OperandFacts, BehindIs
  <1>3. ops \in [1 .. l -> Exprs] BY <1>1, <1>2
  <1>4. DOMAIN ops = DOMAIN elems[n] /\ \A i \in DOMAIN elems[n] : ops[i] = Operand(n, i)
    BY DEF Operand
  <1>5. Plan!Unit(n) = [out |-> n, ops |-> ops, late |-> Kind[n] = "Late"] BY DEF Plan!Unit
  <1> HIDE DEF ops, l
  <1>6. ops \in Seq(Exprs) /\ Len(ops) = l BY <1>1, <1>3, IsSeq
  <1>7. Kind[n] = "Late" => ops # << >> BY OperandFacts, <1>6 DEF Ordered, l
  <1> DEFINE late == Kind[n] = "Late"
  <1>8. late \in BOOLEAN /\ Plan!Unit(n) = [out |-> n, ops |-> ops, late |-> late] BY <1>5
  <1>9. late => ops # << >> BY <1>7
  <1> HIDE DEF late
  <1> QED BY <1>4, <1>6, <1>8, <1>9 DEF PlanUnits

LEMMA RegisteredSteps ==
    ASSUME Plan!PlanAssumption, Ordered, NEW met \in Seq(Exprs), NEW L \in PlanLayers
    PROVE  \E after \in [0 .. Len(met) -> PlanLayers] :
              /\ Registered(met, L) = after[Len(met)]
              /\ after[0] = L
              /\ \A i \in 1 .. Len(met) :
                    after[i] = Plan!LayerRegister(after[i - 1], Group[met[i]], Plan!Unit(met[i]))
  <1> DEFINE n == Len(met)
             Then(l, i) == Plan!LayerRegister(l, Group[met[i]], Plan!Unit(met[i]))
             Eq(f) == [i \in 0 .. n |-> IF i = 0 THEN L ELSE Then(f[i - 1], i)]
             G == [f \in [0 .. n -> PlanLayers] |-> Eq(f)]
             a == CHOOSE f : f = Eq(f)
  <1>1. n \in Nat /\ \A i \in 1 .. n : met[i] \in Exprs OBVIOUS
  <1>2. Registered(met, L) = a[n] BY DEF Registered
  <1>3. ASSUME NEW l \in PlanLayers, NEW i \in 1 .. n
        PROVE  Then(l, i) \in PlanLayers
    <2> PICK u \in PlanUnits : u = Plan!Unit(met[i]) BY <1>1, UnitIs
    <2>1. Group[met[i]] \in PlanGroups BY <1>1 DEF PlanGroups
    <2>2. CASE u.out \in DOMAIN l.outputs BY <2>2 DEF Plan!LayerRegister
    <2>3. CASE u.out \notin DOMAIN l.outputs BY <2>1, <2>3, LayerGrows
    <2> QED BY <2>2, <2>3
  <1> HIDE DEF n, Then
  <1>4. ASSUME NEW f \in [0 .. n -> PlanLayers]
        PROVE  G[f] = Eq(f) /\ Eq(f) \in [0 .. n -> PlanLayers]
    BY <1>1, <1>3
  <1>5. \E f \in [0 .. n -> PlanLayers] : f = Eq(f)
    <2>1. PlanLayers # {} /\ \E b \in Nat : \E ls \in Nat : 0 .. n = b .. ls BY <1>1
    <2>2. Backward(0 .. n, PlanLayers, G)
      <3>1. G \in [[0 .. n -> PlanLayers] -> [0 .. n -> PlanLayers]] BY <1>4
      <3>2. ASSUME NEW f \in [0 .. n -> PlanLayers], NEW g \in [0 .. n -> PlanLayers], NEW i \in 0 .. n,
                   \A j \in 0 .. n : j < i => f[j] = g[j]
            PROVE  G[f][i] = G[g][i]
        BY <1>1, <3>2, <1>4
      <3> HIDE DEF G, Eq
      <3> QED BY <2>1, <3>1, <3>2 DEF Backward
    <2> HIDE DEF G, Eq
    <2>3. \E f \in [0 .. n -> PlanLayers] : f = G[f]
      <3> PICK D : D = 0 .. n OBVIOUS
      <3>1. Backward(D, PlanLayers, G) BY <2>2
      <3>2. \E f \in [D -> PlanLayers] : f = G[f] BY ONLY <3>1, RecursiveIs
      <3> QED BY <3>2
    <2> QED BY <1>4, <2>3
  <1>6. a = Eq(a) BY <1>5
  <1> HIDE DEF a
  <1>7. DOMAIN a = 0 .. n /\ a[0] = L /\ \A i \in 1 .. n : a[i] = Then(a[i - 1], i)
    <2>1. \A i \in 0 .. n : a[i] = Eq(a)[i] BY <1>6
    <2>2. 0 \in 0 .. n /\ \A i \in 1 .. n : i \in 0 .. n /\ i # 0 BY <1>1
    <2>3. Eq(a)[0] = L BY <2>2
    <2>4. ASSUME NEW i \in 1 .. n
          PROVE  Eq(a)[i] = Then(a[i - 1], i)
      BY <2>2
    <2>5. DOMAIN a = DOMAIN Eq(a) /\ DOMAIN Eq(a) = 0 .. n BY <1>6
    <2> HIDE DEF Eq
    <2> QED BY <2>1, <2>2, <2>3, <2>4, <2>5
  <1> DEFINE T == {k \in Nat : k <= n => a[k] \in PlanLayers}
  <1>8. Nat \subseteq T
    <2>1. 0 \in T BY <1>1, <1>7
    <2>2. ASSUME NEW k \in Nat, k \in T
          PROVE  k + 1 \in T
      BY <1>1, <1>7, <2>2, <1>3
    <2> HIDE DEF T
    <2> QED BY <2>1, <2>2, NatInduction1
  <1>9. a \in [0 .. n -> PlanLayers]
    <2>1. \A i \in 0 .. n : a[i] \in PlanLayers BY <1>1, <1>8
    <2>2. a = [i \in 0 .. n |-> a[i]] BY <1>6
    <2> QED BY <2>1, <2>2
  <1> QED BY <1>2, <1>7, <1>9 DEF n, Then

LEMMA RegisteredKeeps ==
    ASSUME Plan!PlanAssumption, Ordered, NEW met, InTurn(met),
           NEW L \in PlanLayers, Settled(evaluated, L), Whole(evaluated, L)
    PROVE  LET R == Registered(met, L)
           IN  /\ R \in PlanLayers /\ Settled(evaluated, R) /\ Whole(evaluated, R)
               /\ DOMAIN L.outputs \subseteq DOMAIN R.outputs
               /\ \A h \in 1 .. Len(met) : met[h] \in DOMAIN R.outputs
  <1> DEFINE n == Len(met)
  <1>1. met \in Seq(Exprs) /\ n \in Nat /\ \A i \in 1 .. n : met[i] \in Exprs /\ Group[met[i]] \in PlanGroups
    BY DEF InTurn, PlanGroups
  <1>2. PICK after \in [0 .. n -> PlanLayers] :
              /\ Registered(met, L) = after[n]
              /\ after[0] = L
              /\ \A i \in 1 .. n :
                    after[i] = Plan!LayerRegister(after[i - 1], Group[met[i]], Plan!Unit(met[i]))
    BY <1>1, RegisteredSteps
  <1> HIDE DEF n
  <1> DEFINE Good(k) == /\ Settled(evaluated, after[k]) /\ Whole(evaluated, after[k])
                        /\ DOMAIN L.outputs \subseteq DOMAIN after[k].outputs
                        /\ \A h \in 1 .. k : met[h] \in DOMAIN after[k].outputs
             T == {k \in Nat : k <= n => Good(k)}
  <1>3. Nat \subseteq T
    BY ONLY <1>2, <1>1, UnitIs, HasBefore, RegisterKeeps, NatInduction1 DEF InTurn, n, Fitting,
       IsSet
  <1>4. Good(n) /\ after[n] \in PlanLayers BY <1>1, <1>3
  <1> QED BY <1>2, <1>4 DEF n

\* A call of DoLayerEval for layer L, at this level; its units register in B,
\* which is the layer of a nested call unless the call is the innermost.
Under(ev, L, B, at, innermost) ==
    /\ Settled(ev, L)
    /\ \A k, u : Waits(B, k, u) => ~u.late
    /\ \A o : ~(PutOut(L, o) /\ PutOut(B, o))
    /\ at \in Nat \ {0} /\ at <= Len(L.seq) + 1
    /\ \A k, u : Waits(L, k, u) => at <= k
    /\ \A o \in DOMAIN L.outputs :
          /\ IsSet(ev, o) \/ PutOut(L, o) \/ PutOut(B, o)
          /\ L.outputs[o] + 1 < at => IsSet(ev, o) \/ (PutOut(B, o) /\ ~innermost)

\* The calls nest at most once; the layers they are about are the last but one
\* each, and what was asked for is put out by the first of these.
Asks(ev, L, want) == \A e \in want : IsSet(ev, e) \/ e \in DOMAIN L.outputs
Stages(ev, ls, c, want) ==
    LET l == Len(ls)
    IN  /\ Settled(ev, ls[l]) /\ Whole(ev, ls[l])
        /\ c = << >> => Asks(ev, ls[l], want)
        /\ Len(c) = 1 => /\ c[1].layer \in Nat \ {0} /\ l = c[1].layer + 1
                         /\ Under(ev, ls[c[1].layer], ls[l], c[1].level, TRUE)
                         /\ Asks(ev, ls[c[1].layer], want)
        /\ Len(c) = 2 => /\ c[1].layer \in Nat \ {0} /\ c[2].layer = c[1].layer + 1 /\ l = c[2].layer + 1
                         /\ Under(ev, ls[c[1].layer], ls[c[2].layer], c[1].level, FALSE)
                         /\ Under(ev, ls[c[2].layer], ls[l], c[2].level, TRUE)
                         /\ ls[l] = Plan!NoLayer
                         /\ Asks(ev, ls[c[1].layer], want)

PlanCalls == [layer : Nat, level : Nat, group : PlanGroups \cup {"none"}]
PlanInv == /\ Ordered
           /\ m_evalLayers \in Seq(PlanLayers) /\ m_evalLayers # << >>
           /\ evals \in Seq(PlanCalls) /\ Len(evals) <= 2
           /\ returned # "already evaluated"
           /\ Stages(evaluated, m_evalLayers, evals, registered)

LEMMA NoLayerIs ==
    /\ Plan!NoLayer \in PlanLayers /\ Plan!NoLayer.seq = << >> /\ DOMAIN Plan!NoLayer.outputs = {}
    /\ (\A k, u : ~Waits(Plan!NoLayer, k, u)) /\ (\A o : ~PutOut(Plan!NoLayer, o))
    /\ \A ev : Settled(ev, Plan!NoLayer) /\ Whole(ev, Plan!NoLayer)
  <1> DEFINE n == Plan!NoLayer
  <1>1. n.seq = << >> /\ n.outputs = << >> /\ DOMAIN n.seq = {} /\ DOMAIN n.outputs = {}
    BY DEF Plan!NoLayer
  <1>2. << >> \in [{} -> Nat] OBVIOUS
  <1>3. << >> \in Puts /\ << >> \in Seq(Clusters) BY <1>2, EmptySeq DEF Puts
  <1>4. n \in [seq : Seq(Clusters), outputs : Puts] BY <1>3 DEF Plan!NoLayer
  <1> HIDE DEF n
  <1>5. n \in PlanLayers BY <1>1, <1>4 DEF PlanLayers
  <1>6. (\A k, u : ~Waits(n, k, u)) /\ \A o : ~PutOut(n, o) BY <1>1 DEF Waits, PutOut
  <1>7. \A ev : Settled(ev, n) /\ Whole(ev, n) BY <1>1, <1>6 DEF Settled, Whole
  <1> QED BY <1>1, <1>5, <1>6, <1>7 DEF n

\* A layer stays sound when a unit of another is evaluated.
NowSet(ev, now, o) == /\ \A e \in Exprs : e # o => now[e] = ev[e]
                      /\ \A e : IsSet(ev, e) => IsSet(now, e)

LEMMA SoundStill ==
    ASSUME NEW ev, NEW L \in PlanLayers, Settled(ev, L), NEW o, ~PutOut(L, o),
           NEW now, NowSet(ev, now, o)
    PROVE  Settled(now, L)
  <1>1. ASSUME NEW k, NEW u, Waits(L, k, u)
        PROVE  Placed(now, L, k, u)
    <2>1. Placed(ev, L, k, u) /\ u.out # o BY <1>1 DEF Settled, PutOut
    <2>2. u.out \in Exprs BY <2>1, LayerIs DEF Placed
    <2> QED BY <2>1, <2>2 DEF Placed, NowSet
  <1> QED BY <1>1 DEF Settled

\* A unit u of the innermost call runs: the layer is n then, the one for its
\* own units C.
Dot(u) == [out |-> u.out, ops |-> <<u.ops[1]>>, late |-> FALSE]
Ran(ev, L, B, k, g, u, n, now, C) ==
    /\ Under(ev, L, B, k, TRUE) /\ Settled(ev, B) /\ Whole(ev, B)
    /\ Gives(L, k, g, u, n) /\ \A i \in DOMAIN u.ops : ev[u.ops[i]]
    /\ now = [ev EXCEPT ![u.out] = @ \/ (~u.late /\ Kind[u.out] # "Void")]
    /\ C = IF u.late THEN Plan!LayerRegister(B, "Dot", Dot(u)) ELSE B

\* What its run leaves.
Left(ev, L, k, u, n, now, C) ==
    /\ n \in PlanLayers
    /\ C \in PlanLayers /\ Settled(now, C) /\ Whole(now, C)
    /\ Under(now, n, C, k, TRUE)
    /\ now \in [Exprs -> BOOLEAN]
    /\ PutOut(L, u.out)
    /\ \A o : PutOut(n, o) => PutOut(L, o)
    /\ \A o : PutOut(L, o) => PutOut(n, o) \/ o = u.out
    /\ \A j, v : Waits(n, j, v) => Waits(L, j, v)
    /\ NowSet(ev, now, u.out)
    /\ ~u.late => IsSet(now, u.out)
    /\ Waits(L, k, u) /\ n.outputs = L.outputs

LEMMA UnitRuns ==
    ASSUME NEW ev, NEW L, NEW B, ev \in [Exprs -> BOOLEAN], L \in PlanLayers, B \in PlanLayers,
           NEW k, NEW g, NEW u, NEW n, NEW now, NEW C, Ran(ev, L, B, k, g, u, n, now, C)
    PROVE  Left(ev, L, k, u, n, now, C)
  <1> DEFINE dot == Dot(u)
  <1>0. /\ Under(ev, L, B, k, TRUE) /\ Settled(ev, B) /\ Whole(ev, B)
        /\ Gives(L, k, g, u, n) /\ \A i \in DOMAIN u.ops : ev[u.ops[i]]
        /\ now = [ev EXCEPT ![u.out] = @ \/ (~u.late /\ Kind[u.out] # "Void")]
        /\ C = IF u.late THEN Plan!LayerRegister(B, "Dot", dot) ELSE B
        /\ k \in DOMAIN L.seq
    BY DEF Ran, Gives
  <1>1. /\ n \in PlanLayers /\ n.outputs = L.outputs /\ Len(n.seq) = Len(L.seq)
        /\ u \in PlanUnits /\ Waits(L, k, u)
        /\ \A j, v : Waits(n, j, v) => Waits(L, j, v)
        /\ \A j, v : Waits(L, j, v) => Waits(n, j, v) \/ (j = k /\ v = u)
        /\ (\A j \in DOMAIN L.seq : Once(L.seq[j]))
             => /\ \A j \in DOMAIN n.seq : Once(n.seq[j])
                /\ \A v : Waits(n, k, v) => v.out # u.out
    BY <1>0, LayerGives
  <1>2. \A j, v : Waits(L, j, v) => Placed(ev, L, j, v) BY <1>0 DEF Under, Settled
  <1>3. Placed(ev, L, k, u) /\ k \in Nat BY <1>0, <1>1, <1>2, LayerIs
  <1>4. u.out \in Exprs /\ ~ev[u.out] /\ u.out \in DOMAIN L.outputs BY <1>3, LayerIs DEF Placed
  <1>5. /\ now \in [Exprs -> BOOLEAN]
        /\ NowSet(ev, now, u.out)
        /\ ~u.late => IsSet(now, u.out)
        /\ u.late => now = ev
    <2> DEFINE b == ~u.late /\ Kind[u.out] # "Void"
    <2>1. b \in BOOLEAN OBVIOUS
    <2>2. now = [ev EXCEPT ![u.out] = b] BY <1>0, <1>4, <2>1
    <2>3. u.late => ~b OBVIOUS
    <2>4. ~u.late => b \/ Kind[u.out] = "Void" OBVIOUS
    <2> HIDE DEF b
    <2>5. now \in [Exprs -> BOOLEAN] /\ now[u.out] = b /\ \A e \in Exprs : e # u.out => now[e] = ev[e]
      BY <1>4, <2>1, <2>2
    <2>6. \A e : e \notin Exprs => now[e] = ev[e] BY <1>4, <2>2
    <2>7. \A e : IsSet(ev, e) => IsSet(now, e) BY <1>4, <2>5, <2>6 DEF IsSet
    <2>8. ASSUME u.late
          PROVE  now = ev
      BY <1>4, <2>1, <2>3, <2>8, <2>2
    <2> QED BY <2>4, <2>5, <2>7, <2>8 DEF IsSet, NowSet
  <1>6. \A j, v : Waits(n, j, v) => v.out # u.out
    <2> SUFFICES ASSUME NEW j, NEW v, Waits(n, j, v), v.out = u.out
                 PROVE  FALSE
      OBVIOUS
    <2>1. Placed(ev, L, j, v) /\ j \in DOMAIN L.seq BY <1>1, <1>2 DEF Waits
    <2>2. L.outputs[v.out] + 1 = j /\ L.outputs[u.out] + 1 = k BY <1>3, <2>1 DEF Placed
    <2>3. j = k BY <2>2
    <2>4. \A i \in DOMAIN L.seq : Once(L.seq[i]) BY <1>0 DEF Under, Settled
    <2> QED BY <1>1, <2>3, <2>4
  <1>7. Settled(ev, n) BY <1>1, <1>2, <1>0 DEF Placed, Settled, Under
  <1>8. /\ \A o : PutOut(n, o) => PutOut(L, o) /\ o # u.out
        /\ \A o : PutOut(L, o) => PutOut(n, o) \/ o = u.out
        /\ PutOut(L, u.out)
    BY <1>1, <1>6 DEF PutOut
  <1>9. Settled(now, n) BY <1>1, <1>5, <1>7, <1>8, SoundStill
  <1>10. Settled(now, B) /\ Whole(now, B)
    <2>1. ~PutOut(B, u.out) BY <1>0, <1>8 DEF Under
    <2>2. Settled(now, B) BY <1>0, <1>5, <2>1, SoundStill
    <2> QED BY <1>0, <1>5, <2>2 DEF Whole, NowSet
  <1>11. u.late => Fitting(now, B, dot) /\ dot.out = u.out /\ dot.late = FALSE
    BY <1>1, <1>3, <1>0, <1>5, <1>4 DEF PlanUnits, Placed, IsSet, NowSet, Dot, Fitting
  <1> HIDE DEF dot
  <1>12. /\ C \in PlanLayers /\ Settled(now, C) /\ Whole(now, C)
         /\ \A o : PutOut(B, o) => PutOut(C, o)
         /\ \A o : PutOut(C, o) => PutOut(B, o) \/ o = u.out
         /\ \A j, v : Waits(C, j, v) => ~v.late
         /\ u.late => u.out \in DOMAIN C.outputs
    <2>1. \A j, v : Waits(B, j, v) => ~v.late BY <1>0 DEF Under
    <2>2. CASE u.late
      <3> DEFINE R == Plan!LayerRegister(B, "Dot", dot)
      <3>1. C = R /\ "Dot" \in PlanGroups BY <1>0, <2>2 DEF PlanGroups
      <3>2. /\ R \in PlanLayers /\ Settled(now, R) /\ (Whole(now, B) => Whole(now, R))
            /\ DOMAIN R.outputs = DOMAIN B.outputs \cup {dot.out}
            /\ \A o : PutOut(B, o) => PutOut(R, o)
            /\ \A o : PutOut(R, o) => PutOut(B, o) \/ o = dot.out
            /\ \A j, v : Waits(R, j, v) => Waits(B, j, v) \/ v = dot
        BY <1>10, <1>11, <2>2, <3>1, RegisterKeeps
      <3> HIDE DEF R
      <3> QED BY <1>10, <1>11, <2>1, <2>2, <3>1, <3>2
    <2>3. CASE ~u.late BY <1>0, <2>3, <1>10, <2>1
    <2> QED BY <2>2, <2>3
  <1>13. Under(now, n, C, k, TRUE)
    <2>1. \A o : ~(PutOut(n, o) /\ PutOut(C, o)) BY <1>0, <1>8, <1>12 DEF Under
    <2>2. k \in Nat \ {0} /\ k <= Len(n.seq) + 1 /\ \A j, v : Waits(n, j, v) => k <= j
      BY <1>0, <1>1 DEF Under
    <2>3. ASSUME NEW o \in DOMAIN n.outputs
          PROVE  /\ IsSet(now, o) \/ PutOut(n, o) \/ PutOut(C, o)
                 /\ n.outputs[o] + 1 < k => IsSet(now, o)
      <3>1. /\ IsSet(ev, o) \/ PutOut(L, o) \/ PutOut(B, o)
            /\ L.outputs[o] + 1 < k => IsSet(ev, o)
        BY <1>0, <1>1, <2>3 DEF Under
      <3>2. IsSet(now, u.out) \/ PutOut(C, u.out) BY <1>5, <1>12 DEF Whole
      <3> QED BY <1>1, <1>5, <1>8, <1>12, <3>1, <3>2 DEF NowSet
    <2> QED BY <1>9, <1>12, <2>1, <2>2, <2>3 DEF Under
  <1> QED BY <1>1, <1>4, <1>5, <1>8, <1>12, <1>13 DEF Left

\* What an outer call finds when a unit of the nested one has run.
LEMMA OuterStill ==
    ASSUME NEW ev, NEW now, NEW L \in PlanLayers, NEW B, NEW n, NEW at, NEW o,
           Under(ev, L, B, at, FALSE), PutOut(B, o), IsSet(now, o), NowSet(ev, now, o),
           \A e : PutOut(n, e) => PutOut(B, e), \A e : PutOut(B, e) => PutOut(n, e) \/ e = o,
           \A j, v : Waits(n, j, v) => Waits(B, j, v)
    PROVE  Under(now, L, n, at, FALSE)
  <1>1. ~PutOut(L, o) BY DEF Under
  <1>2. Settled(now, L) BY <1>1, SoundStill DEF Under
  <1>3. ASSUME NEW e \in DOMAIN L.outputs
        PROVE  /\ IsSet(now, e) \/ PutOut(L, e) \/ PutOut(n, e)
               /\ L.outputs[e] + 1 < at => IsSet(now, e) \/ PutOut(n, e)
    BY <1>3 DEF Under, NowSet
  <1> QED BY <1>2, <1>3 DEF Under

\* No call, one, and one in another.
LEMMA NoCall ==
    ASSUME NEW ev, NEW ls, NEW want, NEW l, l = Len(ls)
    PROVE  Stages(ev, ls, << >>, want) <=> Settled(ev, ls[l]) /\ Whole(ev, ls[l]) /\ Asks(ev, ls[l], want)
  BY DEF Stages

LEMMA OneCall ==
    ASSUME NEW ev, NEW ls, NEW c, Len(c) = 1, NEW want, NEW l, l = Len(ls)
    PROVE  Stages(ev, ls, c, want) <=>
              /\ Settled(ev, ls[l]) /\ Whole(ev, ls[l])
              /\ c[1].layer \in Nat \ {0} /\ l = c[1].layer + 1
              /\ Under(ev, ls[c[1].layer], ls[l], c[1].level, TRUE)
              /\ Asks(ev, ls[c[1].layer], want)
  <1>1. c # << >> /\ Len(c) # 2 OBVIOUS
  <1> QED BY <1>1 DEF Stages

LEMMA TwoCalls ==
    ASSUME NEW ev, NEW ls, NEW c, Len(c) = 2, NEW want, NEW l, l = Len(ls)
    PROVE  Stages(ev, ls, c, want) <=>
              /\ Settled(ev, ls[l]) /\ Whole(ev, ls[l])
              /\ c[1].layer \in Nat \ {0} /\ c[2].layer = c[1].layer + 1 /\ l = c[2].layer + 1
              /\ Under(ev, ls[c[1].layer], ls[c[2].layer], c[1].level, FALSE)
              /\ Under(ev, ls[c[2].layer], ls[l], c[2].level, TRUE)
              /\ ls[l] = Plan!NoLayer
              /\ Asks(ev, ls[c[1].layer], want)
  <1>1. c # << >> /\ Len(c) # 1 OBVIOUS
  <1> QED BY <1>1 DEF Stages

LEMMA TwoCallsAt ==
    ASSUME NEW ev, NEW ls, NEW c, Len(c) = 2, NEW want, Stages(ev, ls, c, want)
    PROVE  Len(ls) = c[2].layer + 1
  BY DEF Stages

LEMMA UpToTwo == ASSUME NEW n \in Nat, n <= 2 PROVE n \in {0, 1, 2}
  OBVIOUS

LEMMA PlanNow ==
    ASSUME PlanInv
    PROVE  /\ Len(m_evalLayers) \in Nat \ {0} /\ \A i \in 1 .. Len(m_evalLayers) : m_evalLayers[i] \in PlanLayers
           /\ m_evalLayers[Len(m_evalLayers)] \in PlanLayers
           /\ Len(evals) \in {0, 1, 2} /\ (Len(evals) = 0 <=> evals = << >>)
           /\ \A i \in 1 .. Len(evals) : evals[i] \in PlanCalls
           /\ evaluated \in [Exprs -> BOOLEAN]
  <1>1. m_evalLayers \in Seq(PlanLayers) /\ m_evalLayers # << >> BY Zenon DEF PlanInv
  <1>2. evals \in Seq(PlanCalls) /\ Len(evals) <= 2 BY Zenon DEF PlanInv
  <1>3. evaluated \in [Exprs -> BOOLEAN] BY Zenon DEF PlanInv, Ordered
  <1>4. Len(m_evalLayers) \in Nat \ {0} /\ \A i \in 1 .. Len(m_evalLayers) : m_evalLayers[i] \in PlanLayers
    BY ONLY <1>1
  <1>5. Len(evals) \in {0, 1, 2} /\ (Len(evals) = 0 <=> evals = << >>)
    BY ONLY <1>2, EmptySeq, UpToTwo
  <1>6. \A i \in 1 .. Len(evals) : evals[i] \in PlanCalls BY ONLY <1>2
  <1>7. m_evalLayers[Len(m_evalLayers)] \in PlanLayers BY <1>4
  <1> QED BY <1>3, <1>4, <1>5, <1>6, <1>7

\* The innermost call.
LEMMA CallNow ==
    ASSUME PlanInv, evals # << >>
    PROVE  LET p == Plan!Call.layer
           IN  /\ Len(evals) \in {1, 2} /\ Plan!Call \in PlanCalls /\ Plan!Call = evals[Len(evals)]
               /\ p \in Nat \ {0} /\ Len(m_evalLayers) = p + 1
               /\ m_evalLayers[p] \in PlanLayers /\ m_evalLayers[p + 1] \in PlanLayers
               /\ Under(evaluated, m_evalLayers[p], m_evalLayers[p + 1], Plan!Call.level, TRUE)
               /\ Settled(evaluated, m_evalLayers[p + 1]) /\ Whole(evaluated, m_evalLayers[p + 1])
  <1> DEFINE p == Plan!Call.layer
  <1>1. Len(evals) \in {1, 2} /\ Plan!Call = evals[Len(evals)] BY PlanNow DEF Plan!Call
  <1>2. Plan!Call \in PlanCalls /\ p \in Nat BY <1>1, PlanNow DEF PlanCalls
  <1> PICK l : l = Len(m_evalLayers) OBVIOUS
  <1>3. Stages(evaluated, m_evalLayers, evals, registered) BY DEF PlanInv
  <1>4. /\ p # 0 /\ l = p + 1
        /\ Under(evaluated, m_evalLayers[p], m_evalLayers[l], Plan!Call.level, TRUE)
        /\ Settled(evaluated, m_evalLayers[l]) /\ Whole(evaluated, m_evalLayers[l])
    <2>1. CASE Len(evals) = 1
      <3>1. Plan!Call = evals[1] /\ l = Len(m_evalLayers) BY <1>1, <2>1
      <3>2. /\ Settled(evaluated, m_evalLayers[l]) /\ Whole(evaluated, m_evalLayers[l])
            /\ evals[1].layer \in Nat \ {0} /\ l = evals[1].layer + 1
            /\ Under(evaluated, m_evalLayers[evals[1].layer], m_evalLayers[l], evals[1].level, TRUE)
        BY ONLY <1>3, <2>1, <3>1, OneCall
      <3> QED BY <3>1, <3>2
    <2>2. CASE Len(evals) = 2
      <3>1. Plan!Call = evals[2] /\ l = Len(m_evalLayers) BY <1>1, <2>2
      <3>5. /\ Settled(evaluated, m_evalLayers[l]) /\ Whole(evaluated, m_evalLayers[l])
            /\ Under(evaluated, m_evalLayers[evals[2].layer], m_evalLayers[l], evals[2].level, TRUE)
        BY ONLY <1>3, <2>2, <3>1, TwoCalls
      <3>6. evals[1].layer \in Nat \ {0} BY ONLY <1>3, <2>2, <3>1, TwoCalls
      <3>8. evals[2].layer = evals[1].layer + 1 BY ONLY <1>3, <2>2, <3>1, TwoCalls
      <3>7. l = evals[2].layer + 1 BY ONLY <1>3, <2>2, <3>1, TwoCallsAt
      <3>2. /\ Settled(evaluated, m_evalLayers[l]) /\ Whole(evaluated, m_evalLayers[l])
            /\ evals[1].layer \in Nat \ {0} /\ evals[2].layer = evals[1].layer + 1 /\ l = evals[2].layer + 1
            /\ Under(evaluated, m_evalLayers[evals[2].layer], m_evalLayers[l], evals[2].level, TRUE)
        BY <3>5, <3>6, <3>7, <3>8
      <3>4. p # 0 BY <3>1, <3>2
      <3> QED BY <3>1, <3>2, <3>4
    <2> QED BY <1>1, <2>1, <2>2
  <1>5. m_evalLayers[p] \in PlanLayers /\ m_evalLayers[p + 1] \in PlanLayers BY <1>2, <1>4, PlanNow
  <1> QED BY <1>1, <1>2, <1>4, <1>5

LEMMA PlanBegins == ASSUME Plan!PlanAssumption, Plan!Init PROVE PlanInv
  <1>1. elems \in [Exprs -> Seq(Exprs)] /\ \A e \in Exprs : elems[e] = Operands[e]
    BY ExprsNumbered DEF Plan!PlanAssumption, Plan!Init
  <1>2. evaluated \in [Exprs -> BOOLEAN] BY Zenon DEF Plan!Init
  <1>3. Ordered BY <1>1, <1>2 DEF Ordered, Plan!PlanAssumption
  <1>4. /\ m_evalLayers \in Seq(PlanLayers) /\ m_evalLayers # << >>
        /\ Len(m_evalLayers) = 1 /\ m_evalLayers[1] = Plan!NoLayer
    BY NoLayerIs DEF Plan!Init
  <1>5. evals \in Seq(PlanCalls) /\ evals = << >> /\ Len(evals) = 0 /\ registered = {} /\ returned = "no"
    BY EmptySeq DEF Plan!Init
  <1>6. Stages(evaluated, m_evalLayers, evals, registered)
    BY <1>4, <1>5, NoLayerIs DEF Stages, Asks
  <1> QED BY <1>3, <1>4, <1>5, <1>6 DEF PlanInv

LEMMA KeptByRegister ==
    ASSUME Plan!PlanAssumption, PlanInv, NEW e \in Asked, Plan!Register(e)
    PROVE  PlanInv'
  <1> DEFINE l == Len(m_evalLayers)
             B == m_evalLayers[l]
             R == Plan!EvalRegister(e, B)
  <1>1. /\ evals = << >> /\ ~evaluated[Plan!Behind[e]]
        /\ m_evalLayers' = [m_evalLayers EXCEPT ![l] = R]
        /\ registered' = registered \cup {Plan!Behind[e]}
        /\ UNCHANGED <<elems, evaluated, evals, returned>>
    BY DEF Plan!Register
  <1>2. l \in Nat \ {0} /\ B \in PlanLayers /\ e \in Exprs /\ Len(evals) = 0
    BY <1>1, PlanNow DEF Plan!PlanAssumption
  <1>3. Settled(evaluated, B) /\ Whole(evaluated, B) /\ Asks(evaluated, B, registered)
    BY <1>1, NoCall DEF PlanInv
  <1>4. PICK met : InTurn(met) /\ Has(met, Plan!Behind[e]) /\ R = Registered(met, B)
    BY <1>2, WalkInTurn DEF PlanInv
  <1> HIDE DEF R, B
  <1>5. /\ R \in PlanLayers /\ Settled(evaluated, R) /\ Whole(evaluated, R)
        /\ DOMAIN B.outputs \subseteq DOMAIN R.outputs
        /\ \A h \in 1 .. Len(met) : met[h] \in DOMAIN R.outputs
    BY <1>2, <1>3, <1>4, RegisteredKeeps DEF PlanInv
  <1>6. Asks(evaluated, R, registered') BY <1>1, <1>4, <1>5, <1>3 DEF Has, Asks
  <1>7. /\ m_evalLayers' \in Seq(PlanLayers) /\ Len(m_evalLayers') = l /\ m_evalLayers'[l] = R
        /\ m_evalLayers' # << >>
    <2>1. m_evalLayers \in Seq(PlanLayers) /\ l \in 1 .. Len(m_evalLayers)
      <3>1. m_evalLayers \in Seq(PlanLayers) BY DEF PlanInv
      <3>2. l = Len(m_evalLayers) /\ l \in 1 .. l BY <1>2
      <3> QED BY ONLY <3>1, <3>2
    <2>2. m_evalLayers' \in Seq(PlanLayers) /\ Len(m_evalLayers') = l /\ m_evalLayers'[l] = R
      BY <1>1, <1>5, <2>1, ExceptSeq
    <2> QED BY <1>2, <2>2, EmptySeq
  <1> HIDE DEF l
  <1>8. Stages(evaluated', m_evalLayers', evals', registered') BY <1>1, <1>5, <1>6, <1>7, NoCall
  <1> QED BY <1>1, <1>7, <1>8 DEF PlanInv, Ordered

LEMMA KeptByPushBack ==
    ASSUME Plan!PlanAssumption, PlanInv, NEW a \in Asked, NEW e \in Asked, Plan!PushBack(a, e)
    PROVE  PlanInv'
  <1>1. a \in Exprs /\ e \in Exprs /\ e < a BY DEF Plan!PlanAssumption, Plan!PushBack
  <1>2. elems' = [elems EXCEPT ![a] = Append(@, e)]
        /\ UNCHANGED <<evaluated, m_evalLayers, evals, returned, registered>>
    BY DEF Plan!PushBack
  <1>3. /\ elems \in [Exprs -> Seq(Exprs)]
        /\ \A x \in Exprs : \A i \in DOMAIN elems[x] : elems[x][i] < x
        /\ \A x \in Exprs : Kind[x] = "Late" => elems[x] # << >>
    BY DEF PlanInv, Ordered
  <1> PICK s \in Seq(Exprs) : s = elems[a] BY <1>1, <1>3
  <1>4. /\ Append(s, e) \in Seq(Exprs) /\ Append(s, e) # << >>
        /\ \A i \in DOMAIN Append(s, e) : Append(s, e)[i] < a
    <2>1. \A i \in DOMAIN s : s[i] < a BY <1>1, <1>3
    <2>2. /\ Append(s, e) \in Seq(Exprs) /\ Len(Append(s, e)) = Len(s) + 1
          /\ \A i \in 1 .. Len(s) : Append(s, e)[i] = s[i]
          /\ Append(s, e)[Len(s) + 1] = e
      BY <1>1, AppendProperties
    <2> PICK t : t = Append(s, e) OBVIOUS
    <2>3. Len(s) \in Nat /\ DOMAIN s = 1 .. Len(s) /\ DOMAIN t = 1 .. Len(s) + 1 BY <2>2
    <2>4. t # << >> BY ONLY <2>3
    <2>5. \A i \in DOMAIN t : t[i] < a
      <3> SUFFICES ASSUME NEW i \in DOMAIN t
                   PROVE  t[i] < a
        OBVIOUS
      <3>1. CASE i = Len(s) + 1 BY <1>1, <2>2, <3>1
      <3>2. CASE i # Len(s) + 1
        <4>1. i \in 1 .. Len(s)
          <5> PICK n \in Nat : n = Len(s) BY <2>3
          <5> QED BY ONLY <2>3, <3>2, n = Len(s), i \in DOMAIN t
        <4>2. t[i] = s[i] /\ s[i] < a BY <2>1, <2>2, <2>3, <4>1
        <4> QED BY <4>2
      <3> QED BY <3>1, <3>2
    <2> QED BY <2>2, <2>4, <2>5
  <1>5. /\ elems' \in [Exprs -> Seq(Exprs)] /\ elems'[a] = Append(s, e)
        /\ \A x \in Exprs : x # a => elems'[x] = elems[x]
    BY <1>1, <1>2, <1>3, <1>4
  <1>6. /\ \A x \in Exprs : \A i \in DOMAIN elems'[x] : elems'[x][i] < x
        /\ \A x \in Exprs : Kind[x] = "Late" => elems'[x] # << >>
    BY <1>3, <1>4, <1>5
  <1>7. Ordered' BY <1>2, <1>5, <1>6 DEF PlanInv, Ordered
  <1> QED BY <1>2, <1>7 DEF PlanInv

LEMMA AppendLayer ==
    ASSUME PlanInv, m_evalLayers' = Append(m_evalLayers, Plan!NoLayer)
    PROVE  LET l == Len(m_evalLayers)
           IN  /\ m_evalLayers' \in Seq(PlanLayers) /\ m_evalLayers' # << >> /\ Len(m_evalLayers') = l + 1
               /\ m_evalLayers'[l + 1] = Plan!NoLayer /\ \A i \in 1 .. l : m_evalLayers'[i] = m_evalLayers[i]
               /\ Settled(evaluated, m_evalLayers'[l + 1]) /\ Whole(evaluated, m_evalLayers'[l + 1])
  <1>1. m_evalLayers \in Seq(PlanLayers) BY DEF PlanInv
  <1>2. /\ m_evalLayers' \in Seq(PlanLayers) /\ Len(m_evalLayers') = Len(m_evalLayers) + 1
        /\ m_evalLayers'[Len(m_evalLayers) + 1] = Plan!NoLayer
        /\ \A i \in 1 .. Len(m_evalLayers) : m_evalLayers'[i] = m_evalLayers[i]
    BY <1>1, NoLayerIs, AppendProperties
  <1>3. m_evalLayers' # << >> BY <1>1, <1>2
  <1> QED BY <1>2, <1>3, NoLayerIs

\* A layer is entered.
LEMMA EnterLayer ==
    ASSUME NEW ev, NEW L \in PlanLayers, Settled(ev, L), Whole(ev, L)
    PROVE  Under(ev, L, Plan!NoLayer, 1, TRUE)
  <1>1. \A k, u : Waits(L, k, u) => 1 <= k BY LayerIs DEF Waits
  <1>2. \A o \in DOMAIN L.outputs : ~(L.outputs[o] + 1 < 1) BY LayerIs
  <1>3. 1 \in Nat \ {0} /\ 1 <= Len(L.seq) + 1 BY LayerIs
  <1> QED BY <1>1, <1>2, <1>3, NoLayerIs DEF Under, Whole

LEMMA KeptByEval ==
    ASSUME PlanInv, Plan!Eval
    PROVE  PlanInv'
  <1> DEFINE l == Len(m_evalLayers)
             B == m_evalLayers[l]
  <1>1. evals = << >> /\ UNCHANGED <<elems, evaluated>> BY DEF Plan!Eval
  <1>2. l \in Nat \ {0} /\ B \in PlanLayers BY PlanNow
  <1>3. Settled(evaluated, B) /\ Whole(evaluated, B) /\ Asks(evaluated, B, registered)
    BY <1>1, NoCall DEF PlanInv
  <1>4. CASE returned' = "ok" /\ registered' = {} /\ UNCHANGED <<m_evalLayers, evals>>
    <2>1. Stages(evaluated', m_evalLayers', evals', registered')
      BY <1>1, <1>3, <1>4, NoCall DEF Asks
    <2> QED BY <1>1, <1>4, <2>1 DEF PlanInv, Ordered
  <1>5. CASE /\ evals' = <<Plan!Enter(l)>>
             /\ m_evalLayers' = Append(m_evalLayers, Plan!NoLayer)
             /\ returned' = "no" /\ UNCHANGED registered
    <2>1. evals' \in Seq(PlanCalls) /\ Len(evals') = 1 /\ Len(evals') <= 2 /\ evals'[1].layer = l /\ evals'[1].level = 1
      BY <1>2, <1>5 DEF Plan!Enter, PlanCalls
    <2>2. /\ m_evalLayers' \in Seq(PlanLayers) /\ m_evalLayers' # << >> /\ Len(m_evalLayers') = l + 1
          /\ m_evalLayers'[l + 1] = Plan!NoLayer /\ m_evalLayers'[l] = B
          /\ Settled(evaluated, m_evalLayers'[l + 1]) /\ Whole(evaluated, m_evalLayers'[l + 1])
      BY <1>2, <1>5, AppendLayer
    <2>3. Under(evaluated, B, Plan!NoLayer, 1, TRUE) BY <1>2, <1>3, EnterLayer
    <2> HIDE DEF l, B
    <2>4. Stages(evaluated', m_evalLayers', evals', registered')
      BY <1>1, <1>5, <2>2, <2>1, <2>3, <1>3, <1>2, OneCall
    <2> QED BY <1>1, <1>5, <2>1, <2>2, <2>4 DEF PlanInv, Ordered
  <1> QED BY <1>4, <1>5 DEF Plan!Eval, Plan!Back

\* Layer p of ls is now n, and the one after it, the last, is C.
Taken(ls, p, n, C, t) == /\ t \in Seq(PlanLayers) /\ Len(t) = p + 1 /\ t[p] = n /\ t[p + 1] = C
                        /\ \A i \in 1 .. p - 1 : t[i] = ls[i]

LEMMA LayersTaken ==
    ASSUME NEW ls \in Seq(PlanLayers), NEW p \in Nat \ {0}, Len(ls) = p + 1,
           NEW n \in PlanLayers, NEW C \in PlanLayers, NEW t, t = [ls EXCEPT ![p] = n]
    PROVE  Taken(ls, p, n, ls[p + 1], t) /\ Taken(ls, p, n, C, [t EXCEPT ![Len(t)] = C])
  <1>1. p \in 1 .. p + 1 /\ p + 1 \in 1 .. p + 1 /\ p # p + 1 /\ \A i \in 1 .. p - 1 : i \in 1 .. p + 1 /\ i # p /\ i # p + 1
    OBVIOUS
  <1>2. p \in 1 .. Len(ls) BY <1>1
  <1>3. t \in Seq(PlanLayers) /\ Len(t) = Len(ls) /\ \A j \in 1 .. Len(ls) : t[j] = IF j = p THEN n ELSE ls[j]
    BY <1>2, ExceptSeq
  <1>4. t[p] = n /\ t[p + 1] = ls[p + 1] /\ \A i \in 1 .. p - 1 : t[i] = ls[i] BY <1>1, <1>3
  <1> DEFINE s == [t EXCEPT ![Len(t)] = C]
  <1>5. Len(t) \in 1 .. Len(t) BY <1>1, <1>3
  <1>6. s \in Seq(PlanLayers) /\ Len(s) = Len(t) /\ \A j \in 1 .. Len(t) : s[j] = IF j = Len(t) THEN C ELSE t[j]
    BY <1>3, <1>5, ExceptSeq
  <1>7. s[p] = n /\ s[p + 1] = C /\ \A i \in 1 .. p - 1 : s[i] = ls[i] BY <1>1, <1>3, <1>4, <1>6
  <1> QED BY <1>3, <1>4, <1>6, <1>7 DEF Taken

LEMMA PlacedAfter ==
    ASSUME NEW ev, NEW L \in PlanLayers, NEW k \in DOMAIN L.seq, NEW u, Placed(ev, L, k, u), NEW i \in DOMAIN u.ops
    PROVE  IsSet(ev, u.ops[i]) \/ (u.ops[i] \in DOMAIN L.outputs /\ L.outputs[u.ops[i]] + 1 < k)
  BY DEF Placed

\* A unit waits in the level that is evaluated.
LEMMA NextUnit ==
    ASSUME PlanInv, NEW g, Plan!IsNext(g)
    PROVE  LET p == Plan!Call.layer
               k == Plan!Call.level
               L == m_evalLayers[p]
               u == Head(Plan!Cluster[g])
           IN  /\ evals # << >>
               /\ Gives(L, k, g, u, [L EXCEPT !.seq[k][g] = Tail(@)])
               /\ u \in PlanUnits /\ Waits(L, k, u) /\ Placed(evaluated, L, k, u)
               /\ \A o \in Plan!Range(u.ops) : Plan!Ready(o)
  <1> DEFINE p == Plan!Call.layer
             k == Plan!Call.level
             L == m_evalLayers[p]
             u == Head(Plan!Cluster[g])
             n == [L EXCEPT !.seq[k][g] = Tail(@)]
  <1>1. /\ evals # << >> /\ k <= Len(L.seq) /\ Plan!Cluster = L.seq[k]
        /\ g \in DOMAIN L.seq[k] /\ L.seq[k][g] # << >> /\ u = Head(L.seq[k][g])
    BY DEF Plan!IsNext, Plan!InLevel, Plan!Cluster
  <1>2. /\ L \in PlanLayers /\ Under(evaluated, L, m_evalLayers[p + 1], k, TRUE) BY <1>1, CallNow
  <1> HIDE DEF L, p
  <1>3. k \in DOMAIN L.seq BY <1>2, LayerIs, <1>1 DEF Under
  <1> HIDE DEF k, u
  <1>4. Gives(L, k, g, u, n) BY <1>1, <1>3 DEF Gives
  <1> HIDE DEF n
  <1>5. u \in PlanUnits /\ Waits(L, k, u) BY <1>2, <1>4, LayerGives
  <1>6. Placed(evaluated, L, k, u) BY <1>2, <1>5 DEF Under, Settled
  <1>7. \A o \in Plan!Range(u.ops) : Plan!Ready(o)
    BY <1>2, <1>3, <1>6, PlacedAfter DEF Plan!Range, Under, IsSet, Plan!Ready
  <1> QED BY <1>1, <1>4, <1>5, <1>6, <1>7 DEF n, u, k, L, p

LEMMA PlanInOrder == ASSUME PlanInv PROVE Plan!EvaluatedInOrder
  <1>1. \A g \in {Group[e] : e \in Exprs} \cup {"Dot"} : Plan!IsNext(g) =>
           \A o \in Plan!Range(Head(Plan!Cluster[g]).ops) : Plan!Ready(o)
    BY NextUnit
  <1>2. returned # "already evaluated" BY DEF PlanInv
  <1> QED BY <1>1, <1>2 DEF Plan!EvaluatedInOrder

\* Nothing waits in the levels that are done.
LEMMA LevelIsDone ==
    ASSUME PlanInv, evals # << >>, Plan!InLevel, \A g \in DOMAIN Plan!Cluster : Plan!Cluster[g] = << >>
    PROVE  \A u : ~Waits(m_evalLayers[Plan!Call.layer], Plan!Call.level, u)
  BY DEF Waits, Among, Plan!Cluster

LEMMA LevelsAreDone ==
    ASSUME NEW ev, NEW L \in PlanLayers, NEW B, NEW k, NEW i, Under(ev, L, B, k, i), ~(k <= Len(L.seq))
    PROVE  /\ \A j, u : ~Waits(L, j, u)
           /\ \A o : ~PutOut(L, o)
           /\ \A o \in DOMAIN L.outputs : L.outputs[o] + 1 < k
  <1> PICK n \in Nat : n = Len(L.seq) BY LayerIs
  <1>1. k \in Nat /\ n < k BY DEF Under
  <1>2. ASSUME NEW j, NEW u, Waits(L, j, u)
        PROVE  FALSE
    <2>2. j \in DOMAIN L.seq BY <1>2 DEF Waits
    <2>3. k <= j BY <1>2 DEF Under
    <2>4. DOMAIN L.seq = 1 .. n BY LayerIs
    <2>1. j \in Nat /\ j <= n /\ k <= j BY <2>2, <2>3, <2>4
    <2> QED BY ONLY <1>1, <2>1
  <1>3. ASSUME NEW o \in DOMAIN L.outputs
        PROVE  L.outputs[o] + 1 < k
    BY LayerIs, <1>1
  <1> QED BY <1>2, <1>3 DEF PutOut

\* The calls outside the innermost one.
LEMMA OuterCall ==
    ASSUME PlanInv, Len(evals) = 2
    PROVE  LET p == Plan!Call.layer
               q == evals[1].layer
           IN  /\ q \in Nat \ {0} /\ p = q + 1 /\ q \in 1 .. p - 1
               /\ m_evalLayers[q] \in PlanLayers
               /\ Under(evaluated, m_evalLayers[q], m_evalLayers[p], evals[1].level, FALSE)
               /\ m_evalLayers[p + 1] = Plan!NoLayer
               /\ Asks(evaluated, m_evalLayers[q], registered)
  <1> DEFINE p == Plan!Call.layer
             q == evals[1].layer
  <1>1. Plan!Call = evals[2] /\ evals # << >> BY PlanNow DEF Plan!Call
  <1>2. Stages(evaluated, m_evalLayers, evals, registered) BY DEF PlanInv
  <1>3. p \in Nat \ {0} /\ Len(m_evalLayers) = p + 1 BY <1>1, CallNow
  <1>4. q \in Nat \ {0} /\ evals[2].layer = q + 1 BY ONLY <1>2, Len(evals) = 2, TwoCalls
  <1>5. m_evalLayers[Len(m_evalLayers)] = Plan!NoLayer /\ Asks(evaluated, m_evalLayers[q], registered)
    BY ONLY <1>2, Len(evals) = 2, TwoCalls
  <1>6. Under(evaluated, m_evalLayers[q], m_evalLayers[evals[2].layer], evals[1].level, FALSE)
    BY ONLY <1>2, Len(evals) = 2, TwoCalls
  <1>7. p = q + 1 BY <1>1, <1>4
  <1> HIDE DEF p, q
  <1>8. q \in 1 .. p - 1 /\ q \in 1 .. p + 1 BY ONLY <1>3, <1>4, <1>7
  <1>9. m_evalLayers[q] \in PlanLayers BY <1>3, <1>8, PlanNow
  <1> QED BY <1>1, <1>3, <1>4, <1>5, <1>6, <1>7, <1>8, <1>9 DEF p, q

LEMMA OnlyCall ==
    ASSUME PlanInv, Len(evals) = 1
    PROVE  /\ Plan!Call = evals[1]
           /\ Asks(evaluated, m_evalLayers[Plan!Call.layer], registered)
  <1>1. Plan!Call = evals[1] BY DEF Plan!Call
  <1>2. Asks(evaluated, m_evalLayers[evals[1].layer], registered) BY OneCall DEF PlanInv
  <1> QED BY <1>1, <1>2

\* The innermost call goes on, at this level.
GoesOn(c, k) == /\ c \in Seq(PlanCalls) /\ Len(c) = Len(evals) /\ c # << >>
                /\ c[Len(c)].layer = Plan!Call.layer /\ c[Len(c)].level = k
                /\ Len(c) = 2 => c[1] = evals[1]

LEMMA CallGoesOn ==
    ASSUME PlanInv, evals # << >>, NEW k \in Nat, NEW g \in PlanGroups \cup {"none"},
           NEW c, c = [evals EXCEPT ![Len(evals)].level = k, ![Len(evals)].group = g]
    PROVE  GoesOn(c, k)
  <1> DEFINE n == Len(evals)
             r == [evals[n] EXCEPT !.level = k, !.group = g]
  <1>1. evals \in Seq(PlanCalls) /\ n \in {1, 2} /\ evals[n] \in PlanCalls /\ Plan!Call = evals[n]
    BY CallNow DEF PlanInv
  <1>2. r \in PlanCalls /\ r.layer = evals[n].layer /\ r.level = k BY <1>1 DEF PlanCalls
  <1>3. c = [evals EXCEPT ![n] = r] OBVIOUS
  <1> HIDE DEF r
  <1>4. c \in Seq(PlanCalls) /\ Len(c) = n /\ \A j \in 1 .. n : c[j] = IF j = n THEN r ELSE evals[j]
    <2>1. n \in 1 .. Len(evals) BY <1>1
    <2>2. n = Len(evals) OBVIOUS
    <2> HIDE DEF n
    <2>3. evals \in Seq(PlanCalls) /\ r \in PlanCalls /\ c = [evals EXCEPT ![n] = r]
      BY <1>1, <1>2, <1>3
    <2>4. /\ c \in Seq(PlanCalls) /\ Len(c) = Len(evals)
          /\ \A j \in 1 .. Len(evals) : c[j] = IF j = n THEN r ELSE evals[j]
      BY ONLY <2>1, <2>3, ExceptSeq
    <2> QED BY <2>2, <2>4
  <1>5. c[n] = r /\ (n = 2 => c[1] = evals[1]) BY <1>1, <1>4
  <1>6. c # << >> BY <1>1, <1>4
  <1> QED BY <1>1, <1>2, <1>4, <1>5, <1>6 DEF GoesOn

LEMMA AsksStill ==
    ASSUME NEW ev, NEW now, NEW L, NEW n, NEW want, NEW o,
           Asks(ev, L, want), NowSet(ev, now, o), n.outputs = L.outputs
    PROVE  Asks(now, n, want)
  BY DEF Asks, NowSet

\* A throw leaves what is registered.
LEMMA KeptByThrow ==
    ASSUME PlanInv, evals # << >>, NEW n \in PlanLayers,
           m_evalLayers' = [m_evalLayers EXCEPT ![Plan!Call.layer] = n],
           UNCHANGED <<elems, evaluated>>,
           evals' = << >>, registered' = {}, returned' # "already evaluated"
    PROVE  PlanInv'
  <1> DEFINE p == Plan!Call.layer
             B == m_evalLayers[p + 1]
  <1>1. /\ p \in Nat \ {0} /\ Len(m_evalLayers) = p + 1 /\ B \in PlanLayers
        /\ Settled(evaluated, B) /\ Whole(evaluated, B) /\ m_evalLayers \in Seq(PlanLayers)
    BY CallNow DEF PlanInv
  <1> HIDE DEF p
  <1>2. m_evalLayers' \in Seq(PlanLayers) /\ Len(m_evalLayers') = p + 1 /\ m_evalLayers'[p + 1] = B
    <2>1. m_evalLayers' = [m_evalLayers EXCEPT ![p] = n] BY DEF p
    <2> HIDE DEF B
    <2>2. m_evalLayers'[p + 1] = m_evalLayers[p + 1] /\ m_evalLayers' \in Seq(PlanLayers) /\ Len(m_evalLayers') = p + 1
      BY ONLY <1>1, <2>1, n \in PlanLayers, LayersTaken DEF Taken
    <2> QED BY <2>2 DEF B
  <1>3. m_evalLayers' # << >> BY ONLY <1>1, <1>2
  <1>4. evals' \in Seq(PlanCalls) /\ Len(evals') <= 2
    <2>1. evals' \in Seq(PlanCalls) /\ Len(evals') = 0 BY EmptySeq
    <2>2. Len(evals') <= 2 BY ONLY <2>1
    <2> QED BY <2>1, <2>2
  <1>5. Asks(evaluated, B, {}) BY DEF Asks
  <1> HIDE DEF B
  <1>6. Stages(evaluated, m_evalLayers', << >>, {}) BY <1>1, <1>2, <1>5, NoCall
  <1>7. Stages(evaluated', m_evalLayers', evals', registered') BY <1>6
  <1> QED BY <1>2, <1>3, <1>4, <1>7 DEF PlanInv, Ordered

\* A unit is evaluated, or registers another.
LEMMA KeptByRun ==
    ASSUME PlanInv, evals # << >>, NEW g \in PlanGroups, NEW u, NEW n, NEW C,
           LET p == Plan!Call.layer
               B == m_evalLayers[p + 1]
           IN  /\ Ran(evaluated, m_evalLayers[p], B, Plan!Call.level, g, u, n, evaluated', C)
               /\ m_evalLayers' = IF u.late THEN [[m_evalLayers EXCEPT ![p] = n] EXCEPT ![Len([m_evalLayers EXCEPT ![p] = n])] = C]
                                            ELSE [m_evalLayers EXCEPT ![p] = n],
           UNCHANGED <<elems, returned, registered>>,
           evals' = [evals EXCEPT ![Len(evals)].group = g]
    PROVE  PlanInv'
  <1> DEFINE p == Plan!Call.layer
             k == Plan!Call.level
             L == m_evalLayers[p]
             B == m_evalLayers[p + 1]
             t == [m_evalLayers EXCEPT ![p] = n]
  <1>1. /\ Ran(evaluated, L, B, k, g, u, n, evaluated', C)
        /\ m_evalLayers' = IF u.late THEN [t EXCEPT ![Len(t)] = C] ELSE t
    OBVIOUS
  <1>2. /\ p \in Nat \ {0} /\ Len(m_evalLayers) = p + 1 /\ L \in PlanLayers /\ B \in PlanLayers
        /\ m_evalLayers \in Seq(PlanLayers) /\ evaluated \in [Exprs -> BOOLEAN] /\ Len(evals) \in {1, 2}
        /\ k \in Nat
    <2>1. Plan!Call \in PlanCalls BY CallNow
    <2> QED BY <2>1, CallNow, PlanNow DEF PlanInv, PlanCalls
  <1>3. ~u.late => C = B BY <1>1 DEF Ran
  <1> HIDE DEF L, B, t
  <1>4. /\ n \in PlanLayers
        /\ C \in PlanLayers /\ Settled(evaluated', C) /\ Whole(evaluated', C)
        /\ Under(evaluated', n, C, k, TRUE)
        /\ evaluated' \in [Exprs -> BOOLEAN]
        /\ PutOut(L, u.out)
        /\ \A o : PutOut(n, o) => PutOut(L, o)
        /\ \A o : PutOut(L, o) => PutOut(n, o) \/ o = u.out
        /\ \A j, v : Waits(n, j, v) => Waits(L, j, v)
        /\ NowSet(evaluated, evaluated', u.out)
        /\ ~u.late => IsSet(evaluated', u.out)
        /\ Waits(L, k, u) /\ n.outputs = L.outputs
    BY <1>1, <1>2, UnitRuns DEF Left
  <1>5. /\ m_evalLayers' \in Seq(PlanLayers) /\ Len(m_evalLayers') = p + 1
        /\ m_evalLayers'[p] = n /\ m_evalLayers'[p + 1] = C
        /\ \A i \in 1 .. p - 1 : m_evalLayers'[i] = m_evalLayers[i]
    BY ONLY <1>2, <1>4, LayersTaken, <1>1, <1>3 DEF t, Taken, B
  <1>6. m_evalLayers' # << >> BY ONLY <1>2, <1>5
  <1>7. /\ evals' \in Seq(PlanCalls) /\ Len(evals') = Len(evals)
        /\ evals'[Len(evals)].layer = p /\ evals'[Len(evals)].level = k
        /\ Len(evals) = 2 => evals'[1] = evals[1]
    <2> PICK c : c = evals' OBVIOUS
    <2>1. k = evals[Len(evals)].level BY CallNow
    <2>2. c = [evals EXCEPT ![Len(evals)].level = k, ![Len(evals)].group = g]
      <3>1. evals \in Seq(PlanCalls) /\ Len(evals) \in 1 .. Len(evals) /\ evals[Len(evals)] \in PlanCalls
        <4>1. Len(evals) \in 1 .. Len(evals) BY <1>2
        <4> QED BY <4>1, PlanNow DEF PlanInv
      <3> DEFINE r == evals[Len(evals)]
      <3>2. [r EXCEPT !.group = g] = [r EXCEPT !.level = k, !.group = g]
        BY <2>1, <3>1 DEF PlanCalls
      <3>3. [evals EXCEPT ![Len(evals)].group = g] = [evals EXCEPT ![Len(evals)] = [r EXCEPT !.group = g]]
        OBVIOUS
      <3>4. [evals EXCEPT ![Len(evals)].level = k, ![Len(evals)].group = g]
               = [evals EXCEPT ![Len(evals)] = [r EXCEPT !.level = k, !.group = g]]
        OBVIOUS
      <3> QED BY <3>2, <3>3, <3>4
    <2> HIDE DEF k, p
    <2>3. GoesOn(c, k) BY ONLY <1>2, PlanInv, evals # << >>, <2>2, CallGoesOn
    <2> QED BY <2>3 DEF p, GoesOn
  <1>8. Stages(evaluated', m_evalLayers', evals', registered')
    <2>1. CASE Len(evals) = 1
      <3>1. Asks(evaluated, L, registered) BY <2>1, OnlyCall DEF L
      <3>2. Asks(evaluated', n, registered') BY <1>4, <3>1, AsksStill
      <3> PICK c, ls, now, want : c = evals' /\ ls = m_evalLayers' /\ now = evaluated' /\ want = registered'
        OBVIOUS
      <3>3. Len(c) = 1 /\ c[1].layer = p /\ c[1].level = k /\ Len(ls) = p + 1 /\ ls[p] = n /\ ls[p + 1] = C
        BY <1>5, <1>7, <2>1
      <3>4. Under(now, n, C, k, TRUE) /\ Settled(now, C) /\ Whole(now, C) /\ Asks(now, n, want)
        BY <1>4, <3>2
      <3> HIDE DEF p, k
      <3>5. Stages(now, ls, c, want) BY ONLY <1>2, <3>3, <3>4, OneCall
      <3> QED BY <3>5
    <2>2. CASE Len(evals) = 2
      <3> PICK q : q = evals[1].layer OBVIOUS
      <3>1. /\ q \in Nat \ {0} /\ p = q + 1 /\ q \in 1 .. p - 1
            /\ Under(evaluated, m_evalLayers[q], L, evals[1].level, FALSE)
            /\ B = Plan!NoLayer
            /\ Asks(evaluated, m_evalLayers[q], registered)
            /\ m_evalLayers[q] \in PlanLayers
        BY <2>2, OuterCall DEF L, B
      <3>2. ~u.late /\ C = Plan!NoLayer BY <1>3, <1>4, <3>1 DEF Under
      <3> PICK c, ls, now, want : c = evals' /\ ls = m_evalLayers' /\ now = evaluated' /\ want = registered'
        OBVIOUS
      <3>3. Under(now, m_evalLayers[q], n, evals[1].level, FALSE) BY <1>4, <3>1, <3>2, OuterStill
      <3>4. Asks(now, m_evalLayers[q], want) BY <1>4, <3>1, AsksStill
      <3>5. /\ Len(c) = 2 /\ c[1].layer = q /\ c[1].level = evals[1].level /\ c[2].layer = p /\ c[2].level = k
            /\ Len(ls) = p + 1 /\ ls[q] = m_evalLayers[q] /\ ls[p] = n /\ ls[p + 1] = C
        BY <1>5, <1>7, <2>2, <3>1
      <3>6. /\ Under(now, ls[q], ls[p], c[1].level, FALSE) /\ Asks(now, ls[q], want)
            /\ Under(now, ls[p], ls[p + 1], c[2].level, TRUE) /\ Settled(now, ls[p + 1]) /\ Whole(now, ls[p + 1])
            /\ ls[p + 1] = Plan!NoLayer
        BY <1>4, <3>2, <3>3, <3>4, <3>5
      <3> HIDE DEF p, k
      <3>7. Stages(now, ls, c, want) BY ONLY <1>2, <3>1, <3>5, <3>6, TwoCalls
      <3> QED BY <3>7
    <2> QED BY <1>2, <2>1, <2>2
  <1>9. evals' \in Seq(PlanCalls) /\ Len(evals') <= 2
    <2>1. Len(evals') = Len(evals) /\ Len(evals) <= 2 BY <1>7 DEF PlanInv
    <2> QED BY <1>7, <2>1
  <1>10. Ordered' /\ returned' # "already evaluated" BY <1>4 DEF PlanInv, Ordered
  <1> QED BY <1>5, <1>6, <1>8, <1>9, <1>10, Zenon DEF PlanInv

LEMMA KeptByRunUnit ==
    ASSUME PlanInv, NEW g \in PlanGroups, Plan!RunUnit(g)
    PROVE  PlanInv'
  <1> DEFINE p == Plan!Call.layer
             k == Plan!Call.level
             L == m_evalLayers[p]
             B == m_evalLayers[p + 1]
             u == Head(Plan!Cluster[g])
             n == [L EXCEPT !.seq[k][g] = Tail(@)]
             t == [m_evalLayers EXCEPT ![p] = n]
             C == IF u.late THEN Plan!LayerRegister(B, "Dot", Dot(u)) ELSE B
             late == \E i \in DOMAIN u.ops : ~evaluated[u.ops[i]]
             again == Kind[u.out] # "Void" /\ ~u.late /\ evaluated[u.out]
  <1>1. /\ evals # << >> /\ Gives(L, k, g, u, n) /\ u \in PlanUnits /\ Waits(L, k, u) /\ Placed(evaluated, L, k, u)
    BY NextUnit DEF Plan!RunUnit
  <1>2. /\ p \in Nat \ {0} /\ Len(m_evalLayers) = p + 1 /\ L \in PlanLayers /\ B \in PlanLayers
        /\ Under(evaluated, L, B, k, TRUE) /\ Settled(evaluated, B) /\ Whole(evaluated, B)
    BY <1>1, CallNow
  <1>3. n \in PlanLayers
    <2> HIDE DEF L, k, u, n
    <2> QED BY ONLY <1>1, <1>2, LayerGives
  <1>4. t = [m_evalLayers EXCEPT ![Plan!Call.layer].seq[Plan!Call.level][g] = Tail(@)] OBVIOUS
  <1>5. /\ UNCHANGED elems
        /\ \/ UNCHANGED evaluated /\ evals' = << >> /\ registered' = {} /\ m_evalLayers' = t
              /\ returned' \in {"not evaluated", "already evaluated"} /\ (returned' = "already evaluated" => again)
           \/ /\ ~late
              /\ m_evalLayers' = IF u.late THEN [t EXCEPT ![Len(t)] = Plan!LayerRegister(t[Len(t)], "Dot", Dot(u))] ELSE t
              /\ evaluated' = [evaluated EXCEPT ![u.out] = @ \/ (~u.late /\ Kind[u.out] # "Void")]
              /\ evals' = [evals EXCEPT ![Len(evals)].group = g]
              /\ UNCHANGED <<returned, registered>>
    BY <1>4 DEF Plan!RunUnit, Plan!Throw, Dot
  <1>6. ~again BY <1>1 DEF Placed
  <1>7. t[Len(t)] = B
    <2>1. Taken(m_evalLayers, p, n, m_evalLayers[p + 1], t)
      <3> PICK r, q : r = n /\ q = p OBVIOUS
      <3>1. m_evalLayers \in Seq(PlanLayers) /\ r \in PlanLayers /\ q \in Nat \ {0} /\ Len(m_evalLayers) = q + 1
            /\ t = [m_evalLayers EXCEPT ![q] = r]
        BY <1>2, <1>3 DEF PlanInv
      <3> HIDE DEF t, p, n
      <3>2. Taken(m_evalLayers, q, r, m_evalLayers[q + 1], t) BY ONLY <3>1, LayersTaken
      <3> QED BY <3>2
    <2> HIDE DEF t, n, p
    <2> QED BY <2>1 DEF Taken
  <1> HIDE DEF late, again
  <1>8. CASE /\ UNCHANGED evaluated /\ evals' = << >> /\ registered' = {} /\ m_evalLayers' = t
             /\ returned' \in {"not evaluated", "already evaluated"} /\ (returned' = "already evaluated" => again)
    <2>1. m_evalLayers' = [m_evalLayers EXCEPT ![Plan!Call.layer] = n] /\ returned' # "already evaluated"
      BY <1>6, <1>8
    <2> HIDE DEF n, p, t
    <2> QED BY <1>1, <1>3, <1>5, <1>8, <2>1, KeptByThrow
  <1>9. CASE /\ ~late
             /\ m_evalLayers' = IF u.late THEN [t EXCEPT ![Len(t)] = Plan!LayerRegister(t[Len(t)], "Dot", Dot(u))] ELSE t
             /\ evaluated' = [evaluated EXCEPT ![u.out] = @ \/ (~u.late /\ Kind[u.out] # "Void")]
             /\ evals' = [evals EXCEPT ![Len(evals)].group = g]
             /\ UNCHANGED <<returned, registered>>
    <2> HIDE DEF u, n, C
    <2>1. \A i \in DOMAIN u.ops : evaluated[u.ops[i]] BY <1>9 DEF late
    <2>2. Ran(evaluated, L, B, k, g, u, n, evaluated', C) BY <1>1, <1>2, <1>9, <2>1 DEF Ran, C
    <2>3. m_evalLayers' = IF u.late THEN [t EXCEPT ![Len(t)] = C] ELSE t BY <1>7, <1>9 DEF C
    <2>4. UNCHANGED <<elems, returned, registered>> /\ evals' = [evals EXCEPT ![Len(evals)].group = g]
      BY <1>5, <1>9
    <2> QED BY <1>1, <2>2, <2>3, <2>4, KeptByRun
  <1> QED BY <1>5, <1>8, <1>9

\* The next level: what the one that is done put out is set, or is registered
\* in B by one of its units.
LEMMA LevelUp ==
    ASSUME NEW ev, NEW L \in PlanLayers, NEW B, NEW k, Under(ev, L, B, k, TRUE), k <= Len(L.seq),
           \A u : ~Waits(L, k, u)
    PROVE  Under(ev, L, B, k + 1, FALSE) /\ ((\A o : ~PutOut(B, o)) => Under(ev, L, B, k + 1, TRUE))
  <1>1. k \in Nat \ {0} /\ Len(L.seq) \in Nat /\ DOMAIN L.seq = 1 .. Len(L.seq)
    BY LayerIs DEF Under
  <1>2. k + 1 \in Nat \ {0} /\ k + 1 <= Len(L.seq) + 1 BY <1>1
  <1>3. ASSUME NEW j, NEW u, Waits(L, j, u)
        PROVE  k + 1 <= j
    <2>1. j \in 1 .. Len(L.seq) /\ k <= j /\ j # k BY <1>1, <1>3 DEF Under, Waits
    <2> QED BY ONLY <1>1, <2>1
  <1>4. ASSUME NEW o \in DOMAIN L.outputs, L.outputs[o] + 1 < k + 1
        PROVE  IsSet(ev, o) \/ PutOut(B, o)
    BY LayerIs, <1>3, <1>1, <1>4 DEF Under, PutOut, Settled, Placed
  <1> DEFINE l == k + 1
  <1>5. l \in Nat \ {0} /\ l <= Len(L.seq) + 1 /\ \A j, u : Waits(L, j, u) => l <= j BY <1>2, <1>3
  <1>6. \A o \in DOMAIN L.outputs : L.outputs[o] + 1 < l => IsSet(ev, o) \/ PutOut(B, o) BY <1>4
  <1> HIDE DEF l
  <1>7. /\ Settled(ev, L) /\ (\A j, u : Waits(B, j, u) => ~u.late) /\ \A o : ~(PutOut(L, o) /\ PutOut(B, o))
        /\ \A o \in DOMAIN L.outputs : IsSet(ev, o) \/ PutOut(L, o) \/ PutOut(B, o)
    BY DEF Under
  <1>8. Under(ev, L, B, l, FALSE) BY <1>5, <1>6, <1>7 DEF Under
  <1>9. ASSUME \A o : ~PutOut(B, o)
        PROVE  Under(ev, L, B, l, TRUE)
    BY <1>5, <1>6, <1>7, <1>9 DEF Under
  <1> QED BY <1>8, <1>9 DEF l

LEMMA OneAndOne ==
    ASSUME NEW S, NEW c \in Seq(S), Len(c) = 1, NEW e \in S
    PROVE  /\ Append(c, e) \in Seq(S) /\ Len(Append(c, e)) = 2
           /\ Append(c, e)[1] = c[1] /\ Append(c, e)[2] = e
  <1>1. Append(c, e) \in Seq(S) /\ Len(Append(c, e)) = Len(c) + 1 BY AppendProperties
  <1>2. (\A i \in 1 .. Len(c) : Append(c, e)[i] = c[i]) /\ Append(c, e)[Len(c) + 1] = e
    BY ONLY c \in Seq(S), e \in S, AppendProperties
  <1>3. 1 \in 1 .. Len(c) /\ Len(c) + 1 = 2 OBVIOUS
  <1> QED BY <1>1, <1>2, <1>3

LEMMA FirstOfTwo ==
    ASSUME NEW S, NEW c \in Seq(S), Len(c) = 2
    PROVE  SubSeq(c, 1, 1) \in Seq(S) /\ Len(SubSeq(c, 1, 1)) = 1 /\ SubSeq(c, 1, 1)[1] = c[1]
  OBVIOUS

LEMMA KeptByLevelDone ==
    ASSUME PlanInv, Plan!LevelDone
    PROVE  PlanInv'
  <1> DEFINE p == Plan!Call.layer
             k == Plan!Call.level
             L == m_evalLayers[p]
             B == m_evalLayers[p + 1]
             on == [evals EXCEPT ![Len(evals)].level = @ + 1, ![Len(evals)].group = "none"]
  <1>1. /\ Plan!InLevel /\ evals # << >> /\ k <= Len(L.seq)
        /\ \A g \in DOMAIN Plan!Cluster : Plan!Cluster[g] = << >>
        /\ UNCHANGED <<elems, evaluated, returned, registered>>
    BY DEF Plan!LevelDone, Plan!InLevel
  <1>2. /\ p \in Nat \ {0} /\ Len(m_evalLayers) = p + 1 /\ L \in PlanLayers /\ B \in PlanLayers
        /\ Under(evaluated, L, B, k, TRUE) /\ Settled(evaluated, B) /\ Whole(evaluated, B)
        /\ Plan!Back = B /\ Len(evals) \in {1, 2}
    BY <1>1, CallNow DEF Plan!Back
  <1>3. k \in Nat \ {0} BY <1>2 DEF Under
  <1>4. \A u : ~Waits(L, k, u) BY <1>1, LevelIsDone
  <1>5. /\ \/ Plan!Empty(B) /\ evals' = on /\ UNCHANGED m_evalLayers
           \/ /\ ~Plan!Empty(B) /\ evals' = Append(on, Plan!Enter(p + 1))
              /\ m_evalLayers' = Append(m_evalLayers, Plan!NoLayer)
    BY <1>2 DEF Plan!LevelDone
  <1>6. on = [evals EXCEPT ![Len(evals)].level = k + 1, ![Len(evals)].group = "none"]
    BY DEF Plan!Call
  <1> HIDE DEF B, L, k, p
  <1>7. GoesOn(on, k + 1)
    <2> PICK c, l : c = on /\ l = k + 1 OBVIOUS
    <2>1. l \in Nat /\ "none" \in PlanGroups \cup {"none"} /\ c = [evals EXCEPT ![Len(evals)].level = l, ![Len(evals)].group = "none"]
      BY <1>3, <1>6
    <2>2. GoesOn(c, l) BY ONLY PlanInv, <1>1, <2>1, CallGoesOn
    <2> QED BY <2>2
  <1>8. /\ Under(evaluated, L, B, k + 1, FALSE)
        /\ (\A o : ~PutOut(B, o)) => Under(evaluated, L, B, k + 1, TRUE)
    BY ONLY <1>1, <1>2, <1>4, LevelUp DEF L
  <1>9. Len(evals) = 2 => on[1] = evals[1] BY <1>7 DEF GoesOn
  <1>10. on \in Seq(PlanCalls) /\ Len(on) = Len(evals) /\ on[Len(evals)].layer = p /\ on[Len(evals)].level = k + 1
    BY <1>7 DEF GoesOn, p
  <1> HIDE DEF on
  <1>11. CASE Plan!Empty(B) /\ evals' = on /\ UNCHANGED m_evalLayers
    <2>1. Under(evaluated, L, B, k + 1, TRUE)
      <3>1. \A o : ~PutOut(B, o) BY <1>11 DEF Plan!Empty, PutOut, Waits
      <3> QED BY <1>8, <3>1
    <2> PICK c, ls, now, want, l : c = on /\ ls = m_evalLayers /\ now = evaluated /\ want = registered /\ l = k + 1
      OBVIOUS
    <2>2. Stages(now, ls, c, want)
      <3>1. CASE Len(evals) = 1
        <4>1. Asks(now, ls[p], want) BY <3>1, OnlyCall DEF p
        <4>2. /\ Len(c) = 1 /\ c[1].layer = p /\ c[1].level = l /\ Len(ls) = p + 1
              /\ ls[p] = L /\ ls[p + 1] = B
          BY <1>2, <1>10, <3>1 DEF L, B
        <4>3. Under(now, L, B, l, TRUE) /\ Settled(now, B) /\ Whole(now, B) BY <1>2, <2>1
        <4> QED BY ONLY <1>2, <4>1, <4>2, <4>3, OneCall
      <3>2. CASE Len(evals) = 2
        <4> PICK q, r : q = evals[1].layer /\ r = evals[1].level OBVIOUS
        <4>1. /\ q \in Nat \ {0} /\ p = q + 1
              /\ Under(now, ls[q], L, r, FALSE)
              /\ B = Plan!NoLayer /\ Asks(now, ls[q], want)
          BY <3>2, OuterCall DEF L, B, p
        <4>2. /\ Len(c) = 2 /\ c[1].layer = q /\ c[1].level = r /\ c[2].layer = p /\ c[2].level = l
              /\ Len(ls) = p + 1 /\ ls[p] = L /\ ls[p + 1] = B
          BY <1>2, <1>9, <1>10, <3>2 DEF L, B
        <4>3. /\ Under(now, ls[q], ls[p], c[1].level, FALSE) /\ Asks(now, ls[q], want)
              /\ Under(now, ls[p], ls[p + 1], c[2].level, TRUE) /\ Settled(now, ls[p + 1]) /\ Whole(now, ls[p + 1])
              /\ ls[p + 1] = Plan!NoLayer
          BY <1>2, <2>1, <4>1, <4>2
        <4>4. Len(c) = 2 /\ c[1].layer = q /\ c[2].layer = p /\ Len(ls) = p + 1 /\ q \in Nat \ {0} /\ p = q + 1 /\ p \in Nat \ {0}
          BY <1>2, <4>1, <4>2
        <4> QED BY ONLY <4>3, <4>4, TwoCalls
      <3> QED BY <1>2, <3>1, <3>2
    <2>3. Len(on) <= 2 BY <1>10 DEF PlanInv
    <2> QED BY <1>1, <1>10, <1>11, <2>2, <2>3 DEF PlanInv, Ordered
  <1>12. CASE /\ ~Plan!Empty(B) /\ evals' = Append(on, Plan!Enter(p + 1))
              /\ m_evalLayers' = Append(m_evalLayers, Plan!NoLayer)
    <2>1. Len(evals) = 1 BY <1>12, NoLayerIs, OuterCall, <1>2 DEF Plan!Empty, B, p
    <2>2. /\ evals' \in Seq(PlanCalls) /\ Len(evals') = 2 /\ evals'[1].layer = p /\ evals'[1].level = k + 1
          /\ evals'[2].layer = p + 1 /\ evals'[2].level = 1
      BY ONLY <1>2, <1>10, <2>1, OneAndOne, <1>12 DEF Plan!Enter, PlanCalls
    <2>3. /\ m_evalLayers' \in Seq(PlanLayers) /\ m_evalLayers' # << >> /\ Len(m_evalLayers') = p + 2
          /\ m_evalLayers'[p + 2] = Plan!NoLayer /\ m_evalLayers'[p] = L /\ m_evalLayers'[p + 1] = B
      <3> PICK l : l = Len(m_evalLayers) OBVIOUS
      <3>1. /\ m_evalLayers' \in Seq(PlanLayers) /\ m_evalLayers' # << >> /\ Len(m_evalLayers') = l + 1
            /\ m_evalLayers'[l + 1] = Plan!NoLayer /\ \A i \in 1 .. l : m_evalLayers'[i] = m_evalLayers[i]
        BY <1>12, AppendLayer
      <3>2. l + 1 = p + 2 /\ p \in 1 .. l /\ p + 1 \in 1 .. l BY ONLY <1>2, l = Len(m_evalLayers)
      <3> QED BY <3>1, <3>2 DEF L, B
    <2>4. Under(evaluated, B, Plan!NoLayer, 1, TRUE) BY ONLY <1>2, EnterLayer
    <2>5. Asks(evaluated, L, registered) BY <2>1, OnlyCall DEF L, p
    <2> PICK c, ls, now, want, l : c = evals' /\ ls = m_evalLayers' /\ now = evaluated /\ want = registered /\ l = k + 1
      OBVIOUS
    <2>6. Stages(now, ls, c, want)
      <3> PICK q, r : q = p + 1 /\ r = p + 2 OBVIOUS
      <3>1. /\ Len(c) = 2 /\ c[1].layer = p /\ c[1].level = l /\ c[2].layer = q /\ c[2].level = 1
            /\ Len(ls) = r /\ ls[p] = L /\ ls[q] = B /\ ls[r] = Plan!NoLayer
        BY <2>2, <2>3
      <3>2. q = p + 1 /\ r = q + 1 /\ p \in Nat \ {0} BY <1>2
      <3>3. /\ Under(now, L, B, l, FALSE) /\ Under(now, B, Plan!NoLayer, 1, TRUE) /\ Asks(now, L, want)
            /\ Settled(now, Plan!NoLayer) /\ Whole(now, Plan!NoLayer)
        BY <1>8, <2>4, <2>5, NoLayerIs
      <3> QED BY ONLY <3>1, <3>2, <3>3, TwoCalls
    <2>7. Len(evals') <= 2 BY ONLY <2>2
    <2> QED BY <1>1, <2>2, <2>3, <2>6, <2>7 DEF PlanInv, Ordered
  <1> QED BY <1>5, <1>11, <1>12

\* The last layer goes, and the one before it is cleared.
Popped(ls, p, t) == /\ t \in Seq(PlanLayers) /\ Len(t) = p /\ t # << >> /\ t[p] = Plan!NoLayer
                   /\ \A i \in 1 .. p - 1 : t[i] = ls[i]

LEMMA LayersPopped ==
    ASSUME NEW ls \in Seq(PlanLayers), NEW p \in Nat \ {0}, Len(ls) = p + 1,
           NEW t, t = [Plan!pop_back(ls) EXCEPT ![p] = Plan!NoLayer]
    PROVE  Popped(ls, p, t)
  <1> PICK s : s = Plan!pop_back(ls) OBVIOUS
  <1>1. s = SubSeq(ls, 1, p) BY DEF Plan!pop_back
  <1>2. s \in Seq(PlanLayers) /\ Len(s) = p /\ \A i \in 1 .. p : s[i] = ls[i] BY <1>1
  <1>3. p \in 1 .. Len(s) /\ \A i \in 1 .. p - 1 : i \in 1 .. p /\ i # p BY <1>2
  <1>4. t \in Seq(PlanLayers) /\ Len(t) = Len(s) /\ \A j \in 1 .. Len(s) : t[j] = IF j = p THEN Plan!NoLayer ELSE s[j]
    BY <1>2, <1>3, NoLayerIs, ExceptSeq
  <1>5. Len(t) # 0 BY <1>2, <1>4
  <1> QED BY <1>2, <1>3, <1>4, <1>5 DEF Popped

LEMMA KeptByLayerDone ==
    ASSUME PlanInv, Plan!LayerDone
    PROVE  PlanInv'
  <1> DEFINE p == Plan!Call.layer
             k == Plan!Call.level
             L == m_evalLayers[p]
             B == m_evalLayers[p + 1]
  <1>1. /\ evals # << >> /\ ~(k <= Len(L.seq))
        /\ m_evalLayers' = [Plan!pop_back(m_evalLayers) EXCEPT ![p] = Plan!NoLayer]
        /\ evals' = Plan!pop_back(evals)
        /\ IF Len(evals) = 1 THEN returned' = "ok" /\ registered' = {} ELSE UNCHANGED <<returned, registered>>
        /\ UNCHANGED <<elems, evaluated>>
    BY DEF Plan!LayerDone, Plan!InLevel
  <1>2. /\ p \in Nat \ {0} /\ Len(m_evalLayers) = p + 1 /\ L \in PlanLayers
        /\ Under(evaluated, L, B, k, TRUE) /\ Len(evals) \in {1, 2}
        /\ m_evalLayers \in Seq(PlanLayers) /\ evals \in Seq(PlanCalls)
    BY <1>1, CallNow DEF PlanInv
  <1> HIDE DEF B, L, k
  <1>3. (\A j, u : ~Waits(L, j, u)) /\ \A o : ~PutOut(L, o) BY ONLY <1>1, <1>2, LevelsAreDone
  <1>4. /\ m_evalLayers' \in Seq(PlanLayers) /\ Len(m_evalLayers') = p /\ m_evalLayers' # << >>
        /\ m_evalLayers'[p] = Plan!NoLayer
        /\ \A i \in 1 .. p - 1 : m_evalLayers'[i] = m_evalLayers[i]
    <2> PICK t : t = m_evalLayers' OBVIOUS
    <2>1. t = [Plan!pop_back(m_evalLayers) EXCEPT ![p] = Plan!NoLayer] BY <1>1
    <2> HIDE DEF p
    <2>2. Popped(m_evalLayers, p, t) BY ONLY <1>2, <2>1, LayersPopped
    <2> QED BY <2>2 DEF Popped
  <1>5. CASE Len(evals) = 1
    <2>1. evals' = << >> /\ registered' = {} /\ returned' = "ok"
      BY <1>1, <1>2, <1>5 DEF Plan!pop_back
    <2>2. evals' \in Seq(PlanCalls) /\ Len(evals') <= 2 BY ONLY <2>1, EmptySeq
    <2>3. Asks(evaluated, Plan!NoLayer, {}) BY DEF Asks
    <2>4. Stages(evaluated, m_evalLayers', << >>, {}) BY <1>4, <2>3, NoLayerIs, NoCall
    <2> QED BY <1>1, <1>4, <2>1, <2>2, <2>4 DEF PlanInv, Ordered
  <1>6. CASE Len(evals) = 2
    <2> PICK q, r : q = evals[1].layer /\ r = evals[1].level OBVIOUS
    <2>1. /\ q \in Nat \ {0} /\ p = q + 1 /\ q \in 1 .. p - 1
          /\ Under(evaluated, m_evalLayers[q], L, r, FALSE)
          /\ Asks(evaluated, m_evalLayers[q], registered)
      BY <1>6, OuterCall DEF L
    <2>2. evals' \in Seq(PlanCalls) /\ Len(evals') = 1 /\ evals'[1] = evals[1]
      BY ONLY <1>6, <1>1, <1>2, FirstOfTwo DEF Plan!pop_back
    <2>3. UNCHANGED <<elems, evaluated, returned, registered>> BY <1>6, <1>1
    <2>4. Under(evaluated, m_evalLayers[q], Plan!NoLayer, r, TRUE)
      BY ONLY <1>3, <2>1, NoLayerIs DEF Under
    <2> HIDE DEF p
    <2> PICK c, ls, now, want : c = evals' /\ ls = m_evalLayers' /\ now = evaluated /\ want = registered
      OBVIOUS
    <2>5. Stages(now, ls, c, want) BY <1>4, <2>1, <2>2, <2>4, NoLayerIs, OneCall
    <2>6. Len(evals') <= 2 BY ONLY <2>2
    <2> QED BY <1>1, <1>4, <2>2, <2>3, <2>5, <2>6 DEF PlanInv, Ordered
  <1> QED BY <1>2, <1>5, <1>6

LEMMA PlanKept ==
    ASSUME Plan!PlanAssumption, PlanInv, [Plan!Next]_Plan!vars
    PROVE  PlanInv'
  <1>1. CASE UNCHANGED Plan!vars
    <2>1. UNCHANGED <<elems, evaluated, m_evalLayers, evals, returned, registered>>
      BY <1>1 DEF Plan!vars
    <2> QED BY <2>1 DEF PlanInv, Ordered
  <1>2. CASE \E e \in Asked : Plan!Register(e) BY <1>2, KeptByRegister
  <1>3. CASE \E a, e \in Asked : Plan!PushBack(a, e) BY <1>3, KeptByPushBack
  <1>4. CASE Plan!Eval BY <1>4, KeptByEval
  <1>5. CASE (\E e \in Exprs : Plan!RunUnit(Group[e])) \/ Plan!RunUnit("Dot")
    BY <1>5, Zenon, KeptByRunUnit DEF PlanGroups
  <1>6. CASE Plan!LevelDone BY <1>6, KeptByLevelDone
  <1>7. CASE Plan!LayerDone BY <1>7, KeptByLayerDone
  <1> QED BY <1>1, <1>2, <1>3, <1>4, <1>5, <1>6, <1>7 DEF Plan!Next

\* Only the end of the outermost call hands over.
LEMMA PlanHands ==
    ASSUME PlanInv, [Plan!Next]_Plan!vars
    PROVE  Plan!Handed
  <1> SUFFICES ASSUME evals # << >>, evals' = << >>, returned' = "ok", NEW e \in registered
               PROVE  evaluated[e]' \/ Kind[e] = "Void"
    BY Zenon DEF Plan!Handed, Plan!Evaluating, Plan!Ready
  <1> DEFINE p == Plan!Call.layer
             k == Plan!Call.level
             L == m_evalLayers[p]
             B == m_evalLayers[p + 1]
  <1>1. Len(evals) \in {1, 2} /\ evals \in Seq(PlanCalls) /\ L \in PlanLayers /\ Under(evaluated, L, B, k, TRUE)
    BY CallNow DEF PlanInv
  <1>2. Plan!LayerDone
    <2>1. ~(UNCHANGED Plan!vars) BY DEF Plan!vars
    <2>2. \A a, x \in Asked : ~Plan!Register(a) /\ ~Plan!PushBack(a, x)
      BY DEF Plan!Register, Plan!PushBack
    <2>3. ~Plan!Eval BY DEF Plan!Eval
    <2>4. ASSUME NEW g, Plan!RunUnit(g)
          PROVE  FALSE
      BY <2>4, <1>1 DEF Plan!RunUnit, Plan!Throw
    <2>5. ~Plan!LevelDone BY <1>1 DEF Plan!LevelDone
    <2> QED BY <2>1, <2>2, <2>3, <2>4, <2>5 DEF Plan!Next
  <1>3. UNCHANGED evaluated /\ ~(k <= Len(L.seq)) /\ evals' = Plan!pop_back(evals)
    BY <1>2 DEF Plan!LayerDone, Plan!InLevel
  <1>4. Len(evals) = 1
    <2> SUFFICES ASSUME Len(evals) = 2
                 PROVE  FALSE
      BY <1>1
    <2>1. Len(evals) - 1 = 1 OBVIOUS
    <2>2. evals' = SubSeq(evals, 1, 1) BY <1>3, <2>1 DEF Plan!pop_back
    <2>3. Len(SubSeq(evals, 1, 1)) = 1 BY ONLY <1>1, Len(evals) = 2
    <2> QED BY <2>2, <2>3
  <1>5. Asks(evaluated, L, registered) BY <1>4, OnlyCall
  <1> HIDE DEF L, B, k
  <1>6. \A o \in DOMAIN L.outputs : L.outputs[o] + 1 < k BY ONLY <1>1, <1>3, LevelsAreDone
  <1>7. IsSet(evaluated, e) BY ONLY <1>1, <1>5, <1>6, e \in registered DEF Asks, Under
  <1> QED BY <1>3, <1>7 DEF IsSet

-----------------------------------------------------------------------------
(* A step of a behaviour is one of its subject's module, or changes none of  *)
(* that module's variables.                                                  *)
LEMMA SubjectSteps ==
    ASSUME [Next]_vars
    PROVE  /\ subject' = subject
           /\ subject = "mutex" => [Mutex!Next]_(Mutex!vars)
           /\ subject = "locked" => [Locked!Next]_(Locked!vars)
           /\ subject = "interrupt" => [Interrupted!Next]_(Interrupted!vars)
           /\ subject = "table" => [Table!Next]_(Table!vars)
           /\ subject = "find" => [Find!Next]_(Find!vars)
           /\ subject = "sum" => [Sum!Next]_(Sum!vars)
           /\ subject = "blocks" => [Pipeline!Next]_(Pipeline!vars)
           /\ subject = "pool" => [Pool!Next]_(Pool!vars)
           /\ subject = "list" => [List!Next]_(List!vars)
           /\ subject = "skiplist" => [Skip!Next]_(Skip!vars)
           /\ subject = "plan" => [Plan!Next]_(Plan!vars)
  <1>1. CASE UNCHANGED vars
    BY <1>1 DEF vars, ofLocked, ofMutex, ofInterrupted, ofTable, ofFind, ofSum, ofPipeline, ofPool, ofList, ofSkip, ofPlan,
                Mutex!vars, Locked!vars, Interrupted!vars, Table!vars, Find!vars, Sum!vars,
                Pipeline!vars, Pool!vars, List!vars, Skip!vars, Plan!vars
  <1>2. CASE Next
    <2>1. subject' = subject
      BY <1>2 DEF Next, RestPool, RestInterrupted, RestSum, RestPipeline, RestLocked, RestMutex,
                  RestTable, RestFind, RestList, RestSkip, RestPlan
    <2> QED BY <1>2, <2>1 DEF Next
  <1> QED BY <1>1, <1>2

LEMMA SubjectBegins ==
    ASSUME Init
    PROVE  /\ subject = "mutex" => Mutex!Init
           /\ subject = "locked" => Locked!Init
           /\ subject = "interrupt" => Interrupted!Init
           /\ subject = "table" => Table!Init
           /\ subject = "find" => Find!Init
           /\ subject = "sum" => Sum!Init
           /\ subject = "blocks" => Pipeline!Init
           /\ subject = "pool" => Pool!Init
           /\ subject = "list" => List!Init
           /\ subject = "skiplist" => Skip!Init
           /\ subject = "plan" => Plan!Init
  BY DEF Init, InitPool, InitInterrupted, InitSum, InitPipeline, InitLocked, InitMutex, InitTable,
         InitFind, InitList, InitSkip, InitPlan

(* Threads that lock their mutexes down the hierarchy never all wait.        *)
THEOREM HierarchyWorks == Spec => []HierarchyHolds
  <1> DEFINE Inv == subject = "mutex" => MutexInv
  <1> USE Assumptions
  <1>1. Init => Inv BY SubjectBegins, MutexInitially
  <1>2. Inv /\ [Next]_vars => Inv' BY SubjectSteps, MutexKept
  <1>3. Inv => HierarchyHolds BY HierarchyFollows DEF HierarchyHolds
  <1> QED BY <1>1, <1>2, <1>3, PTL DEF Spec

(* The locked queues refine the first-in first-out queue, and under one      *)
(* mutex no consumer sleeps on an item that nobody is on the way to.  The    *)
(* skip list refines the ordered set: a key is in it from the link on the    *)
(* lowest level, and what a reader finds is exact at its last load.          *)
THEOREM QueuesAndSetServe == Spec => ServeInOrder
  <1> DEFINE Inv == (subject = "locked" => LockedInv) /\ (subject = "skiplist" => SkipInv)
  <1> USE Assumptions
  <1>1. Init => Inv /\ (subject = "locked" => Locked!Queue!Init) /\ (subject = "skiplist" => Skip!Set!Init)
    BY SubjectBegins, LockedInitially, QueueBegins, SkipBegins, SetBegins
  <1>2. Inv /\ [Next]_vars => Inv' BY SubjectSteps, Kept, SkipKept
  <1>3. Inv => (subject = "locked" => Locked!NoSleepOnItems) BY DEF LockedInv
  <1>4. Inv /\ [Next]_vars => (subject = "locked" => [Locked!Queue!Next]_(Locked!Queue!vars))
    BY SubjectSteps, QueueSteps
  <1>5. Inv /\ [Next]_vars => (subject = "skiplist" => [Skip!Set!Next]_(Skip!Set!vars))
    BY SubjectSteps, SkipImplementsSet
  <1> QED BY <1>1, <1>2, <1>3, <1>4, <1>5, PTL DEF Spec, ServeInOrder

(* interrupt_flag never keeps a pointer to a condition variable that the     *)
(* interruptible_wait of its thread has left, however it was left.           *)
THEOREM CondOutlivesPointer == Spec => []CondIsThere
  <1> DEFINE Inv == subject = "interrupt" => CondKnown
  <1>1. Init => Inv BY SubjectBegins, CondBegins
  <1>2. Inv /\ [Next]_vars => Inv' BY SubjectSteps, CondKept
  <1>3. Inv => CondIsThere BY DEF CondIsThere, Interrupted!CondIsThere, CondKnown
  <1> QED BY <1>1, <1>2, <1>3, PTL DEF Spec

(* get_map returns the whole of the lookup table as it was at one moment,    *)
(* and of threads in get_map one can go on; a parallel search that a flag    *)
(* may stop half way still finds what is there; a walk of the list meets     *)
(* every node that stays in it, and none that remove_if has deleted; on each *)
(* level of the skip list, part of the one below, the keys are in order.     *)
THEOREM ReadersAreServed == Spec => []ReadersMissNothing
  <1> DEFINE Inv == /\ subject = "table" => TableInv
                    /\ subject = "find" => FindInv
                    /\ subject = "list" => ListInv
                    /\ subject = "skiplist" => SkipInv
  <1> USE Assumptions
  <1>1. Init => Inv BY SubjectBegins, TableBegins, FindBegins, ListBegins, SkipBegins
  <1>2. Inv /\ [Next]_vars => Inv' BY SubjectSteps, TableKept, FindKept, ListKept, SkipKept
  <1>3. Inv => ReadersMissNothing
    BY SnapshotFollows, FindFollows, ListFollows, SkipFollows DEF ReadersMissNothing
  <1> QED BY <1>1, <1>2, <1>3, PTL DEF Spec

(* The parallel prefix sum in blocks comes to the sums, or the exception of  *)
(* the block that threw comes out of it, however the blocks wait for each    *)
(* other; the threads of the pairwise one stay in step though members leave  *)
(* the barrier; and each block of the pipelines is processed and written     *)
(* whole, whatever thread is late at the barriers.                           *)
THEOREM SumsStayInStep == Spec => []SumsInStep
  <1> DEFINE Inv == (subject = "sum" => SumInv) /\ (subject = "blocks" => PipelineInv)
  <1> USE Assumptions
  <1>1. Init => Inv BY SubjectBegins, SumBegins, PipelineBegins
  <1>2. Inv /\ [Next]_vars => Inv' BY SubjectSteps, SumKept, PipelineKept
  <1>3. Inv => SumsInStep BY SumFollows, BlocksFollow DEF SumsInStep
  <1> QED BY <1>1, <1>2, <1>3, PTL DEF Spec

(* A task of a pool is in one place from its submission until its end: it    *)
(* runs at most once, whichever thread takes or steals it, and what somebody *)
(* waits for is queued, being run or done.                                   *)
THEOREM TasksOfPoolsRunOnce == Spec => []TaskRunsOnce
  <1> DEFINE Inv == subject = "pool" => PoolInv
  <1> USE Assumptions
  <1>1. Init => Inv BY SubjectBegins, PoolBegins
  <1>2. Inv /\ [Next]_vars => Inv' BY SubjectSteps, PoolKept
  <1>3. Inv => TaskRunsOnce BY PoolFollows DEF TaskRunsOnce
  <1> QED BY <1>1, <1>2, <1>3, PTL DEF Spec

(* A unit of the evaluation plan finds its operands evaluated and its own    *)
(* result not, whatever was registered in what order, shared, left over by a *)
(* throw or registered by units that run.                                    *)
THEOREM UnitsRunInOrder == Spec => []EvaluatedInOrder
  <1> DEFINE Inv == subject = "plan" => PlanInv
  <1> USE Assumptions
  <1>1. Init => Inv BY SubjectBegins, PlanBegins
  <1>2. Inv /\ [Next]_vars => Inv' BY SubjectSteps, PlanKept
  <1>3. Inv => EvaluatedInOrder BY PlanInOrder DEF EvaluatedInOrder
  <1> QED BY <1>1, <1>2, <1>3, PTL DEF Spec

(* When Eval returns without a throw, every handle registered since the last *)
(* one is set.                                                               *)
THEOREM HandlesAreReady == Spec => HandlesReady
  <1> DEFINE Inv == subject = "plan" => PlanInv
  <1> USE Assumptions
  <1>1. Init => Inv BY SubjectBegins, PlanBegins
  <1>2. Inv /\ [Next]_vars => Inv' BY SubjectSteps, PlanKept
  <1>3. Inv /\ [Next]_vars => (subject = "plan" => Plan!Handed) BY SubjectSteps, PlanHands
  <1> QED BY <1>1, <1>2, <1>3, PTL DEF Spec, HandlesReady
=============================================================================
