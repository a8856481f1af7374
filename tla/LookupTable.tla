----------------------------- MODULE LookupTable -----------------------------
(***************************************************************************)
(* threadsafe_lookup_table of "Designing lock-based concurrent data        *)
(* structures/exp1.cpp": buckets of pairs, a shared mutex each; get_map    *)
(* takes them all, one after the other, and copies what they hold.  What   *)
(* is done with one bucket under its mutex is a step.                      *)
(***************************************************************************)
EXTENDS Naturals, Sequences, FiniteSets, Functions

CONSTANTS Threads, NoThread, Keys, Values,
          Buckets,      \* how many buckets, numbered from 0
          Hash,         \* the hasher's value of each key
          MaxUpdates    \* bound on the changes to the table

TableAssumption == /\ Threads # {} /\ NoThread \notin Threads
                   /\ Buckets \in Nat \ {0} /\ Hash \in [Keys -> Nat]

VARIABLES buckets,      \* the list of pairs of each bucket
          mutex,        \* which get_map holds each
          locks, copied,    \* in get_map: how many buckets are locked, how many copied
          res,          \* the map it builds
          answer,       \* what value_for last returned to each
          updates

vars == <<buckets, mutex, locks, copied, res, answer, updates>>

Index == 0 .. Buckets - 1
Init == /\ buckets = [i \in Index |-> << >>] /\ mutex = [i \in Index |-> NoThread]
        /\ locks = [t \in Threads |-> 0] /\ copied = [t \in Threads |-> 0]
        /\ res = [t \in Threads |-> {}] /\ answer = [t \in Threads |-> 0] /\ updates = 0

GetBucket(k) == Hash[k] % Buckets
Entries(b, k) == {i \in DOMAIN b : b[i][1] = k}
FindEntryFor(b, k) == CHOOSE i \in Entries(b, k) : \A j \in Entries(b, k) : i =< j

\* A call on key k can have the bucket's mutex.
Call(t, k) == locks[t] = 0 /\ mutex[GetBucket(k)] = NoThread

ValueFor(t, k) ==
  /\ Call(t, k)
  /\ LET b == buckets[GetBucket(k)]
     IN  answer' = [answer EXCEPT ![t] = IF Entries(b, k) = {} THEN 0 ELSE b[FindEntryFor(b, k)][2]]
  /\ UNCHANGED <<buckets, mutex, locks, copied, res, updates>>

AddOrUpdate(t, k, v) ==
  /\ Call(t, k) /\ updates < MaxUpdates
  /\ buckets' = [buckets EXCEPT ![GetBucket(k)] =
                   IF Entries(@, k) = {} THEN Append(@, <<k, v>>)
                   ELSE [@ EXCEPT ![FindEntryFor(@, k)] = <<k, v>>]]
  /\ updates' = updates + 1
  /\ UNCHANGED <<mutex, locks, copied, res, answer>>

\* data.erase.
Erase(b, i) == SubSeq(b, 1, i - 1) \o SubSeq(b, i + 1, Len(b))

RemoveMapping(t, k) ==
  /\ Call(t, k) /\ updates < MaxUpdates
  /\ buckets' = [buckets EXCEPT ![GetBucket(k)] =
                   IF Entries(@, k) = {} THEN @ ELSE Erase(@, FindEntryFor(@, k))]
  /\ updates' = updates + 1
  /\ UNCHANGED <<mutex, locks, copied, res, answer>>

\* get_map: every lock, then every copy, then the locks are given up.
LockNext(t) == /\ locks[t] < Buckets /\ mutex[locks[t]] = NoThread
               /\ mutex' = [mutex EXCEPT ![locks[t]] = t]
               /\ locks' = [locks EXCEPT ![t] = @ + 1]
               /\ UNCHANGED <<buckets, copied, res, answer, updates>>

FreeCopied(t) == [mutex EXCEPT ![copied[t]] = NoThread]    \* mutant
KeepLocks(t) == mutex
CopyNext(t) == /\ locks[t] = Buckets /\ copied[t] < Buckets
               /\ res' = [res EXCEPT ![t] = @ \cup Range(buckets[copied[t]])]
               /\ copied' = [copied EXCEPT ![t] = @ + 1]
               /\ mutex' = KeepLocks(t)
               /\ UNCHANGED <<buckets, locks, answer, updates>>

Release(t) == /\ copied[t] = Buckets
              /\ mutex' = [i \in Index |-> IF mutex[i] = t THEN NoThread ELSE mutex[i]]
              /\ locks' = [locks EXCEPT ![t] = 0] /\ copied' = [copied EXCEPT ![t] = 0]
              /\ res' = [res EXCEPT ![t] = {}]
              /\ UNCHANGED <<buckets, answer, updates>>

Next == \E t \in Threads :
          \/ \E k \in Keys : ValueFor(t, k) \/ RemoveMapping(t, k) \/ \E v \in Values : AddOrUpdate(t, k, v)
          \/ LockNext(t) \/ CopyNext(t) \/ Release(t)

Spec == Init /\ [][Next]_vars
-----------------------------------------------------------------------------
(* The table is a map, with each key once and in the bucket where it is      *)
(* looked up, and what get_map returns is the whole of it at one moment;     *)
(* of two of them one can always go on.                                      *)
SnapshotWhole ==
  /\ \A i \in Index : \A j, l \in DOMAIN buckets[i] :
       GetBucket(buckets[i][j][1]) = i /\ (buckets[i][j][1] = buckets[i][l][1] => j = l)
  /\ \A t \in Threads : copied[t] = Buckets => res[t] = UNION {Range(buckets[i]) : i \in Index}
  /\ \E t \in Threads : locks[t] \in {0, Buckets} \/ mutex[locks[t]] = NoThread
=============================================================================
