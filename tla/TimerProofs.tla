---------------------------- MODULE TimerProofs ----------------------------
(***************************************************************************)
(* The safety of Timer for any number of callers and timers, any periods   *)
(* and any clock: the tick thread oversleeps by no more than it was held   *)
(* up, no run is lost or comes twice, and timers that repeat keep their    *)
(* distance.                                                               *)
(***************************************************************************)
EXTENDS Timer, TLAPS

\* Ids are given in order, and what is not yet given has no trace.
Known == /\ \A n \in tm_queue_ : n.id < tm_id_
         /\ \A c \in Callers : call[c] # NoNode => call[c].id < tm_id_
         /\ s # NoNode => s.id < tm_id_
         /\ \A i \in ids : i < tm_id_
         /\ \A i \in Ids : i >= tm_id_ => fires[i] = 0 /\ late[i] = 0

\* An id has one node, in the queue, with its caller or with the tick thread.
OneNode == /\ \A n, m \in tm_queue_ : n.id = m.id => n = m
           /\ \A c \in Callers : call[c] # NoNode =>
                /\ \A n \in tm_queue_ : n.id # call[c].id
                /\ \A d \in Callers : call[d] # NoNode /\ call[d].id = call[c].id => c = d
           /\ tick = "check" =>
                /\ \A n \in tm_queue_ : n.id # s.id
                /\ \A c \in Callers : call[c] # NoNode => call[c].id # s.id

\* A node counts down what its timer still has to run, after the next time.
Tally(n) == /\ n.kind = asked[n.id].kind
            /\ n.kind # "period" => Fired(n.id) + n.num = asked[n.id].num

Tallies == /\ \A n \in tm_queue_ : Tally(n)
           /\ \A c \in Callers : call[c] # NoNode => Tally(call[c])
           /\ tick = "check" => Tally(s)

AskedOnce == \A i \in Ids : asked[i].kind = "once" => asked[i].num = 0

\* The run that cancel came too late for is the last.
LastRun == \A i \in Ids : late[i] > 0 => i \notin ids /\ ~(tick = "submit" /\ s.id = i)

\* A node that was due when it was popped still is.
PoppedDue == tick = "check" => Due(s)

\* What the wait that is about to begin makes of the time that has passed.
SleepsSoon == tick = "sleep" => \A n \in tm_queue_ : now + diff <= n.at + lag

IInv == /\ TypeOK /\ NoOversleep /\ SleepsSoon /\ RunsCounted /\ CancelStops
        /\ Known /\ OneNode /\ Tallies /\ AskedOnce /\ LastRun /\ PoppedDue

-----------------------------------------------------------------------------
\* The steps of callers and of the tick thread that touch timers, and the rest.
SchedulesAny == \E c \in Callers, kind \in Kinds, ms \in Nat, at \in Nat, num \in Nat :
                   (kind = "once" => num = 0) /\ Schedule(c, kind, ms, at, num)

Quiet == /\ UNCHANGED <<tm_queue_, ids, users, s, submits>>
         /\ now' \in 0 .. MaxTime /\ now' >= now
         /\ tick' \in {"check", "submit"} <=> tick \in {"check", "submit"}
         /\ tick' \in {"check", "submit"} => tick' = tick

LEMMA Products == \A ms \in Nat : ms * Grain \in Nat
  BY TimerAssumption DEF TimerAssumption

LEMMA AfterNow == ASSUME now \in Nat, NEW ms \in Nat PROVE After(ms) \in Nat
  <1>1. \A p \in Nat : now + p \in Nat
    OBVIOUS
  <1> QED  BY <1>1, Products DEF After

LEMMA UserSteps ==
    ASSUME TypeOK, NEW c \in Callers, User(c)
    PROVE  SchedulesAny \/ Push(c)
  <1> USE TimerAssumption DEF TimerAssumption, TypeOK
  <1>1. ASSUME RunAfter(c) PROVE SchedulesAny
    <2> PICK ms \in Millis, kind \in {"once", "period"} : Schedule(c, kind, ms, After(ms), 0)
      BY <1>1 DEF RunAfter
    <2>1. ms \in Nat /\ After(ms) \in Nat
      BY AfterNow
    <2> QED  BY <2>1 DEF SchedulesAny, Kinds
  <1>2. ASSUME RunAt(c) PROVE SchedulesAny
    <2> PICK at \in Points : Schedule(c, "once", 0, at, 0)
      BY <1>2 DEF RunAt
    <2> QED  BY DEF SchedulesAny, Kinds
  <1>3. ASSUME RunRepeated(c) PROVE SchedulesAny
    <2> PICK ms \in Millis, n \in Repeats : Schedule(c, "repeated", ms, After(ms), n)
      BY <1>3 DEF RunRepeated
    <2>1. ms \in Nat /\ After(ms) \in Nat /\ n \in Nat
      BY AfterNow
    <2> QED  BY <2>1 DEF SchedulesAny, Kinds
  <1> QED  BY <1>1, <1>2, <1>3 DEF User

LEMMA Steps ==
    ASSUME TypeOK, Next
    PROVE  \/ SchedulesAny
           \/ \E c \in Callers : Push(c)
           \/ \E i \in Ids : Cancel(i)
           \/ TickPops \/ TickChecks \/ TickSubmits
           \/ Quiet
  <1> USE TimerAssumption DEF TimerAssumption, TypeOK, thread, timing, users, submits
  <1>1. CASE \E c \in Callers : User(c)
    BY <1>1, UserSteps
  <1>2. CASE \E i \in Ids : Cancel(i)
    BY <1>2
  <1>3. CASE Clock
    BY <1>3 DEF Quiet, Clock
  <1>4. CASE TickTests \/ TickWaits \/ TickReads \/ TickWaitsFor \/ TimesOut \/ SpuriousWake
    BY <1>4 DEF Quiet, TickTests, TickWaits, TickReads, TickWaitsFor, TimesOut, SpuriousWake
  <1>5. CASE Stop \/ Destroy
    BY <1>5 DEF Quiet, Stop, Destroy, StopNotifies, Join, NotifyTick
  <1> QED  BY <1>1, <1>2, <1>3, <1>4, <1>5 DEF Next, RunLocal

-----------------------------------------------------------------------------
LEMMA NodeFacts == /\ \A n \in Node : n # NoNode /\ n.id \in Ids /\ n.kind \in Kinds
                                      /\ n.ms \in Nat /\ n.at \in Nat /\ n.num \in Nat
                   /\ \A i \in Ids : i \in Nat
  BY TimerAssumption DEF TimerAssumption, Node, NoNode, Ids

\* Pushed again, a node keeps its id and its kind.
LEMMA RescheduledFacts ==
    ASSUME TypeOK, tick = "check", Again
    PROVE  /\ Rescheduled \in Node
           /\ Rescheduled.id = s.id /\ Rescheduled.kind = s.kind
           /\ Rescheduled.at = After(s.ms)
           /\ Rescheduled.num = IF s.kind = "repeated" THEN s.num - 1 ELSE s.num
  <1>1. s \in Node
    BY DEF TypeOK
  <1>2. After(s.ms) \in Nat
    BY <1>1, AfterNow, NodeFacts DEF TypeOK
  <1> HIDE DEF After
  <1>3. /\ Rescheduled.id = s.id /\ Rescheduled.kind = s.kind
        /\ Rescheduled.at = After(s.ms)
        /\ Rescheduled.num = IF s.kind = "repeated" THEN s.num - 1 ELSE s.num
    BY <1>1 DEF Rescheduled, Node
  <1>4. \A at, num \in Nat : [s EXCEPT !.at = at, !.num = num] \in Node
    BY <1>1 DEF Node
  <1>5. CASE s.kind = "repeated"
    <2>1. s.num - 1 \in Nat
      BY <1>1, <1>5 DEF Again, Node
    <2>2. Rescheduled = [s EXCEPT !.at = After(s.ms), !.num = s.num - 1]
      BY <1>1, <1>5 DEF Rescheduled, Node
    <2> QED  BY <1>2, <1>3, <1>4, <2>1, <2>2
  <1>6. CASE s.kind # "repeated"
    BY <1>1, <1>2, <1>4, <1>3, <1>6 DEF Rescheduled, Again, Node
  <1> QED  BY <1>5, <1>6

\* A node that is not due is that far off.
LEMMA Ahead == ASSUME TypeOK, TickReads
               PROVE  /\ tick = "look" /\ diff' \in Nat
                      /\ \A n \in tm_queue_ : now + diff' <= n.at
  <1> PICK n \in tm_queue_ : IsTop(n) /\ ~Due(n) /\ diff' = n.at - now
    BY DEF TickReads
  <1>1. n.at \in Nat /\ now \in Nat /\ Grain \in Nat \ {0} /\ \A m \in tm_queue_ : m.at \in Nat
    BY NodeFacts, TimerAssumption DEF TimerAssumption, TypeOK
  <1>2. ~(n.at - now < Grain) /\ \A m \in tm_queue_ : n.at <= m.at
    BY DEF IsTop, Due
  <1> QED  BY <1>1, <1>2 DEF TickReads

LEMMA TypesKept == ASSUME TypeOK, Next PROVE TypeOK'
  <1> USE TimerAssumption DEF TimerAssumption, thread, timing, users, submits
  <1>1. ASSUME SchedulesAny PROVE TypeOK'
    <2> PICK c \in Callers, kind \in Kinds, ms \in Nat, at \in Nat, num \in Nat :
             Schedule(c, kind, ms, at, num)
      BY <1>1 DEF SchedulesAny
    <2>1. tm_id_ \in Ids /\ tm_id_' \in 0 .. MaxTimers
      BY DEF Schedule, TypeOK, Ids
    <2> QED  BY <2>1 DEF Schedule, TypeOK, Node
  <1>2. ASSUME NEW c \in Callers, Push(c) PROVE TypeOK'
    BY <1>2 DEF Push, TypeOK, NotifyTick
  <1>3. ASSUME NEW i \in Ids, Cancel(i) PROVE TypeOK'
    BY <1>3 DEF Cancel, TypeOK
  <1>4. CASE Clock
    BY <1>4 DEF Clock, TypeOK
  <1>5. CASE TickTests \/ TickWaits \/ TimesOut \/ SpuriousWake
    BY <1>5 DEF TickTests, TickWaits, TimesOut, SpuriousWake, TypeOK
  <1>6. CASE TickReads \/ TickWaitsFor
    BY <1>6, Ahead DEF TickReads, TickWaitsFor, TypeOK
  <1>7. CASE TickPops
    BY <1>7, NodeFacts DEF TickPops, IsTop, TypeOK
  <1>8. CASE TickChecks
    BY <1>8, RescheduledFacts DEF TickChecks, TypeOK
  <1>9. CASE TickSubmits
    <2>1. s \in Node /\ s.id \in Ids
      BY <1>9, NodeFacts DEF TickSubmits, TypeOK
    <2> QED  BY <1>9, <2>1 DEF TickSubmits, TypeOK
  <1>10. CASE Stop \/ Destroy
    BY <1>10 DEF Stop, Destroy, StopNotifies, Join, NotifyTick, TypeOK
  <1> QED
    BY <1>1, <1>2, <1>3, <1>4, <1>5, <1>6, <1>7, <1>8, <1>9, <1>10, UserSteps DEF Next, RunLocal

-----------------------------------------------------------------------------
(* A push wakes the tick thread, which looks at the queue again.             *)
LEMMA SleepKept ==
    ASSUME TypeOK, NoOversleep, SleepsSoon, Next
    PROVE  NoOversleep' /\ SleepsSoon'
  <1> USE DEF NoOversleep, SleepsSoon, thread, timing, users, submits
  <1>1. ASSUME SchedulesAny PROVE NoOversleep' /\ SleepsSoon'
    BY <1>1 DEF SchedulesAny, Schedule
  <1>2. ASSUME NEW c \in Callers, Push(c) PROVE NoOversleep' /\ SleepsSoon'
    BY <1>2 DEF Push, NotifyTick
  <1>3. ASSUME NEW i \in Ids, Cancel(i) PROVE NoOversleep' /\ SleepsSoon'
    BY <1>3 DEF Cancel
  <1>4. CASE Clock
    <2>1. /\ now' = now + 1 /\ lag' = IF tick = "sleep" THEN lag + 1 ELSE lag
          /\ UNCHANGED <<tick, diff, deadline, tm_queue_>>
      BY <1>4 DEF Clock
    <2>2. now \in Nat /\ diff \in Nat /\ lag \in Nat /\ \A n \in tm_queue_ : n.at \in Nat
      BY NodeFacts, TimerAssumption DEF TimerAssumption, TypeOK
    <2> QED  BY <2>1, <2>2
  <1>5. CASE Stop \/ Destroy
    BY <1>5 DEF Stop, Destroy, StopNotifies, Join, NotifyTick
  <1>6. CASE TickTests \/ TickWaits \/ TickPops \/ TickChecks \/ TickSubmits \/ TimesOut \/ SpuriousWake
    BY <1>6 DEF TickTests, TickWaits, TickPops, TickChecks, TickSubmits, TimesOut, SpuriousWake
  <1>7. CASE TickReads
    <2>1. /\ tick' = "sleep" /\ UNCHANGED <<now, tm_queue_, lag>>
          /\ \A n \in tm_queue_ : now + diff' <= n.at
      BY <1>7, Ahead DEF TickReads
    <2>2. now \in Nat /\ diff' \in Nat /\ lag \in Nat /\ \A n \in tm_queue_ : n.at \in Nat
      BY <1>7, Ahead, NodeFacts, TimerAssumption DEF TimerAssumption, TypeOK
    <2> QED  BY <2>1, <2>2
  <1>8. CASE TickWaitsFor
    BY <1>8 DEF TickWaitsFor
  <1> QED  BY <1>1, <1>2, <1>3, <1>4, <1>5, <1>6, <1>7, <1>8, UserSteps DEF Next, RunLocal

LEMMA KnownKept == ASSUME TypeOK, Known, Next PROVE Known'
  <1> USE TimerAssumption, NodeFacts DEF TimerAssumption, TypeOK, users, submits
  <1>1. ASSUME SchedulesAny PROVE Known'
    <2> PICK c \in Callers, kind \in Kinds, ms \in Nat, at \in Nat, num \in Nat :
             Schedule(c, kind, ms, at, num)
      BY <1>1 DEF SchedulesAny
    <2> DEFINE new == [id |-> tm_id_, kind |-> kind, ms |-> ms, at |-> at, num |-> num]
    <2>1. new.id = tm_id_ /\ call' = [call EXCEPT ![c] = new]
      BY DEF Schedule
    <2> HIDE DEF new
    <2>2. /\ tm_id_ \in Nat /\ tm_id_' = tm_id_ + 1 /\ ids' = ids \cup {tm_id_}
          /\ UNCHANGED <<tm_queue_, s, fires, late>>
      BY DEF Schedule, thread
    <2>3. \A n \in tm_queue_ : n.id \in Nat
      BY DEF Node, Ids
    <2>4. \A d \in Callers : call[d] # NoNode => call[d].id \in Nat
      BY DEF Node, Ids
    <2>5. s # NoNode => s.id \in Nat
      BY DEF Node, Ids
    <2>6. \A k, x \in Nat : k < x => k < x + 1
      OBVIOUS
    <2>7. \A i \in Ids : i >= tm_id_ + 1 => i >= tm_id_
      BY <2>2 DEF Ids
    <2>8. /\ \A n \in tm_queue_' : n.id < tm_id_'
          /\ s' # NoNode => s'.id < tm_id_'
      BY <2>2, <2>3, <2>5, <2>6 DEF Known
    <2>9. \A d \in Callers : call'[d] # NoNode => call'[d].id < tm_id_'
      BY <2>1, <2>2, <2>4, <2>6 DEF Known
    <2>10. \A i \in ids' : i < tm_id_'
      BY <2>2, <2>6 DEF Known, Ids
    <2> QED  BY <2>2, <2>7, <2>8, <2>9, <2>10 DEF Known
  <1>2. ASSUME NEW c \in Callers, Push(c) PROVE Known'
    BY <1>2 DEF Push, Known
  <1>3. ASSUME NEW i \in Ids, Cancel(i) PROVE Known'
    BY <1>3 DEF Cancel, Known, thread
  <1>4. CASE TickPops
    BY <1>4 DEF TickPops, IsTop, Known
  <1>5. CASE TickChecks
    BY <1>5, RescheduledFacts DEF TickChecks, Known
  <1>6. CASE TickSubmits
    <2>1. s.id \in Ids /\ s.id < tm_id_
      BY <1>6 DEF TickSubmits, Known
    <2> QED  BY <1>6, <2>1 DEF TickSubmits, Known
  <1>7. CASE Quiet
    BY <1>7 DEF Quiet, Known
  <1> QED  BY <1>1, <1>2, <1>3, <1>4, <1>5, <1>6, <1>7, Steps

LEMMA OneNodeKept == ASSUME TypeOK, Known, OneNode, Next PROVE OneNode'
  <1> USE NodeFacts DEF TypeOK, users, submits
  <1>1. ASSUME SchedulesAny PROVE OneNode'
    <2> PICK c \in Callers, kind \in Kinds, ms \in Nat, at \in Nat, num \in Nat :
             Schedule(c, kind, ms, at, num)
      BY <1>1 DEF SchedulesAny
    <2> DEFINE new == [id |-> tm_id_, kind |-> kind, ms |-> ms, at |-> at, num |-> num]
    <2>1. new.id = tm_id_ /\ call' = [call EXCEPT ![c] = new]
      BY DEF Schedule
    <2> HIDE DEF new
    <2>2. tick' = tick /\ s' = s /\ tm_queue_' = tm_queue_
      BY DEF Schedule, thread
    <2> QED  BY <2>1, <2>2 DEF OneNode, Known
  <1>2. ASSUME NEW c \in Callers, Push(c) PROVE OneNode'
    <2>1. /\ tm_queue_' = tm_queue_ \cup {call[c]} /\ call' = [call EXCEPT ![c] = NoNode]
          /\ call[c] # NoNode /\ tick' # "check"
      BY <1>2 DEF Push, NotifyTick
    <2> QED  BY <2>1 DEF OneNode
  <1>3. ASSUME NEW i \in Ids, Cancel(i) PROVE OneNode'
    BY <1>3 DEF Cancel, OneNode, thread
  <1>4. CASE TickPops
    BY <1>4 DEF TickPops, IsTop, OneNode
  <1>5. CASE TickChecks
    BY <1>5, RescheduledFacts DEF TickChecks, OneNode
  <1>6. CASE TickSubmits
    BY <1>6 DEF TickSubmits, OneNode
  <1>7. CASE Quiet
    BY <1>7 DEF Quiet, OneNode
  <1> QED  BY <1>1, <1>2, <1>3, <1>4, <1>5, <1>6, <1>7, Steps

LEMMA AskedKept == ASSUME TypeOK, AskedOnce, Next PROVE AskedOnce'
  <1>1. ASSUME SchedulesAny PROVE AskedOnce'
    <2> PICK c \in Callers, kind \in Kinds, ms \in Nat, at \in Nat, num \in Nat :
             (kind = "once" => num = 0) /\ Schedule(c, kind, ms, at, num)
      BY <1>1 DEF SchedulesAny
    <2> QED  BY DEF Schedule, AskedOnce, TypeOK
  <1>2. ASSUME ~SchedulesAny PROVE asked' = asked
    BY <1>2, Steps DEF Push, Cancel, TickPops, TickChecks, TickSubmits, Quiet, users
  <1> QED  BY <1>1, <1>2 DEF AskedOnce

(* Time passes, and does not make a node less due.                           *)
LEMMA PoppedDueKept == ASSUME TypeOK, PoppedDue, Next PROVE PoppedDue'
  <1> USE NodeFacts, TimerAssumption DEF TimerAssumption, TypeOK, PoppedDue, Due
  <1>1. CASE TickPops
    BY <1>1 DEF TickPops
  <1>2. ASSUME ~TickPops, tick' = "check" PROVE tick = "check" /\ s' = s /\ now' >= now
    BY <1>2, Steps DEF SchedulesAny, Schedule, Push, NotifyTick, Cancel, TickChecks, TickSubmits,
                       Quiet, thread
  <1>3. ASSUME ~TickPops, tick' = "check" PROVE PoppedDue'
    <2>1. now' \in Nat
      BY TypesKept
    <2>2. s.at \in Nat
      BY <1>2, <1>3
    <2> QED  BY <1>2, <1>3, <2>1, <2>2
  <1> QED  BY <1>1, <1>3

-----------------------------------------------------------------------------
\* The tick thread has found its node's id, and unlocks.
Sends(i) == TickChecks /\ Alive /\ s.id = i

LEMMA FiredSteps ==
    ASSUME TypeOK, Next, NEW i \in Ids
    PROVE  /\ Fired(i) \in Nat
           /\ Fired(i)' = IF Sends(i) THEN Fired(i) + 1 ELSE Fired(i)
  <1> USE NodeFacts DEF TypeOK, users, submits, Fired
  <1>1. Fired(i) \in Nat
    OBVIOUS
  <1>2. ASSUME SchedulesAny PROVE Fired(i)' = Fired(i) /\ ~Sends(i)
    BY <1>2 DEF SchedulesAny, Schedule, thread, Sends, TickChecks
  <1>3. ASSUME NEW c \in Callers, Push(c) PROVE Fired(i)' = Fired(i) /\ ~Sends(i)
    BY <1>3 DEF Push, NotifyTick, Sends, TickChecks
  <1>4. ASSUME NEW j \in Ids, Cancel(j) PROVE Fired(i)' = Fired(i) /\ ~Sends(i)
    BY <1>4 DEF Cancel, thread, Sends, TickChecks
  <1>5. CASE TickPops
    BY <1>5 DEF TickPops, Sends, TickChecks
  <1>6. CASE TickChecks
    <2>1. CASE Alive
      BY <1>6, <2>1 DEF TickChecks, Sends
    <2>2. CASE ~Alive
      BY <1>6, <2>2 DEF TickChecks, Sends
    <2> QED  BY <2>1, <2>2
  <1>7. CASE TickSubmits
    BY <1>7 DEF TickSubmits, Sends, TickChecks
  <1>8. ASSUME Quiet PROVE Fired(i)' = Fired(i) /\ ~Sends(i)
    BY <1>8 DEF Quiet, Sends, TickChecks
  <1> QED  BY <1>1, <1>2, <1>3, <1>4, <1>5, <1>6, <1>7, <1>8, Steps

(* Only the tick thread, which holds the one node of its timer, sends that   *)
(* timer's callback; the node it pushes again counts one less.               *)
LEMMA TalliesKept == ASSUME TypeOK, Known, OneNode, Tallies, Next PROVE Tallies'
  <1> USE NodeFacts DEF users, submits
  <1>1. ASSUME NEW n \in Node, Tally(n), ~Sends(n.id), asked'[n.id] = asked[n.id] PROVE Tally(n)'
    BY <1>1, FiredSteps DEF Tally
  <1>2. ASSUME \A n \in tm_queue_' : Tally(n)',
               \A d \in Callers : call'[d] # NoNode => \A n : n = call'[d] => Tally(n)',
               tick' = "check" => \A n : n = s' => Tally(n)'
        PROVE  Tallies'
    BY <1>2 DEF Tallies, Tally, Fired
  <1>3. ASSUME SchedulesAny PROVE Tallies'
    <2> PICK c \in Callers, kind \in Kinds, ms \in Nat, at \in Nat, num \in Nat :
             (kind = "once" => num = 0) /\ Schedule(c, kind, ms, at, num)
      BY <1>3 DEF SchedulesAny
    <2>1. PICK i \in Ids : i = tm_id_
      BY TimerAssumption DEF TimerAssumption, Schedule, TypeOK, Ids
    <2>2. PICK new \in Node : new = [id |-> i, kind |-> kind, ms |-> ms, at |-> at, num |-> num]
      BY DEF Node
    <2>3. /\ call' = [call EXCEPT ![c] = new] /\ call[c] = NoNode
          /\ asked' = [asked EXCEPT ![i] = [kind |-> kind, num |-> num]]
          /\ UNCHANGED <<tm_queue_, tick, s>>
      BY <2>1, <2>2 DEF Schedule, thread
    <2>4. \A j \in Ids : ~Sends(j)
      BY DEF Schedule, thread, Sends, TickChecks
    <2>5. Tally(new)'
      <3>1. Fired(i) = 0
        BY <2>1 DEF Known, Fired, TypeOK
      <3>2. Fired(i)' = 0
        BY <2>4, <3>1, FiredSteps
      <3>3. asked'[i] = [kind |-> kind, num |-> num]
        BY <2>3 DEF TypeOK
      <3>4. new.id = i /\ new.kind = kind /\ new.num = num
        BY <2>2
      <3> QED  BY <3>2, <3>3, <3>4 DEF Tally
    <2>6. ASSUME NEW n \in Node, Tally(n), n.id < tm_id_ PROVE Tally(n)'
      <3>1. n.id \in Ids /\ n.id # i
        BY <2>1, <2>6
      <3>2. asked'[n.id] = asked[n.id]
        BY <2>3, <3>1 DEF TypeOK
      <3> QED  BY <1>1, <2>4, <2>6, <3>1, <3>2
    <2>7. \A n \in tm_queue_' : Tally(n)'
      BY <2>3, <2>6 DEF Tallies, Known, TypeOK
    <2>8. tick' = "check" => \A n : n = s' => Tally(n)'
      BY <2>3, <2>6 DEF Tallies, Known, TypeOK
    <2>9. ASSUME NEW d \in Callers, call'[d] # NoNode, NEW n, n = call'[d] PROVE Tally(n)'
      <3>1. CASE d = c
        BY <2>3, <2>5, <2>9, <3>1 DEF TypeOK
      <3>2. CASE d # c
        <4>1. n = call[d] /\ n \in Node
          BY <2>3, <2>9, <3>2 DEF TypeOK
        <4>2. Tally(n) /\ n.id < tm_id_
          BY <2>9, <2>3, <3>2, <4>1 DEF Tallies, Known, Tally
        <4> QED  BY <2>6, <4>1, <4>2
      <3> QED  BY <3>1, <3>2
    <2> QED  BY <1>2, <2>7, <2>8, <2>9
  <1>4. ASSUME ~SchedulesAny PROVE asked' = asked
    BY <1>4, Steps DEF Push, Cancel, TickPops, TickChecks, TickSubmits, Quiet
  <1>5. /\ \A n \in tm_queue_ : n \in Node /\ Tally(n)
        /\ \A d \in Callers : call[d] # NoNode => \A n : n = call[d] => n \in Node /\ Tally(n)
        /\ tick = "check" => \A n : n = s => n \in Node /\ Tally(n)
    BY DEF Tallies, TypeOK, Tally
  <1>6. ASSUME ~SchedulesAny, ~TickChecks, NEW n \in Node, Tally(n) PROVE Tally(n)'
    BY <1>1, <1>4, <1>6 DEF Sends
  <1>7. ASSUME NEW c \in Callers, Push(c), ~SchedulesAny PROVE Tallies'
    <2>1. ~TickChecks
      BY <1>7 DEF Push, TickChecks
    <2>2. /\ tm_queue_' = tm_queue_ \cup {call[c]} /\ call[c] # NoNode
          /\ \A d \in Callers : call'[d] # NoNode => call'[d] = call[d]
          /\ tick' # "check"
      BY <1>7 DEF Push, NotifyTick, TypeOK
    <2>3. \A n \in tm_queue_' : Tally(n)'
      BY <1>5, <1>6, <1>7, <2>1, <2>2
    <2>4. \A d \in Callers : call'[d] # NoNode => \A n : n = call'[d] => Tally(n)'
      BY <1>5, <1>6, <1>7, <2>1, <2>2
    <2> QED  BY <1>2, <2>2, <2>3, <2>4
  <1>8. CASE TickChecks
    <2>1. s \in Node /\ tick = "check" /\ Tally(s)
      BY <1>8 DEF Tallies, TypeOK, TickChecks
    <2>2. call' = call /\ tick' # "check" /\ asked' = asked
      BY <1>8 DEF TickChecks
    <2>3. \A n \in Node : Tally(n) /\ n.id # s.id => Tally(n)'
      BY <1>1, <2>2 DEF Sends
    <2>4. \A n \in tm_queue_ : Tally(n)'
      BY <1>5, <2>1, <2>3 DEF OneNode
    <2>5. \A d \in Callers : call'[d] # NoNode => \A n : n = call'[d] => Tally(n)'
      BY <1>5, <2>1, <2>2, <2>3 DEF OneNode
    <2>6. ASSUME NEW n \in tm_queue_' \ tm_queue_ PROVE Tally(n)'
      <3>1. Alive /\ Again /\ n = Rescheduled
        BY <1>8, <2>6 DEF TickChecks
      <3>2. PICK i \in Ids : i = s.id
        BY <2>1
      <3>3. /\ n \in Node /\ n.id = i /\ n.kind = s.kind
            /\ n.num = IF s.kind = "repeated" THEN s.num - 1 ELSE s.num
        BY <2>1, <3>1, <3>2, RescheduledFacts
      <3>4. Fired(i) \in Nat /\ Fired(i)' = Fired(i) + 1
        BY <1>8, <3>1, <3>2, FiredSteps DEF Sends
      <3>5. /\ s.kind = asked[i].kind
            /\ s.kind # "period" => Fired(i) + s.num = asked[i].num
        BY <2>1, <3>2 DEF Tally
      <3>6. s.kind = "period" \/ (s.kind = "repeated" /\ s.num > 0)
        BY <3>1 DEF Again
      <3>7. n.kind # "period" => Fired(i)' + n.num = asked'[i].num
        BY <2>1, <2>2, <3>3, <3>4, <3>5, <3>6
      <3> QED  BY <2>2, <3>3, <3>5, <3>7 DEF Tally
    <2> QED  BY <1>2, <2>2, <2>4, <2>5, <2>6
  <1>9. ASSUME TickPops \/ TickSubmits \/ Quiet \/ (\E i \in Ids : Cancel(i)), ~SchedulesAny, ~TickChecks
        PROVE  Tallies'
    <2>1. /\ \A n \in tm_queue_' : n \in tm_queue_
          /\ call' = call
          /\ tick' = "check" => s' \in tm_queue_ \/ (tick = "check" /\ s' = s)
      BY <1>9 DEF TickPops, TickSubmits, Quiet, Cancel, thread, IsTop
    <2>2. \A n \in tm_queue_' : Tally(n)'
      BY <1>5, <1>6, <1>9, <2>1
    <2>3. \A d \in Callers : call'[d] # NoNode => \A n : n = call'[d] => Tally(n)'
      BY <1>5, <1>6, <1>9, <2>1
    <2>4. tick' = "check" => \A n : n = s' => Tally(n)'
      BY <1>5, <1>6, <1>9, <2>1
    <2> QED  BY <1>2, <2>2, <2>3, <2>4
  <1> QED  BY <1>3, <1>7, <1>8, <1>9, Steps

LEMMA RunsOf ==
    ASSUME TypeOK, AskedOnce, NEW i \in Ids, asked[i].kind # "period"
    PROVE  asked[i].num \in Nat /\ Runs(i) = asked[i].num + 1
  BY DEF TypeOK, AskedOnce, Runs, Kinds

(* A node that comes to nothing has run to the end or was cancelled.         *)
LEMMA RunsCountedKept ==
    ASSUME TypeOK, Known, Tallies, AskedOnce, RunsCounted, Next
    PROVE  RunsCounted'
  <1> USE NodeFacts DEF users, submits
  <1>1. \A i \in 0 .. tm_id_ - 1 : i \in Ids
    BY TimerAssumption DEF TimerAssumption, TypeOK, Ids
  <1>2. ASSUME NEW i \in 0 .. tm_id_ - 1, ~Sends(i), asked'[i] = asked[i],
               i \in ids' => i \in ids /\ ((Queued(i) \/ InHand(i)) => (Queued(i) \/ InHand(i))')
        PROVE  /\ asked'[i].kind # "period" => Fired(i)' <= Runs(i)'
               /\ i \in ids' => Queued(i)' \/ InHand(i)' \/ (asked'[i].kind # "period" /\ Fired(i)' = Runs(i)')
    <2>1. Fired(i)' = Fired(i) /\ Runs(i)' = Runs(i)
      BY <1>1, <1>2, FiredSteps DEF Runs
    <2> QED  BY <1>2, <2>1 DEF RunsCounted
  <1>3. ASSUME SchedulesAny PROVE RunsCounted'
    <2> PICK c \in Callers, kind \in Kinds, ms \in Nat, at \in Nat, num \in Nat :
             (kind = "once" => num = 0) /\ Schedule(c, kind, ms, at, num)
      BY <1>3 DEF SchedulesAny
    <2>1. PICK k \in Ids : k = tm_id_
      BY TimerAssumption DEF TimerAssumption, Schedule, TypeOK, Ids
    <2>2. PICK new \in Node : new = [id |-> k, kind |-> kind, ms |-> ms, at |-> at, num |-> num]
      BY DEF Node
    <2>3. /\ call' = [call EXCEPT ![c] = new] /\ call[c] = NoNode /\ new.id = k
          /\ asked' = [asked EXCEPT ![k] = [kind |-> kind, num |-> num]]
          /\ ids' = ids \cup {k} /\ tm_id_' = k + 1
          /\ UNCHANGED <<tm_queue_, tick, s>>
      BY <2>1, <2>2 DEF Schedule, thread
    <2>4. \A j \in Ids : ~Sends(j)
      BY DEF Schedule, thread, Sends, TickChecks
    <2>5. /\ asked'[k].kind # "period" => Fired(k)' <= Runs(k)'
          /\ InHand(k)'
      <3>1. Fired(k) = 0
        BY <2>1 DEF Known, Fired, TypeOK
      <3>2. Fired(k)' = 0
        BY <2>4, <3>1, FiredSteps
      <3>3. asked'[k] = [kind |-> kind, num |-> num]
        BY <2>3 DEF TypeOK
      <3>4. call'[c] = new
        BY <2>3 DEF TypeOK
      <3> QED  BY <2>3, <3>2, <3>3, <3>4 DEF Runs, InHand
    <2>6. ASSUME NEW i \in 0 .. tm_id_ - 1
          PROVE  /\ asked'[i].kind # "period" => Fired(i)' <= Runs(i)'
                 /\ i \in ids' => Queued(i)' \/ InHand(i)' \/ (asked'[i].kind # "period" /\ Fired(i)' = Runs(i)')
      <3>1. i # k /\ i \in Ids
        BY <1>1, <2>1
      <3>2. asked'[i] = asked[i] /\ (i \in ids' => i \in ids)
        BY <2>3, <3>1 DEF TypeOK
      <3>3. Queued(i) => Queued(i)'
        BY <2>3 DEF Queued
      <3>4. InHand(i) => InHand(i)'
        BY <2>3 DEF InHand, TypeOK
      <3> QED  BY <1>2, <2>4, <3>1, <3>2, <3>3, <3>4
    <2>7. ASSUME NEW i \in 0 .. tm_id_' - 1 PROVE i = k \/ i \in 0 .. tm_id_ - 1
      BY <2>1, <2>3
    <2> QED  BY <2>5, <2>6, <2>7 DEF RunsCounted
  <1>4. ASSUME ~SchedulesAny PROVE asked' = asked /\ tm_id_' = tm_id_ /\ ids' \subseteq ids
    BY <1>4, Steps DEF Push, Cancel, TickPops, TickChecks, TickSubmits, Quiet
  <1>5. ASSUME ~SchedulesAny, ~TickChecks,
               \A i \in 0 .. tm_id_ - 1 : Queued(i) \/ InHand(i) => (Queued(i) \/ InHand(i))'
        PROVE  RunsCounted'
    <2>1. \A i \in Ids : ~Sends(i)
      BY <1>5 DEF Sends
    <2> QED  BY <1>1, <1>2, <1>4, <1>5, <2>1 DEF RunsCounted
  <1>6. ASSUME NEW c \in Callers, Push(c), ~SchedulesAny PROVE RunsCounted'
    <2>1. ~TickChecks /\ tick # "check"
      BY <1>6 DEF Push, TickChecks
    <2>2. /\ tm_queue_' = tm_queue_ \cup {call[c]}
          /\ \A d \in Callers : d # c => call'[d] = call[d]
      BY <1>6 DEF Push, TypeOK
    <2>3. ASSUME NEW i \in 0 .. tm_id_ - 1, Queued(i) \/ InHand(i) PROVE Queued(i)' \/ InHand(i)'
      BY <2>1, <2>2, <2>3 DEF Queued, InHand
    <2> QED  BY <1>5, <1>6, <2>1, <2>3
  <1>7. ASSUME NEW j \in Ids, Cancel(j), ~SchedulesAny PROVE RunsCounted'
    <2>1. ~TickChecks
      BY <1>7 DEF Cancel, TickChecks, TypeOK, thread
    <2>2. UNCHANGED <<tm_queue_, call, tick, s>>
      BY <1>7 DEF Cancel, thread
    <2> QED  BY <1>5, <1>7, <2>1, <2>2 DEF Queued, InHand
  <1>8. ASSUME TickPops, ~SchedulesAny PROVE RunsCounted'
    <2>1. ~TickChecks /\ tick # "check"
      BY <1>8 DEF TickPops, TickChecks
    <2>2. tm_queue_' = tm_queue_ \ {s'} /\ tick' = "check" /\ call' = call
      BY <1>8 DEF TickPops
    <2>3. ASSUME NEW i \in 0 .. tm_id_ - 1, Queued(i) \/ InHand(i) PROVE Queued(i)' \/ InHand(i)'
      BY <2>1, <2>2, <2>3 DEF Queued, InHand
    <2> QED  BY <1>5, <1>8, <2>1, <2>3
  <1>9. ASSUME TickSubmits \/ Quiet, ~SchedulesAny, ~TickChecks PROVE RunsCounted'
    <2>1. tm_queue_' = tm_queue_ /\ call' = call /\ (tick = "check" => tick' = "check" /\ s' = s)
      BY <1>9 DEF TickSubmits, Quiet
    <2> QED  BY <1>5, <1>9, <2>1 DEF Queued, InHand
  <1>10. ASSUME TickChecks, ~SchedulesAny PROVE RunsCounted'
    <2>1. s \in Node /\ tick = "check" /\ Tally(s)
      BY <1>10 DEF Tallies, TypeOK, TickChecks
    <2>2. call' = call /\ ids' = ids /\ tm_queue_ \subseteq tm_queue_'
      BY <1>10 DEF TickChecks
    <2>3. ASSUME NEW i \in 0 .. tm_id_ - 1, Sends(i)
          PROVE  /\ asked'[i].kind # "period" => Fired(i)' <= Runs(i)'
                 /\ Queued(i)' \/ InHand(i)' \/ (asked'[i].kind # "period" /\ Fired(i)' = Runs(i)')
      <3>1. i \in Ids /\ i = s.id /\ Alive
        BY <1>1, <2>3 DEF Sends
      <3>2. Fired(i) \in Nat /\ Fired(i)' = Fired(i) + 1 /\ Runs(i)' = Runs(i)
        BY <1>4, <1>10, <2>3, <3>1, FiredSteps DEF Runs
      <3>3. /\ s.kind = asked[i].kind
            /\ s.kind # "period" => Fired(i) + s.num = asked[i].num
        BY <2>1, <3>1 DEF Tally
      <3>4. s.kind # "period" => Fired(i)' <= Runs(i)'
        BY <2>1, <3>1, <3>2, <3>3, RunsOf
      <3>5. CASE Again
        <4>1. PICK n \in tm_queue_' : n = Rescheduled
          BY <1>10, <3>1, <3>5 DEF TickChecks
        <4>2. n.id = i
          BY <2>1, <3>1, <3>5, <4>1, RescheduledFacts
        <4>3. Queued(i)'
          BY <4>1, <4>2 DEF Queued
        <4> QED  BY <1>4, <1>10, <3>3, <3>4, <4>3
      <3>6. CASE ~Again
        <4>1. s.kind # "period" /\ s.num = 0
          BY <2>1, <3>1, <3>2, <3>3, <3>6 DEF Again, AskedOnce, TypeOK, Kinds
        <4>2. Fired(i)' = Runs(i)'
          BY <3>1, <3>2, <3>3, <4>1, RunsOf
        <4> QED  BY <1>4, <1>10, <3>3, <3>4, <4>1, <4>2
      <3> QED  BY <3>5, <3>6
    <2>4. ASSUME NEW i \in 0 .. tm_id_ - 1, ~Sends(i)
          PROVE  i \in ids' => i \in ids /\ ((Queued(i) \/ InHand(i)) => (Queued(i) \/ InHand(i))')
      <3> SUFFICES ASSUME i \in ids, Queued(i) \/ InHand(i) PROVE Queued(i)' \/ InHand(i)'
        BY <2>2
      <3>1. s.id # i
        BY <1>10, <2>4 DEF Sends, Alive
      <3> QED  BY <2>2, <3>1 DEF Queued, InHand
    <2>5. \A i \in 0 .. tm_id_ - 1 : ~Sends(i) =>
            /\ asked'[i].kind # "period" => Fired(i)' <= Runs(i)'
            /\ i \in ids' => Queued(i)' \/ InHand(i)' \/ (asked'[i].kind # "period" /\ Fired(i)' = Runs(i)')
      BY <1>2, <1>4, <1>10, <2>4
    <2> QED  BY <1>4, <1>10, <2>3, <2>5 DEF RunsCounted
  <1> QED  BY <1>3, <1>6, <1>7, <1>8, <1>9, <1>10, Steps

(* Only a tick thread that had found the id comes after cancel, and it does  *)
(* not find it again.                                                        *)
LEMMA CancelKept ==
    ASSUME TypeOK, Known, LastRun, CancelStops, Next
    PROVE  LastRun' /\ CancelStops'
  <1> USE NodeFacts DEF TypeOK, users, submits
  <1>1. ASSUME SchedulesAny PROVE LastRun' /\ CancelStops'
    <2> PICK c \in Callers, kind \in Kinds, ms \in Nat, at \in Nat, num \in Nat :
             Schedule(c, kind, ms, at, num)
      BY <1>1 DEF SchedulesAny
    <2>1. /\ ids' = ids \cup {tm_id_} /\ UNCHANGED <<tick, s, late>>
          /\ \A i \in Ids : i = tm_id_ => late[i] = 0
      BY DEF Schedule, thread, Known
    <2> QED  BY <2>1 DEF LastRun, CancelStops
  <1>2. ASSUME NEW c \in Callers, Push(c) PROVE LastRun' /\ CancelStops'
    BY <1>2 DEF Push, NotifyTick, LastRun, CancelStops
  <1>3. ASSUME NEW i \in Ids, Cancel(i) PROVE LastRun' /\ CancelStops'
    BY <1>3 DEF Cancel, thread, LastRun, CancelStops
  <1>4. CASE TickPops
    BY <1>4 DEF TickPops, LastRun, CancelStops
  <1>5. CASE TickChecks
    BY <1>5 DEF TickChecks, Alive, LastRun, CancelStops
  <1>6. CASE TickSubmits
    BY <1>6 DEF TickSubmits, LastRun, CancelStops
  <1>7. CASE Quiet
    BY <1>7 DEF Quiet, LastRun, CancelStops
  <1> QED  BY <1>1, <1>2, <1>3, <1>4, <1>5, <1>6, <1>7, Steps

-----------------------------------------------------------------------------
LEMMA Initially == Init => IInv
  <1> USE TimerAssumption DEF TimerAssumption
  <1> SUFFICES ASSUME Init PROVE IInv
    OBVIOUS
  <1>1. TypeOK
    BY DEF Init, TypeOK, Kinds, NoNode, Ids
  <1>2. Known /\ OneNode /\ Tallies /\ AskedOnce /\ LastRun /\ PoppedDue
    BY DEF Init, Known, OneNode, Tallies, AskedOnce, LastRun, PoppedDue, Ids
  <1>3. NoOversleep /\ SleepsSoon /\ RunsCounted /\ CancelStops
    BY DEF Init, NoOversleep, SleepsSoon, RunsCounted, CancelStops, Ids
  <1> QED  BY <1>1, <1>2, <1>3 DEF IInv

LEMMA Stutters == ASSUME IInv, UNCHANGED vars PROVE IInv'
  BY DEF IInv, vars, users, thread, submits, TypeOK, NoOversleep, RunsCounted, CancelStops, Known,
         OneNode, Tallies, AskedOnce, LastRun, PoppedDue, SleepsSoon, timing, Queued, InHand, Fired, Runs, Tally, Due

(* Together the parts are inductive: ids are known, have one node, which     *)
(* counts down, and a cancelled timer is sent at most once more.             *)
THEOREM Invariance == Spec => []IInv
  <1>1. ASSUME IInv, [Next]_vars PROVE IInv'
    <2>1. CASE Next
      BY <1>1, <2>1, TypesKept, SleepKept, RunsCountedKept, CancelKept, KnownKept, OneNodeKept,
         TalliesKept, AskedKept, PoppedDueKept DEF IInv
    <2> QED  BY <1>1, <2>1, Stutters
  <1> QED  BY <1>1, Initially, PTL DEF Spec

(* The tick thread sleeps past a node by no more than it was held up between *)
(* reading the clock and waiting (timer.h 118 and 120).                      *)
THEOREM SleepsInTime == Spec => []NoOversleep
  BY Invariance, PTL DEF IInv

(* A timer runs once, a repeated one no more than once and its repetitions;  *)
(* none is forgotten, and cancel lets at most one more run through.          *)
THEOREM RunsAddUp == Spec => []RunsAccounted
  <1>1. IInv => RunsAccounted
    BY DEF IInv, RunsAccounted
  <1> QED  BY <1>1, Invariance, PTL

(* A timer that repeats keeps its distance, however late the tick thread.    *)
THEOREM KeepsDistance == Spec => Spaced
  <1>1. ASSUME IInv, [Next]_vars, tick = "check", NEW n \in tm_queue_' \ tm_queue_
        PROVE  n.at > s.at + s.ms * Grain - Grain
    <2>1. TickChecks
      <3>1. CASE Next
        BY <1>1, <3>1, Steps DEF IInv, SchedulesAny, Schedule, Push, Cancel, TickPops, TickSubmits, Quiet
      <3> QED  BY <1>1, <3>1 DEF vars
    <2>2. Again /\ n = Rescheduled
      BY <1>1, <2>1 DEF TickChecks
    <2>3. n.at = now + s.ms * Grain
      BY <1>1, <2>2, RescheduledFacts DEF IInv, After
    <2>4. s \in Node /\ now \in Nat /\ Grain \in Nat /\ s.at - now < Grain
      BY <1>1, TimerAssumption DEF TimerAssumption, IInv, TypeOK, PoppedDue, Due
    <2>5. \A p \in Nat : now + p > s.at + p - Grain
      BY <2>4, NodeFacts
    <2>6. s.ms * Grain \in Nat
      BY <2>4, NodeFacts, Products
    <2> QED  BY <2>3, <2>5, <2>6
  <1>2. IInv /\ [Next]_vars => [tick = "check" =>
             \A n \in tm_queue_' \ tm_queue_ : n.at > s.at + s.ms * Grain - Grain]_vars
    BY <1>1
  <1> QED  BY <1>2, Invariance, PTL DEF Spec, Spaced
=============================================================================
