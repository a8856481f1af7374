------------------------------- MODULE Timer -------------------------------
(***************************************************************************)
(* Timer of timer/timer.h: threads schedule callbacks once, periodically   *)
(* or a number of times, and cancel them; a tick thread pops the nodes     *)
(* that are due from a priority queue and hands their callbacks to a       *)
(* ThreadPool, here the counter fires (ThreadPool specifies the rest).     *)
(* tm_mutex_ is held through each action on tm_queue_, and by the tick     *)
(* thread while tick is "sleep" or "check".                                *)
(***************************************************************************)
EXTENDS Integers, FiniteSets

CONSTANTS Callers,
          Millis, Points, Repeats,  \* arguments: periods in ms, times, counts
          Grain,                    \* clock ticks in a millisecond
          MaxTimers, MaxTime        \* bounds on timers made and on the clock

ASSUME TimerAssumption == /\ Millis \subseteq Nat /\ Points \subseteq Nat
                          /\ Repeats \subseteq Nat
                          /\ Grain \in Nat \ {0}
                          /\ MaxTimers \in Nat /\ MaxTime \in Nat

VARIABLES now,              \* high_resolution_clock, in ticks
          tm_queue_,        \* the nodes in the priority queue
          tm_running_, tm_id_,
          ids,              \* the keys of tm_id_state_map_
          call,             \* the node each caller is about to push
          tick,             \* where the tick thread is
          s,                \* its local copy of a node
          diff,             \* how far off the first node was when it read the clock
          deadline,         \* of its wait of that length
          lag,              \* what passed between the two (history)
          main,             \* the thread that destroys the timer
          asked,            \* what was asked for each id (history)
          fires, late       \* submissions of each id, and those made after
                            \* cancel(id) had returned (history)

users == <<tm_id_, call, asked>>
timing == <<diff, deadline, lag>>
thread == <<tick, s, timing>>
submits == <<fires, late>>
vars == <<now, tm_queue_, tm_running_, ids, users, thread, main, submits>>

Ids == 0 .. MaxTimers - 1
Kinds == {"once", "period", "repeated"}
Node == [id : Ids, kind : Kinds, ms : Nat, at : Nat, num : Nat]
NoNode == [id |-> -1]

Init == /\ now = 0 /\ tm_queue_ = {} /\ tm_running_ = TRUE /\ tm_id_ = 0 /\ ids = {}
        /\ call = [c \in Callers |-> NoNode]
        /\ tick = "loop" /\ s = NoNode /\ diff = 0 /\ deadline = 0 /\ lag = 0
        /\ main = "running"
        /\ asked = [i \in Ids |-> [kind |-> "once", num |-> 0]]
        /\ fires = [i \in Ids |-> 0] /\ late = [i \in Ids |-> 0]

Clock == /\ now < MaxTime
         /\ now' = now + 1
         /\ lag' = IF tick = "sleep" THEN lag + 1 ELSE lag
         /\ UNCHANGED <<tm_queue_, tm_running_, ids, users, tick, s, diff, deadline, main, submits>>
-----------------------------------------------------------------------------
(* runAfter, runAt, runRepeated: the id and the due time come before the lock *)

Schedule(c, kind, ms, at, num) ==
  /\ call[c] = NoNode /\ main = "running" /\ tm_id_ < MaxTimers
  /\ tm_id_' = tm_id_ + 1
  /\ ids' = ids \cup {tm_id_}
  /\ call' = [call EXCEPT ![c] = [id |-> tm_id_, kind |-> kind, ms |-> ms, at |-> at, num |-> num]]
  /\ asked' = [asked EXCEPT ![tm_id_] = [kind |-> kind, num |-> num]]
  /\ UNCHANGED <<now, tm_queue_, tm_running_, thread, main, submits>>

After(ms) == now + ms * Grain

RunAfter(c) == \E ms \in Millis, kind \in {"once", "period"} : Schedule(c, kind, ms, After(ms), 0)
RunAt(c) == \E at \in Points : Schedule(c, "once", 0, at, 0)
RunRepeated(c) == \E ms \in Millis, n \in Repeats : Schedule(c, "repeated", ms, After(ms), n)

NotifyNobody == tick    \* mutant
NotifyTick == IF tick \in {"wait", "timed"} THEN "loop" ELSE tick

Push(c) == /\ call[c] # NoNode
           /\ tick \notin {"sleep", "check"}
           /\ tm_queue_' = tm_queue_ \cup {call[c]}
           /\ tick' = NotifyTick
           /\ call' = [call EXCEPT ![c] = NoNode]
           /\ UNCHANGED <<now, tm_running_, ids, tm_id_, asked, s, timing, main, submits>>

Returned(i) == i < tm_id_ /\ \A c \in Callers : call[c] # NoNode => call[c].id # i

\* The node stays in the queue: only its id is forgotten.
Cancel(i) == /\ Returned(i) /\ i \in ids /\ main = "running"
             /\ ids' = ids \ {i}
             /\ UNCHANGED <<now, tm_queue_, tm_running_, users, thread, main, submits>>
-----------------------------------------------------------------------------
(* runLocal *)

TickForever == /\ tick = "loop" /\ tick' = "look"    \* mutant
               /\ UNCHANGED <<now, tm_queue_, tm_running_, ids, users, s, timing, main, submits>>
\* The variables of the last turn are gone.
TickTests == /\ tick = "loop"
             /\ tick' = IF tm_running_ THEN "look" ELSE "exited"
             /\ diff' = 0 /\ deadline' = 0 /\ lag' = 0
             /\ UNCHANGED <<now, tm_queue_, tm_running_, ids, users, s, main, submits>>

IsTop(n) == n \in tm_queue_ /\ \A m \in tm_queue_ : n.at <= m.at

\* duration_cast<milliseconds>(n.tm_point - now).count() > 0
Due(n) == n.at - now < Grain

TickWaits == /\ tick = "look" /\ tm_queue_ = {}
             /\ tick' = "wait"
             /\ UNCHANGED <<now, tm_queue_, tm_running_, ids, users, s, timing, main, submits>>

\* The clock is read; wait_for(lock, diff) counts from a later moment.
TickReads == /\ tick = "look"
             /\ \E n \in tm_queue_ : IsTop(n) /\ ~Due(n) /\ diff' = n.at - now
             /\ tick' = "sleep"
             /\ UNCHANGED <<now, tm_queue_, tm_running_, ids, users, s, deadline, lag, main, submits>>

TickWaitsFor == /\ tick = "sleep"
                /\ deadline' = now + diff
                /\ tick' = "timed"
                /\ UNCHANGED <<now, tm_queue_, tm_running_, ids, users, s, diff, lag, main, submits>>

TickPops == /\ tick = "look"
            /\ \E n \in tm_queue_ : IsTop(n) /\ Due(n) /\ s' = n
            /\ tm_queue_' = tm_queue_ \ {s'}
            /\ tick' = "check"
            /\ UNCHANGED <<now, tm_running_, ids, users, timing, main, submits>>

CancelUnseen == TRUE    \* mutant
Alive == s.id \in ids

Again == s.kind = "period" \/ (s.kind = "repeated" /\ s.num > 0)

SameTime == [s EXCEPT !.at = s.at]    \* mutant
Rescheduled == [s EXCEPT !.at = After(s.ms), !.num = IF s.kind = "repeated" THEN @ - 1 ELSE @]

\* Dropped when cancelled, else pushed again if it repeats; then unlock.
TickChecks == /\ tick = "check"
              /\ IF Alive
                 THEN /\ tick' = "submit" /\ UNCHANGED s
                      /\ tm_queue_' = IF Again THEN tm_queue_ \cup {Rescheduled} ELSE tm_queue_
                 ELSE tick' = "loop" /\ s' = NoNode /\ UNCHANGED tm_queue_
              /\ UNCHANGED <<now, tm_running_, ids, users, timing, main, submits>>

\* tm_thread_pool_.submit(s.callback), without a lock.
TickSubmits == /\ tick = "submit"
               /\ fires' = [fires EXCEPT ![s.id] = @ + 1]
               /\ late' = [late EXCEPT ![s.id] = IF s.id \in ids THEN @ ELSE @ + 1]
               /\ tick' = "loop" /\ s' = NoNode
               /\ UNCHANGED <<now, tm_queue_, tm_running_, ids, users, timing, main>>

TimesOut == /\ tick = "timed" /\ now >= deadline
            /\ tick' = "loop"
            /\ UNCHANGED <<now, tm_queue_, tm_running_, ids, users, s, timing, main, submits>>

SpuriousWake == /\ tick \in {"wait", "timed"}
                /\ tick' = "loop"
                /\ UNCHANGED <<now, tm_queue_, tm_running_, ids, users, s, timing, main, submits>>
-----------------------------------------------------------------------------
(* ~Timer, when no other thread uses the timer any more *)

Stop == /\ main = "running" /\ \A c \in Callers : call[c] = NoNode
        /\ tm_running_' = FALSE
        /\ main' = "stopping"
        /\ UNCHANGED <<now, tm_queue_, ids, users, thread, submits>>

StopNotifies == /\ main = "stopping"
                /\ tick' = NotifyTick
                /\ main' = "joining"
                /\ UNCHANGED <<now, tm_queue_, tm_running_, ids, users, s, timing, submits>>

Join == /\ main = "joining" /\ tick = "exited"
        /\ main' = "done"
        /\ UNCHANGED <<now, tm_queue_, tm_running_, ids, users, thread, submits>>

User(c) == RunAfter(c) \/ RunAt(c) \/ RunRepeated(c) \/ Push(c)
RunLocal == \/ TickTests \/ TickWaits \/ TickReads \/ TickWaitsFor \/ TimesOut
            \/ TickPops \/ TickChecks \/ TickSubmits
Destroy == StopNotifies \/ Join

Next == \/ Clock \/ RunLocal \/ SpuriousWake \/ Stop \/ Destroy
        \/ \E c \in Callers : User(c)
        \/ \E i \in Ids : Cancel(i)

Spec == Init /\ [][Next]_vars

\* The tick thread runs whenever it can, and a destructor once begun runs on.
FairSpec == Spec /\ WF_vars(RunLocal) /\ WF_vars(Destroy)
-----------------------------------------------------------------------------
TypeOK == /\ now \in 0 .. MaxTime /\ tm_queue_ \subseteq Node
          /\ tm_running_ \in BOOLEAN /\ tm_id_ \in 0 .. MaxTimers
          /\ ids \subseteq Ids
          /\ call \in [Callers -> Node \cup {NoNode}]
          /\ tick \in {"loop", "look", "wait", "sleep", "timed", "check", "submit", "exited"}
          /\ s \in Node \cup {NoNode} /\ (tick \in {"check", "submit"} <=> s # NoNode)
          /\ diff \in Nat /\ deadline \in Nat /\ lag \in Nat
          /\ main \in {"running", "stopping", "joining", "done"}
          /\ asked \in [Ids -> [kind : Kinds, num : Nat]]
          /\ fires \in [Ids -> Nat] /\ late \in [Ids -> Nat]

(* The tick thread sleeps past a node by no more than it was held up between *)
(* reading the clock and waiting (timer.h 118 and 120), and without a limit  *)
(* only on an empty queue, though nodes are pushed and their times fixed     *)
(* outside its critical sections.                                            *)
NoOversleep == /\ tick = "wait" => tm_queue_ = {}
               /\ tick = "timed" => \A n \in tm_queue_ : deadline <= n.at + lag

Queued(i) == \E n \in tm_queue_ : n.id = i
InHand(i) == (\E c \in Callers : call[c] # NoNode /\ call[c].id = i) \/ (tick = "check" /\ s.id = i)
Fired(i) == fires[i] + (IF tick = "submit" /\ s.id = i THEN 1 ELSE 0)

\* The first run of a repeated timer does not count (timer.h 130).
Runs(i) == IF asked[i].kind = "repeated" THEN asked[i].num + 1 ELSE 1

(* Whatever is scheduled or cancelled meanwhile, no run comes twice: a timer *)
(* runs once, a repeated one no more than once and its number of repetitions *)
(* (by the test one too many: RepeatsAsAsked); and a timer that nobody       *)
(* cancelled is not forgotten: it waits its turn or has run to the end.      *)
RunsCounted == \A i \in 0 .. tm_id_ - 1 :
  /\ asked[i].kind # "period" => Fired(i) <= Runs(i)
  /\ i \in ids => Queued(i) \/ InHand(i) \/ (asked[i].kind # "period" /\ Fired(i) = Runs(i))

(* What test_timer.cpp 16 prints, as many runs as were asked for with the    *)
(* number that is left counted down to 0: this the code does not keep.       *)
RepeatsAsAsked == \A i \in Ids : asked[i].kind = "repeated" => fires[i] <= asked[i].num

(* Once cancel has returned, the callback is submitted at most once more:    *)
(* by a tick thread that had looked its id up already (timer.h 125).         *)
CancelStops == \A i \in Ids : late[i] <= 1

(* No timer is run twice for one time, forgotten or run on after a cancel.   *)
RunsAccounted == TypeOK /\ RunsCounted /\ CancelStops

(* A timer that repeats is due again no sooner than its period after it was. *)
Spaced == [][ tick = "check" =>
               \A n \in tm_queue_' \ tm_queue_ : n.at > s.at + s.ms * Grain - Grain ]_vars

(* The destructor returns when its notification finds the tick thread        *)
(* asleep, or on its way to test tm_running_; a tick thread between the test *)
(* and the wait is missed (timer.h 41-42 do not hold tm_mutex_).             *)
DestructorReturns == (main = "joining" /\ tick \in {"loop", "check", "submit"}) ~> main = "done"
=============================================================================
