------------------------------- MODULE Logger -------------------------------
(***************************************************************************)
(* Logger of log/log.h and log.cpp after a successful init(): threads call *)
(* writeLog, which rotates the file, formats the line and either writes it *)
(* (synchronous mode) or pushes it on buffer_queue_ for the writer thread. *)
(* The queue is the bounded FIFO that BufferQueue is proved to implement;  *)
(* its single reader waits on it as BufferQueue::pop does.  Every critical *)
(* section of mtx_ is one action, so mtx_ itself is not a variable.        *)
(***************************************************************************)
EXTENDS Integers, Sequences, FiniteSets

CONSTANTS Producers, Lines,      \* the threads that log, and how much each
          Sizes,                 \* buffer_queue_size; 0 is synchronous mode
          split_lines_,
          PushReply,             \* what push may return after storing
          MaxOdd                 \* bound on odd events: midnights, pushes that
                                 \* deny what they stored, spurious wakeups

ASSUME LoggerAssumption == /\ IsFiniteSet(Producers)
                           /\ Lines \in Nat /\ Sizes \subseteq Nat
                           /\ split_lines_ \in Nat \ {0}
                           /\ PushReply \subseteq BOOLEAN /\ PushReply # {}
                           /\ MaxOdd \in Nat

VARIABLES count_, today_,
          fp_,              \* the open file: its day and number
          is_thread_stop_,
          queue,            \* the lines in buffer_queue_
          day,              \* the calendar
          pc, sent, stamp,  \* of each producer: place, lines begun, day it read
          writer, held,     \* the writer thread and the line it has popped
          main,             \* the thread that runs the destructor
          written,          \* [line, file] in the order of fputs (history)
          lost,             \* lines popped and thrown away (history)
          capacity,         \* the size the logger was made with
          dups, spurious    \* for the bounds

file == <<count_, today_, fp_>>
prod == <<pc, sent, stamp>>
wr == <<writer, held, written, lost>>
bounds == <<capacity, dups, spurious>>
vars == <<file, is_thread_stop_, queue, day, prod, wr, main, bounds>>

Async == capacity >= 1
NoLine == <<>>

Init == /\ capacity \in Sizes
        /\ count_ = 0 /\ today_ = 0 /\ fp_ = [day |-> 0, no |-> 0]
        /\ is_thread_stop_ = FALSE /\ queue = << >> /\ day = 0
        /\ pc = [p \in Producers |-> "idle"]
        /\ sent = [p \in Producers |-> 0]
        /\ stamp = [p \in Producers |-> 0]
        /\ writer = (IF Async THEN "pop" ELSE "exited") /\ held = NoLine
        /\ main = "running"
        /\ written = << >> /\ lost = {} /\ dups = 0 /\ spurious = 0

MayBeOdd == day + dups + spurious < MaxOdd

Midnight == /\ MayBeOdd
            /\ day' = day + 1
            /\ UNCHANGED <<file, is_thread_stop_, queue, prod, wr, main, bounds>>
-----------------------------------------------------------------------------
(* writeLog *)

\* getCurrentSysTime() comes before the lock.
Stamp(p) == /\ pc[p] = "idle" /\ sent[p] < Lines
            /\ main = "running"
            /\ pc' = [pc EXCEPT ![p] = "stamped"]
            /\ sent' = [sent EXCEPT ![p] = @ + 1]
            /\ stamp' = [stamp EXCEPT ![p] = day]
            /\ UNCHANGED <<file, is_thread_stop_, queue, day, wr, main, bounds>>

CountForgotten == count_    \* mutant
Count == count_ + 1
Restart == 0
NewDay(p) == today_ # stamp[p]

\* Count the line, rotate on a new day or after split_lines_ lines, format.
Rotated(p, n) == /\ pc[p] = "stamped"
                 /\ pc' = [pc EXCEPT ![p] = "emit"]
                 /\ IF NewDay(p)
                    THEN count_' = Restart /\ today_' = stamp[p] /\ fp_' = [day |-> stamp[p], no |-> 0]
                    ELSE /\ count_' = n /\ today_' = today_
                         /\ fp_' = IF n % split_lines_ = 0
                                   THEN [day |-> today_, no |-> n \div split_lines_] ELSE fp_
                 /\ UNCHANGED <<is_thread_stop_, queue, day, sent, stamp, wr, main, bounds>>

Rotate(p) == Rotated(p, Count)

Line(p) == <<p, sent[p]>>
Record(l) == [line |-> l, in |-> fp_]

WriteSync(p) == /\ pc[p] = "emit" /\ ~Async
                /\ written' = Append(written, Record(Line(p)))
                /\ pc' = [pc EXCEPT ![p] = "idle"]
                /\ UNCHANGED <<file, is_thread_stop_, queue, day, sent, stamp, writer, held, lost, main, bounds>>

WakeNobody == writer' = writer    \* mutant
WakeWriter == writer' = IF writer = "waiting" THEN "woken" ELSE writer

Room == Len(queue) < capacity

\* push stored the line; when it says false all the same, the loop of
\* writeLog pushes the line once more, unless the logger is stopping.
Store(p) == /\ pc[p] = "emit" /\ Async
            /\ Room
            /\ queue' = Append(queue, Line(p))
            /\ WakeWriter
            /\ \E ok \in PushReply :
                 IF ok \/ is_thread_stop_
                 THEN pc' = [pc EXCEPT ![p] = "idle"] /\ UNCHANGED dups
                 ELSE MayBeOdd /\ dups' = dups + 1 /\ UNCHANGED pc
            /\ UNCHANGED <<file, is_thread_stop_, day, sent, stamp, held, written, lost, main, capacity, spurious>>

\* push found the queue full: try again, or give the line up when stopping.
Refused(p) == /\ pc[p] = "emit" /\ Async
              /\ ~Room
              /\ WakeWriter
              /\ pc' = IF is_thread_stop_ THEN [pc EXCEPT ![p] = "idle"] ELSE pc
              /\ UNCHANGED <<file, is_thread_stop_, queue, day, sent, stamp, held, written, lost, main, bounds>>
-----------------------------------------------------------------------------
(* asyncWrite: while (pop(line) && !is_thread_stop_) { lock; fputs } *)

PopNewest == /\ queue # << >>    \* mutant
             /\ held' = queue[Len(queue)]
             /\ queue' = SubSeq(queue, 1, Len(queue) - 1)
             /\ writer' = "got"
PopLine == /\ queue # << >>
           /\ held' = Head(queue)
           /\ queue' = Tail(queue)
           /\ writer' = "got"

WriterPops == /\ writer = "pop"
              /\ IF queue # << >> THEN PopLine
                                  ELSE writer' = "waiting" /\ UNCHANGED <<queue, held>>
              /\ UNCHANGED <<file, is_thread_stop_, day, prod, written, lost, main, bounds>>

\* pop tests the queue once more after the wait; empty, it returns false and
\* ends the loop.
WriterWakes == /\ writer = "woken"
               /\ PopLine \/ (queue = << >> /\ writer' = "exited" /\ UNCHANGED <<queue, held>>)
               /\ UNCHANGED <<file, is_thread_stop_, day, prod, written, lost, main, bounds>>


\* The stop flag is read after the line has left the queue.
WriterChecks == /\ writer = "got"
                /\ IF is_thread_stop_
                   THEN writer' = "exited" /\ lost' = lost \cup {held} /\ held' = NoLine
                   ELSE writer' = "write" /\ UNCHANGED <<lost, held>>
                /\ UNCHANGED <<file, is_thread_stop_, queue, day, prod, written, main, bounds>>

WriterPuts == /\ writer = "write"
              /\ written' = Append(written, Record(held))
              /\ held' = NoLine
              /\ writer' = "pop"
              /\ UNCHANGED <<file, is_thread_stop_, queue, day, prod, lost, main, bounds>>

SpuriousWake == /\ writer = "waiting" /\ MayBeOdd
                /\ writer' = "woken"
                /\ spurious' = spurious + 1
                /\ UNCHANGED <<file, is_thread_stop_, queue, day, prod, held, written, lost, main, capacity, dups>>
-----------------------------------------------------------------------------
(* ~Logger, at exit, after the logging threads were joined, however much they logged. *)

Stop == /\ main = "running"
        /\ \A p \in Producers : pc[p] = "idle"
        /\ is_thread_stop_' = TRUE
        /\ main' = "stopping"
        /\ UNCHANGED <<file, queue, day, prod, wr, bounds>>

NotifyWriter == /\ main = "stopping"
                /\ WakeWriter
                /\ main' = "joining"
                /\ UNCHANGED <<file, is_thread_stop_, queue, day, prod, held, written, lost, bounds>>

Join == /\ main = "joining" /\ writer = "exited"
        /\ main' = "done"
        /\ UNCHANGED <<file, is_thread_stop_, queue, day, prod, wr, bounds>>

Logs(p) == Rotate(p) \/ WriteSync(p) \/ Store(p)
WriteLog(p) == Stamp(p) \/ Logs(p)
AsyncWrite == WriterPops \/ WriterWakes \/ WriterChecks \/ WriterPuts
Returns == NotifyWriter \/ Join
Destroy == Stop \/ Returns

Next == \/ Midnight \/ SpuriousWake \/ AsyncWrite \/ Destroy
        \/ \E p \in Producers : WriteLog(p) \/ Refused(p)

Spec == Init /\ [][Next]_vars

\* Threads that are in a call run on; nobody has to log, nor the program to end.
FairSpec == /\ Spec /\ WF_vars(AsyncWrite) /\ WF_vars(Returns)
            /\ \A p \in Producers : WF_vars(Logs(p))
-----------------------------------------------------------------------------
AllLines == Producers \X (1 .. Lines)

TypeOK == /\ count_ \in Nat /\ today_ \in 0 .. MaxOdd
          /\ fp_ \in [day : 0 .. MaxOdd, no : Nat]
          /\ is_thread_stop_ \in BOOLEAN /\ day \in 0 .. MaxOdd
          /\ queue \in Seq(AllLines) /\ Len(queue) <= capacity /\ capacity \in Sizes
          /\ pc \in [Producers -> {"idle", "stamped", "emit"}]
          /\ sent \in [Producers -> 0 .. Lines] /\ stamp \in [Producers -> 0 .. MaxOdd]
          /\ writer \in {"pop", "waiting", "woken", "got", "write", "exited"}
          /\ held \in AllLines \cup {NoLine}
          /\ main \in {"running", "stopping", "joining", "done"}
          /\ written \in Seq([line : AllLines, in : [day : 0 .. MaxOdd, no : Nat]])
          /\ lost \in SUBSET AllLines /\ dups \in 0 .. MaxOdd /\ spurious \in 0 .. MaxOdd

\* Every line that was handed over and not thrown away, oldest first.
Stream == [i \in 1 .. Len(written) |-> written[i].line]
          \o (IF held = NoLine THEN << >> ELSE <<held>>) \o queue

Handed(p) == IF pc[p] = "idle" THEN sent[p] ELSE sent[p] - 1

(* The lines of a thread reach the files in the order it logged them,       *)
(* repeated at worst, and none is skipped: until the logger is destroyed    *)
(* every line handed over is in a file, with the writer or in the queue.    *)
LinesInOrder ==
  \A p \in Producers :
    /\ \A i, j \in 1 .. Len(Stream) : i < j /\ Stream[i][1] = p /\ Stream[j][1] = p
                                        => Stream[i][2] <= Stream[j][2]
    /\ \A n \in 1 .. Handed(p) : \/ \E i \in 1 .. Len(Stream) : Stream[i] = <<p, n>>
                                 \/ <<p, n>> \in lost /\ is_thread_stop_

InFile(f) == Cardinality({i \in 1 .. Len(written) : written[i].in = f})
Files == {written[i].in : i \in 1 .. Len(written)}

(* Rotation bounds the files.  Lines are counted before they are written,   *)
(* so those that were still on their way may overshoot split_lines_: one    *)
(* per other thread, and what the queue and the writer hold.                *)
FileSize == day = 0 /\ dups = 0 =>
  \A f \in Files : InFile(f) <= split_lines_ + Cardinality(Producers) - 1
                                  + (IF Async THEN capacity + 1 ELSE 0)

\* Before the logger stops, only a wait that ended for no reason ends the writer.
Died == writer = "exited" /\ spurious > 0

(* A line in the queue is written in the end, unless the logger stops or a   *)
(* spurious wakeup has ended the writer (log.h 51).                          *)
QueueDrains ==
  \A l \in AllLines : (\E i \in 1 .. Len(queue) : queue[i] = l) ~>
     (\E i \in 1 .. Len(written) : written[i].line = l) \/ is_thread_stop_ \/ Died

(* writeLog, which pushes until there is room, returns, unless the writer    *)
(* has died and nobody makes room any more.                                  *)
CallsReturn == \A p \in Producers : pc[p] = "emit" ~> pc[p] = "idle" \/ Died

(* The destructor returns if it finds the writer waiting, or when it has     *)
(* notified one that was woken or will find a line; a writer on its way into *)
(* the wait misses the notification (log.cpp 40-43 do not hold the queue's   *)
(* mutex).                                                                   *)
DestructorReturns ==
  (\/ main = "stopping" /\ writer = "waiting"
   \/ main = "joining" /\ (writer \in {"woken", "got"} \/ (writer = "pop" /\ queue # << >>)))
  ~> main = "done"

(* The writer drains its queue, and lets calls and the destructor return.    *)
WriterEnds == QueueDrains /\ CallsReturn /\ DestructorReturns
=============================================================================
