---------------------------- MODULE LoggerProofs ----------------------------
(***************************************************************************)
(* The logger for any threads, sizes of the queue, lines and rotations:    *)
(* the lines of a thread stay in order and none is skipped, and a file     *)
(* outgrows split_lines_ by no more than what can be on its way.           *)
(***************************************************************************)
EXTENDS Logger, FiniteSetTheorems, SequenceTheorems, TLAPS

\* Where the writer is, and when the logger stops.
Phases == /\ is_thread_stop_ <=> main # "running"
          /\ is_thread_stop_ => \A p \in Producers : pc[p] = "idle"
          /\ held # NoLine <=> writer \in {"got", "write"}
          /\ ~Async => queue = << >> /\ writer = "exited"
          /\ lost # {} => is_thread_stop_

\* A line that is stamped was begun.
Started == \A p \in Producers : pc[p] # "idle" => 1 <= sent[p]

\* Nobody is ahead of the calendar.
Days == /\ \A p \in Producers : stamp[p] <= day
        /\ today_ <= day /\ fp_.day <= day
        /\ \A i \in 1 .. Len(written) : written[i].in.day <= day

\* No line of a thread comes after a later one of it, nor before it was begun.
InOrder(s) == \A i, j \in 1 .. Len(s) : i < j /\ s[i][1] = s[j][1] => s[i][2] <= s[j][2]
Begun == \A i \in 1 .. Len(Stream) : Stream[i][2] <= sent[Stream[i][1]]
NoneSkipped ==
  \A p \in Producers : \A n \in 1 .. Handed(p) :
    (\E i \in 1 .. Len(Stream) : Stream[i] = <<p, n>>) \/ (<<p, n>> \in lost /\ is_thread_stop_)

\* The lines that are counted and not yet written.
Emitting == {p \in Producers : pc[p] = "emit"}
InHand == IF held = NoLine THEN 0 ELSE 1
OnTheWay == Cardinality(Emitting) + Len(queue) + InHand
Most == Cardinality(Producers) + (IF Async THEN capacity + 1 ELSE 0)

\* Until a day passes or a line is pushed twice or the logger stops, count_
\* counts the lines written and on their way, ...
Accounted == day = 0 /\ dups = 0 =>
               /\ Len(written) + OnTheWay <= count_
               /\ ~is_thread_stop_ => count_ = Len(written) + OnTheWay

\* ... the open file is the last one and was opened when count_ was a
\* multiple of split_lines_, of which Most at most had not been written, ...
Opened == day = 0 /\ dups = 0 =>
            /\ fp_.no * split_lines_ <= count_ /\ count_ < (fp_.no + 1) * split_lines_
            /\ InFile(fp_) + fp_.no * split_lines_ <= Len(written) + Most
            /\ \A i \in 1 .. Len(written) : written[i].in.no <= fp_.no

\* ... and the closed ones have their size.
Sized == day = 0 /\ dups = 0 =>
           \A f \in Files : f # fp_ => InFile(f) <= split_lines_ + Most - 1

IInv == /\ TypeOK /\ Phases /\ Days /\ Started
        /\ InOrder(Stream) /\ Begun /\ NoneSkipped
        /\ Accounted /\ Opened /\ Sized

-----------------------------------------------------------------------------
(* The stream *)

LEMMA NoLineIsNone == \A l \in AllLines : l # NoLine
  BY DEF AllLines, NoLine

LEMMA Lengths ==
    ASSUME TypeOK
    PROVE  /\ Len(written) \in Nat /\ Len(queue) \in Nat
           /\ \A i \in 1 .. Len(written) : written[i].line \in AllLines
           /\ \A i \in 1 .. Len(queue) : queue[i] \in AllLines
           /\ InHand \in 0 .. 1
  <1>1. written \in Seq([line : AllLines, in : [day : 0 .. MaxOdd, no : Nat]]) /\ queue \in Seq(AllLines)
    BY DEF TypeOK
  <1>2. InHand \in 0 .. 1
    BY DEF InHand
  <1>3. \A i \in 1 .. Len(written) : written[i] \in [line : AllLines, in : [day : 0 .. MaxOdd, no : Nat]]
    BY <1>1, ElementOfSeq
  <1> QED  BY <1>1, <1>2, <1>3

LEMMA FileTypes ==
    ASSUME TypeOK
    PROVE  /\ fp_.day \in Nat /\ fp_.no \in Nat /\ count_ \in Nat /\ split_lines_ \in Nat \ {0}
           /\ fp_.no * split_lines_ \in Nat
           /\ \A i \in 1 .. Len(written) : written[i].in.day \in Nat /\ written[i].in.no \in Nat
  <1>1. /\ fp_.day \in Nat /\ fp_.no \in Nat /\ count_ \in Nat /\ split_lines_ \in Nat \ {0}
    BY LoggerAssumption DEF TypeOK, LoggerAssumption
  <1>2. fp_.no * split_lines_ \in Nat
    BY <1>1
  <1>3. written \in Seq([line : AllLines, in : [day : 0 .. MaxOdd, no : Nat]])
    BY DEF TypeOK
  <1>4. \A i \in 1 .. Len(written) : written[i] \in [line : AllLines, in : [day : 0 .. MaxOdd, no : Nat]]
    BY <1>3, ElementOfSeq
  <1> QED  BY <1>1, <1>2, <1>4, LoggerAssumption DEF LoggerAssumption

\* The stream, by index.
LEMMA StreamIs ==
    ASSUME TypeOK
    PROVE  /\ Stream \in Seq(AllLines)
           /\ Len(Stream) = Len(written) + InHand + Len(queue)
           /\ \A i \in 1 .. Len(Stream) :
                Stream[i] = IF i <= Len(written) THEN written[i].line
                            ELSE IF i <= Len(written) + InHand THEN held
                            ELSE queue[i - (Len(written) + InHand)]
  <1> DEFINE W == [i \in 1 .. Len(written) |-> written[i].line]
             H == IF held = NoLine THEN << >> ELSE <<held>>
  <1>1. W \in Seq(AllLines) /\ Len(W) = Len(written) /\ \A i \in 1 .. Len(written) : W[i] = written[i].line
    BY Lengths
  <1>2. H \in Seq(AllLines) /\ Len(H) = InHand /\ (InHand = 1 => H[1] = held) /\ InHand \in 0 .. 1
    BY DEF TypeOK, InHand
  <1>3. queue \in Seq(AllLines)
    BY DEF TypeOK
  <1>4. Stream = (W \o H) \o queue
    BY DEF Stream
  <1> HIDE DEF W, H
  <1>5. W \o H \in Seq(AllLines) /\ Len(W \o H) = Len(written) + InHand
    BY <1>1, <1>2
  <1>6. \A i \in 1 .. Len(written) + InHand :
          (W \o H)[i] = IF i <= Len(written) THEN written[i].line ELSE held
    BY <1>1, <1>2
  <1>7. Len(queue) \in Nat /\ Stream \in Seq(AllLines) /\ Len(Stream) = Len(written) + InHand + Len(queue)
    BY <1>3, <1>4, <1>5, Lengths
  <1>8. ASSUME NEW i \in 1 .. Len(Stream)
        PROVE  Stream[i] = IF i <= Len(written) THEN written[i].line
                           ELSE IF i <= Len(written) + InHand THEN held
                           ELSE queue[i - (Len(written) + InHand)]
    <2>1. CASE i <= Len(written) + InHand
      BY <1>3, <1>4, <1>5, <1>6, <1>7, <2>1, Lengths
    <2>2. CASE ~ (i <= Len(written) + InHand)
      <3>1. i \in 1 .. Len(W \o H) + Len(queue) /\ i > Len(W \o H)
        BY <1>5, <1>7, <2>2, Lengths
      <3>2. Stream[i] = queue[i - Len(W \o H)]
        BY <1>3, <1>4, <1>5, <3>1, ConcatProperties
      <3> QED  BY <1>5, <2>2, <3>2, Lengths
    <2> QED  BY <2>1, <2>2
  <1> QED  BY <1>7, <1>8

LEMMA StreamIsPrimed ==
    TypeOK' => (/\ Stream \in Seq(AllLines)
                /\ Len(Stream) = Len(written) + InHand + Len(queue)
                /\ \A i \in 1 .. Len(Stream) :
                     Stream[i] = IF i <= Len(written) THEN written[i].line
                                 ELSE IF i <= Len(written) + InHand THEN held
                                 ELSE queue[i - (Len(written) + InHand)])'
  BY StreamIs, PTL

\* Lines move on from the queue to the writer and from it to a file: the
\* stream is what it was.
LEMMA PopKeepsStream ==
    ASSUME TypeOK, TypeOK', held = NoLine, written' = written, PopLine
    PROVE  Stream' = Stream
  <1>1. queue # << >> /\ held' = queue[1] /\ queue' = Tail(queue) /\ queue \in Seq(AllLines)
    BY DEF PopLine, TypeOK
  <1>2. Len(queue) \in Nat \ {0} /\ Len(queue') = Len(queue) - 1
        /\ \A i \in 1 .. Len(queue) - 1 : queue'[i] = queue[i + 1]
    BY <1>1
  <1>3. InHand = 0 /\ InHand' = 1
    BY <1>1, <1>2, NoLineIsNone DEF InHand
  <1>4. Len(Stream') = Len(Stream) /\ Len(written) \in Nat /\ Len(Stream) = Len(written) + Len(queue)
    BY <1>2, <1>3, StreamIs, StreamIsPrimed, Lengths
  <1>5. ASSUME NEW i \in 1 .. Len(Stream) PROVE Stream'[i] = Stream[i]
    <2>1. Stream[i] = IF i <= Len(written) THEN written[i].line ELSE queue[i - Len(written)]
      BY <1>3, <1>4, StreamIs
    <2>2. Stream'[i] = IF i <= Len(written) THEN written[i].line
                       ELSE IF i <= Len(written) + 1 THEN queue[1]
                       ELSE queue'[i - (Len(written) + 1)]
      BY <1>1, <1>3, <1>4, StreamIsPrimed
    <2>3. i > Len(written) + 1 => queue'[i - (Len(written) + 1)] = queue[i - Len(written)]
      BY <1>2, <1>4
    <2> QED  BY <1>4, <2>1, <2>2, <2>3
  <1> QED  BY <1>4, <1>5, StreamIs, StreamIsPrimed, SeqEqual

LEMMA PutKeepsStream ==
    ASSUME TypeOK, TypeOK', held # NoLine, held' = NoLine, queue' = queue,
           written' = Append(written, Record(held))
    PROVE  Stream' = Stream
  <1>1. Len(written) \in Nat /\ Len(written') = Len(written) + 1 /\ Len(queue) \in Nat
        /\ written'[Len(written) + 1].line = held
        /\ \A i \in 1 .. Len(written) : written'[i] = written[i]
    BY SMTT(60) DEF TypeOK, Record
  <1>2. InHand = 1 /\ InHand' = 0
    BY DEF InHand
  <1>3. Len(Stream') = Len(Stream)
    BY <1>1, <1>2, StreamIs, StreamIsPrimed
  <1>4. \A i \in 1 .. Len(Stream) : Stream'[i] = Stream[i]
    BY <1>1, <1>2, <1>3, StreamIs, StreamIsPrimed
  <1> QED  BY <1>3, <1>4, StreamIs, StreamIsPrimed, SeqEqual

\* A line joins the stream at its end, in the queue or, in synchronous mode,
\* in the file.
LEMMA StoreGrowsStream ==
    ASSUME TypeOK, TypeOK', NEW l \in AllLines, held' = held, written' = written,
           queue' = Append(queue, l)
    PROVE  Stream' = Append(Stream, l)
  <1>1. Len(written) \in Nat /\ Len(queue) \in Nat /\ Len(queue') = Len(queue) + 1
        /\ queue'[Len(queue) + 1] = l
        /\ \A i \in 1 .. Len(queue) : queue'[i] = queue[i]
    BY SMTT(60) DEF TypeOK
  <1>2. InHand' = InHand /\ InHand \in 0 .. 1
    BY DEF InHand
  <1>3. Len(Stream') = Len(Stream) + 1 /\ Len(Stream) \in Nat
    BY <1>1, <1>2, StreamIs, StreamIsPrimed
  <1>4. Append(Stream, l) \in Seq(AllLines) /\ Len(Append(Stream, l)) = Len(Stream) + 1
    BY StreamIs
  <1>5. \A i \in 1 .. Len(Stream) + 1 : Stream'[i] = Append(Stream, l)[i]
    <2>1. Stream'[Len(Stream) + 1] = l
      BY <1>1, <1>2, <1>3, StreamIs, StreamIsPrimed
    <2>2. \A i \in 1 .. Len(Stream) : Stream'[i] = Stream[i]
      BY SMTT(30), <1>1, <1>2, <1>3, StreamIs, StreamIsPrimed
    <2> QED  BY <2>1, <2>2, StreamIs
  <1> QED  BY <1>3, <1>4, <1>5, StreamIsPrimed, SeqEqual

LEMMA WriteGrowsStream ==
    ASSUME TypeOK, TypeOK', NEW p \in Producers, Line(p) \in AllLines,
           held = NoLine, held' = held, queue = << >>, queue' = queue,
           written' = Append(written, Record(Line(p)))
    PROVE  Stream' = Append(Stream, Line(p))
  <1>1. Len(written) \in Nat /\ Len(queue) = 0 /\ Len(written') = Len(written) + 1
        /\ written'[Len(written) + 1].line = Line(p)
        /\ \A i \in 1 .. Len(written) : written'[i] = written[i]
    <2>1. Record(Line(p)).line = Line(p)
      BY DEF Record
    <2>2. written \in Seq([line : AllLines, in : [day : 0 .. MaxOdd, no : Nat]])
      BY DEF TypeOK
    <2> HIDE DEF Record
    <2> QED  BY <2>1, <2>2
  <1>2. InHand' = 0 /\ InHand = 0
    BY DEF InHand
  <1>3. Len(Stream') = Len(Stream) + 1 /\ Len(Stream) = Len(written)
    BY <1>1, <1>2, StreamIs, StreamIsPrimed
  <1>4. Append(Stream, Line(p)) \in Seq(AllLines) /\ Len(Append(Stream, Line(p))) = Len(Stream) + 1
    BY StreamIs
  <1>5. \A i \in 1 .. Len(Stream) + 1 : Stream'[i] = Append(Stream, Line(p))[i]
    BY <1>1, <1>2, <1>3, StreamIs, StreamIsPrimed
  <1> QED  BY <1>3, <1>4, <1>5, StreamIsPrimed, SeqEqual

-----------------------------------------------------------------------------
(* The order of the lines *)

LEMMA OrderKept ==
    ASSUME IInv, TypeOK', Stream' = Stream, lost' = lost, is_thread_stop_ => is_thread_stop_',
           \A p \in Producers : sent[p] <= sent'[p] /\ Handed(p)' <= Handed(p)
    PROVE  InOrder(Stream)' /\ Begun' /\ NoneSkipped'
  <1>1. InOrder(Stream)'
    BY DEF IInv, InOrder
  <1>2. Begun'
    <2>1. \A i \in 1 .. Len(Stream) : Stream[i] \in AllLines
      BY StreamIs, ElementOfSeq DEF IInv
    <2>2. \A i \in 1 .. Len(Stream) : Stream[i][1] \in Producers /\ Stream[i][2] \in Nat
      BY <2>1, LoggerAssumption DEF AllLines, LoggerAssumption
    <2>3. \A p \in Producers : sent[p] \in Nat /\ sent'[p] \in Nat
      BY LoggerAssumption DEF IInv, TypeOK, LoggerAssumption
    <2> QED  BY <2>2, <2>3 DEF IInv, Begun
  <1>3. NoneSkipped'
    <2>0. \A p \in Producers : sent[p] \in Nat /\ sent'[p] \in Nat
      BY LoggerAssumption DEF IInv, TypeOK, LoggerAssumption
    <2>1. \A p \in Producers : Handed(p) \in Int /\ Handed(p)' \in Int
      BY <2>0 DEF Handed
    <2>2. \A p \in Producers : \A n \in 1 .. Handed(p)' : n \in 1 .. Handed(p)
      BY <2>1
    <2> QED  BY <2>2 DEF IInv, NoneSkipped
  <1> QED  BY <1>1, <1>2, <1>3

LEMMA OrderGrows ==
    ASSUME IInv, TypeOK', NEW p \in Producers, pc[p] = "emit", Stream' = Append(Stream, Line(p)),
           UNCHANGED <<sent, lost, is_thread_stop_>>,
           pc' = pc \/ pc' = [pc EXCEPT ![p] = "idle"]
    PROVE  InOrder(Stream)' /\ Begun' /\ NoneSkipped'
  <1> DEFINE l == Line(p)
  <1>1. l[1] = p /\ l[2] = sent[p] /\ \A q \in Producers : sent[q] \in Nat
    BY LoggerAssumption DEF Line, IInv, TypeOK, LoggerAssumption
  <1>2. Stream \in Seq(AllLines) /\ \A i \in 1 .. Len(Stream) : Stream[i] \in AllLines
    BY StreamIs, ElementOfSeq DEF IInv
  <1>3. \A i \in 1 .. Len(Stream) : Stream[i][1] \in Producers /\ Stream[i][2] \in Nat
    BY <1>2, LoggerAssumption DEF AllLines, LoggerAssumption
  <1>4. /\ Len(Stream) \in Nat /\ Len(Stream') = Len(Stream) + 1
        /\ \A i \in 1 .. Len(Stream) : Stream'[i] = Stream[i]
        /\ Stream'[Len(Stream) + 1] = l
    BY <1>2
  <1> HIDE DEF l
  <1>5. Begun'
    BY <1>1, <1>3, <1>4 DEF IInv, Begun
  <1>6. InOrder(Stream)'
    <2> SUFFICES ASSUME NEW i \in 1 .. Len(Stream'), NEW j \in 1 .. Len(Stream'), i < j,
                        Stream'[i][1] = Stream'[j][1]
                 PROVE  Stream'[i][2] <= Stream'[j][2]
      BY DEF InOrder
    <2>1. CASE j = Len(Stream) + 1
      BY <1>1, <1>4, <2>1 DEF IInv, Begun
    <2>2. CASE j # Len(Stream) + 1
      BY <1>4, <2>2 DEF IInv, InOrder
    <2> QED  BY <2>1, <2>2
  <1>7. NoneSkipped'
    <2> SUFFICES ASSUME NEW q \in Producers, NEW n \in 1 .. Handed(q)'
                 PROVE  \/ \E i \in 1 .. Len(Stream') : Stream'[i] = <<q, n>>
                        \/ <<q, n>> \in lost' /\ is_thread_stop_'
      BY DEF NoneSkipped
    <2>1. CASE q = p /\ n = sent[p]
      BY <1>4, <2>1 DEF l, Line
    <2>2. CASE ~(q = p /\ n = sent[p])
      <3>1. n \in 1 .. Handed(q)
        <4>1. CASE q = p
          <5>1. Handed(p) = sent[p] - 1
            BY DEF Handed
          <5>2. n <= sent[p]
            BY <1>1, <4>1 DEF Handed
          <5> QED  BY <1>1, <2>2, <4>1, <5>1, <5>2
        <4>2. CASE q # p
          BY <4>2 DEF Handed, IInv, TypeOK
        <4> QED  BY <4>1, <4>2
      <3>2. CASE \E i \in 1 .. Len(Stream) : Stream[i] = <<q, n>>
        BY <1>4, <3>2
      <3>3. CASE <<q, n>> \in lost /\ is_thread_stop_
        BY <3>3
      <3> QED  BY <3>1, <3>2, <3>3 DEF IInv, NoneSkipped
    <2> QED  BY <2>1, <2>2
  <1> QED  BY <1>5, <1>6, <1>7

\* The line a stopping logger throws away is the one in the writer's hand.
LEMMA OrderLoses ==
    ASSUME IInv, TypeOK', is_thread_stop_, is_thread_stop_', held # NoLine, held' = NoLine,
           lost' = lost \cup {held}, UNCHANGED <<written, queue, sent, pc>>
    PROVE  InOrder(Stream)' /\ Begun' /\ NoneSkipped'
  <1> DEFINE k == Len(written) + 1
             at(i) == IF i < k THEN i ELSE i + 1
  <1>1. k \in Nat /\ InHand = 1 /\ InHand' = 0 /\ Len(queue) \in Nat /\ k >= 1
    BY Lengths DEF InHand, IInv
  <1>2. Len(Stream') = Len(Stream) - 1 /\ Len(Stream) \in Nat /\ k <= Len(Stream)
    <2>1. Len(Stream) = Len(written) + InHand + Len(queue)
      BY StreamIs DEF IInv
    <2>2. Len(Stream') = Len(written') + InHand' + Len(queue')
      BY StreamIsPrimed
    <2>3. Len(written) \in Nat
      BY Lengths DEF IInv
    <2> QED  BY ONLY <1>1, <2>1, <2>2, <2>3, UNCHANGED <<written, queue, sent, pc>>
  <1>3. \A i \in 1 .. Len(Stream') : at(i) \in 1 .. Len(Stream) /\ at(i) # k /\ Stream'[i] = Stream[at(i)]
    <2>1. \A i \in 1 .. Len(Stream') : i < k => Stream'[i] = Stream[i]
      BY <1>1, <1>2, StreamIs, StreamIsPrimed DEF IInv
    <2>2. \A i \in 1 .. Len(Stream') : ~(i < k) => Stream'[i] = Stream[i + 1]
      BY <1>1, <1>2, StreamIs, StreamIsPrimed DEF IInv
    <2> QED  BY <1>1, <1>2, <2>1, <2>2
  <1>4. Stream[k] = held
    BY <1>1, <1>2, StreamIs DEF IInv
  <1>5. \A j \in 1 .. Len(Stream) : j # k => \E i \in 1 .. Len(Stream') : Stream'[i] = Stream[j]
    <2> SUFFICES ASSUME NEW j \in 1 .. Len(Stream), j # k
                 PROVE  \E i \in 1 .. Len(Stream') : Stream'[i] = Stream[j]
      OBVIOUS
    <2>1. CASE j < k
      BY <1>1, <1>2, <1>3, <2>1
    <2>2. CASE j > k
      <3>1. j - 1 \in 1 .. Len(Stream') /\ at(j - 1) = j
        BY <1>1, <1>2, <2>2
      <3> QED  BY <1>3, <3>1
    <2> QED  BY <1>1, <2>1, <2>2
  <1>6. \A i, j \in 1 .. Len(Stream') : i < j => at(i) < at(j)
    BY <1>1, <1>2
  <1> HIDE DEF at, k
  <1>7. Begun'
    BY <1>3 DEF IInv, Begun
  <1>8. InOrder(Stream)'
    BY <1>3, <1>6 DEF IInv, InOrder
  <1>9. NoneSkipped'
    <2> SUFFICES ASSUME NEW q \in Producers, NEW n \in 1 .. Handed(q)'
                 PROVE  \/ \E i \in 1 .. Len(Stream') : Stream'[i] = <<q, n>>
                        \/ <<q, n>> \in lost' /\ is_thread_stop_'
      BY DEF NoneSkipped
    <2>1. n \in 1 .. Handed(q)
      BY DEF Handed
    <2>2. CASE \E j \in 1 .. Len(Stream) : Stream[j] = <<q, n>>
      BY <1>4, <1>5, <2>2
    <2>3. CASE <<q, n>> \in lost
      BY <2>3
    <2> QED  BY <2>1, <2>2, <2>3 DEF IInv, NoneSkipped
  <1> QED  BY <1>7, <1>8, <1>9

-----------------------------------------------------------------------------
(* Counting *)

LEMMA EmittingSize ==
    ASSUME TypeOK
    PROVE  /\ IsFiniteSet(Emitting) /\ Cardinality(Emitting) \in Nat
           /\ Cardinality(Producers) \in Nat
           /\ Cardinality(Emitting) <= Cardinality(Producers)
  BY LoggerAssumption, FS_Subset, FS_CardinalityType DEF Emitting, LoggerAssumption

LEMMA EmittingSizePrimed ==
    TypeOK' => (/\ IsFiniteSet(Emitting) /\ Cardinality(Emitting) \in Nat
                /\ Cardinality(Producers) \in Nat
                /\ Cardinality(Emitting) <= Cardinality(Producers))'
  BY EmittingSize, PTL

LEMMA Division ==
    ASSUME NEW n \in Nat, NEW s \in Nat \ {0}
    PROVE  n \div s \in Nat /\ n % s \in 0 .. s - 1 /\ n = (n \div s) * s + (n % s)
  OBVIOUS

\* Counting on past k * s reaches the next multiple when the remainder is 0.
LEMMA OneMore == ASSUME NEW k \in Nat, NEW s \in Nat PROVE (k + 1) * s = k * s + s
  OBVIOUS

LEMMA NextMultiple ==
    ASSUME NEW n \in Nat, NEW s \in Nat \ {0}, NEW k \in Nat, k * s < n, n <= (k + 1) * s
    PROVE  /\ n % s = 0 => n \div s = k + 1 /\ n = (k + 1) * s
           /\ n % s # 0 => n < (k + 1) * s
  <1> DEFINE q == n \div s
             r == n % s
  <1>1. q \in Nat /\ r \in 0 .. s - 1 /\ n = q * s + r
    BY Division
  <1> HIDE DEF q, r
  <1>2. q >= k + 1 => q * s >= (k + 1) * s
    BY <1>1
  <1>3. q <= k => q * s <= k * s
    BY <1>1
  <1>4. q >= k + 2 => q * s >= (k + 2) * s
    BY <1>1
  <1>5. (k + 2) * s = (k + 1) * s + s /\ (k + 1) * s = k * s + s
    OBVIOUS
  <1>6. CASE r = 0
    <2>1. q = k + 1
      BY <1>1, <1>3, <1>4, <1>5, <1>6
    <2> QED  BY <1>1, <1>6, <2>1 DEF q, r
  <1>7. CASE r # 0
    <2>1. q <= k
      BY <1>1, <1>2, <1>7
    <2>2. n < (k + 1) * s
      BY <1>1, <1>3, <1>5, <2>1
    <2> QED  BY <1>7, <2>2 DEF r
  <1> QED  BY <1>6, <1>7

LEMMA InFileType ==
    ASSUME TypeOK, NEW f
    PROVE  InFile(f) \in Nat /\ (f \notin Files => InFile(f) = 0)
  <1> DEFINE I == {i \in 1 .. Len(written) : written[i].in = f}
  <1>0. I \subseteq 1 .. Len(written) /\ IsFiniteSet(1 .. Len(written))
    BY Lengths, FS_Interval
  <1>1. IsFiniteSet(I)
    BY <1>0, FS_Subset
  <1>2. f \notin Files => I = {}
    BY DEF Files
  <1> QED  BY <1>1, <1>2, FS_CardinalityType, FS_EmptySet DEF InFile

LEMMA InFileGrows ==
    ASSUME TypeOK, TypeOK', NEW l, written' = Append(written, Record(l)), NEW f
    PROVE  InFile(f)' = InFile(f) + (IF f = fp_ THEN 1 ELSE 0)
  <1> DEFINE I == {i \in 1 .. Len(written) : written[i].in = f}
  <1>1. Len(written) \in Nat /\ Len(written') = Len(written) + 1
        /\ written'[Len(written) + 1].in = fp_
        /\ \A i \in 1 .. Len(written) : written'[i] = written[i]
    <2>1. Record(l).in = fp_
      BY DEF Record
    <2>2. written \in Seq([line : AllLines, in : [day : 0 .. MaxOdd, no : Nat]])
      BY DEF TypeOK
    <2> HIDE DEF Record
    <2> QED  BY <2>1, <2>2
  <1>0. I \subseteq 1 .. Len(written) /\ IsFiniteSet(1 .. Len(written))
    BY Lengths, FS_Interval
  <1>2. IsFiniteSet(I) /\ Len(written) + 1 \notin I
    BY <1>0, <1>1, FS_Subset
  <1>3. {i \in 1 .. Len(written') : written'[i].in = f} = IF f = fp_ THEN I \cup {Len(written) + 1} ELSE I
    BY <1>1
  <1>4. Cardinality(I \cup {Len(written) + 1}) = Cardinality(I) + 1 /\ Cardinality(I) \in Nat
    BY <1>2, FS_AddElement, FS_CardinalityType
  <1>5. InFile(f) = Cardinality(I)
    BY DEF InFile
  <1>6. InFile(f)' = Cardinality({i \in 1 .. Len(written') : written'[i].in = f})
    BY DEF InFile
  <1> HIDE DEF I
  <1>7. CASE f = fp_
    BY <1>3, <1>4, <1>5, <1>6, <1>7
  <1>8. CASE f # fp_
    <2>1. InFile(f)' = InFile(f)
      BY <1>3, <1>5, <1>6, <1>8
    <2>2. InFile(f) \in Nat
      BY <1>4, <1>5
    <2> QED  BY <1>8, <2>1, <2>2
  <1> QED  BY <1>7, <1>8

\* What is on the way is never more than Most.
LEMMA AtMost == ASSUME IInv PROVE OnTheWay \in Nat /\ Most \in Nat /\ OnTheWay <= Most
  <1>1. capacity \in Nat /\ Len(queue) \in Nat /\ Len(queue) <= capacity /\ InHand \in 0 .. 1
    BY LoggerAssumption, Lengths DEF IInv, TypeOK, LoggerAssumption
  <1>2. ~Async => Len(queue) = 0 /\ InHand = 0
    BY DEF IInv, Phases, InHand
  <1>3. /\ Cardinality(Emitting) \in Nat /\ Cardinality(Producers) \in Nat
        /\ Cardinality(Emitting) <= Cardinality(Producers)
    BY EmittingSize DEF IInv
  <1>4. CASE Async
    BY <1>1, <1>3, <1>4 DEF OnTheWay, Most
  <1>5. CASE ~Async
    BY <1>1, <1>2, <1>3, <1>5 DEF OnTheWay, Most
  <1> QED  BY <1>4, <1>5

Counts == Accounted /\ Opened /\ Sized

LEMMA CountsKept ==
    ASSUME IInv, TypeOK', UNCHANGED <<count_, fp_, written, capacity>>, day <= day', dups <= dups',
           is_thread_stop_ => is_thread_stop_', OnTheWay' \in Nat, OnTheWay' <= OnTheWay,
           ~is_thread_stop_' => OnTheWay' = OnTheWay
    PROVE  Counts'
  <1> SUFFICES ASSUME day' = 0, dups' = 0 PROVE Counts'
    BY DEF Counts, Accounted, Opened, Sized
  <1>1. day = 0 /\ dups = 0
    BY LoggerAssumption DEF IInv, TypeOK, LoggerAssumption
  <1>2. OnTheWay \in Nat /\ Len(written) \in Nat /\ count_ \in Nat
    BY AtMost, Lengths DEF IInv, TypeOK
  <1>3. Most' = Most
    BY DEF Most, Async
  <1>4. \A f : InFile(f)' = InFile(f)
    BY DEF InFile
  <1>5. Files' = Files
    BY DEF Files
  <1>6. Accounted'
    BY <1>1, <1>2 DEF IInv, Accounted
  <1>7. Opened'
    BY <1>1, <1>3, <1>4 DEF IInv, Opened
  <1>8. Sized'
    BY <1>1, <1>3, <1>4, <1>5 DEF IInv, Sized
  <1> QED  BY <1>6, <1>7, <1>8 DEF Counts

LEMMA CountsWrite ==
    ASSUME IInv, TypeOK', NEW l, written' = Append(written, Record(l)),
           UNCHANGED <<count_, fp_, capacity, day, dups, is_thread_stop_>>, OnTheWay' = OnTheWay - 1
    PROVE  Counts'
  <1> SUFFICES ASSUME day = 0, dups = 0 PROVE Counts'
    BY DEF Counts, Accounted, Opened, Sized
  <1>1. /\ OnTheWay \in Nat /\ Len(written) \in Nat /\ count_ \in Nat /\ fp_.no * split_lines_ \in Nat
        /\ split_lines_ \in Nat
    BY AtMost, Lengths, FileTypes DEF IInv
  <1>2. Most' = Most /\ Most \in Nat
    BY AtMost DEF Most, Async
  <1>3. /\ Len(written') = Len(written) + 1 /\ written'[Len(written) + 1].in = fp_
        /\ \A i \in 1 .. Len(written) : written'[i] = written[i]
    <2>1. Record(l).in = fp_
      BY DEF Record
    <2>2. written \in Seq([line : AllLines, in : [day : 0 .. MaxOdd, no : Nat]])
      BY DEF TypeOK, IInv
    <2> HIDE DEF Record
    <2> QED  BY <2>1, <2>2
  <1>4. \A f : InFile(f)' = InFile(f) + (IF f = fp_ THEN 1 ELSE 0)
    BY InFileGrows DEF IInv
  <1>5. \A f : InFile(f) \in Nat
    BY InFileType DEF IInv
  <1>6. Accounted'
    BY <1>1, <1>3 DEF IInv, Accounted
  <1>7. Opened'
    <2>1. InFile(fp_)' + fp_'.no * split_lines_ <= Len(written') + Most'
      <3>1. InFile(fp_) + fp_.no * split_lines_ <= Len(written) + Most
        BY DEF IInv, Opened
      <3>2. InFile(fp_)' = InFile(fp_) + 1
        BY <1>4 DEF InFile
      <3> QED  BY <1>1, <1>2, <1>3, <1>5, <3>1, <3>2
    <2>2. \A i \in 1 .. Len(written') : written'[i].in.no <= fp_'.no
      BY <1>1, <1>3, FileTypes DEF IInv, Opened
    <2> QED  BY <2>1, <2>2 DEF IInv, Opened
  <1>8. Sized'
    <2>1. Files' = Files \cup {fp_}
      BY <1>1, <1>3 DEF Files
    <2>2. \A f \in Files' : f # fp_' => f \in Files /\ InFile(f)' = InFile(f)
      BY <1>4, <1>5, <2>1
    <2> QED  BY <1>2, <2>2 DEF IInv, Sized
  <1> QED  BY <1>6, <1>7, <1>8 DEF Counts

\* What moves no line.
LEMMA QuietKeeps ==
    ASSUME IInv, TypeOK', Phases', Started', UNCHANGED <<file, queue, held, written, lost, capacity>>,
           is_thread_stop_ => is_thread_stop_', Emitting' = Emitting, day <= day', dups <= dups',
           \A p \in Producers : /\ sent[p] <= sent'[p] /\ Handed(p)' <= Handed(p)
                                /\ stamp'[p] <= day'
    PROVE  IInv'
  <1>1. OnTheWay' = OnTheWay /\ OnTheWay \in Nat
    BY AtMost DEF OnTheWay, InHand
  <1>2. Counts'
    BY <1>1, CountsKept DEF file
  <1>3. Stream' = Stream
    BY DEF Stream
  <1>4. InOrder(Stream)' /\ Begun' /\ NoneSkipped'
    BY <1>3, OrderKept
  <1>5. Days'
    <2>1. \A i \in 1 .. Len(written) : written[i].in.day \in Nat
      BY FileTypes DEF IInv
    <2>2. today_ \in Nat /\ fp_.day \in Nat /\ day \in Nat /\ day' \in Nat
      BY LoggerAssumption DEF IInv, TypeOK, LoggerAssumption
    <2> QED  BY <2>1, <2>2 DEF IInv, Days, file
  <1> QED  BY <1>2, <1>4, <1>5 DEF IInv, Counts

-----------------------------------------------------------------------------
(* The actions *)

LEMMA EmitLeaves ==
    ASSUME TypeOK, NEW p \in Producers, pc[p] = "emit", pc' = [pc EXCEPT ![p] = "idle"]
    PROVE  Cardinality(Emitting)' = Cardinality(Emitting) - 1 /\ Cardinality(Emitting) \in Nat
  <1>1. Emitting' = Emitting \ {p} /\ p \in Emitting
    BY DEF Emitting, TypeOK
  <1>2. IsFiniteSet(Emitting)
    BY EmittingSize
  <1> QED  BY <1>1, <1>2, FS_RemoveElement, FS_CardinalityType

LEMMA EmitJoins ==
    ASSUME TypeOK, NEW p \in Producers, pc[p] # "emit", pc' = [pc EXCEPT ![p] = "emit"]
    PROVE  Cardinality(Emitting)' = Cardinality(Emitting) + 1 /\ Cardinality(Emitting) \in Nat
  <1>1. Emitting' = Emitting \cup {p} /\ p \notin Emitting
    BY DEF Emitting, TypeOK
  <1>2. IsFiniteSet(Emitting)
    BY EmittingSize
  <1> QED  BY <1>1, <1>2, FS_AddElement, FS_CardinalityType

LEMMA MidnightKeeps == ASSUME IInv, Midnight \/ SpuriousWake PROVE IInv'
  <1>1. TypeOK'
    <2>1. MayBeOdd => day + 1 \in 0 .. MaxOdd /\ spurious + 1 \in 0 .. MaxOdd
      BY LoggerAssumption DEF IInv, TypeOK, MayBeOdd, LoggerAssumption
    <2>2. CASE Midnight
      BY <2>1, <2>2 DEF IInv, TypeOK, Midnight, file, prod, wr, bounds
    <2>3. CASE SpuriousWake
      BY <2>1, <2>3 DEF IInv, TypeOK, SpuriousWake, file, prod
    <2> QED  BY <2>2, <2>3
  <1>2. Phases'
    BY DEF IInv, Phases, Async, Midnight, SpuriousWake, file, prod, wr, bounds
  <1>3. /\ UNCHANGED <<file, queue, held, written, lost, capacity, is_thread_stop_, pc, sent, stamp>>
        /\ day <= day' /\ dups <= dups'
    BY LoggerAssumption DEF IInv, TypeOK, Midnight, SpuriousWake, prod, wr, bounds, LoggerAssumption
  <1>4. Emitting' = Emitting
    BY <1>3 DEF Emitting
  <1>5. \A p \in Producers : sent[p] \in Nat /\ stamp[p] \in Nat /\ stamp[p] <= day /\ day \in Nat /\ day' \in Nat
    BY <1>1, LoggerAssumption DEF IInv, TypeOK, Days, LoggerAssumption
  <1>6. \A p \in Producers : sent[p] <= sent'[p] /\ Handed(p)' <= Handed(p) /\ stamp'[p] <= day'
    BY <1>3, <1>5 DEF Handed
  <1>7. Started'
    BY <1>3 DEF IInv, Started
  <1> QED  BY <1>1, <1>2, <1>3, <1>4, <1>6, <1>7, QuietKeeps

LEMMA StampKeeps == ASSUME IInv, NEW p \in Producers, Stamp(p) PROVE IInv'
  <1>1. TypeOK'
    BY LoggerAssumption DEF IInv, TypeOK, Stamp, LoggerAssumption, file, wr, bounds
  <1>2. Phases'
    BY DEF IInv, TypeOK, Phases, Async, Stamp, wr, bounds
  <1>3. /\ UNCHANGED <<file, queue, held, written, lost, capacity, is_thread_stop_, day, dups>>
        /\ pc' = [pc EXCEPT ![p] = "stamped"] /\ pc[p] = "idle"
        /\ sent' = [sent EXCEPT ![p] = @ + 1] /\ stamp' = [stamp EXCEPT ![p] = day]
    BY DEF Stamp, wr, bounds
  <1>4. Emitting' = Emitting
    BY <1>3 DEF Emitting, IInv, TypeOK
  <1>5. day \in Nat /\ dups \in Nat /\ \A q \in Producers : sent[q] \in Nat /\ stamp[q] <= day
    BY LoggerAssumption DEF IInv, TypeOK, Days, LoggerAssumption
  <1>6. \A q \in Producers : sent[q] <= sent'[q] /\ stamp'[q] <= day'
    BY <1>3, <1>5 DEF IInv, TypeOK
  <1>7. \A q \in Producers : Handed(q)' <= Handed(q)
    BY SMTT(30), <1>3, <1>5 DEF IInv, TypeOK, Handed
  <1>8. Started'
    BY <1>3, <1>5 DEF IInv, TypeOK, Started
  <1> QED  BY <1>1, <1>2, <1>3, <1>4, <1>5, <1>6, <1>7, <1>8, QuietKeeps

\* The writer and the destructor, when they move no line.
LEMMA RestsKeep ==
    ASSUME IInv,
           UNCHANGED <<file, queue, day, prod, held, written, lost, bounds>>,
           writer' \in {"pop", "waiting", "woken", "got", "write", "exited"},
           writer \in {"got", "write"} <=> writer' \in {"got", "write"},
           ~Async => writer' = "exited",
           \/ UNCHANGED <<main, is_thread_stop_>>
           \/ main # "running" /\ main' \in {"joining", "done"} /\ is_thread_stop_' = is_thread_stop_
           \/ /\ main' = "stopping" /\ is_thread_stop_' = TRUE
              /\ \A p \in Producers : pc[p] = "idle"
    PROVE  IInv'
  <1>1. TypeOK'
    BY DEF IInv, TypeOK, file, prod, bounds
  <1>2. Phases'
    BY DEF IInv, Phases, Async, prod, bounds
  <1>3. UNCHANGED <<pc, sent, stamp, capacity, dups>> /\ (is_thread_stop_ => is_thread_stop_')
    BY DEF prod, bounds
  <1>4. Emitting' = Emitting
    BY <1>3 DEF Emitting
  <1>5. day \in Nat /\ dups \in Nat /\ \A q \in Producers : sent[q] \in Nat /\ stamp[q] <= day
    BY LoggerAssumption DEF IInv, TypeOK, Days, LoggerAssumption
  <1>6. \A p \in Producers : sent[p] <= sent'[p] /\ Handed(p)' <= Handed(p) /\ stamp'[p] <= day'
    BY <1>3, <1>5 DEF Handed
  <1>7. Started'
    BY <1>3 DEF IInv, Started
  <1> QED  BY <1>1, <1>2, <1>3, <1>4, <1>5, <1>6, <1>7, QuietKeeps

LEMMA WakeIs ==
    ASSUME IInv, WakeWriter
    PROVE  /\ writer' \in {"pop", "waiting", "woken", "got", "write", "exited"}
           /\ writer \in {"got", "write"} <=> writer' \in {"got", "write"}
           /\ ~Async => writer' = "exited"
  BY DEF IInv, TypeOK, Phases, WakeWriter

LEMMA DestroyKeeps == ASSUME IInv, Destroy PROVE IInv'
  <1>1. CASE Stop
    BY <1>1, RestsKeep DEF Stop, IInv, TypeOK, Phases, wr
  <1>2. CASE NotifyWriter
    BY <1>2, WakeIs, RestsKeep DEF NotifyWriter
  <1>3. CASE Join
    BY <1>3, RestsKeep DEF Join, IInv, TypeOK, Phases, wr
  <1> QED  BY <1>1, <1>2, <1>3 DEF Destroy, Returns

\* Nobody emits a line while the logger stops, so a push that is refused is
\* tried again.
LEMMA RefusedKeeps == ASSUME IInv, NEW p \in Producers, Refused(p) PROVE IInv'
  <1>1. ~is_thread_stop_
    BY DEF IInv, Phases, Refused
  <1>2. UNCHANGED <<file, queue, day, prod, held, written, lost, bounds, main, is_thread_stop_>> /\ WakeWriter
    BY <1>1 DEF Refused, prod
  <1> QED  BY <1>2, WakeIs, RestsKeep

\* Counting a line may close the file: it was opened no earlier than
\* split_lines_ lines ago.
LEMMA RotateKeeps == ASSUME IInv, NEW p \in Producers, Rotate(p) PROVE IInv'
  <1> DEFINE s == split_lines_
             n == count_ + 1
             new == NewDay(p)
  <1>1. /\ pc[p] = "stamped" /\ pc' = [pc EXCEPT ![p] = "emit"]
        /\ UNCHANGED <<is_thread_stop_, queue, day, sent, stamp, writer, held, written, lost, main, capacity, dups, spurious>>
        /\ new => count_' = 0 /\ today_' = stamp[p] /\ fp_' = [day |-> stamp[p], no |-> 0]
        /\ ~new => /\ count_' = n /\ today_' = today_
                   /\ fp_' = IF n % s = 0 THEN [day |-> today_, no |-> n \div s] ELSE fp_
    BY DEF Rotate, Rotated, Count, Restart, wr, bounds
  <1>2. s \in Nat \ {0} /\ n \in Nat /\ n \div s \in Nat /\ n = count_ + 1 /\ count_ \in Nat
    <2>1. s \in Nat \ {0} /\ n \in Nat /\ count_ \in Nat
      BY FileTypes DEF IInv
    <2> HIDE DEF s
    <2> QED  BY <2>1, Division
  <1> HIDE DEF s, n, new
  <1>3. fp_' \in [day : 0 .. MaxOdd, no : Nat] /\ count_' \in Nat /\ today_' \in 0 .. MaxOdd
    <2>1. stamp[p] \in 0 .. MaxOdd /\ today_ \in 0 .. MaxOdd /\ fp_ \in [day : 0 .. MaxOdd, no : Nat]
      BY DEF IInv, TypeOK
    <2> QED  BY <1>1, <1>2, <2>1
  <1>4. TypeOK'
    BY <1>1, <1>3 DEF IInv, TypeOK
  <1>5. Phases' /\ Started'
    BY <1>1 DEF IInv, TypeOK, Phases, Async, Started
  <1>6. Days'
    <2>1. fp_'.day <= day'
      BY <1>1 DEF IInv, Days
    <2> QED  BY <1>1, <2>1 DEF IInv, Days
  <1>7. InOrder(Stream)' /\ Begun' /\ NoneSkipped'
    <2>1. Stream' = Stream
      BY <1>1 DEF Stream
    <2>2. \A q \in Producers : sent[q] \in Nat
      BY LoggerAssumption DEF IInv, TypeOK, LoggerAssumption
    <2>3. \A q \in Producers : sent[q] <= sent'[q] /\ Handed(q)' <= Handed(q)
      BY <1>1, <2>2 DEF IInv, TypeOK, Handed
    <2> QED  BY <1>1, <1>4, <2>1, <2>3, OrderKept
  <1>8. Counts'
    <2> SUFFICES ASSUME day = 0, dups = 0 PROVE Counts'
      BY <1>1 DEF Counts, Accounted, Opened, Sized
    <2>1. today_ = 0 /\ stamp[p] = 0 /\ fp_.day = 0 /\ ~new
      BY LoggerAssumption DEF IInv, Days, TypeOK, LoggerAssumption, NewDay, new
    <2>2. ~is_thread_stop_
      BY <1>1 DEF IInv, Phases
    <2>3. OnTheWay' = OnTheWay + 1 /\ OnTheWay' <= Most /\ OnTheWay \in Nat /\ Most \in Nat /\ Most' = Most
      <3>1. Cardinality(Emitting)' = Cardinality(Emitting) + 1 /\ Cardinality(Emitting) \in Nat
        BY <1>1, EmitJoins DEF IInv
      <3>2. OnTheWay' = OnTheWay + 1
        BY <1>1, <3>1, Lengths DEF IInv, OnTheWay, InHand
      <3>3. Cardinality(Emitting)' <= Cardinality(Producers) /\ Cardinality(Producers) \in Nat
        BY <1>4, EmittingSizePrimed
      <3>4. OnTheWay' <= Most
        <4>1. capacity \in Nat /\ Len(queue) \in Nat /\ Len(queue) <= capacity /\ InHand \in 0 .. 1
          BY LoggerAssumption, Lengths DEF IInv, TypeOK, LoggerAssumption
        <4>2. ~Async => Len(queue) = 0 /\ InHand = 0
          BY DEF IInv, Phases, InHand
        <4>3. OnTheWay' = Cardinality(Emitting)' + Len(queue) + InHand
          BY <1>1 DEF OnTheWay, InHand
        <4> QED  BY <3>1, <3>3, <4>1, <4>2, <4>3 DEF Most
      <3> QED  BY <1>1, <3>2, <3>4, AtMost DEF Most, Async
    <2>4. n = Len(written) + OnTheWay' /\ Len(written) \in Nat
      BY <1>2, <2>2, <2>3, Lengths DEF IInv, Accounted
    <2>5. Accounted'
      BY <1>1, <2>1, <2>4 DEF Accounted
    <2>6. \A f : InFile(f)' = InFile(f) /\ InFile(f) \in Nat
      BY <1>1, InFileType DEF InFile, IInv
    <2>7. /\ fp_.no \in Nat /\ fp_.no * s < n /\ n <= (fp_.no + 1) * s /\ (fp_.no + 1) * s = fp_.no * s + s
          /\ InFile(fp_) + fp_.no * s <= Len(written) + Most
          /\ \A i \in 1 .. Len(written) : written[i].in.no <= fp_.no /\ written[i].in.no \in Nat
      <3>1. fp_.no \in Nat /\ fp_.no * s \in Nat /\ (fp_.no + 1) * s = fp_.no * s + s
        BY <1>2, FileTypes DEF IInv, s
      <3>2. fp_.no * s <= count_ /\ count_ < (fp_.no + 1) * s
        BY DEF IInv, Opened, s
      <3>3. fp_.no * s < n /\ n <= (fp_.no + 1) * s
        BY <1>2, <3>1, <3>2
      <3>4. InFile(fp_) + fp_.no * s <= Len(written) + Most
        BY DEF IInv, Opened, s
      <3>5. \A i \in 1 .. Len(written) : written[i].in.no <= fp_.no /\ written[i].in.no \in Nat
        BY FileTypes DEF IInv, Opened
      <3> QED  BY <3>1, <3>3, <3>4, <3>5
    <2>8. Files' = Files
      BY <1>1 DEF Files
    <2>9. CASE n % s = 0
      <3>1. fp_' = [day |-> 0, no |-> fp_.no + 1] /\ n = (fp_.no + 1) * s
        BY <1>1, <1>2, <2>1, <2>7, <2>9, NextMultiple
      <3>2. fp_'.no = fp_.no + 1 /\ (fp_'.no + 1) * s = n + s
        <4>1. fp_'.no = fp_.no + 1 /\ fp_.no + 1 \in Nat /\ s \in Nat
          BY <1>2, <2>7, <3>1
        <4>2. (fp_.no + 1 + 1) * s = (fp_.no + 1) * s + s
          BY ONLY <4>1, OneMore
        <4> QED  BY ONLY <3>1, <4>1, <4>2
      <3>3. InFile(fp_)' = 0
        <4>1. fp_' \notin Files
          BY <2>7, <3>2 DEF Files
        <4> QED  BY <1>1, <4>1, InFileType DEF InFile, IInv
      <3>4. Opened'
        <4>1. fp_'.no * s = n
          BY <3>1, <3>2
        <4>2. InFile(fp_)' + n <= Len(written) + Most
          BY <1>2, <2>3, <2>4, <3>3
        <4>3. \A i \in 1 .. Len(written) : written[i].in.no <= fp_'.no
          BY <2>7, <3>2
        <4> HIDE DEF s
        <4>4. n <= n /\ n < (fp_'.no + 1) * s
          BY <1>2, <3>2
        <4> QED  BY <1>1, <2>1, <2>3, <4>1, <4>2, <4>3, <4>4 DEF Opened, s
      <3>5. Sized'
        <4> SUFFICES ASSUME NEW f \in Files PROVE InFile(f) <= s + Most - 1
          BY <2>3, <2>6, <2>8 DEF Sized, s
        <4>1. CASE f = fp_
          <5>1. InFile(fp_) + fp_.no * s <= Len(written) + Most /\ Len(written) <= n - 1
            BY <1>2, <2>3, <2>4, <2>7
          <5>2. n = fp_.no * s + s /\ fp_.no * s \in Int
            BY <1>2, <2>7, <3>1
          <5> QED  BY <1>2, <2>3, <2>4, <2>6, <4>1, <5>1, <5>2
        <4>2. CASE f # fp_
          BY <4>2 DEF IInv, Sized, s
        <4> QED  BY <4>1, <4>2
      <3> QED  BY <2>5, <3>4, <3>5 DEF Counts
    <2>10. CASE n % s # 0
      <3>1. fp_' = fp_ /\ n < (fp_.no + 1) * s
        BY <1>1, <1>2, <2>1, <2>7, <2>10, NextMultiple
      <3>2. InFile(fp_)' = InFile(fp_)
        BY <1>1, <3>1 DEF InFile
      <3>3. Opened'
        BY <1>1, <1>2, <2>1, <2>3, <2>7, <3>1, <3>2 DEF Opened, s
      <3>4. Sized'
        BY <2>3, <2>6, <2>8, <3>1 DEF IInv, Sized
      <3> QED  BY <2>5, <3>3, <3>4 DEF Counts
    <2> QED  BY <2>9, <2>10
  <1> QED  BY <1>4, <1>5, <1>6, <1>7, <1>8 DEF IInv, Counts

LEMMA LineType == ASSUME IInv, NEW p \in Producers, pc[p] = "emit" PROVE Line(p) \in AllLines
  <1>1. 1 <= sent[p]
    BY DEF IInv, Started
  <1> QED  BY <1>1, LoggerAssumption DEF IInv, TypeOK, Line, AllLines, LoggerAssumption

\* What is written is a record of the open file.
LEMMA RecordType == ASSUME IInv, NEW l \in AllLines
                    PROVE  Append(written, Record(l)) \in Seq([line : AllLines, in : [day : 0 .. MaxOdd, no : Nat]])
  <1>1. Record(l) \in [line : AllLines, in : [day : 0 .. MaxOdd, no : Nat]]
    BY DEF IInv, TypeOK, Record
  <1> QED  BY <1>1 DEF IInv, TypeOK

LEMMA RecordDays == ASSUME IInv, NEW l, written' = Append(written, Record(l)), UNCHANGED <<file, stamp, day>>
                    PROVE  Days'
  <1>1. Record(l).in.day = fp_.day
    BY DEF Record
  <1>2. written \in Seq([line : AllLines, in : [day : 0 .. MaxOdd, no : Nat]])
    BY DEF TypeOK, IInv
  <1> HIDE DEF Record
  <1>3. \A i \in 1 .. Len(written') : (i \in 1 .. Len(written) /\ written'[i] = written[i]) \/ written'[i] = Record(l)
    BY <1>2
  <1> QED  BY <1>1, <1>3 DEF IInv, Days, file

LEMMA WriteSyncKeeps == ASSUME IInv, NEW p \in Producers, WriteSync(p) PROVE IInv'
  <1>1. /\ pc[p] = "emit" /\ pc' = [pc EXCEPT ![p] = "idle"] /\ queue = << >> /\ held = NoLine
        /\ written' = Append(written, Record(Line(p)))
        /\ UNCHANGED <<file, is_thread_stop_, queue, day, sent, stamp, writer, held, lost, main, capacity, dups, spurious>>
    BY DEF WriteSync, bounds, IInv, Phases
  <1>2. Line(p) \in AllLines
    BY <1>1, LineType
  <1>3. TypeOK'
    BY <1>1, <1>2, RecordType DEF IInv, TypeOK, file
  <1>4. Phases' /\ Started'
    BY <1>1 DEF IInv, TypeOK, Phases, Async, Started
  <1>5. Days'
    BY <1>1, RecordDays
  <1>6. InOrder(Stream)' /\ Begun' /\ NoneSkipped'
    BY <1>1, <1>2, <1>3, WriteGrowsStream, OrderGrows DEF IInv
  <1>7. OnTheWay' = OnTheWay - 1
    <2>1. Cardinality(Emitting)' = Cardinality(Emitting) - 1 /\ Cardinality(Emitting) \in Nat
      BY <1>1, EmitLeaves DEF IInv
    <2> QED  BY <1>1, <2>1, Lengths DEF IInv, OnTheWay, InHand
  <1>8. Counts'
    BY <1>1, <1>3, <1>7, CountsWrite DEF file
  <1> QED  BY <1>3, <1>4, <1>5, <1>6, <1>8 DEF IInv, Counts

LEMMA StoreKeeps == ASSUME IInv, NEW p \in Producers, Store(p) PROVE IInv'
  <1>1. /\ pc[p] = "emit" /\ Async /\ Len(queue) < capacity
        /\ queue' = Append(queue, Line(p)) /\ WakeWriter
        /\ UNCHANGED <<file, is_thread_stop_, day, sent, stamp, held, written, lost, main, capacity, spurious>>
        /\ \/ pc' = [pc EXCEPT ![p] = "idle"] /\ dups' = dups
           \/ pc' = pc /\ dups' = dups + 1 /\ MayBeOdd
    BY DEF Store, Room
  <1>2. Line(p) \in AllLines
    BY <1>1, LineType
  <1>3. TypeOK'
    <2>1. queue' \in Seq(AllLines) /\ Len(queue') <= capacity
      BY <1>1, <1>2, LoggerAssumption DEF IInv, TypeOK, LoggerAssumption
    <2>2. dups' \in 0 .. MaxOdd
      BY <1>1, LoggerAssumption DEF IInv, TypeOK, LoggerAssumption, MayBeOdd
    <2>3. pc' \in [Producers -> {"idle", "stamped", "emit"}]
      BY <1>1 DEF IInv, TypeOK
    <2> QED  BY <1>1, <2>1, <2>2, <2>3, WakeIs DEF IInv, TypeOK, file
  <1>4. Phases' /\ Started'
    <2>1. ~is_thread_stop_
      BY <1>1 DEF IInv, Phases
    <2> QED  BY <1>1, <2>1, WakeIs DEF IInv, TypeOK, Phases, Async, Started
  <1>5. Days'
    BY <1>1 DEF IInv, Days, file
  <1>6. InOrder(Stream)' /\ Begun' /\ NoneSkipped'
    BY <1>1, <1>2, <1>3, StoreGrowsStream, OrderGrows DEF IInv
  <1>7. Counts'
    <2>1. CASE dups' # 0
      BY <2>1 DEF Counts, Accounted, Opened, Sized
    <2>2. CASE dups' = 0
      <3>1. pc' = [pc EXCEPT ![p] = "idle"] /\ dups' = dups
        BY <1>1, <2>2, LoggerAssumption DEF IInv, TypeOK, LoggerAssumption
      <3>2. Len(queue') = Len(queue) + 1 /\ Len(queue) \in Nat
        BY <1>1, Lengths DEF IInv, TypeOK
      <3>3. OnTheWay' = OnTheWay
        <4>1. Cardinality(Emitting)' = Cardinality(Emitting) - 1 /\ Cardinality(Emitting) \in Nat
          BY <1>1, <3>1, EmitLeaves DEF IInv
        <4> QED  BY <1>1, <3>2, <4>1, Lengths DEF IInv, OnTheWay, InHand
      <3>4. day \in Nat /\ dups \in Nat
        BY LoggerAssumption DEF IInv, TypeOK, LoggerAssumption
      <3> QED  BY <1>1, <1>3, <3>1, <3>3, <3>4, AtMost, CountsKept DEF file
    <2> QED  BY <2>1, <2>2
  <1> QED  BY <1>3, <1>4, <1>5, <1>6, <1>7 DEF IInv, Counts

LEMMA PopKeeps ==
    ASSUME IInv, writer \in {"pop", "woken"}, PopLine,
           UNCHANGED <<file, is_thread_stop_, day, prod, written, lost, main, bounds>>
    PROVE  IInv'
  <1>1. /\ queue # << >> /\ held' = Head(queue) /\ queue' = Tail(queue) /\ writer' = "got"
        /\ UNCHANGED <<pc, sent, stamp, capacity, dups, spurious>>
    BY DEF PopLine, prod, bounds
  <1>2. held = NoLine /\ held' \in AllLines /\ held' # NoLine /\ Async
    BY <1>1, NoLineIsNone DEF IInv, TypeOK, Phases
  <1>3. queue' \in Seq(AllLines) /\ Len(queue') = Len(queue) - 1 /\ Len(queue) \in Nat
    BY <1>1 DEF IInv, TypeOK
  <1>4. TypeOK'
    BY <1>1, <1>2, <1>3, LoggerAssumption DEF IInv, TypeOK, LoggerAssumption, file
  <1>5. Phases' /\ Started'
    BY <1>1, <1>2 DEF IInv, Phases, Async, Started
  <1>6. Days'
    BY <1>1 DEF IInv, Days, file
  <1>7. InOrder(Stream)' /\ Begun' /\ NoneSkipped'
    <2>1. Stream' = Stream
      BY <1>2, <1>4, PopKeepsStream DEF IInv
    <2>2. \A p \in Producers : sent[p] <= sent'[p] /\ Handed(p)' <= Handed(p)
      BY <1>1, LoggerAssumption DEF IInv, TypeOK, LoggerAssumption, Handed
    <2> QED  BY <1>4, <2>1, <2>2, OrderKept
  <1>8. OnTheWay' = OnTheWay
    BY <1>1, <1>2, <1>3, EmittingSize DEF OnTheWay, InHand, Emitting, IInv
  <1>9. day \in Nat /\ dups \in Nat
    BY LoggerAssumption DEF IInv, TypeOK, LoggerAssumption
  <1>10. Counts'
    BY <1>1, <1>4, <1>8, <1>9, AtMost, CountsKept DEF file
  <1> QED  BY <1>4, <1>5, <1>6, <1>7, <1>10 DEF IInv, Counts

LEMMA PutsKeep == ASSUME IInv, WriterPuts PROVE IInv'
  <1>1. /\ writer = "write" /\ writer' = "pop" /\ held' = NoLine /\ written' = Append(written, Record(held))
        /\ UNCHANGED <<file, is_thread_stop_, queue, day, pc, sent, stamp, lost, main, capacity, dups, spurious>>
    BY DEF WriterPuts, prod, bounds
  <1>2. held # NoLine /\ held \in AllLines /\ Async
    BY <1>1 DEF IInv, TypeOK, Phases
  <1>3. TypeOK'
    BY <1>1, <1>2, RecordType DEF IInv, TypeOK, file
  <1>4. Phases' /\ Started'
    BY <1>1, <1>2 DEF IInv, Phases, Async, Started
  <1>5. Days'
    BY <1>1, RecordDays
  <1>6. InOrder(Stream)' /\ Begun' /\ NoneSkipped'
    <2>1. Stream' = Stream
      BY <1>1, <1>2, <1>3, PutKeepsStream DEF IInv
    <2>2. \A p \in Producers : sent[p] <= sent'[p] /\ Handed(p)' <= Handed(p)
      BY <1>1, LoggerAssumption DEF IInv, TypeOK, LoggerAssumption, Handed
    <2> QED  BY <1>1, <1>3, <2>1, <2>2, OrderKept
  <1>7. OnTheWay' = OnTheWay - 1
    BY <1>1, <1>2, EmittingSize, Lengths DEF OnTheWay, InHand, Emitting, IInv
  <1>8. Counts'
    BY <1>1, <1>3, <1>7, CountsWrite DEF file
  <1> QED  BY <1>3, <1>4, <1>5, <1>6, <1>8 DEF IInv, Counts

LEMMA ChecksKeep == ASSUME IInv, WriterChecks PROVE IInv'
  <1>1. CASE ~is_thread_stop_
    <2>1. writer = "got" /\ writer' = "write" /\ UNCHANGED <<lost, held>>
      BY <1>1 DEF WriterChecks
    <2> QED  BY <2>1, RestsKeep DEF WriterChecks, IInv, Phases
  <1>2. CASE is_thread_stop_
    <2>1. /\ writer = "got" /\ writer' = "exited" /\ lost' = lost \cup {held} /\ held' = NoLine
          /\ UNCHANGED <<file, is_thread_stop_, queue, day, pc, sent, stamp, written, main, capacity, dups, spurious>>
      BY <1>2 DEF WriterChecks, prod, bounds
    <2>2. held # NoLine /\ held \in AllLines
      BY <2>1 DEF IInv, TypeOK, Phases
    <2>3. TypeOK'
      BY <2>1, <2>2 DEF IInv, TypeOK, file
    <2>4. Phases' /\ Started'
      BY <1>2, <2>1 DEF IInv, Phases, Async, Started
    <2>5. Days'
      BY <2>1 DEF IInv, Days, file
    <2>6. InOrder(Stream)' /\ Begun' /\ NoneSkipped'
      BY <1>2, <2>1, <2>2, <2>3, OrderLoses
    <2>7. OnTheWay' = OnTheWay - 1 /\ OnTheWay' \in Nat
      BY <2>1, <2>2, EmittingSize, Lengths DEF OnTheWay, InHand, Emitting, IInv
    <2>8. day \in Nat /\ dups \in Nat
      BY LoggerAssumption DEF IInv, TypeOK, LoggerAssumption
    <2>9. Counts'
      BY <1>2, <2>1, <2>3, <2>7, <2>8, AtMost, CountsKept DEF file
    <2> QED  BY <2>3, <2>4, <2>5, <2>6, <2>9 DEF IInv, Counts
  <1> QED  BY <1>1, <1>2

LEMMA AsyncWriteKeeps == ASSUME IInv, AsyncWrite PROVE IInv'
  <1>1. CASE WriterPops
    <2>1. CASE queue # << >>
      BY <1>1, <2>1, PopKeeps DEF WriterPops
    <2>2. CASE queue = << >>
      BY <1>1, <2>2, RestsKeep DEF WriterPops, IInv, Phases
    <2> QED  BY <2>1, <2>2
  <1>2. CASE WriterWakes
    <2>1. CASE PopLine
      BY <1>2, <2>1, PopKeeps DEF WriterWakes
    <2>2. CASE ~PopLine
      BY <1>2, <2>2, RestsKeep DEF WriterWakes, IInv, Phases
    <2> QED  BY <2>1, <2>2
  <1> QED  BY <1>1, <1>2, ChecksKeep, PutsKeep DEF AsyncWrite

LEMMA Initially == Init => IInv
  <1> SUFFICES ASSUME Init PROVE IInv
    OBVIOUS
  <1>1. TypeOK
    <2>1. 0 \in 0 .. MaxOdd /\ 0 \in 0 .. Lines /\ capacity \in Nat /\ capacity \in Sizes
      BY LoggerAssumption DEF Init, LoggerAssumption
    <2>2. writer \in {"pop", "waiting", "woken", "got", "write", "exited"}
      BY DEF Init
    <2>3. << >> \in Seq(AllLines) /\ << >> \in Seq([line : AllLines, in : [day : 0 .. MaxOdd, no : Nat]]) /\ Len(<< >>) = 0
      OBVIOUS
    <2>4. pc \in [Producers -> {"idle", "stamped", "emit"}] /\ fp_ \in [day : 0 .. MaxOdd, no : Nat]
      BY <2>1 DEF Init
    <2>5. sent \in [Producers -> 0 .. Lines] /\ stamp \in [Producers -> 0 .. MaxOdd]
      BY <2>1 DEF Init
    <2>6. /\ count_ = 0 /\ today_ = 0 /\ is_thread_stop_ = FALSE /\ queue = << >> /\ day = 0 /\ held = NoLine
          /\ main = "running" /\ written = << >> /\ lost = {} /\ dups = 0 /\ spurious = 0
      BY DEF Init
    <2> HIDE DEF Init
    <2>7. Len(queue) <= capacity /\ queue \in Seq(AllLines)
      BY <2>1, <2>3, <2>6
    <2> QED  BY <2>1, <2>2, <2>3, <2>4, <2>5, <2>6, <2>7 DEF TypeOK
  <1>2. Phases /\ Days /\ Started
    BY DEF Init, Phases, Days, Started
  <1>3. Len(Stream) = 0
    BY <1>1, StreamIs DEF Init, InHand
  <1>4. InOrder(Stream) /\ Begun /\ NoneSkipped
    BY <1>3 DEF Init, InOrder, Begun, NoneSkipped, Handed
  <1>5. Emitting = {}
    BY DEF Init, Emitting
  <1>6. OnTheWay = 0 /\ Len(written) = 0
    BY <1>5, FS_EmptySet DEF Init, OnTheWay, InHand
  <1>7. Accounted
    BY <1>6 DEF Init, Accounted
  <1>8. Files = {}
    BY <1>6 DEF Files
  <1>9. InFile(fp_) = 0 /\ Most \in Nat
    <2>1. Cardinality(Producers) \in Nat /\ capacity \in Nat
      BY <1>1, EmittingSize, LoggerAssumption DEF Init, LoggerAssumption
    <2> QED  BY <1>1, <1>8, <2>1, InFileType DEF Most
  <1>10. Opened /\ Sized
    BY <1>6, <1>8, <1>9, LoggerAssumption DEF Init, Opened, Sized, LoggerAssumption
  <1> QED  BY <1>1, <1>2, <1>4, <1>7, <1>10 DEF IInv

(* The inductive invariant: types, the writer's places, the calendar, the    *)
(* order of the lines, and the count of the lines on their way, which bounds *)
(* what a file can receive after it was opened.                              *)
THEOREM Invariance == Spec => []IInv
  <1>1. IInv /\ [Next]_vars => IInv'
    <2> SUFFICES ASSUME IInv, [Next]_vars PROVE IInv'
      OBVIOUS
    <2>1. CASE UNCHANGED vars
      BY <2>1, RestsKeep DEF vars, wr, IInv, TypeOK, Phases
    <2>2. CASE \E p \in Producers : WriteLog(p) \/ Refused(p)
      BY <2>2, StampKeeps, RotateKeeps, WriteSyncKeeps, StoreKeeps, RefusedKeeps DEF WriteLog, Logs
    <2> QED  BY <2>1, <2>2, MidnightKeeps, AsyncWriteKeeps, DestroyKeeps DEF Next
  <1> QED  BY <1>1, Initially, PTL DEF Spec

(* The lines of a thread reach the files in the order it logged them and     *)
(* none is skipped, until the logger is destroyed (writeLog, asyncWrite).    *)
THEOREM LinesStayInOrder == Spec => []LinesInOrder
  <1>1. IInv => LinesInOrder
    BY DEF IInv, InOrder, NoneSkipped, LinesInOrder
  <1> QED  BY <1>1, Invariance, PTL

(* On one day a file gets split_lines_ lines and as many more as can be on   *)
(* their way when it is opened: one per other thread, what the queue holds   *)
(* and what the writer does.                                                 *)
THEOREM FilesBounded == Spec => []FileSize
  <1>1. IInv => FileSize
    <2> SUFFICES ASSUME IInv, day = 0, dups = 0, NEW f \in Files PROVE InFile(f) <= split_lines_ + Most - 1
      <3>1. ASSUME IInv
            PROVE  split_lines_ + Cardinality(Producers) - 1 + (IF Async THEN capacity + 1 ELSE 0)
                     = split_lines_ + Most - 1
        <4>1. split_lines_ \in Nat /\ capacity \in Nat /\ Cardinality(Producers) \in Nat
          BY <3>1, LoggerAssumption, EmittingSize DEF IInv, TypeOK, LoggerAssumption
        <4> QED  BY <4>1 DEF Most
      <3> QED  BY <3>1 DEF FileSize
    <2>1. CASE f # fp_
      BY <2>1 DEF IInv, Sized
    <2>2. CASE f = fp_
      <3>1. InFile(fp_) + fp_.no * split_lines_ <= Len(written) + Most
        BY DEF IInv, Opened
      <3>2. Len(written) <= count_ /\ Len(written) \in Nat
        BY AtMost, Lengths, FileTypes DEF IInv, Accounted
      <3>3. count_ < fp_.no * split_lines_ + split_lines_
        BY FileTypes DEF IInv, Opened
      <3>4. fp_.no * split_lines_ \in Nat /\ split_lines_ \in Nat /\ InFile(fp_) \in Nat /\ Most \in Nat /\ count_ \in Nat
        BY AtMost, FileTypes, InFileType DEF IInv
      <3> QED  BY <2>2, <3>1, <3>2, <3>3, <3>4
    <2> QED  BY <2>1, <2>2
  <1> QED  BY <1>1, Invariance, PTL

=============================================================================
