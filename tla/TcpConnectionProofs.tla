------------------------ MODULE TcpConnectionProofs ------------------------
(***************************************************************************)
(* The connections of a server, for any number of them, of descriptors and *)
(* of workers: the loop, the map of the Epoll, the kernel, the timers and  *)
(* the server's list know of every open connection what they should.       *)
(***************************************************************************)
EXTENDS TcpConnection, TLAPS

Events == SUBSET {"in", "out"}
Closes == {"close", "clear", "shut", "clean"}
Serves == {"read", "cancel", "arm", "set", "append", "send", "activate", "write", "more", "written"}
LoopPlaces == Serves \cup Closes \cup {"next", "aborted"}
AcceptorPlaces == {"idle", "register", "arm", "set", "append", "aborted"}
WorkerPlaces == Closes \cup {"idle", "aborted"}
Working(t) == pc[t] \notin {"idle", "next", "aborted"}

\* Where the threads are; one that works has a connection.
Placed == /\ pc \in [All -> LoopPlaces \cup AcceptorPlaces \cup WorkerPlaces]
          /\ pc[Loop] \in LoopPlaces /\ pc[Acceptor] \in AcceptorPlaces
          /\ \A w \in Workers : pc[w] \in WorkerPlaces
          /\ cur \in [All -> 0 .. accepted] /\ fd \in [All -> Descriptors]
          /\ \A t \in All : Working(t) => cur[t] # NoConn

\* The bytes, the counters and the batch.
Counted == /\ ibytes \in [Conns -> 0 .. MaxBuffer] /\ obuf \in [Conns -> 0 .. MaxBuffer]
           /\ inq \in [Conns -> 0 .. MaxUnread] /\ sent \in Nat
           /\ accepted \in 0 .. MaxConns /\ fired \in Nat
           /\ batch \subseteq Fds \X Events

\* Descriptors lead to connections that were accepted.
Filed == /\ tc_fd_ \in [Conns -> Descriptors]
         /\ \A c \in Conns : c > accepted => tc_fd_[c] = -1
         /\ ep_event_map_ \in [Descriptors -> [event : Events, read : 0 .. accepted, write : 0 .. accepted]]
         /\ epoll \in [Fds -> Events] /\ sock \in [Fds -> 0 .. accepted]

\* So do the timers; the id of one is that of one connection at most, also while
\* the thread that started it still has to note it.
Timed == /\ ts_tcp_connections_ \in [Conns -> 0 .. MaxListed]
         /\ timers \subseteq TimerIds \X (1 .. accepted)
         /\ tc_timer_id \in [Conns -> TimerIds \cup {-1}]
         /\ timer_id \in [All -> TimerIds \cup {-1}]
         /\ \A t \in All : timer_id[t] # -1 => pc[t] \in {"set", "aborted"}
         /\ \A x \in timers, c \in Conns : tc_timer_id[c] = x[1] => c = x[2]
         /\ \A x \in timers, t \in All : timer_id[t] = x[1] => cur[t] = x[2]

\* Who has shut a connection has left it closed.
Cleaned == \A t \in All : pc[t] = "clean" => tc_fd_[cur[t]] = -1

\* A connection that is open and not being closed has its timer but before it is
\* started, and its place in the list but before the acceptor gives it one.
Alive(c) == tc_fd_[c] # -1 /\ pc[Loop] # "aborted" /\ ~Closing(c)
Unarmed(c) == \E t \in {Loop, Acceptor} : cur[t] = c /\ pc[t] \in {"register", "arm"}
HasTimer(c) == \E x \in timers : x[2] = c
Minded == \A c \in Conns : Alive(c) =>
            /\ Arriving(c) \/ ts_tcp_connections_[c] > 0
            /\ Unarmed(c) \/ HasTimer(c)

\* Until the first timeout: workers rest, connections own their descriptors,
Owned == /\ \A w \in Workers : pc[w] \in {"idle", "aborted"}
         /\ \A c \in Conns : tc_fd_[c] # -1 => sock[tc_fd_[c]] = c
         /\ \A f \in Fds : sock[f] # NoConn => tc_fd_[sock[f]] = f

\* the map is about them and is what the kernel has,
Mapped == \A f \in Fds :
            /\ ep_event_map_[f] = Nothing => epoll[f] = {}
            /\ ep_event_map_[f] # Nothing =>
                 LET ev == ep_event_map_[f]
                 IN  /\ epoll[f] = ev.event /\ "in" \in ev.event
                     /\ sock[f] = ev.read /\ sock[f] # NoConn
                     /\ ev.write \in {NoConn, ev.read}
                     /\ "out" \in ev.event => ev.write = ev.read

\* the loop serves a connection that is open and polled, or is closing it,
\* the acceptor registers one that is neither,
InStep == /\ pc[Loop] \in Serves \cup {"close"} =>
               tc_fd_[cur[Loop]] # -1 /\ ep_event_map_[tc_fd_[cur[Loop]]] # Nothing
          /\ pc[Loop] \in {"clear", "shut"} =>
               tc_fd_[cur[Loop]] # -1 /\ ep_event_map_[tc_fd_[cur[Loop]]] = Nothing
          /\ pc[Loop] = "shut" => fd[Loop] = tc_fd_[cur[Loop]]
          /\ pc[Acceptor] = "register" =>
               /\ tc_fd_[cur[Acceptor]] # -1 /\ ep_event_map_[tc_fd_[cur[Acceptor]]] = Nothing
               /\ Working(Loop) => cur[Loop] # cur[Acceptor]

\* and output is armed but for the connection that the loop is about to arm or
\* to disarm.
Armed(c) == "out" \in epoll[tc_fd_[c]]
AsArmed == /\ \A c \in Conns : tc_fd_[c] # -1 /\ ~(Working(Loop) /\ cur[Loop] = c) => (obuf[c] > 0 <=> Armed(c))
           /\ \A c \in Conns : c > accepted => obuf[c] = 0
           /\ pc[Loop] \in {"read", "cancel", "arm", "set", "append", "send", "write"} =>
                (obuf[cur[Loop]] > 0 <=> Armed(cur[Loop]))
           /\ pc[Loop] \in {"cancel", "arm", "set", "append", "send"} => ibytes[cur[Loop]] > 0
           /\ pc[Loop] = "activate" => obuf[cur[Loop]] > 0
           /\ pc[Loop] = "more" => Armed(cur[Loop])
           /\ pc[Loop] = "written" => (obuf[cur[Loop]] > 0 => Armed(cur[Loop]))

Agreed == Owned /\ Mapped /\ InStep /\ AsArmed

Known == Placed /\ Counted /\ Filed /\ Timed

IInv == Known /\ Cleaned /\ Minded /\ (Calm => Agreed)
-----------------------------------------------------------------------------
(* The connection a thread works on is one that was accepted.                *)
LEMMA InHand == ASSUME Known, NEW t \in All, Working(t)
                PROVE  cur[t] \in Conns /\ cur[t] \in 1 .. accepted
  BY SMTT(30), ConnAssumption DEF ConnAssumption, Known, Placed, Counted, Conns, NoConn

LEMMA Sockets == ASSUME Known, NEW f PROVE Socket(f) = NoConn \/ Socket(f) \in Conns
  <1>1. sock \in [Fds -> 0 .. accepted] /\ accepted \in 0 .. MaxConns /\ MaxConns \in Nat
    BY ConnAssumption DEF ConnAssumption, Known, Counted, Filed
  <1> QED  BY <1>1 DEF Socket, NoConn, Conns

(* The threads go from one place to the next and keep their connection.      *)
LEMMA PlacedKept == ASSUME Known, Next PROVE Placed'
  <1> USE ConnAssumption DEF ConnAssumption, Known, Placed, Working, Goto, All, NoConn,
          LoopPlaces, AcceptorPlaces, WorkerPlaces, Serves, Closes, Loop, Acceptor
  <1>1. CASE Poll  BY <1>1 DEF Poll, server
  <1>2. CASE Dispatch
    <2>1. PICK b \in batch :
            LET ev == ep_event_map_[b[1]]
                c == IF "in" \in b[2] THEN ev.read ELSE ev.write
            IN  /\ cur' = [cur EXCEPT ![Loop] = c]
                /\ IF ev = Nothing THEN Abort
                   ELSE Goto(Loop, IF c = NoConn THEN "next" ELSE IF "in" \in b[2] THEN "read" ELSE "write")
      BY <1>2 DEF Dispatch
    <2> DEFINE ev == ep_event_map_[b[1]]
               c == IF "in" \in b[2] THEN ev.read ELSE ev.write
    <2>2. c \in 0 .. accepted
      BY DEF Counted, Filed, Descriptors
    <2>3. UNCHANGED <<accepted, fd>>
      BY <1>2 DEF Dispatch, server
    <2>4. CASE ev = Nothing  BY <2>1, <2>2, <2>3, <2>4 DEF Abort
    <2>5. CASE ev # Nothing
      <3>1. PICK p \in {"next", "read", "write"} : pc' = [pc EXCEPT ![Loop] = p] /\ (c = NoConn => p = "next")
        <4>1. CASE c = NoConn  BY <2>1, <2>5, <4>1
        <4>2. CASE c # NoConn /\ "in" \in b[2]  BY <2>1, <2>5, <4>2
        <4>3. CASE c # NoConn /\ "in" \notin b[2]  BY <2>1, <2>5, <4>3
        <4> QED  BY <4>1, <4>2, <4>3
      <3> HIDE DEF c, ev
      <3>2. cur' = [cur EXCEPT ![Loop] = c]  BY <2>1 DEF c, ev
      <3> QED  BY <2>2, <2>3, <3>1, <3>2
    <2> QED  BY <2>4, <2>5
  <1>3. CASE Accept
    BY <1>3 DEF Accept, Counted
  <1>4. CASE Register \/ AddNewTcpConn(Acceptor)
    BY <1>4 DEF Register, AddNewTcpConn, RunAfter, SetTimerId, EmplaceBack, server
  <1>5. CASE DoRead
    BY <1>5 DEF DoRead, Read, Cancel, AddNewTcpConn, RunAfter, SetTimerId, EmplaceBack, Send, Activate,
          AfterRead, server
  <1>6. CASE DoWrite
    BY <1>6 DEF DoWrite, Write, Written, server
  <1>7. ASSUME NEW t \in All, DoClose(t) PROVE Placed'
    <2>1. CASE Close(t) \/ Shut(t)
      BY <2>1 DEF Close, Shut, server
    <2>2. CASE ClearAndTake(t)
      <3>1. Working(t)  BY <2>2 DEF ClearAndTake
      <3>2. tc_fd_[cur[t]] \in Descriptors  BY <3>1, InHand DEF Filed
      <3> QED  BY <2>2, <3>2 DEF ClearAndTake, server
    <2>3. CASE DoClean(t)
      BY <2>3 DEF DoClean, Rest, server, Descriptors
    <2> QED  BY <1>7, <2>1, <2>2, <2>3 DEF DoClose
  <1>8. ASSUME NEW c \in Conns, PeerSends(c) \/ PeerCloses(c) PROVE Placed'
    BY <1>8 DEF PeerSends, PeerCloses, server, threads
  <1>9. ASSUME NEW w \in Workers, TimeOut(w) PROVE Placed'
    BY <1>9 DEF TimeOut, Timed
  <1> QED  BY <1>1, <1>2, <1>3, <1>4, <1>5, <1>6, <1>7, <1>8, <1>9 DEF Next, LoopThread

LEMMA CountedKept == ASSUME Known, Next PROVE Counted'
  <1> USE ConnAssumption DEF ConnAssumption, Known, Counted, Conns
  <1>1. CASE Poll
    <2>1. \A f \in Fds : Ready(f) \in Events  BY DEF Ready, Events, Filed
    <2>2. batch' \subseteq Fds \X Events  BY <1>1, <2>1 DEF Poll
    <2> QED  BY <1>1, <2>2 DEF Poll, conns, kernel, server
  <1>2. CASE Dispatch
    BY <1>2 DEF Dispatch, conns, kernel, server
  <1>3. CASE Accept
    <2>1. UNCHANGED <<ibytes, obuf, inq, sent, fired, batch>> /\ accepted' = accepted + 1 /\ accepted < MaxConns
      BY <1>3 DEF Accept
    <2> QED  BY <2>1
  <1>4. ASSUME NEW t \in All, Register \/ AddNewTcpConn(t) PROVE Counted'
    BY <1>4 DEF Register, AddNewTcpConn, RunAfter, SetTimerId, EmplaceBack, conns, kernel, server
  <1>5. CASE DoRead /\ ~AddNewTcpConn(Loop)
    <2>1. cur[Loop] \in Conns /\ Working(Loop)
      BY <1>5, InHand DEF DoRead, Read, Cancel, Send, Activate, Working, All
    <2>2. CASE Read
      <3> DEFINE c == cur[Loop]
                 from == Socket(tc_fd_[c])
                 got == IF from = NoConn \/ inq[from] > MaxBuffer THEN 0 ELSE inq[from]
      <3>1. from = NoConn \/ from \in Conns  BY Sockets
      <3>2. got \in 0 .. MaxBuffer  BY <3>1
      <3>3. ibytes' \in [Conns -> 0 .. MaxBuffer]
        BY <2>1, <2>2, <3>2 DEF Read
      <3>4. inq' \in [Conns -> 0 .. MaxUnread]
        BY <2>2, <3>1 DEF Read
      <3> QED  BY <2>2, <3>3, <3>4 DEF Read, server
    <2>3. CASE Cancel \/ Activate
      BY <2>3 DEF Cancel, Activate, conns, kernel, server
    <2>4. CASE Send
      <3> DEFINE c == cur[Loop]
      <3>1. ibytes' \in [Conns -> 0 .. MaxBuffer]  BY <2>1, <2>4 DEF Send
      <3>2. CASE obuf[c] + ibytes[c] > MaxBuffer
        BY <2>4, <3>1, <3>2 DEF Send, kernel, server
      <3>3. CASE ~(obuf[c] + ibytes[c] > MaxBuffer)
        <4>1. obuf[c] \in 0 .. MaxBuffer /\ ibytes[c] \in 0 .. MaxBuffer
          BY <2>1
        <4>2. obuf[c] + ibytes[c] \in 0 .. MaxBuffer
          BY ONLY <4>1, <3>3, MaxBuffer \in Nat
        <4>3. obuf' = [obuf EXCEPT ![c] = obuf[c] + ibytes[c]]
          BY <2>4, <3>3 DEF Send
        <4> HIDE DEF c
        <4>4. obuf' \in [Conns -> 0 .. MaxBuffer]
          BY <4>2, <4>3
        <4> QED  BY <2>4, <3>1, <4>4 DEF Send, kernel, server
      <3> QED  BY <3>2, <3>3
    <2> QED  BY <1>5, <2>2, <2>3, <2>4 DEF DoRead
  <1>6. CASE DoWrite
    <2>1. CASE Write
      <3>1. obuf' \in [Conns -> 0 .. MaxBuffer]
        <4>1. cur[Loop] \in Conns
          BY <2>1, InHand DEF Write, Working, All, Loop, Acceptor
        <4>2. CASE UNCHANGED obuf  BY <4>2
        <4>5. obuf[cur[Loop]] \in 0 .. MaxBuffer  BY <4>1
        <4>3. ASSUME NEW k \in 0 .. obuf[cur[Loop]], obuf' = [obuf EXCEPT ![cur[Loop]] = @ - k]
              PROVE  obuf' \in [Conns -> 0 .. MaxBuffer]
          <5>1. obuf[cur[Loop]] - k \in 0 .. MaxBuffer  BY ONLY <4>5, k \in 0 .. obuf[cur[Loop]], MaxBuffer \in Nat
          <5> QED  BY <4>1, <4>3, <5>1
        <4>4. UNCHANGED obuf \/ \E k \in 0 .. obuf[cur[Loop]] : obuf' = [obuf EXCEPT ![cur[Loop]] = @ - k]
          BY <2>1, <4>5 DEF Write
        <4> QED  BY <4>2, <4>3, <4>4
      <3> QED  BY <2>1, <3>1 DEF Write, kernel, server
    <2>2. CASE Written
      BY <2>2 DEF Written, conns, kernel, server
    <2> QED  BY <1>6, <2>1, <2>2 DEF DoWrite
  <1>7. ASSUME NEW t \in All, DoClose(t) PROVE Counted'
    <2>1. CASE ClearAndTake(t)
      <3>1. 0 \in 0 .. MaxBuffer  OBVIOUS
      <3>2. /\ ibytes' = [ibytes EXCEPT ![cur[t]] = 0] /\ obuf' = [obuf EXCEPT ![cur[t]] = 0]
            /\ UNCHANGED <<inq, sent, accepted, fired, batch>>
        BY <2>1 DEF ClearAndTake, kernel, server
      <3>3. ibytes' \in [Conns -> 0 .. MaxBuffer] /\ obuf' \in [Conns -> 0 .. MaxBuffer]
        BY <3>1, <3>2
      <3> QED  BY <3>2, <3>3
    <2>2. CASE Close(t) \/ DoClean(t)
      BY <2>2 DEF Close, DoClean, conns, kernel, server
    <2>3. CASE Shut(t)
      BY <2>3 DEF Shut, server
    <2> QED  BY <1>7, <2>1, <2>2, <2>3 DEF DoClose
  <1>8. ASSUME NEW c \in Conns, PeerSends(c) \/ PeerCloses(c) PROVE Counted'
    <2>1. CASE PeerSends(c)
      <3>1. inq' = [inq EXCEPT ![c] = inq[c] + 1] /\ inq[c] < MaxUnread
            /\ (sent' = sent \/ sent' = sent + 1)
        BY <2>1 DEF PeerSends
      <3>2. inq[c] + 1 \in 0 .. MaxUnread  BY <3>1
      <3>3. inq' \in [Conns -> 0 .. MaxUnread]  BY <3>1, <3>2
      <3>4. sent' \in Nat  BY <3>1
      <3>5. UNCHANGED <<ibytes, obuf, accepted, fired, batch>>
        BY <2>1 DEF PeerSends, server, threads, conns
      <3> QED  BY <3>3, <3>4, <3>5
    <2>2. CASE PeerCloses(c)
      <3>1. inq' \in {inq, [inq EXCEPT ![c] = 0]}  BY <2>2 DEF PeerCloses
      <3>2. 0 \in 0 .. MaxUnread  OBVIOUS
      <3>3. inq' \in [Conns -> 0 .. MaxUnread]  BY ONLY <3>1, <3>2, inq \in [Conns -> 0 .. MaxUnread]
      <3> QED  BY <2>2, <3>3 DEF PeerCloses, server, threads, conns
    <2> QED  BY <1>8, <2>1, <2>2
  <1>9. ASSUME NEW w \in Workers, TimeOut(w) PROVE Counted'
    BY <1>9 DEF TimeOut, conns, kernel
  <1> QED  BY <1>1, <1>2, <1>3, <1>4, <1>5, <1>6, <1>7, <1>8, <1>9 DEF Next, LoopThread, DoRead, All

(* What epoll_ctl leaves in the map and in the interest set.                 *)
LEMMA EpollTyped == ASSUME Filed, NEW f \in Descriptors, NEW e \in {"in", "out"}, NEW c \in 0 .. accepted,
                           accepted \in Nat,
                           EpollAdd(f, e, c) \/ EpollErase(f) \/ EpollDel(f, e)
                    PROVE  /\ ep_event_map_' \in [Descriptors -> [event : Events, read : 0 .. accepted, write : 0 .. accepted]]
                           /\ epoll' \in [Fds -> Events]
  <1> USE DEF Filed, Events, Nothing, NoConn, Descriptors
  <1>1. CASE EpollAdd(f, e, c)  BY <1>1 DEF EpollAdd
  <1>2. CASE EpollErase(f)      BY <1>2 DEF EpollErase
  <1>3. CASE EpollDel(f, e)     
    <2>1. CASE EpollErase(f)  BY <1>2, <2>1
    <2>2. CASE UNCHANGED poller  BY <2>2 DEF poller
    <2>3. ep_event_map_[f].event \ {e} \in SUBSET {"in", "out"}  OBVIOUS
    <2>4. CASE ~EpollErase(f) /\ ~UNCHANGED poller
      <3> DEFINE left == ep_event_map_[f].event \ {e}
      <3>1. /\ ep_event_map_' = [ep_event_map_ EXCEPT ![f].event = left]
            /\ epoll' = IF f \in Fds /\ epoll[f] # {} THEN [epoll EXCEPT ![f] = left] ELSE epoll
        BY <1>3, <2>4 DEF EpollDel
      <3>2. epoll' \in [Fds -> SUBSET {"in", "out"}]
        BY <2>3, <3>1
      <3> HIDE DEF left
      <3>3. ep_event_map_' \in [Descriptors -> [event : Events, read : 0 .. accepted, write : 0 .. accepted]]
        BY <2>3, <3>1 DEF left
      <3> QED  BY <3>2, <3>3
    <2> QED  BY <2>1, <2>2, <2>4
  <1> QED  BY <1>1, <1>2, <1>3

LEMMA PollerTyped ==
  ASSUME Known, NEW t \in All, Working(t), UNCHANGED <<conns, kernel, server>>,
         \/ EpollAdd(tc_fd_[cur[t]], "in", cur[t]) \/ EpollAdd(tc_fd_[cur[t]], "out", cur[t])
         \/ EpollErase(tc_fd_[cur[t]]) \/ EpollDel(tc_fd_[cur[t]], "out") \/ UNCHANGED poller
  PROVE  Filed'
  <1>1. cur[t] \in Conns /\ cur[t] \in 1 .. accepted
    BY InHand
  <1>2. Filed /\ accepted \in Nat
    BY ConnAssumption DEF ConnAssumption, Known, Counted
  <1>3. tc_fd_[cur[t]] \in Descriptors /\ cur[t] \in 0 .. accepted
    BY <1>1, <1>2 DEF Filed
  <1>4. /\ ep_event_map_' \in [Descriptors -> [event : Events, read : 0 .. accepted, write : 0 .. accepted]]
        /\ epoll' \in [Fds -> Events]
    <2>1. CASE UNCHANGED poller  BY <1>2, <2>1 DEF poller, Filed
    <2> QED  BY <1>2, <1>3, <2>1, EpollTyped
  <1> QED  BY <1>2, <1>4 DEF Filed, conns, kernel, server

LEMMA FiledKept == ASSUME Known, Next PROVE Filed'
  <1> USE ConnAssumption DEF ConnAssumption, Known, Counted, Conns
  <1>1. CASE Poll \/ Dispatch
    BY <1>1 DEF Poll, Dispatch, Filed, conns, poller, kernel, server
  <1>2. CASE Accept
    <2>1. PICK f \in Fds : /\ sock' = [sock EXCEPT ![f] = accepted + 1]
                            /\ tc_fd_' = [tc_fd_ EXCEPT ![accepted + 1] = f]
      BY <1>2 DEF Accept
    <2>2. accepted' = accepted + 1 /\ UNCHANGED poller
      BY <1>2 DEF Accept
    <2>3. sock' \in [Fds -> 0 .. accepted'] /\ tc_fd_' \in [Conns -> Descriptors]
          /\ \A c \in Conns : c > accepted' => tc_fd_'[c] = -1
      <3>1. sock' \in [Fds -> 0 .. accepted']  BY <2>1, <2>2 DEF Filed
      <3>2. tc_fd_' \in [Conns -> Descriptors]  BY <2>1, <2>2 DEF Filed, Descriptors
      <3>3. \A c \in Conns : c > accepted' => tc_fd_'[c] = -1  BY <2>1, <2>2 DEF Filed
      <3> QED  BY <3>1, <3>2, <3>3
    <2>4. ep_event_map_' \in [Descriptors -> [event : Events, read : 0 .. accepted', write : 0 .. accepted']]
      BY <2>2 DEF Filed, poller
    <2> QED  BY <2>2, <2>3, <2>4 DEF Filed, poller
  <1>3. ASSUME NEW c \in Conns, PeerSends(c) \/ PeerCloses(c) PROVE Filed'
    BY <1>3 DEF PeerSends, PeerCloses, Filed, conns, poller, kernel, server
  <1>4. CASE Read \/ Cancel \/ Send \/ Write
    BY <1>4 DEF Read, Cancel, Send, Write, Filed, conns, poller, kernel, server
  <1>5. ASSUME NEW t \in All, AddNewTcpConn(t) PROVE Filed'
    BY <1>5 DEF AddNewTcpConn, RunAfter, SetTimerId, EmplaceBack, Filed, conns, poller, kernel, server
  <1>6. CASE Register \/ Activate \/ Written
    BY <1>6, PollerTyped DEF Register, Activate, Written, Working, All, Loop, Acceptor
  <1>7. ASSUME NEW t \in All, DoClose(t) PROVE Filed'
    <2>1. CASE Close(t)
      BY <2>1, PollerTyped DEF Close, Unregister, Working
    <2>2. CASE ClearAndTake(t) \/ DoClean(t)
      BY <2>2 DEF ClearAndTake, DoClean, Filed, conns, poller, kernel, server
    <2>3. CASE Shut(t)
      <3>1. tc_fd_' \in [Conns -> Descriptors] /\ \A c \in Conns : c > accepted => tc_fd_'[c] = -1
        BY <2>3 DEF Shut, Filed, Descriptors
      <3>2. sock' \in [Fds -> 0 .. accepted] /\ epoll' \in [Fds -> Events]
        BY <2>3 DEF Shut, Filed, Events, NoConn
      <3> QED  BY <2>3, <3>1, <3>2 DEF Shut, Filed, server
    <2> QED  BY <1>7, <2>1, <2>2, <2>3 DEF DoClose
  <1>8. ASSUME NEW w \in Workers, TimeOut(w) PROVE Filed'
    BY <1>8 DEF TimeOut, Filed, conns, poller, kernel
  <1> QED  BY <1>1, <1>2, <1>3, <1>4, <1>5, <1>6, <1>7, <1>8 DEF Next, LoopThread, DoRead, DoWrite, All

(* Timers are started with unused ids, so cancelling by id spares the others.  *)
LEMMA TimedKept == ASSUME Known, Next PROVE Timed'
  <1> USE ConnAssumption DEF ConnAssumption, Conns, Goto, Loop, Acceptor, All
  <1>0. /\ accepted \in 0 .. MaxConns /\ Timed /\ TimerIds \subseteq Nat
        /\ pc \in [All -> LoopPlaces \cup AcceptorPlaces \cup WorkerPlaces] /\ cur \in [All -> 0 .. accepted]
    BY DEF Known, Counted, Placed
  <1>1. ASSUME UNCHANGED <<tc_timer_id, ts_tcp_connections_, timer_id>>, timers' \subseteq timers,
               accepted' \in {accepted, accepted + 1},
               \A t \in All : pc[t] = "set" => cur'[t] = cur[t] /\ pc'[t] \in {"set", "aborted"},
               \A t \in All : pc[t] = "aborted" => cur'[t] = cur[t] /\ pc'[t] = "aborted"
        PROVE  Timed'
    <2>1. timers' \subseteq TimerIds \X (1 .. accepted')
      BY <1>0, <1>1 DEF Timed
    <2>2. \A x \in timers', t \in All : timer_id'[t] = x[1] => cur'[t] = x[2]
      <3> SUFFICES ASSUME NEW x \in timers', NEW t \in All, timer_id'[t] = x[1] PROVE cur'[t] = x[2]
        OBVIOUS
      <3>1. x \in timers /\ timer_id[t] = x[1]  BY <1>1
      <3>2. x[1] \in TimerIds  BY <1>0, <3>1 DEF Timed
      <3>3. timer_id[t] # -1  BY <1>0, <3>1, <3>2
      <3>4. pc[t] \in {"set", "aborted"} /\ cur[t] = x[2]  BY <1>0, <3>1, <3>3 DEF Timed
      <3> QED  BY <1>1, <3>4
    <2> QED  BY <1>0, <1>1, <2>1, <2>2 DEF Timed
  <1>2. ASSUME NEW t \in All, RunAfter(t) PROVE Timed'
    <2>1. PICK i \in NewIds(t) : /\ timers' = timers \cup {<<i, cur[t]>>}
                                 /\ timer_id' = [timer_id EXCEPT ![t] = i]
      BY <1>2 DEF RunAfter
    <2>2. /\ UNCHANGED <<tc_timer_id, ts_tcp_connections_, accepted, cur>> /\ pc' = [pc EXCEPT ![t] = "set"]
          /\ pc[t] = "arm"
      BY <1>2 DEF RunAfter, conns
    <2>3. cur[t] \in 1 .. accepted
      BY <1>2, InHand DEF RunAfter, Working
    <2>4. /\ i \in TimerIds /\ (\A x \in timers : x[1] # i) /\ (\A u \in All : timer_id[u] # i)
          /\ \A c \in Conns : tc_timer_id[c] = i => c = cur[t]
      BY DEF NewIds, Used
    <2>5. timers' \subseteq TimerIds \X (1 .. accepted)
      BY <1>0, <2>1, <2>3, <2>4 DEF Timed
    <2>6. ASSUME NEW x \in timers', NEW c \in Conns, tc_timer_id[c] = x[1] PROVE c = x[2]
      BY <1>0, <2>1, <2>4, <2>6 DEF Timed
    <2>7. ASSUME NEW x \in timers', NEW u \in All, timer_id'[u] = x[1] PROVE cur[u] = x[2]
      <3>1. x \in timers \/ x = <<i, cur[t]>>  BY <2>1
      <3>2. CASE u = t
        <4>1. x[1] = i  BY <1>0, <2>1, <2>7, <3>2 DEF Timed
        <4> QED  BY <2>4, <3>1, <3>2, <4>1
      <3>3. CASE u # t
        <4>1. timer_id[u] = x[1]  BY <1>0, <2>1, <2>7, <3>3 DEF Timed
        <4>2. x[1] # i  BY <2>4, <4>1
        <4>3. x \in timers  BY <3>1, <4>2
        <4> QED  BY <1>0, <4>1, <4>3 DEF Timed
      <3> QED  BY <3>2, <3>3
    <2>8. /\ timer_id' \in [All -> TimerIds \cup {-1}]
          /\ \A u \in All : timer_id'[u] # -1 => pc'[u] \in {"set", "aborted"}
      BY <1>0, <2>1, <2>2, <2>4 DEF Timed
    <2> QED  BY <1>0, <2>2, <2>5, <2>6, <2>7, <2>8 DEF Timed
  <1>3. ASSUME NEW t \in All, SetTimerId(t) PROVE Timed'
    <2>1. /\ tc_timer_id' = [tc_timer_id EXCEPT ![cur[t]] = timer_id[t]]
          /\ timer_id' = [timer_id EXCEPT ![t] = -1] /\ pc' = [pc EXCEPT ![t] = "append"]
          /\ UNCHANGED <<ts_tcp_connections_, timers, accepted, cur>>
      BY <1>3 DEF SetTimerId, server
    <2>2. cur[t] \in Conns
      BY <1>3, InHand DEF SetTimerId, Working
    <2>3. tc_timer_id' \in [Conns -> TimerIds \cup {-1}] /\ timer_id' \in [All -> TimerIds \cup {-1}]
      BY <1>0, <2>1, <2>2 DEF Timed
    <2>4. ASSUME NEW x \in timers, NEW c \in Conns, tc_timer_id'[c] = x[1] PROVE c = x[2]
      BY <1>0, <2>1, <2>2, <2>4 DEF Timed
    <2>5. \A x \in timers : x[1] # -1
      BY <1>0 DEF Timed
    <2>6. ASSUME NEW x \in timers, NEW u \in All, timer_id'[u] = x[1] PROVE cur[u] = x[2]
      BY <1>0, <2>1, <2>5, <2>6 DEF Timed
    <2>7. \A u \in All : timer_id'[u] # -1 => pc'[u] \in {"set", "aborted"}
      BY <1>0, <2>1 DEF Timed
    <2> QED  BY <1>0, <2>1, <2>3, <2>4, <2>6, <2>7 DEF Timed
  <1>4. ASSUME NEW t \in All, EmplaceBack(t) \/ DoClean(t) PROVE Timed'
    <2>1. cur[t] \in Conns  BY <1>4, InHand DEF EmplaceBack, DoClean, Working
    <2>2. ts_tcp_connections_' \in [Conns -> 0 .. MaxListed]
      <3>1. ASSUME NEW n \in 0 .. MaxListed PROVE OneLess(n) \subseteq 0 .. MaxListed
        BY DEF OneLess
      <3>2. ts_tcp_connections_[cur[t]] \in 0 .. MaxListed  BY <1>0, <2>1 DEF Timed
      <3>3. PICK n \in 0 .. MaxListed : ts_tcp_connections_' = [ts_tcp_connections_ EXCEPT ![cur[t]] = n]
        <4>1. CASE EmplaceBack(t)
          <5>1. (IF ts_tcp_connections_[cur[t]] < MaxListed THEN ts_tcp_connections_[cur[t]] + 1
                 ELSE ts_tcp_connections_[cur[t]]) \in 0 .. MaxListed
            BY <3>2
          <5> QED  BY <4>1, <5>1 DEF EmplaceBack
        <4>2. CASE DoClean(t)  BY <3>1, <3>2, <4>2 DEF DoClean
        <4> QED  BY <1>4, <4>1, <4>2
      <3> QED  BY <1>0, <2>1, <3>3 DEF Timed
    <2>3. /\ UNCHANGED <<tc_timer_id, timer_id, timers, accepted, cur>>
          /\ \E p \in {"send", "idle", "next"} : pc' = [pc EXCEPT ![t] = p]
          /\ pc[t] \in {"append", "clean"}
      BY <1>4 DEF EmplaceBack, DoClean, Rest, conns
    <2> QED  BY <1>0, <2>2, <2>3 DEF Timed
  <1>5. CASE Poll \/ Dispatch \/ Accept \/ Register
    <2>1. /\ UNCHANGED <<tc_timer_id, ts_tcp_connections_, timer_id, timers>>
          /\ accepted' \in {accepted, accepted + 1}
      BY <1>5 DEF Poll, Dispatch, Accept, Register, conns, server
    <2>2. ASSUME NEW t \in All, pc[t] \in {"set", "aborted"}
          PROVE  cur'[t] = cur[t] /\ pc'[t] \in {pc[t], "aborted"}
      BY <1>0, <1>5, <2>2 DEF Poll, Dispatch, Abort, Accept, Register
    <2> QED  BY <1>1, <2>1, <2>2
  <1>6. CASE Read \/ Cancel \/ Send \/ Activate \/ DoWrite
    <2>1. /\ UNCHANGED <<tc_timer_id, ts_tcp_connections_, timer_id, accepted, cur>> /\ timers' \subseteq timers
      BY <1>6 DEF Read, Cancel, Send, Activate, DoWrite, Write, Written, conns, server
    <2>2. ASSUME NEW t \in All, pc[t] \in {"set", "aborted"} PROVE pc'[t] = pc[t]
      BY <1>0, <1>6, <2>2 DEF Read, Cancel, Send, Activate, DoWrite, Write, Written
    <2> QED  BY <1>1, <2>1, <2>2
  <1>7. ASSUME NEW t \in All, Close(t) \/ ClearAndTake(t) \/ Shut(t) PROVE Timed'
    <2>1. /\ UNCHANGED <<tc_timer_id, ts_tcp_connections_, timer_id, accepted, cur, timers>>
      BY <1>7 DEF Close, ClearAndTake, Shut, conns, server
    <2>2. ASSUME NEW u \in All, pc[u] \in {"set", "aborted"} PROVE pc'[u] = pc[u]
      BY <1>0, <1>7, <2>2 DEF Close, ClearAndTake, Shut
    <2> QED  BY <1>1, <2>1, <2>2
  <1>8. ASSUME NEW c \in Conns, PeerSends(c) \/ PeerCloses(c) PROVE Timed'
    BY <1>0, <1>1, <1>8 DEF PeerSends, PeerCloses, conns, server, threads
  <1>9. ASSUME NEW w \in Workers, TimeOut(w) PROVE Timed'
    <2>1. /\ UNCHANGED <<tc_timer_id, ts_tcp_connections_, timer_id, accepted>> /\ timers' \subseteq timers
      BY <1>9 DEF TimeOut, conns
    <2>2. ASSUME NEW u \in All, pc[u] \in {"set", "aborted"} PROVE pc'[u] = pc[u] /\ cur'[u] = cur[u]
      BY <1>0, <1>9, <2>2 DEF TimeOut
    <2> QED  BY <1>1, <2>1, <2>2
  <1> QED  BY <1>2, <1>3, <1>4, <1>5, <1>6, <1>7, <1>8, <1>9
           DEF Next, LoopThread, DoRead, DoClose, AddNewTcpConn

LEMMA KnownKept == ASSUME Known, Next PROVE Known'
  BY PlacedKept, CountedKept, FiledKept, TimedKept DEF Known

-----------------------------------------------------------------------------
(* Who has shut a connection finds it shut when it takes it off the list.    *)
LEMMA CleanedKept == ASSUME Known, Cleaned, Next PROVE Cleaned'
  <1> USE DEF Cleaned, Goto, Loop, Acceptor, All
  <1>0. /\ pc \in [All -> LoopPlaces \cup AcceptorPlaces \cup WorkerPlaces] /\ cur \in [All -> 0 .. accepted]
        /\ tc_fd_ \in [Conns -> Descriptors] /\ Acceptor \notin Workers /\ Loop \notin Workers
        /\ \A t \in All : Working(t) => cur[t] \in 1 .. accepted /\ cur[t] \in Conns
        /\ accepted \in 0 .. MaxConns /\ MaxConns \in Nat
    BY InHand, ConnAssumption DEF Known, Placed, Filed, Counted, ConnAssumption
  <1>1. CASE UNCHANGED <<tc_fd_, cur>> /\ \A t \in All : pc'[t] = "clean" => pc[t] = "clean"
    BY <1>0, <1>1
  <1>2. CASE Dispatch
    BY <1>0, <1>2 DEF Dispatch, conns, Abort
  <1>3. CASE Accept
    <2>1. PICK f \in Fds : tc_fd_' = [tc_fd_ EXCEPT ![accepted + 1] = f]
      BY <1>3 DEF Accept
    <2>2. ASSUME NEW t \in All, pc'[t] = "clean" PROVE tc_fd_'[cur'[t]] = -1
      <3>1. pc[t] = "clean" /\ cur'[t] = cur[t]  BY <1>0, <1>3, <2>2 DEF Accept
      <3>2. cur[t] # accepted + 1 /\ cur[t] \in Conns  BY <1>0, <3>1 DEF Working
      <3> QED  BY <1>0, <2>1, <3>1, <3>2
    <2> QED  BY <2>2
  <1>4. CASE Poll \/ Register \/ (DoRead /\ ~AddNewTcpConn(Loop)) \/ DoWrite
    BY <1>0, <1>1, <1>4 DEF Poll, Register, DoRead, Read, Cancel, Send, Activate, AfterRead,
          DoWrite, Write, Written, conns
  <1>9. ASSUME NEW t \in All, AddNewTcpConn(t) PROVE Cleaned'
    BY <1>0, <1>1, <1>9 DEF AddNewTcpConn, RunAfter, SetTimerId, EmplaceBack, conns
  <1>5. ASSUME NEW t \in All, Close(t) \/ ClearAndTake(t) \/ DoClean(t) PROVE Cleaned'
    BY <1>0, <1>1, <1>5 DEF Close, ClearAndTake, DoClean, Rest, conns
  <1>6. ASSUME NEW t \in All, Shut(t) PROVE Cleaned'
    <2>1. \A u \in All : pc[u] = "clean" => cur[u] \in Conns  BY <1>0 DEF Working
    <2>2. cur[t] \in Conns  BY <1>0, <1>6 DEF Shut, Working
    <2> QED  BY <1>0, <1>6, <2>1, <2>2 DEF Shut
  <1>7. ASSUME NEW c \in Conns, PeerSends(c) \/ PeerCloses(c) PROVE Cleaned'
    BY <1>0, <1>1, <1>7 DEF PeerSends, PeerCloses, conns, threads
  <1>8. ASSUME NEW w \in Workers, TimeOut(w) PROVE Cleaned'
    BY <1>0, <1>8 DEF TimeOut, conns
  <1> QED  BY <1>2, <1>3, <1>4, <1>5, <1>6, <1>7, <1>8, <1>9 DEF Next, LoopThread, DoRead, DoClose

(* A timer goes only when its connection is closed or gets another one; a     *)
(* place in the list only when it is closed.                                 *)
LEMMA MindedKept == ASSUME Known, Cleaned, Minded, Next PROVE Minded'
  <1> USE DEF Goto, Loop, Acceptor, All
  <1>0. /\ pc \in [All -> LoopPlaces \cup AcceptorPlaces \cup WorkerPlaces] /\ cur \in [All -> 0 .. accepted]
        /\ Acceptor \notin Workers /\ Loop \notin Workers /\ accepted \in 0 .. MaxConns
        /\ tc_fd_ \in [Conns -> Descriptors] /\ ts_tcp_connections_ \in [Conns -> 0 .. MaxListed]
        /\ \A t \in All : Working(t) => cur[t] \in 1 .. accepted /\ cur[t] \in Conns
    BY InHand, ConnAssumption DEF Known, Placed, Filed, Counted, Timed, ConnAssumption
  <1>1. ASSUME UNCHANGED <<ts_tcp_connections_, timers>>,
               \A c \in Conns : Alive(c)' => Alive(c) /\ (Arriving(c) => Arriving(c)') /\ (Unarmed(c) => Unarmed(c)')
        PROVE  Minded'
    BY <1>1 DEF Minded, HasTimer
  <1>2. CASE Poll \/ Register \/ Read \/ Send \/ Activate \/ DoWrite
    <2>1. UNCHANGED <<ts_tcp_connections_, timers, tc_fd_, cur>>
      BY <1>2 DEF Poll, Register, Read, Send, Activate, DoWrite, Write, Written, server, conns
    <2>2. /\ pc[Acceptor] # "idle" => pc'[Acceptor] # "idle"
          /\ pc[Acceptor] \in {"register", "arm"} => pc'[Acceptor] \in {"register", "arm"}
          /\ \A t \in All : pc[t] \in {"close", "clear", "shut", "clean", "aborted"} => pc'[t] = pc[t]
          /\ pc[Loop] \in {"arm", "register"} => pc'[Loop] = pc[Loop]
      BY <1>0, <1>2 DEF Poll, Register, Read, Send, Activate, DoWrite, Write, Written, AfterRead,
            Known, Placed, LoopPlaces, Serves, Closes
    <2> QED  BY <1>1, <2>1, <2>2 DEF Alive, Closing, Arriving, Unarmed
  <1>3. CASE Dispatch
    <2>1. UNCHANGED <<ts_tcp_connections_, timers, tc_fd_>> /\ pc[Loop] = "next"
          /\ (\A t \in All \ {Loop} : cur'[t] = cur[t])
      BY <1>0, <1>3 DEF Dispatch, server, conns
    <2>2. pc'[Loop] = "aborted" \/ \A t \in All \ {Loop} : pc'[t] = pc[t]
      BY <1>0, <1>3 DEF Dispatch, Abort
    <2>3. ASSUME NEW c \in Conns, Alive(c)'
          PROVE  Alive(c) /\ (Arriving(c) => Arriving(c)') /\ (Unarmed(c) => Unarmed(c)')
      BY <2>1, <2>2, <2>3 DEF Alive, Closing, Arriving, Unarmed
    <2> QED  BY <1>1, <2>1, <2>3
  <1>4. CASE Accept
    <2>1. UNCHANGED <<ts_tcp_connections_, timers>> /\ pc[Acceptor] = "idle"
          /\ pc' = [pc EXCEPT ![Acceptor] = "register"] /\ cur' = [cur EXCEPT ![Acceptor] = accepted + 1]
      BY <1>4 DEF Accept
    <2>2. \A c \in Conns \ {accepted + 1} : tc_fd_'[c] = tc_fd_[c]
      BY <1>0, <1>4 DEF Accept
    <2>3. ASSUME NEW c \in Conns, c = accepted + 1 PROVE Arriving(c)' /\ Unarmed(c)'
      BY <1>0, <2>1, <2>3 DEF Arriving, Unarmed
    <2>4. ASSUME NEW c \in Conns \ {accepted + 1}, Alive(c)'
          PROVE  Alive(c) /\ ~Arriving(c) /\ (Unarmed(c) => Unarmed(c)')
      BY <1>0, <2>1, <2>2, <2>4 DEF Alive, Closing, Arriving, Unarmed
    <2> QED  BY <2>1, <2>3, <2>4 DEF Minded, HasTimer
  <1>5. ASSUME NEW t \in {Loop, Acceptor}, RunAfter(t) PROVE Minded'
    <2>1. PICK i \in NewIds(t) : timers' = timers \cup {<<i, cur[t]>>}
      BY <1>5 DEF RunAfter
    <2>2. /\ UNCHANGED <<tc_fd_, ts_tcp_connections_, cur>> /\ pc[t] = "arm" /\ pc' = [pc EXCEPT ![t] = "set"]
      BY <1>5 DEF RunAfter, conns
    <2>3. HasTimer(cur[t])' /\ \A c \in Conns : HasTimer(c) => HasTimer(c)'
      <3>1. <<i, cur[t]>> \in timers' /\ <<i, cur[t]>>[2] = cur[t]  BY <2>1
      <3> QED  BY <2>1, <2>2, <3>1 DEF HasTimer
    <2>4. ASSUME NEW c \in Conns, Alive(c)'
          PROVE  Alive(c) /\ (Arriving(c) => Arriving(c)') /\ (c # cur[t] /\ Unarmed(c) => Unarmed(c)')
      BY <1>0, <2>2, <2>4 DEF Alive, Closing, Arriving, Unarmed
    <2> QED  BY <2>2, <2>3, <2>4 DEF Minded
  <1>6. ASSUME NEW t \in {Loop, Acceptor}, SetTimerId(t) PROVE Minded'
    <2>1. /\ UNCHANGED <<tc_fd_, ts_tcp_connections_, timers, cur>>
          /\ pc[t] = "set" /\ pc' = [pc EXCEPT ![t] = "append"]
      BY <1>6 DEF SetTimerId, server
    <2> QED  BY <1>0, <1>1, <2>1 DEF Alive, Closing, Arriving, Unarmed
  <1>7. ASSUME NEW t \in {Loop, Acceptor}, EmplaceBack(t) PROVE Minded'
    <2>1. /\ UNCHANGED <<tc_fd_, timers, cur>> /\ cur[t] \in Conns /\ pc[t] = "append"
          /\ \E p \in {"send", "idle"} : pc' = [pc EXCEPT ![t] = p]
      BY <1>0, <1>7 DEF EmplaceBack, Working, conns
    <2>2. ts_tcp_connections_'[cur[t]] > 0 /\ \A c \in Conns : ts_tcp_connections_[c] > 0 => ts_tcp_connections_'[c] > 0
      <3>1. ts_tcp_connections_[cur[t]] \in 0 .. MaxListed /\ MaxListed \in Nat \ {0}
        BY <1>0, <2>1, ConnAssumption DEF ConnAssumption
      <3>2. /\ ts_tcp_connections_'[cur[t]] = IF ts_tcp_connections_[cur[t]] < MaxListed
                                              THEN ts_tcp_connections_[cur[t]] + 1 ELSE ts_tcp_connections_[cur[t]]
            /\ \A c \in Conns \ {cur[t]} : ts_tcp_connections_'[c] = ts_tcp_connections_[c]
        BY <1>0, <1>7, <2>1 DEF EmplaceBack
      <3>3. ts_tcp_connections_'[cur[t]] > 0  BY <3>1, <3>2
      <3> QED  BY <3>2, <3>3
    <2>3. ASSUME NEW c \in Conns, Alive(c)'
          PROVE  Alive(c) /\ (c # cur[t] /\ Arriving(c) => Arriving(c)') /\ (Unarmed(c) => Unarmed(c)')
      BY <1>0, <2>1, <2>3 DEF Alive, Closing, Arriving, Unarmed
    <2>4. \A c \in Conns : HasTimer(c)' <=> HasTimer(c)
      BY <2>1 DEF HasTimer
    <2> QED  BY <2>2, <2>3, <2>4 DEF Minded
  <1>8. CASE Cancel
    <2>1. /\ pc[Loop] = "cancel" /\ pc' = [pc EXCEPT ![Loop] = "arm"] /\ cur[Loop] \in Conns
          /\ timers' = {x \in timers : x[1] # tc_timer_id[cur[Loop]]}
          /\ UNCHANGED <<ts_tcp_connections_, tc_fd_, cur>>
      BY <1>0, <1>8 DEF Cancel, conns, Working
    <2>2. Unarmed(cur[Loop])'
      BY <1>0, <2>1 DEF Unarmed
    <2>3. ASSUME NEW c \in Conns, Alive(c)'
          PROVE  Alive(c) /\ (Arriving(c) => Arriving(c)') /\ (Unarmed(c) => Unarmed(c)')
      BY <1>0, <2>1, <2>3 DEF Alive, Closing, Arriving, Unarmed
    <2>4. ASSUME NEW c \in Conns, c # cur[Loop], HasTimer(c) PROVE HasTimer(c)'
      <3>1. PICK x \in timers : x[2] = c  BY <2>4 DEF HasTimer
      <3>2. x[1] # tc_timer_id[cur[Loop]]  BY <2>1, <2>4, <3>1 DEF Known, Timed
      <3> QED  BY <2>1, <3>1, <3>2 DEF HasTimer
    <2> QED  BY <2>1, <2>2, <2>3, <2>4 DEF Minded
  <1>9. ASSUME NEW t \in All, Close(t) \/ ClearAndTake(t) \/ Shut(t) PROVE Minded'
    <2>1. /\ UNCHANGED <<ts_tcp_connections_, timers, cur>>
          /\ \/ pc[t] = "close" /\ pc' = [pc EXCEPT ![t] = "clear"]
             \/ pc[t] = "clear" /\ pc' = [pc EXCEPT ![t] = "shut"]
             \/ pc[t] = "shut" /\ pc' = [pc EXCEPT ![t] = "clean"]
      BY <1>9 DEF Close, ClearAndTake, Shut, server
    <2>2. \A c \in Conns : tc_fd_'[c] # -1 => tc_fd_[c] # -1
      BY <1>0, <1>9 DEF Close, ClearAndTake, Shut, conns
    <2> QED  BY <1>0, <1>1, <2>1, <2>2 DEF Alive, Closing, Arriving, Unarmed
  <1>10. ASSUME NEW t \in All, DoClean(t) PROVE Minded'
    <2>1. /\ UNCHANGED <<tc_fd_, timers, cur>> /\ pc[t] = "clean" /\ pc' = [pc EXCEPT ![t] = Rest(t)]
          /\ cur[t] \in Conns /\ tc_fd_[cur[t]] = -1 /\ t # Acceptor
          /\ \A c \in Conns \ {cur[t]} : ts_tcp_connections_'[c] = ts_tcp_connections_[c]
      BY <1>0, <1>10 DEF DoClean, conns, Working, Cleaned, Known, Placed, AcceptorPlaces
    <2>2. ASSUME NEW c \in Conns, Alive(c)'
          PROVE  c # cur[t] /\ Alive(c) /\ (Arriving(c) => Arriving(c)') /\ (Unarmed(c) => Unarmed(c)')
      BY <1>0, <2>1, <2>2 DEF Alive, Closing, Arriving, Unarmed, Rest
    <2>3. \A c \in Conns : HasTimer(c)' <=> HasTimer(c)
      BY <2>1 DEF HasTimer
    <2> QED  BY <2>1, <2>2, <2>3 DEF Minded
  <1>11. ASSUME NEW c \in Conns, PeerSends(c) \/ PeerCloses(c) PROVE Minded'
    BY <1>1, <1>11 DEF PeerSends, PeerCloses, server, threads, conns, Alive, Closing, Arriving, Unarmed
  <1>12. ASSUME NEW w \in Workers, TimeOut(w) PROVE Minded'
    <2>1. PICK x \in timers : timers' = timers \ {x} /\ cur' = [cur EXCEPT ![w] = x[2]]
      BY <1>12 DEF TimeOut
    <2>2. /\ UNCHANGED <<tc_fd_, ts_tcp_connections_>> /\ pc[w] = "idle" /\ pc' = [pc EXCEPT ![w] = "close"]
      BY <1>12 DEF TimeOut, conns
    <2>3. ASSUME NEW c \in Conns, Alive(c)'
          PROVE  c # x[2] /\ Alive(c) /\ (Arriving(c) => Arriving(c)') /\ (Unarmed(c) => Unarmed(c)')
      BY <1>0, <2>1, <2>2, <2>3 DEF Alive, Closing, Arriving, Unarmed
    <2>4. \A c \in Conns : c # x[2] /\ HasTimer(c) => HasTimer(c)'
      BY <2>1 DEF HasTimer
    <2> QED  BY <2>2, <2>3, <2>4 DEF Minded
  <1> QED  BY <1>2, <1>3, <1>4, <1>5, <1>6, <1>7, <1>8, <1>9, <1>10, <1>11, <1>12
           DEF Next, LoopThread, DoRead, DoClose, AddNewTcpConn

-----------------------------------------------------------------------------
(* Before the first timeout only the acceptor and the loop are at work.      *)

\* What the lemmas below use of the types.
Typed == /\ pc \in [All -> LoopPlaces \cup AcceptorPlaces \cup WorkerPlaces]
         /\ pc[Loop] \in LoopPlaces /\ pc[Acceptor] \in AcceptorPlaces
         /\ cur \in [All -> 0 .. accepted] /\ fd \in [All -> Descriptors]
         /\ tc_fd_ \in [Conns -> Descriptors] /\ sock \in [Fds -> 0 .. accepted]
         /\ ep_event_map_ \in [Descriptors -> [event : Events, read : 0 .. accepted, write : 0 .. accepted]]
         /\ epoll \in [Fds -> Events]
         /\ ibytes \in [Conns -> Nat] /\ obuf \in [Conns -> Nat]
         /\ \A c \in Conns : c > accepted => tc_fd_[c] = -1
         /\ \A t \in All : Working(t) => cur[t] \in 1 .. accepted /\ cur[t] \in Conns
         /\ accepted \in Nat /\ MaxConns \in Nat /\ accepted <= MaxConns /\ -1 \notin Fds
         /\ Acceptor \notin Workers /\ Loop \notin Workers

LEMMA KnownTypes == ASSUME Known PROVE Typed
  <1>1. \A t \in All : Working(t) => cur[t] \in 1 .. accepted /\ cur[t] \in Conns
    BY InHand
  <1> QED  BY <1>1, ConnAssumption DEF ConnAssumption, Known, Placed, Counted, Filed, Typed

LEMMA KnownTypesPrimed == Known' => Typed'
  BY KnownTypes, PTL

(* The descriptors: a new connection gets a free one, a closed one gives its *)
(* own back.                                                                 *)
LEMMA OwnedKept == ASSUME Known, Calm, Agreed, Next, Calm' PROVE Owned'
  <1> USE DEF Goto, Loop, Acceptor, All, Calm
  <1>0. Typed /\ Owned /\ InStep  BY KnownTypes DEF Agreed
  <1>1. CASE UNCHANGED <<tc_fd_, sock>> /\ \A w \in Workers : pc'[w] \in {pc[w], "aborted"}
    BY <1>0, <1>1 DEF Owned
  <1>2. CASE Poll \/ Dispatch \/ Register \/ DoRead \/ DoWrite \/ AddNewTcpConn(Acceptor)
    <2>1. UNCHANGED <<tc_fd_, sock>>
      BY <1>2 DEF Poll, Dispatch, Register, AddNewTcpConn, RunAfter, SetTimerId, EmplaceBack, DoRead, Read, Cancel,
            Send, Activate, DoWrite, Write, Written, conns, kernel
    <2>2. \A w \in Workers : pc'[w] \in {pc[w], "aborted"}
      BY <1>0, <1>2 DEF Typed, Poll, Dispatch, Abort, Register, AddNewTcpConn, RunAfter, SetTimerId, EmplaceBack,
            DoRead, Read, Cancel, Send, Activate, DoWrite, Write, Written
    <2> QED  BY <1>1, <2>1, <2>2
  <1>3. CASE Accept
    <2>1. PICK f \in Fds : /\ sock[f] = NoConn /\ sock' = [sock EXCEPT ![f] = accepted + 1]
                           /\ tc_fd_' = [tc_fd_ EXCEPT ![accepted + 1] = f]
      BY <1>3 DEF Accept
    <2>2. accepted + 1 \in Conns /\ accepted + 1 # NoConn /\ tc_fd_[accepted + 1] = -1
      BY <1>0, <1>3, ConnAssumption DEF Accept, Typed, Conns, NoConn, ConnAssumption
    <2>3. \A w \in Workers : pc'[w] = pc[w]
      BY <1>0, <1>3 DEF Accept, Typed
    <2>4. ASSUME NEW c \in Conns, tc_fd_'[c] # -1 PROVE sock'[tc_fd_'[c]] = c
      <3>1. CASE c = accepted + 1  BY <1>0, <2>1, <2>2, <3>1 DEF Typed
      <3>2. CASE c # accepted + 1
        <4>1. tc_fd_'[c] = tc_fd_[c] /\ sock[tc_fd_[c]] = c /\ tc_fd_[c] \in Fds
          BY <1>0, <2>1, <2>4, <3>2 DEF Typed, Owned, Descriptors
        <4>2. tc_fd_[c] # f  BY <2>1, <4>1 DEF NoConn, Conns
        <4> QED  BY <1>0, <2>1, <4>1, <4>2 DEF Typed
      <3> QED  BY <3>1, <3>2
    <2>5. ASSUME NEW g \in Fds, sock'[g] # NoConn PROVE tc_fd_'[sock'[g]] = g
      <3>1. CASE g = f  BY <1>0, <2>1, <2>2, <3>1 DEF Typed
      <3>2. CASE g # f
        <4>1. sock'[g] = sock[g] /\ tc_fd_[sock[g]] = g
          BY <1>0, <2>1, <2>5, <3>2 DEF Typed, Owned
        <4>2. sock[g] # accepted + 1 /\ sock[g] \in 0 .. accepted
          BY <1>0 DEF Typed
        <4> QED  BY <1>0, <2>1, <4>1, <4>2, <2>5 DEF Typed, Conns, NoConn
      <3> QED  BY <3>1, <3>2
    <2> QED  BY <1>0, <2>3, <2>4, <2>5 DEF Owned
  <1>4. CASE Close(Loop) \/ ClearAndTake(Loop) \/ DoClean(Loop)
    BY <1>0, <1>1, <1>4 DEF Close, ClearAndTake, DoClean, Typed, conns, kernel
  <1>5. CASE Shut(Loop)
    <2>1. /\ cur[Loop] \in Conns /\ fd[Loop] = tc_fd_[cur[Loop]] /\ fd[Loop] # -1
          /\ tc_fd_' = [tc_fd_ EXCEPT ![cur[Loop]] = -1]
          /\ sock' = [f \in Fds |-> IF f = fd[Loop] THEN NoConn ELSE sock[f]]
          /\ \A w \in Workers : pc'[w] = pc[w]
      BY <1>0, <1>5 DEF Shut, Typed, InStep, Working
    <2>2. fd[Loop] \in Fds /\ sock[fd[Loop]] = cur[Loop]
      BY <1>0, <2>1 DEF Typed, Owned, Descriptors
    <2>3. ASSUME NEW c \in Conns, tc_fd_'[c] # -1 PROVE sock'[tc_fd_'[c]] = c
      <3>1. c # cur[Loop] /\ tc_fd_'[c] = tc_fd_[c] /\ tc_fd_[c] \in Fds /\ sock[tc_fd_[c]] = c
        BY <1>0, <2>1, <2>3 DEF Typed, Owned, Descriptors
      <3> QED  BY <2>1, <2>2, <3>1
    <2>4. ASSUME NEW g \in Fds, sock'[g] # NoConn PROVE tc_fd_'[sock'[g]] = g
      <3>1. g # fd[Loop] /\ sock'[g] = sock[g] /\ tc_fd_[sock[g]] = g
        BY <1>0, <2>1, <2>4 DEF Owned
      <3>2. sock[g] # cur[Loop]  BY <2>1, <3>1
      <3>3. sock[g] \in Conns  BY <2>4, <3>1, Sockets DEF Socket
      <3> QED  BY <1>0, <2>1, <3>1, <3>2, <3>3 DEF Typed
    <2> QED  BY <1>0, <2>1, <2>3, <2>4 DEF Owned
  <1>6. ASSUME NEW c \in Conns, PeerSends(c) \/ PeerCloses(c) PROVE Owned'
    BY <1>1, <1>6 DEF PeerSends, PeerCloses, conns, threads
  <1>7. ASSUME NEW w \in Workers, DoClose(w) PROVE FALSE
    BY <1>0, <1>7 DEF DoClose, Close, ClearAndTake, Shut, DoClean, Owned
  <1>8. ASSUME NEW w \in Workers, TimeOut(w) PROVE FALSE
    BY <1>8 DEF TimeOut
  <1> QED  BY <1>2, <1>3, <1>4, <1>5, <1>6, <1>7, <1>8 DEF Next, LoopThread, DoClose

(* What the calls of the poller do then: they find the descriptor of the     *)
(* connection, and the kernel agrees.                                        *)
Only(f) == /\ \A g \in Fds \ {f} : ep_event_map_'[g] = ep_event_map_[g] /\ epoll'[g] = epoll[g]
           /\ ep_event_map_' \in [Descriptors -> [event : Events, read : 0 .. accepted, write : 0 .. accepted]]
           /\ epoll' \in [Fds -> Events]

LEMMA Described == ASSUME Typed, Owned, NEW c \in Conns, tc_fd_[c] # -1
                   PROVE  tc_fd_[c] \in Fds /\ sock[tc_fd_[c]] = c /\ Socket(tc_fd_[c]) = c
  BY DEF Typed, Owned, Descriptors, Socket

LEMMA RegisterDoes == ASSUME Typed, Agreed, Register
  PROVE  /\ cur[Acceptor] \in Conns /\ Only(tc_fd_[cur[Acceptor]])
         /\ ep_event_map_'[tc_fd_[cur[Acceptor]]] = [event |-> {"in"}, read |-> cur[Acceptor], write |-> NoConn]
         /\ epoll'[tc_fd_[cur[Acceptor]]] = {"in"}
  <1> DEFINE c == cur[Acceptor]
             f == tc_fd_[c]
  <1>1. c \in Conns /\ c \in 0 .. accepted /\ EpollAdd(f, "in", c) /\ f # -1 /\ ep_event_map_[f] = Nothing
    BY DEF Register, Typed, Working, All, Loop, Acceptor, Agreed, InStep
  <1>2. f \in Fds /\ Socket(f) = c /\ c # NoConn
    BY <1>1, Described DEF Agreed, Conns, NoConn
  <1>3. epoll[f] = {}
    BY <1>1, <1>2 DEF Agreed, Mapped
  <1> HIDE DEF f, c
  <1>4. /\ ep_event_map_' = [ep_event_map_ EXCEPT ![f] = [event |-> {"in"}, read |-> c, write |-> NoConn]]
        /\ epoll' = [epoll EXCEPT ![f] = {"in"}]
    BY <1>1, <1>2, <1>3 DEF EpollAdd, Nothing
  <1>5. Only(f) /\ ep_event_map_'[f] = [event |-> {"in"}, read |-> c, write |-> NoConn] /\ epoll'[f] = {"in"}
    BY <1>1, <1>2, <1>4 DEF Only, Typed, Events, Descriptors, NoConn
  <1> QED  BY <1>1, <1>5 DEF f, c

LEMMA ActivateDoes == ASSUME Typed, Agreed, Activate
  PROVE  /\ cur[Loop] \in Conns /\ tc_fd_[cur[Loop]] \in Fds /\ sock[tc_fd_[cur[Loop]]] = cur[Loop]
         /\ ep_event_map_[tc_fd_[cur[Loop]]] # Nothing /\ Only(tc_fd_[cur[Loop]])
         /\ ep_event_map_'[tc_fd_[cur[Loop]]] =
              [event |-> {"in", "out"}, read |-> cur[Loop], write |-> cur[Loop]]
         /\ epoll'[tc_fd_[cur[Loop]]] = {"in", "out"}
  <1> DEFINE c == cur[Loop]
             f == tc_fd_[c]
  <1>1. c \in Conns /\ c \in 0 .. accepted /\ EpollAdd(f, "out", c) /\ f # -1 /\ ep_event_map_[f] # Nothing
    BY DEF Activate, Typed, Working, All, Agreed, InStep, Serves
  <1>2. f \in Fds /\ Socket(f) = c /\ sock[f] = c /\ c # NoConn
    BY <1>1, Described DEF Agreed, Conns, NoConn
  <1>3. epoll[f] = ep_event_map_[f].event /\ "in" \in epoll[f] /\ ep_event_map_[f].read = c /\ epoll[f] \in Events
    BY <1>1, <1>2 DEF Agreed, Mapped, Typed
  <1> HIDE DEF f, c
  <1>4. epoll[f] \cup {"out"} = {"in", "out"}
    BY <1>3 DEF Events
  <1>5. /\ ep_event_map_' = [ep_event_map_ EXCEPT ![f] = [event |-> {"in", "out"}, read |-> c, write |-> c]]
        /\ epoll' = [epoll EXCEPT ![f] = {"in", "out"}]
    BY <1>1, <1>2, <1>3, <1>4 DEF EpollAdd
  <1>6. /\ Only(f) /\ ep_event_map_'[f] = [event |-> {"in", "out"}, read |-> c, write |-> c]
        /\ epoll'[f] = {"in", "out"}
    BY <1>1, <1>2, <1>5 DEF Only, Typed, Events, Descriptors
  <1> QED  BY <1>1, <1>2, <1>6 DEF f, c

LEMMA DisarmDoes == ASSUME Typed, Agreed, Written, AllWritten(cur[Loop])
  PROVE  /\ cur[Loop] \in Conns /\ tc_fd_[cur[Loop]] \in Fds /\ sock[tc_fd_[cur[Loop]]] = cur[Loop]
         /\ ep_event_map_[tc_fd_[cur[Loop]]] # Nothing /\ Only(tc_fd_[cur[Loop]])
         /\ ep_event_map_'[tc_fd_[cur[Loop]]] = [ep_event_map_[tc_fd_[cur[Loop]]] EXCEPT !.event = {"in"}]
         /\ epoll'[tc_fd_[cur[Loop]]] = {"in"}
  <1> DEFINE c == cur[Loop]
             f == tc_fd_[c]
  <1>1. c \in Conns /\ EpollDel(f, "out") /\ f # -1 /\ ep_event_map_[f] # Nothing
    BY DEF Written, Typed, Working, All, Agreed, InStep, Serves
  <1>2. f \in Fds /\ sock[f] = c
    BY <1>1, Described DEF Agreed
  <1>3. epoll[f] = ep_event_map_[f].event /\ "in" \in ep_event_map_[f].event /\ ep_event_map_[f].event \in Events
    BY <1>1, <1>2 DEF Agreed, Mapped, Typed, Descriptors
  <1> HIDE DEF f, c
  <1>4. ep_event_map_[f].event \ {"out"} = {"in"} /\ epoll[f] # {}
    BY <1>3 DEF Events
  <1>5. /\ ep_event_map_' = [ep_event_map_ EXCEPT ![f].event = {"in"}]
        /\ epoll' = [epoll EXCEPT ![f] = {"in"}]
    BY <1>1, <1>2, <1>4 DEF EpollDel
  <1>6. /\ Only(f) /\ ep_event_map_'[f] = [ep_event_map_[f] EXCEPT !.event = {"in"}]
        /\ epoll'[f] = {"in"}
    BY <1>1, <1>2, <1>5 DEF Only, Typed, Events, Descriptors
  <1> QED  BY <1>1, <1>2, <1>6 DEF f, c

LEMMA UnregisterDoes == ASSUME Typed, Agreed, Close(Loop)
  PROVE  /\ cur[Loop] \in Conns /\ tc_fd_[cur[Loop]] \in Fds /\ sock[tc_fd_[cur[Loop]]] = cur[Loop]
         /\ ep_event_map_[tc_fd_[cur[Loop]]] # Nothing /\ Only(tc_fd_[cur[Loop]])
         /\ ep_event_map_'[tc_fd_[cur[Loop]]] = Nothing /\ epoll'[tc_fd_[cur[Loop]]] = {}
  <1> DEFINE c == cur[Loop]
             f == tc_fd_[c]
  <1>1. c \in Conns /\ EpollErase(f) /\ f # -1 /\ ep_event_map_[f] # Nothing
    BY DEF Close, Unregister, Typed, Working, All, Agreed, InStep
  <1>2. f \in Fds /\ sock[f] = c
    BY <1>1, Described DEF Agreed
  <1> HIDE DEF f, c
  <1>3. Only(f) /\ ep_event_map_'[f] = Nothing /\ epoll'[f] = {}
    BY <1>1, <1>2 DEF EpollErase, Only, Typed, Events, Descriptors, Nothing, NoConn
  <1> QED  BY <1>1, <1>2, <1>3 DEF f, c

(* Registering and unregistering keep the map and the kernel in agreement.   *)
LEMMA MappedKept == ASSUME Known, Calm, Agreed, Next, Calm' PROVE Mapped'
  <1> USE DEF Goto, Loop, Acceptor, All, Calm
  <1>0. Typed /\ Owned /\ Mapped /\ InStep  BY KnownTypes DEF Agreed
  <1>1. CASE UNCHANGED <<ep_event_map_, epoll, sock>>
    BY <1>0, <1>1 DEF Mapped
  <1>2. ASSUME NEW f, Only(f), UNCHANGED sock, NEW ev, ep_event_map_'[f] = ev,
               \/ ev = Nothing /\ epoll'[f] = {}
               \/ /\ ev # Nothing /\ epoll'[f] = ev.event /\ "in" \in ev.event
                  /\ sock[f] = ev.read /\ sock[f] # NoConn /\ ev.write \in {NoConn, ev.read}
                  /\ "out" \in ev.event => ev.write = ev.read
        PROVE  Mapped'
    BY <1>0, <1>2 DEF Mapped, Only
  <1>3. CASE Register
    <2> DEFINE f == tc_fd_[cur[Acceptor]]
               ev == [event |-> {"in"}, read |-> cur[Acceptor], write |-> NoConn]
    <2>1. Only(f) /\ UNCHANGED sock /\ ep_event_map_'[f] = ev /\ epoll'[f] = {"in"} /\ cur[Acceptor] \in Conns
      BY <1>0, <1>3, RegisterDoes DEF Agreed, Register, kernel
    <2>2. /\ sock[f] = cur[Acceptor] /\ cur[Acceptor] # NoConn /\ ev # Nothing
          /\ ev.event = {"in"} /\ ev.read = cur[Acceptor] /\ ev.write = NoConn
      BY <1>0, <1>3, <2>1, Described DEF InStep, Register, Conns, NoConn, Nothing
    <2> HIDE DEF f, ev
    <2> QED  BY <1>2, <2>1, <2>2
  <1>4. CASE Activate
    <2> DEFINE f == tc_fd_[cur[Loop]]
               ev == [event |-> {"in", "out"}, read |-> cur[Loop], write |-> cur[Loop]]
    <2>1. /\ Only(f) /\ UNCHANGED sock /\ ep_event_map_'[f] = ev /\ epoll'[f] = {"in", "out"}
          /\ sock[f] = cur[Loop] /\ cur[Loop] \in Conns
      BY <1>0, <1>4, ActivateDoes DEF Agreed, Activate, kernel
    <2>2. /\ cur[Loop] # NoConn /\ ev # Nothing
          /\ ev.event = {"in", "out"} /\ ev.read = cur[Loop] /\ ev.write = cur[Loop]
      BY <2>1 DEF Conns, NoConn, Nothing
    <2> HIDE DEF f, ev
    <2> QED  BY <1>2, <2>1, <2>2
  <1>5. CASE Written
    <2>1. CASE AllWritten(cur[Loop])
      <3> DEFINE f == tc_fd_[cur[Loop]]
                 old == ep_event_map_[f]
                 ev == [old EXCEPT !.event = {"in"}]
      <3>1. /\ Only(f) /\ UNCHANGED sock /\ ep_event_map_'[f] = ev /\ epoll'[f] = {"in"}
            /\ f \in Fds /\ sock[f] = cur[Loop] /\ cur[Loop] \in Conns /\ old # Nothing
        BY <1>0, <1>5, <2>1, DisarmDoes DEF Agreed, Written, kernel
      <3>2. old \in [event : Events, read : 0 .. accepted, write : 0 .. accepted]
        BY <1>0, <3>1 DEF Typed, Descriptors
      <3>3. sock[f] = old.read /\ sock[f] # NoConn /\ old.write \in {NoConn, old.read}
        BY <1>0, <3>1 DEF Mapped
      <3>4. ev.event = {"in"} /\ ev.read = old.read /\ ev.write = old.write /\ ev # Nothing
        BY <3>2 DEF Nothing
      <3> HIDE DEF f, old, ev
      <3> QED  BY <1>2, <3>1, <3>3, <3>4
    <2>2. CASE ~AllWritten(cur[Loop])
      BY <1>1, <1>5, <2>2 DEF Written, poller, kernel
    <2> QED  BY <2>1, <2>2
  <1>6. CASE Close(Loop)
    BY <1>0, <1>2, <1>6, UnregisterDoes DEF Agreed, Close, kernel
  <1>7. CASE Accept
    <2>1. PICK f \in Fds : sock[f] = NoConn /\ sock' = [sock EXCEPT ![f] = accepted + 1]
      BY <1>7 DEF Accept
    <2>2. ep_event_map_[f] = Nothing
      BY <1>0, <2>1 DEF Mapped
    <2> QED  BY <1>0, <1>7, <2>1, <2>2 DEF Accept, Mapped, poller, Typed
  <1>8. CASE Shut(Loop)
    <2>1. fd[Loop] = tc_fd_[cur[Loop]] /\ ep_event_map_[fd[Loop]] = Nothing
      BY <1>0, <1>8 DEF Shut, InStep
    <2>2. \A g \in Fds \ {fd[Loop]} : sock'[g] = sock[g] /\ epoll'[g] = epoll[g]
      BY <1>8 DEF Shut
    <2>3. UNCHANGED ep_event_map_ /\ \A g \in Fds : g = fd[Loop] => epoll'[g] = {}
      BY <1>8 DEF Shut
    <2> QED  BY <1>0, <2>1, <2>2, <2>3 DEF Mapped
  <1>9. CASE Poll \/ Dispatch \/ Read \/ Cancel \/ Send \/ Write \/ AddNewTcpConn(Loop) \/ AddNewTcpConn(Acceptor)
    BY <1>1, <1>9 DEF Poll, Dispatch, Read, Cancel, Send, Write, AddNewTcpConn, RunAfter, SetTimerId, EmplaceBack,
          poller, kernel
  <1>10. CASE ClearAndTake(Loop) \/ DoClean(Loop)
    BY <1>1, <1>10 DEF ClearAndTake, DoClean, poller, kernel
  <1>11. ASSUME NEW c \in Conns, PeerSends(c) \/ PeerCloses(c) PROVE Mapped'
    BY <1>1, <1>11 DEF PeerSends, PeerCloses, poller
  <1>12. ASSUME NEW w \in Workers, DoClose(w) PROVE FALSE
    BY <1>0, <1>12 DEF DoClose, Close, ClearAndTake, Shut, DoClean, Owned
  <1>13. ASSUME NEW w \in Workers, TimeOut(w) PROVE FALSE
    BY <1>13 DEF TimeOut
  <1> QED  BY <1>3, <1>4, <1>5, <1>6, <1>7, <1>8, <1>9, <1>10, <1>11, <1>12, <1>13
           DEF Next, LoopThread, DoRead, DoWrite, DoClose

(* The loop works on a connection that is polled until it unregisters it,    *)
(* the acceptor registers one that only it knows.                            *)
LEMMA InStepKept == ASSUME Known, Calm, Agreed, Next, Calm' PROVE InStep'
  <1> USE DEF Goto, Loop, Acceptor, All, Calm
  <1>0. Typed /\ Owned /\ Mapped /\ InStep  BY KnownTypes DEF Agreed
  <1> DEFINE a == cur[Acceptor]
             c == cur[Loop]
  <1>1. CASE /\ UNCHANGED <<tc_fd_, ep_event_map_, cur, fd>> /\ pc'[Acceptor] = pc[Acceptor]
             /\ pc[Loop] \in Serves
             /\ pc'[Loop] \in Serves \cup {"close", "next"}
    BY <1>0, <1>1 DEF InStep, Working, Serves
  <1>2. CASE DoRead /\ ~Activate
    <2>1. pc'[Acceptor] = pc[Acceptor] /\ pc[Loop] \in Serves
          /\ pc'[Loop] \in Serves \cup {"close", "next"}
      BY <1>0, <1>2 DEF DoRead, Read, Cancel, AddNewTcpConn, RunAfter, SetTimerId, EmplaceBack, Send, AfterRead,
            Serves, Typed
    <2> QED  BY <1>1, <1>2, <2>1 DEF DoRead, Read, Cancel, AddNewTcpConn, RunAfter, SetTimerId, EmplaceBack, Send,
                conns, poller
  <1>3. CASE Write
    <2>1. pc'[Acceptor] = pc[Acceptor] /\ pc[Loop] \in Serves
          /\ pc'[Loop] \in Serves \cup {"close", "next"}
      BY <1>0, <1>3 DEF Write, Serves, Typed
    <2> QED  BY <1>1, <1>3, <2>1 DEF Write, poller
  <1>4. CASE Activate \/ Written
    <2>1. pc[Loop] \in Serves /\ pc' = [pc EXCEPT ![Loop] = "next"] /\ UNCHANGED <<tc_fd_, cur>>
      BY <1>4 DEF Activate, Written, Serves, conns
    <2>2. pc[Acceptor] = "register" => ep_event_map_'[tc_fd_[a]] = Nothing
      <3>1. (a \in Conns /\ tc_fd_[a] \in Fds) \/ pc[Acceptor] # "register"
        BY <1>0, Described DEF Typed, InStep, Working
      <3>2. CASE Activate
        BY <1>0, <3>1, <3>2, ActivateDoes DEF Agreed, InStep, Only
      <3>3. CASE Written /\ AllWritten(cur[Loop])
        BY <1>0, <3>1, <3>3, DisarmDoes DEF Agreed, InStep, Only
      <3>4. CASE Written /\ ~AllWritten(cur[Loop])
        BY <1>0, <3>4 DEF Written, poller, InStep
      <3> QED  BY <1>4, <3>2, <3>3, <3>4
    <2> QED  BY <1>0, <2>1, <2>2 DEF InStep, Working, Serves, Typed
  <1>5. CASE Dispatch
    <2>1. PICK b \in batch :
            LET ev == ep_event_map_[b[1]]
                d == IF "in" \in b[2] THEN ev.read ELSE ev.write
            IN  /\ cur' = [cur EXCEPT ![Loop] = d]
                /\ IF ev = Nothing THEN Abort
                   ELSE Goto(Loop, IF d = NoConn THEN "next" ELSE IF "in" \in b[2] THEN "read" ELSE "write")
      BY <1>5 DEF Dispatch
    <2> DEFINE ev == ep_event_map_[b[1]]
               d == IF "in" \in b[2] THEN ev.read ELSE ev.write
    <2>2. pc[Loop] = "next" /\ UNCHANGED <<tc_fd_, ep_event_map_, fd>>
      BY <1>5 DEF Dispatch, conns, poller
    <2>3. CASE ev = Nothing
      BY <1>0, <2>1, <2>3 DEF Abort, InStep, Serves, Typed
    <2>4. CASE ev # Nothing /\ d = NoConn
      BY <1>0, <2>1, <2>2, <2>4 DEF InStep, Serves, Typed, Working
    <2>5. CASE ev # Nothing /\ d # NoConn
      <3>1. b[1] \in Fds  BY DEF Known, Counted
      <3>2. d = ev.read /\ sock[b[1]] = ev.read /\ tc_fd_[d] = b[1] /\ b[1] # -1
        BY <1>0, <2>5, <3>1 DEF Mapped, Owned, Typed
      <3>3. cur'[Loop] = d /\ cur'[Acceptor] = a /\ pc'[Acceptor] = pc[Acceptor] /\ pc'[Loop] \in {"read", "write"}
        BY <1>0, <2>1, <2>5 DEF Typed
      <3> HIDE DEF d, ev
      <3>4. pc[Acceptor] = "register" => d # a
        BY <1>0, <2>5, <3>2 DEF InStep, ev
      <3> QED  BY <1>0, <2>2, <2>5, <3>2, <3>3, <3>4 DEF InStep, Serves, ev
    <2> QED  BY <2>3, <2>4, <2>5
  <1>6. CASE Poll \/ AddNewTcpConn(Acceptor)
    BY <1>0, <1>6 DEF Poll, AddNewTcpConn, RunAfter, SetTimerId, EmplaceBack, conns, poller, InStep, Working, Typed,
          Serves
  <1>7. CASE Accept
    <2>1. PICK f \in Fds : /\ sock[f] = NoConn /\ tc_fd_' = [tc_fd_ EXCEPT ![accepted + 1] = f]
      BY <1>7 DEF Accept
    <2>2. /\ UNCHANGED <<ep_event_map_, fd>> /\ pc' = [pc EXCEPT ![Acceptor] = "register"]
          /\ cur' = [cur EXCEPT ![Acceptor] = accepted + 1] /\ accepted + 1 \in Conns
      BY <1>0, <1>7 DEF Accept, poller, Typed, Conns
    <2>3. ep_event_map_[f] = Nothing /\ f # -1
      BY <1>0, <2>1 DEF Mapped, Typed
    <2>4. Working(Loop) => c \in Conns /\ c # accepted + 1 /\ tc_fd_'[c] = tc_fd_[c]
      BY <1>0, <2>1 DEF Typed
    <2>5. /\ pc'[Loop] = pc[Loop] /\ pc'[Acceptor] = "register" /\ cur'[Loop] = c
          /\ cur'[Acceptor] = accepted + 1 /\ tc_fd_'[accepted + 1] = f
      BY <1>0, <2>1, <2>2 DEF Typed
    <2> QED  BY <1>0, <2>2, <2>3, <2>4, <2>5 DEF InStep, Working, Serves
  <1>8. CASE Register
    <2>1. /\ pc' = [pc EXCEPT ![Acceptor] = "arm"] /\ UNCHANGED <<tc_fd_, cur, fd>>
          /\ pc[Acceptor] = "register"
      BY <1>8 DEF Register, conns
    <2>2. /\ Only(tc_fd_[a]) /\ ep_event_map_'[tc_fd_[a]] # Nothing /\ a \in Conns
      BY <1>0, <1>8, RegisterDoes DEF Agreed, Nothing
    <2>3. Working(Loop) => c \in Conns /\ c # a
      BY <1>0, <2>1 DEF Typed, InStep
    <2>4. Working(Loop) /\ tc_fd_[c] # -1 => tc_fd_[c] \in Fds \ {tc_fd_[a]}
      BY <1>0, <2>1, <2>2, <2>3, Described DEF InStep
    <2> QED  BY <1>0, <2>1, <2>2, <2>4 DEF InStep, Working, Serves, Only, Typed
  <1>9. CASE Close(Loop)
    <2>1. /\ pc' = [pc EXCEPT ![Loop] = "clear"] /\ UNCHANGED <<tc_fd_, cur, fd>> /\ pc[Loop] = "close"
      BY <1>9 DEF Close, conns
    <2>2. /\ tc_fd_[c] \in Fds /\ Only(tc_fd_[c]) /\ ep_event_map_'[tc_fd_[c]] = Nothing
          /\ ep_event_map_[tc_fd_[c]] # Nothing
      BY <1>0, <1>9, UnregisterDoes DEF Agreed
    <2>3. pc[Acceptor] = "register" => tc_fd_[a] \in Fds \ {tc_fd_[c]}
      BY <1>0, <2>2, Described DEF InStep, Typed, Working
    <2> QED  BY <1>0, <2>1, <2>2, <2>3 DEF InStep, Working, Serves, Only, Typed
  <1>10. CASE ClearAndTake(Loop)
    BY <1>0, <1>10 DEF ClearAndTake, InStep, Working, Serves, Typed, poller
  <1>11. CASE Shut(Loop)
    <2>1. /\ pc' = [pc EXCEPT ![Loop] = "clean"] /\ UNCHANGED <<ep_event_map_, cur, fd>> /\ pc[Loop] = "shut"
          /\ tc_fd_' = [tc_fd_ EXCEPT ![c] = -1]
      BY <1>11 DEF Shut
    <2>2. pc[Acceptor] = "register" => a # c
      BY <1>0, <2>1 DEF InStep, Working
    <2>3. pc[Acceptor] = "register" => tc_fd_'[a] = tc_fd_[a]
      BY <1>0, <2>1, <2>2 DEF Typed, Working
    <2> QED  BY <1>0, <2>1, <2>2, <2>3 DEF InStep, Serves, Typed
  <1>12. CASE DoClean(Loop)
    BY <1>0, <1>12 DEF DoClean, InStep, Working, Serves, Rest, Typed, conns, poller
  <1>13. ASSUME NEW d \in Conns, PeerSends(d) \/ PeerCloses(d) PROVE InStep'
    BY <1>0, <1>13 DEF PeerSends, PeerCloses, poller, conns, threads, InStep, Working
  <1>14. ASSUME NEW w \in Workers, DoClose(w) PROVE FALSE
    BY <1>0, <1>14 DEF DoClose, Close, ClearAndTake, Shut, DoClean, Owned
  <1>15. ASSUME NEW w \in Workers, TimeOut(w) PROVE FALSE
    BY <1>15 DEF TimeOut
  <1> QED  BY <1>2, <1>3, <1>4, <1>5, <1>6, <1>7, <1>8, <1>9, <1>10, <1>11, <1>12, <1>13, <1>14, <1>15
           DEF Next, LoopThread, DoRead, DoWrite, DoClose

(* Between testing a buffer and changing the poller only the loop is at it.  *)
LEMMA AsArmedKept == ASSUME Known, Cleaned, Calm, Agreed, Next, Calm' PROVE AsArmed'
  <1> USE DEF Goto, Loop, Acceptor, All, Calm
  <1>0. Typed /\ Owned /\ Mapped /\ InStep /\ AsArmed  BY KnownTypes DEF Agreed
  <1> DEFINE c == cur[Loop]
             f == tc_fd_[c]
             Serving(d) == Working(Loop) /\ c = d
  <1>1. \A d \in Conns : tc_fd_[d] # -1 => tc_fd_[d] \in Fds /\ sock[tc_fd_[d]] = d
    BY <1>0, Described
  <1>2. pc[Loop] \in Serves \cup {"close"} => c \in Conns /\ c \in 1 .. accepted /\ f \in Fds /\ sock[f] = c
    BY <1>0, <1>1 DEF InStep, Typed, Working, Serves
  <1>3. CASE Read
    <2>1. /\ pc[Loop] = "read" /\ pc' = [pc EXCEPT ![Loop] = IF ibytes'[c] > 0 THEN "cancel" ELSE "close"]
          /\ UNCHANGED <<obuf, epoll, tc_fd_, cur, accepted>>
      BY <1>0, <1>2, <1>3 DEF Read, AfterRead, poller, server, Typed, Serves
    <2>2. pc'[Loop] \in {"cancel", "close"} /\ (pc'[Loop] = "cancel" => ibytes'[c] > 0)
      BY <1>0, <2>1 DEF Typed
    <2> QED  BY <1>0, <2>1, <2>2 DEF AsArmed, Working, Armed
  <1>4. CASE Cancel \/ AddNewTcpConn(Loop)
    <2>1. /\ pc[Loop] \in {"cancel", "arm", "set", "append"} /\ pc'[Loop] \in {"arm", "set", "append", "send"}
          /\ UNCHANGED <<obuf, ibytes, epoll, tc_fd_, cur, accepted>>
      BY <1>0, <1>4 DEF Cancel, AddNewTcpConn, RunAfter, SetTimerId, EmplaceBack, poller, conns, server, Typed
    <2> QED  BY <1>0, <2>1 DEF AsArmed, Working, Armed
  <1>5. CASE Send
    <2>1. /\ pc[Loop] = "send" /\ UNCHANGED <<epoll, tc_fd_, cur, accepted>> /\ c \in Conns /\ c \in 1 .. accepted
      BY <1>2, <1>5 DEF Send, poller, server, Serves
    <2>2. ibytes[c] > 0 /\ ibytes[c] \in Nat /\ obuf[c] \in Nat /\ (obuf[c] > 0 <=> Armed(c))
      BY <1>0, <2>1 DEF AsArmed, Typed
    <2>3. CASE obuf[c] + ibytes[c] > MaxBuffer
      <3>1. pc' = [pc EXCEPT ![Loop] = "next"] /\ UNCHANGED obuf
        BY <1>5, <2>3 DEF Send
      <3> QED  BY <1>0, <2>1, <2>2, <3>1 DEF AsArmed, Working, Armed, Typed
    <2>4. CASE ~(obuf[c] + ibytes[c] > MaxBuffer)
      <3>1. /\ obuf' = [obuf EXCEPT ![c] = @ + ibytes[c]]
            /\ pc' = [pc EXCEPT ![Loop] = IF obuf[c] = 0 THEN "activate" ELSE "next"]
        BY <1>5, <2>4 DEF Send, ShouldActivate
      <3>2. obuf'[c] > 0 /\ pc'[Loop] = (IF obuf[c] = 0 THEN "activate" ELSE "next")
        BY <1>0, <2>1, <2>2, <3>1 DEF Typed
      <3>3. /\ \A d \in Conns \ {c} : obuf'[d] = obuf[d]
            /\ \A d \in Conns : Armed(d)' <=> Armed(d)
        BY <1>0, <2>1, <3>1 DEF Armed, Typed
      <3>4. CASE obuf[c] = 0
        BY <1>0, <2>1, <2>2, <3>2, <3>3, <3>4 DEF AsArmed, Working, Typed
      <3>5. CASE obuf[c] # 0
        <4>1. pc'[Loop] = "next" /\ Armed(c)  BY <2>2, <3>2, <3>5
        <4> QED  BY <1>0, <2>1, <3>2, <3>3, <4>1 DEF AsArmed, Working, Typed
      <3> QED  BY <3>4, <3>5
    <2> QED  BY <2>3, <2>4
  <1>6. CASE Write
    <2>1. /\ pc[Loop] \in {"write", "more"} /\ c \in Conns /\ c \in 1 .. accepted /\ Socket(f) # NoConn
      BY <1>2, <1>6 DEF Write, Socket, Serves, NoConn
    <2>2. /\ UNCHANGED <<epoll, tc_fd_, cur, accepted>> /\ \A d \in Conns \ {c} : obuf'[d] = obuf[d]
      BY <1>0, <1>6 DEF Write, poller, server, Typed
    <2>3. obuf[c] \in Nat /\ obuf'[c] \in Nat
      <3>1. obuf[c] \in Nat  BY <1>0, <2>1 DEF Typed
      <3>2. ASSUME NEW k \in 0 .. obuf[c], obuf' = [obuf EXCEPT ![c] = @ - k] PROVE obuf'[c] \in Nat
        <4>1. obuf[c] - k \in Nat  BY <3>1
        <4> QED  BY <1>0, <2>1, <3>2, <4>1 DEF Typed
      <3>3. UNCHANGED obuf \/ \E k \in 0 .. obuf[c] : obuf' = [obuf EXCEPT ![c] = @ - k]
        BY <1>6, <3>1 DEF Write
      <3> QED  BY <3>1, <3>2, <3>3
    <2>4. obuf[c] > 0 => Armed(c)
      BY <1>0, <2>1, <2>3 DEF AsArmed
    <2>5. \/ pc' = [pc EXCEPT ![Loop] = "written"] /\ obuf'[c] = obuf[c]
          \/ pc' = [pc EXCEPT ![Loop] = "more"] /\ obuf[c] # 0
          \/ pc' = [pc EXCEPT ![Loop] = "close"]
      <3>1. CASE obuf[c] = 0 /\ pc' = [pc EXCEPT ![Loop] = "written"] /\ UNCHANGED obuf
        BY <3>1
      <3>2. CASE pc' = [pc EXCEPT ![Loop] = "close"]
        BY <3>2
      <3>3. ASSUME obuf[c] > 0, NEW k \in 0 .. obuf[c], obuf' = [obuf EXCEPT ![c] = @ - k],
                   pc' = [pc EXCEPT ![Loop] = IF k = 0 THEN "written" ELSE "more"]
            PROVE  \/ pc' = [pc EXCEPT ![Loop] = "written"] /\ obuf'[c] = obuf[c]
                   \/ pc' = [pc EXCEPT ![Loop] = "more"] /\ obuf[c] # 0
        <4>1. CASE k = 0
          <5>1. obuf'[c] = obuf[c] - 0  BY <1>0, <2>1, <3>3, <4>1 DEF Typed
          <5> QED  BY <2>3, <3>3, <4>1, <5>1
        <4>2. CASE k # 0  BY <2>3, <3>3, <4>2
        <4> QED  BY <4>1, <4>2
      <3>4. \/ obuf[c] = 0 /\ pc' = [pc EXCEPT ![Loop] = "written"] /\ UNCHANGED obuf
            \/ pc' = [pc EXCEPT ![Loop] = "close"]
            \/ obuf[c] > 0 /\ \E k \in 0 .. obuf[c] : /\ obuf' = [obuf EXCEPT ![c] = @ - k]
                                                      /\ pc' = [pc EXCEPT ![Loop] = IF k = 0 THEN "written" ELSE "more"]
        <4>1. \A k \in (IF pc[Loop] = "write" THEN 1 ELSE 0) .. obuf[c] : k \in 0 .. obuf[c]
          BY <2>3
        <4> QED  BY <1>6, <4>1 DEF Write
      <3> QED  BY <3>1, <3>2, <3>3, <3>4
    <2>6. pc'[Loop] \in {"written", "more", "close"} /\ (pc'[Loop] = "more" => Armed(c))
          /\ (pc'[Loop] = "written" /\ obuf'[c] > 0 => Armed(c))
      BY <1>0, <2>3, <2>4, <2>5 DEF Typed
    <2>7. \A d \in Conns : Armed(d)' <=> Armed(d)
      BY <2>2 DEF Armed
    <2>8. Working(Loop)' /\ Working(Loop) /\ cur'[Loop] = c
      BY <2>1, <2>2, <2>6 DEF Working
    <2>9. \A d \in Conns : tc_fd_'[d] # -1 /\ ~(Working(Loop)' /\ cur'[Loop] = d) => (obuf'[d] > 0 <=> Armed(d)')
      BY <1>0, <2>2, <2>7, <2>8 DEF AsArmed
    <2>10. \A d \in Conns : d > accepted' => obuf'[d] = 0
      <3>1. \A d \in Conns : d > accepted => d # c  BY <1>0, <2>1 DEF Typed, Conns
      <3> QED  BY <1>0, <2>2, <3>1 DEF AsArmed
    <2>11. Armed(c)' <=> Armed(c)  BY <2>2 DEF Armed
    <2> QED  BY <2>2, <2>6, <2>9, <2>10, <2>11 DEF AsArmed
  <1>7. ASSUME NEW d \in Conns, tc_fd_[d] # -1, Only(tc_fd_[d]), UNCHANGED <<tc_fd_, obuf, ibytes, accepted, cur>>
        PROVE  \A e \in Conns \ {d} : tc_fd_[e] # -1 => (Armed(e)' <=> Armed(e))
    BY <1>1, <1>7 DEF Only, Armed
  <1>8. CASE Activate
    <2>1. /\ pc[Loop] = "activate" /\ pc'[Loop] = "next" /\ UNCHANGED <<tc_fd_, obuf, ibytes, accepted, cur>>
      BY <1>0, <1>8 DEF Activate, conns, server, Typed
    <2>2. /\ f # -1 /\ Only(f) /\ c \in Conns /\ epoll'[f] = {"in", "out"} /\ obuf[c] > 0
      BY <1>0, <1>8, <2>1, ActivateDoes DEF Agreed, AsArmed, Typed
    <2> QED  BY <1>0, <1>7, <2>1, <2>2 DEF AsArmed, Armed, Working
  <1>9. CASE Written
    <2>1. /\ pc[Loop] = "written" /\ pc'[Loop] = "next" /\ UNCHANGED <<tc_fd_, obuf, ibytes, accepted, cur>>
          /\ c \in Conns /\ f # -1 /\ obuf[c] \in Nat
      BY <1>0, <1>2, <1>9 DEF Written, conns, server, Typed, Serves
    <2>2. CASE obuf[c] = 0
      <3>1. Only(f) /\ epoll'[f] = {"in"}
        BY <1>0, <1>9, <2>2, DisarmDoes DEF Agreed, AllWritten
      <3> QED  BY <1>0, <1>7, <2>1, <2>2, <3>1 DEF AsArmed, Armed, Working
    <2>3. CASE obuf[c] # 0
      <3>1. UNCHANGED epoll /\ Armed(c)
        BY <1>0, <1>9, <2>1, <2>3 DEF Written, AllWritten, poller, AsArmed
      <3> QED  BY <1>0, <2>1, <2>3, <3>1 DEF AsArmed, Armed, Working
    <2> QED  BY <2>2, <2>3
  <1>10. CASE Dispatch
    <2>1. /\ pc[Loop] = "next" /\ UNCHANGED <<tc_fd_, obuf, ibytes, accepted, epoll>>
          /\ pc'[Loop] \in {"next", "read", "write", "aborted"}
      BY <1>0, <1>10 DEF Dispatch, Abort, conns, poller, server, Typed
    <2>2. InStep' /\ Typed'
      BY KnownKept, KnownTypesPrimed, InStepKept
    <2>3. pc'[Loop] \in {"read", "write"} => cur'[Loop] \in Conns /\ tc_fd_'[cur'[Loop]] # -1
      BY <2>2 DEF InStep, Serves, Typed, Working
    <2> QED  BY <1>0, <2>1, <2>3 DEF AsArmed, Armed, Working
  <1>11. CASE Poll \/ AddNewTcpConn(Acceptor)
    <2>1. UNCHANGED <<tc_fd_, obuf, ibytes, epoll, accepted, cur>> /\ pc'[Loop] = pc[Loop]
      BY <1>0, <1>11 DEF Poll, AddNewTcpConn, RunAfter, SetTimerId, EmplaceBack, conns, poller, server, Typed
    <2> QED  BY <1>0, <2>1 DEF AsArmed, Armed, Working
  <1>12. CASE Accept
    <2>1. PICK g \in Fds : sock[g] = NoConn /\ tc_fd_' = [tc_fd_ EXCEPT ![accepted + 1] = g]
      BY <1>12 DEF Accept
    <2>2. /\ accepted' = accepted + 1 /\ UNCHANGED <<obuf, ibytes, epoll>> /\ pc'[Loop] = pc[Loop]
          /\ cur'[Loop] = c /\ accepted + 1 \in Conns
      BY <1>0, <1>12 DEF Accept, poller, Typed, Conns
    <2>3. epoll[g] = {}
      BY <1>0, <2>1 DEF Mapped
    <2>4. tc_fd_'[accepted + 1] = g /\ \A d \in Conns \ {accepted + 1} : tc_fd_'[d] = tc_fd_[d]
      BY <1>0, <2>1, <2>2 DEF Typed
    <2>5. obuf[accepted + 1] = 0 /\ (Working(Loop) => c # accepted + 1 /\ c \in Conns)
      BY <1>0, <2>2 DEF AsArmed, Typed
    <2>6. ASSUME NEW d \in Conns, tc_fd_'[d] # -1, ~Serving(d)' PROVE obuf'[d] > 0 <=> Armed(d)'
      BY <1>0, <2>2, <2>3, <2>4, <2>5, <2>6 DEF AsArmed, Armed, Working
    <2>7. Working(Loop) => (Armed(c)' <=> Armed(c))
      BY <2>2, <2>4, <2>5 DEF Armed
    <2>8. \A d \in Conns : d > accepted' => obuf'[d] = 0
      BY <1>0, <2>2 DEF AsArmed, Typed, Conns
    <2> QED  BY <1>0, <2>2, <2>6, <2>7, <2>8 DEF AsArmed, Armed, Working
  <1>13. CASE Register
    <2> DEFINE a == cur[Acceptor]
    <2>1. UNCHANGED <<tc_fd_, obuf, ibytes, accepted, cur>> /\ pc'[Loop] = pc[Loop] /\ pc[Acceptor] = "register"
      BY <1>0, <1>13 DEF Register, conns, server, Typed
    <2>2. /\ a \in Conns /\ tc_fd_[a] # -1 /\ Only(tc_fd_[a]) /\ epoll'[tc_fd_[a]] = {"in"}
          /\ epoll[tc_fd_[a]] = {} /\ ~Serving(a)
      BY <1>0, <1>1, <1>13, <2>1, RegisterDoes DEF Agreed, InStep, Mapped
    <2>3. \A e \in Conns : tc_fd_[e] # -1 => (Armed(e)' <=> Armed(e))
      BY <1>7, <2>1, <2>2 DEF Armed
    <2>4. pc[Loop] \in Serves => Armed(c)' <=> Armed(c)
      BY <1>2, <2>1, <2>3, <1>0 DEF InStep
    <2> QED  BY <1>0, <2>1, <2>3, <2>4 DEF AsArmed, Working, Serves
  <1>14. CASE Close(Loop)
    <2>1. /\ pc[Loop] = "close" /\ pc'[Loop] = "clear" /\ UNCHANGED <<tc_fd_, obuf, ibytes, accepted, cur>>
      BY <1>0, <1>14 DEF Close, conns, server, Typed
    <2>2. c \in Conns /\ f # -1 /\ Only(f)
      BY <1>0, <1>14, UnregisterDoes DEF Agreed, Typed
    <2> QED  BY <1>0, <1>7, <2>1, <2>2 DEF AsArmed, Working
  <1>15. CASE ClearAndTake(Loop)
    <2>1. /\ pc[Loop] = "clear" /\ pc'[Loop] = "shut" /\ UNCHANGED <<tc_fd_, epoll, accepted, cur>>
          /\ obuf' = [obuf EXCEPT ![c] = 0]
      BY <1>0, <1>15 DEF ClearAndTake, poller, server, Typed
    <2> QED  BY <1>0, <2>1 DEF AsArmed, Armed, Working, Typed
  <1>16. CASE Shut(Loop)
    <2>1. /\ pc[Loop] = "shut" /\ pc'[Loop] = "clean" /\ UNCHANGED <<obuf, accepted, cur>>
          /\ tc_fd_' = [tc_fd_ EXCEPT ![c] = -1] /\ fd[Loop] = f /\ f # -1
          /\ \A g \in Fds \ {fd[Loop]} : epoll'[g] = epoll[g]
      BY <1>0, <1>16 DEF Shut, server, Typed, InStep
    <2>2. c \in Conns  BY <1>0, <2>1 DEF Typed, Working
    <2>3. ASSUME NEW d \in Conns, tc_fd_'[d] # -1 PROVE d # c /\ tc_fd_[d] # -1 /\ (Armed(d)' <=> Armed(d))
      <3>1. d # c /\ tc_fd_'[d] = tc_fd_[d]
        BY <1>0, <2>1, <2>2, <2>3 DEF Typed
      <3>2. tc_fd_[d] \in Fds \ {fd[Loop]}
        BY <1>1, <2>1, <2>2, <2>3, <3>1
      <3> QED  BY <2>1, <2>3, <3>1, <3>2 DEF Armed
    <2> QED  BY <1>0, <2>1, <2>3 DEF AsArmed, Working
  <1>17. CASE DoClean(Loop)
    <2>1. /\ pc[Loop] = "clean" /\ pc'[Loop] = "next" /\ UNCHANGED <<tc_fd_, obuf, ibytes, epoll, accepted, cur>>
      BY <1>0, <1>17 DEF DoClean, conns, poller, Rest, Typed
    <2>2. f = -1  BY <2>1 DEF Cleaned
    <2> QED  BY <1>0, <2>1, <2>2 DEF AsArmed, Armed, Working
  <1>18. ASSUME NEW d \in Conns, PeerSends(d) \/ PeerCloses(d) PROVE AsArmed'
    BY <1>0, <1>18 DEF PeerSends, PeerCloses, poller, conns, threads, server, AsArmed, Armed, Working
  <1>19. ASSUME NEW w \in Workers, DoClose(w) PROVE FALSE
    BY <1>0, <1>19 DEF DoClose, Close, ClearAndTake, Shut, DoClean, Owned
  <1>20. ASSUME NEW w \in Workers, TimeOut(w) PROVE FALSE
    BY <1>20 DEF TimeOut
  <1> QED  BY <1>3, <1>4, <1>5, <1>6, <1>8, <1>9, <1>10, <1>11, <1>12, <1>13, <1>14, <1>15, <1>16, <1>17,
              <1>18, <1>19, <1>20 DEF Next, LoopThread, DoRead, DoWrite, DoClose

-----------------------------------------------------------------------------
LEMMA InitKnown == Init => IInv
  <1> SUFFICES ASSUME Init PROVE IInv  OBVIOUS
  <1> USE ConnAssumption DEF ConnAssumption, Init, Conns, All, Loop, Acceptor, NoConn, Descriptors, Nothing,
          Rest, Events
  <1>1. Placed
    BY DEF Placed, LoopPlaces, AcceptorPlaces, WorkerPlaces, Serves, Closes, Working
  <1>2. Counted /\ Cleaned
    BY DEF Counted, Cleaned
  <1>3. Filed
    BY DEF Filed
  <1>4. Timed /\ Minded
    BY DEF Timed, Minded, Alive
  <1>5. Owned /\ Mapped /\ InStep /\ AsArmed
    BY DEF Owned, Mapped, InStep, Serves, AsArmed, Working
  <1> QED  BY <1>1, <1>2, <1>3, <1>4, <1>5 DEF IInv, Known, Agreed

LEMMA IInvKept == IInv /\ [Next]_vars => IInv'
  <1> SUFFICES ASSUME IInv, [Next]_vars PROVE IInv'  OBVIOUS
  <1>1. CASE Next
    <2>1. Known' /\ Cleaned' /\ Minded'
      BY <1>1, KnownKept, CleanedKept, MindedKept DEF IInv
    <2>2. Calm' => Calm
      <3>1. fired' = fired \/ (fired' = fired + 1 /\ fired \in Nat)
        <4>1. fired \in Nat  BY DEF IInv, Known, Counted
        <4> QED  BY <1>1, <4>1 DEF Next, LoopThread, Poll, Dispatch, DoRead, Read, Cancel, AddNewTcpConn, RunAfter,
              SetTimerId, EmplaceBack, Send, Activate, DoWrite, Write, Written, DoClose, Close, ClearAndTake, Shut,
              DoClean, Accept, Register, PeerSends, PeerCloses, TimeOut
      <3> QED  BY <3>1 DEF Calm
    <2>3. Calm' => Agreed'
      BY <1>1, <2>2, OwnedKept, MappedKept, InStepKept, AsArmedKept DEF Agreed, IInv
    <2> QED  BY <2>1, <2>3 DEF IInv
  <1>2. CASE UNCHANGED vars
    <2> USE <1>2 DEF vars, conns, poller, kernel, server, threads, Working
    <2>1. Known'
      BY DEF IInv, Known, Placed, Counted, Filed, Timed
    <2>2. Cleaned' /\ Minded'
      BY DEF IInv, Cleaned, Minded, Alive, Closing, Arriving, Unarmed, HasTimer
    <2>3. Calm /\ Agreed => Owned' /\ Mapped' /\ InStep'
      BY DEF Agreed, Owned, Mapped, InStep
    <2>4. Calm /\ Agreed => AsArmed'
      BY DEF Agreed, AsArmed, Armed
    <2>5. Calm' <=> Calm
      BY DEF Calm
    <2> QED  BY <2>1, <2>2, <2>3, <2>4, <2>5 DEF IInv, Agreed
  <1> QED  BY <1>1, <1>2

(* The inductive invariant of the connections.                               *)
THEOREM Invariance == Spec => []IInv
  BY InitKnown, IInvKept, PTL DEF Spec

LEMMA IInvTracks == IInv => Tracked
  <1> SUFFICES ASSUME IInv PROVE Tracked  OBVIOUS
  <1>0. Typed  BY KnownTypes DEF IInv
  <1>1. TypeOK
    <2>1. accepted \in 0 .. MaxConns /\ MaxConns \in Nat
      BY ConnAssumption DEF ConnAssumption, IInv, Known, Counted
    <2>2. 0 .. accepted \subseteq 0 .. MaxConns /\ 1 .. accepted \subseteq Conns
      BY <2>1 DEF Conns
    <2>3. ep_event_map_ \in [Descriptors -> [event : SUBSET {"in", "out"}, read : 0 .. MaxConns, write : 0 .. MaxConns]]
      BY <1>0, <2>2 DEF Typed, Events
    <2>4. timers \subseteq TimerIds \X Conns
      BY <2>2 DEF IInv, Known, Timed
    <2> QED  BY <2>2, <2>3, <2>4 DEF TypeOK, IInv, Known, Counted, Filed, Timed, Events
  <1>2. FdsAgree
    BY DEF FdsAgree, IInv, Agreed, Mapped, Owned
  <1>3. OutArmed
    BY DEF OutArmed, IInv, Agreed, AsArmed, Armed, Quiet, Working
  <1>4. NotImmortal
    BY <1>0 DEF NotImmortal, IInv, Minded, Alive, Quiet, Unarmed, HasTimer, Arriving, Renewing, Typed,
          LoopPlaces, Serves, Closes
  <1> QED  BY <1>1, <1>2, <1>3, <1>4 DEF Tracked

(* The loop, the map, the timers and the poller know of every open           *)
(* connection, whoever has dealt with it last: it is listed and has a timer, *)
(* and before the first timeout map, kernel and connection agree on its      *)
(* descriptor, and its output is armed exactly while there is some.          *)
THEOREM ConnectionsTracked == Spec => []Tracked
  BY Invariance, IInvTracks, PTL

=============================================================================
