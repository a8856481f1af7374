--------------------------- MODULE TcpConnection ---------------------------
(***************************************************************************)
(* The connections of a TcpServer with one connection loop (net/): the     *)
(* acceptor thread makes and registers them, the loop's thread polls the   *)
(* Epoll, reads, echoes (net/test/echo_server.cpp), writes and closes, and *)
(* workers of the Timer's pool close them when their time is up.  Bytes    *)
(* are counted.  Several threads use ep_event_map_, ts_tcp_connections_    *)
(* and the fields of a connection without a lock: each call on one of the  *)
(* maps, the timers and the list is a step, and so is what a thread does   *)
(* to a connection's own fields between two of them.                       *)
(***************************************************************************)
EXTENDS Integers

CONSTANTS MaxConns, Fds,            \* connections accepted, and descriptors
          Workers,                  \* of the timer's pool
          TimerIds,                 \* enough that one is always unused
          MaxUnread,                \* what a socket holds: a peer waits to send more
          MaxBuffer,                \* the memory pool's largest chunk
          MaxListed,                \* entries of a connection that are told apart
          MaxTimeouts, MaxBytes     \* bounds on timeouts, and on what peers send in
                                    \* behaviours that have one; in others they go on

Loop == "loop"
Acceptor == "acceptor"

ASSUME ConnAssumption == /\ MaxConns \in Nat /\ MaxBytes \in Nat /\ MaxUnread \in Nat /\ MaxBuffer \in Nat
                         /\ MaxListed \in Nat \ {0} /\ MaxTimeouts \in Nat
                         /\ Fds \subseteq Nat /\ TimerIds \subseteq Nat
                         /\ Loop \notin Workers /\ Acceptor \notin Workers

VARIABLES tc_fd_, tc_timer_id,      \* of each connection
          ibytes, obuf,             \* its bytes to echo and in its output buffer
          ep_event_map_, epoll,     \* of each descriptor: what the Epoll has on
                                    \* it, and the kernel's interest set
          sock, inq, fin, sent,     \* the kernel: the connection behind a
                                    \* descriptor, its unread bytes, its end,
                                    \* and what was sent, up to MaxBytes + 1
          ts_tcp_connections_,      \* how often each connection is listed
          timers,                   \* pending timers, <<id, connection>>
          accepted,
          pc, cur, fd, timer_id,    \* each thread: place, connection, locals
          batch,                    \* what epoll_wait reported
          fired                     \* timeouts so far

conns == <<tc_fd_, tc_timer_id, ibytes, obuf>>
poller == <<ep_event_map_, epoll>>
kernel == <<sock, inq, fin, sent>>
server == <<ts_tcp_connections_, timers, accepted>>
threads == <<pc, cur, fd, timer_id, batch>>
vars == <<conns, poller, kernel, server, threads, fired>>

Conns == 1 .. MaxConns
NoConn == 0
All == Workers \cup {Loop, Acceptor}
Descriptors == Fds \cup {-1}
Nothing == [event |-> {}, read |-> NoConn, write |-> NoConn]   \* not in the map

Rest(t) == IF t = Loop THEN "next" ELSE "idle"
Goto(t, p) == pc' = [pc EXCEPT ![t] = p]

Init == /\ tc_fd_ = [c \in Conns |-> -1] /\ tc_timer_id = [c \in Conns |-> -1]
        /\ ibytes = [c \in Conns |-> 0] /\ obuf = [c \in Conns |-> 0]
        /\ ep_event_map_ = [f \in Descriptors |-> Nothing]
        /\ epoll = [f \in Fds |-> {}]
        /\ sock = [f \in Fds |-> NoConn]
        /\ inq = [c \in Conns |-> 0] /\ fin = [c \in Conns |-> FALSE]
        /\ sent = 0
        /\ ts_tcp_connections_ = [c \in Conns |-> 0] /\ timers = {} /\ accepted = 0
        /\ pc = [t \in All |-> Rest(t)] /\ cur = [t \in All |-> NoConn]
        /\ fd = [t \in All |-> -1] /\ timer_id = [t \in All |-> -1] /\ batch = {}
        /\ fired = 0

\* The socket a descriptor names, if any.
Socket(f) == IF f \in Fds THEN sock[f] ELSE NoConn
-----------------------------------------------------------------------------
(* The peers *)

Open(c) == \E f \in Fds : sock[f] = c

PeerSends(c) == /\ Open(c) /\ ~fin[c] /\ inq[c] < MaxUnread
                /\ fired > 0 => sent < MaxBytes
                /\ sent' = IF sent > MaxBytes THEN sent ELSE sent + 1
                /\ inq' = [inq EXCEPT ![c] = @ + 1]
                /\ UNCHANGED <<conns, poller, sock, fin, server, threads, fired>>

\* When it resets the connection, what is unread is lost.
PeerCloses(c) == /\ Open(c) /\ ~fin[c]
                 /\ fin' = [fin EXCEPT ![c] = TRUE]
                 /\ inq' \in {inq, [inq EXCEPT ![c] = 0]}
                 /\ UNCHANGED <<conns, poller, sock, sent, server, threads, fired>>
-----------------------------------------------------------------------------
(* Epoll *)

\* epoll_ctl with the operation the map calls for; it fails on a descriptor
\* that is not open, or not in the interest set when it is to be modified.
EpollAdd(f, event, c) ==
  LET old == ep_event_map_[f]
      final == old.event \cup {event}
      new == [event |-> final, read |-> IF event = "in" THEN c ELSE old.read,
              write |-> IF event = "out" THEN c ELSE old.write]
  IN  /\ ep_event_map_' = [ep_event_map_ EXCEPT ![f] = new]
      /\ epoll' = IF Socket(f) # NoConn /\ (old = Nothing <=> epoll[f] = {})
                  THEN [epoll EXCEPT ![f] = final] ELSE epoll

EpollErase(f) ==
  /\ ep_event_map_' = [ep_event_map_ EXCEPT ![f] = Nothing]
  /\ epoll' = IF f \in Fds THEN [epoll EXCEPT ![f] = {}] ELSE epoll

EpollDel(f, event) ==
  LET left == ep_event_map_[f].event \ {event}
  IN  IF ep_event_map_[f] = Nothing THEN UNCHANGED poller
      ELSE IF left = {} THEN EpollErase(f)
      ELSE /\ ep_event_map_' = [ep_event_map_ EXCEPT ![f].event = left]
           /\ epoll' = IF f \in Fds /\ epoll[f] # {} THEN [epoll EXCEPT ![f] = left] ELSE epoll

Ready(f) == {e \in epoll[f] : e = "out" \/ inq[sock[f]] > 0 \/ fin[sock[f]]}

\* epoll_wait, when executeCbs has been through the last batch.
Poll == /\ pc[Loop] = "next" /\ batch = {}
        /\ batch' = {<<f, Ready(f)>> : f \in {g \in Fds : Ready(g) # {}}}
        /\ batch' # {}
        /\ UNCHANGED <<conns, poller, kernel, server, pc, cur, fd, timer_id, fired>>

\* A failed assertion ends the process.
Abort == pc' = [t \in All |-> "aborted"]

\* executeCbs: the map must know the descriptor; reading comes first.
Dispatch == /\ pc[Loop] = "next"
            /\ \E b \in batch :
                 LET ev == ep_event_map_[b[1]]
                     c == IF "in" \in b[2] THEN ev.read ELSE ev.write
                 IN  /\ batch' = batch \ {b}
                     /\ cur' = [cur EXCEPT ![Loop] = c]
                     /\ IF ev = Nothing THEN Abort
                        ELSE Goto(Loop, IF c = NoConn THEN "next"
                                        ELSE IF "in" \in b[2] THEN "read" ELSE "write")
            /\ UNCHANGED <<conns, poller, kernel, server, fd, timer_id, fired>>
-----------------------------------------------------------------------------
(* Acceptor::doAccept, TcpServer::addNewTcpConn *)

Accept == /\ pc[Acceptor] = "idle" /\ accepted < MaxConns
          /\ \E f \in Fds : /\ sock[f] = NoConn
                            /\ \A g \in Fds : sock[g] = NoConn => f <= g
                            /\ sock' = [sock EXCEPT ![f] = accepted + 1]
                            /\ tc_fd_' = [tc_fd_ EXCEPT ![accepted + 1] = f]
          /\ accepted' = accepted + 1
          /\ cur' = [cur EXCEPT ![Acceptor] = accepted + 1]
          /\ Goto(Acceptor, "register")
          /\ UNCHANGED <<tc_timer_id, ibytes, obuf, poller, inq, fin, sent, ts_tcp_connections_, timers,
                         fd, timer_id, batch, fired>>

Register == /\ pc[Acceptor] = "register"
            /\ EpollAdd(tc_fd_[cur[Acceptor]], "in", cur[Acceptor])
            /\ Goto(Acceptor, "arm")
            /\ UNCHANGED <<conns, kernel, server, cur, fd, timer_id, batch, fired>>

\* addNewTcpConn, by the acceptor, which holds ts_mutex_ for it, and by the
\* loop, which does not.  The Timer counts its ids; here a new one is one that no
\* timer, thread or connection has (but the loop's, about to get it, and only the
\* loop asks for it): which one spares states.
Used(t, i) == \/ \E x \in timers : x[1] = i
              \/ \E c \in Conns : tc_timer_id[c] = i /\ ~(t = Loop /\ c = cur[t])
              \/ \E u \in All : timer_id[u] = i
NewIds(t) == {i \in TimerIds : ~Used(t, i) /\ i % MaxConns = cur[t] % MaxConns}

RunAfter(t) == /\ pc[t] = "arm"
               /\ \E i \in NewIds(t) :
                    /\ \A j \in NewIds(t) : i <= j
                    /\ timers' = timers \cup {<<i, cur[t]>>}
                    /\ timer_id' = [timer_id EXCEPT ![t] = i]
               /\ Goto(t, "set")
               /\ UNCHANGED <<conns, poller, kernel, ts_tcp_connections_, accepted, cur, fd, batch, fired>>

SetTimerId(t) == /\ pc[t] = "set"
                 /\ tc_timer_id' = [tc_timer_id EXCEPT ![cur[t]] = timer_id[t]]
                 /\ timer_id' = [timer_id EXCEPT ![t] = -1]
                 /\ Goto(t, "append")
                 /\ UNCHANGED <<tc_fd_, ibytes, obuf, poller, kernel, server, cur, fd, batch, fired>>

\* Entries beyond MaxListed are not counted.
EmplaceBack(t) == /\ pc[t] = "append"
                  /\ ts_tcp_connections_' = [ts_tcp_connections_ EXCEPT ![cur[t]] = IF @ < MaxListed THEN @ + 1 ELSE @]
                  /\ Goto(t, IF t = Loop THEN "send" ELSE "idle")
                  /\ UNCHANGED <<conns, poller, kernel, timers, accepted, cur, fd, timer_id, batch, fired>>

AddNewTcpConn(t) == RunAfter(t) \/ SetTimerId(t) \/ EmplaceBack(t)
-----------------------------------------------------------------------------
(* TcpConnection::doRead, with the server's and the echo server's callbacks *)

IgnoreEnd(got) == IF got > 0 THEN "cancel" ELSE "next"    \* mutant
AfterRead(got) == IF got > 0 THEN "cancel" ELSE "close"

\* Nothing to read is an error too: read returns -1; more than a chunk holds is
\* not read.
Read == /\ pc[Loop] = "read"
        /\ LET c == cur[Loop]
               from == Socket(tc_fd_[c])
               got == IF from = NoConn \/ inq[from] > MaxBuffer THEN 0 ELSE inq[from]
           IN  /\ ibytes' = [ibytes EXCEPT ![c] = got]
               /\ inq' = IF got = 0 THEN inq ELSE [inq EXCEPT ![from] = 0]
               /\ Goto(Loop, AfterRead(got))
        /\ UNCHANGED <<tc_fd_, tc_timer_id, obuf, poller, sock, fin, sent, server, cur, fd, timer_id, batch, fired>>

Cancel == /\ pc[Loop] = "cancel"
          /\ timers' = {x \in timers : x[1] # tc_timer_id[cur[Loop]]}
          /\ Goto(Loop, "arm")
          /\ UNCHANGED <<conns, poller, kernel, ts_tcp_connections_, accepted, cur, fd, timer_id, batch, fired>>

ShouldActivate(c) == obuf[c] = 0

\* What does not fit in a chunk is dropped: nobody looks at send's result.
Send == /\ pc[Loop] = "send"
        /\ LET c == cur[Loop]
           IN  /\ ibytes' = [ibytes EXCEPT ![c] = 0]
               /\ IF obuf[c] + ibytes[c] > MaxBuffer THEN Goto(Loop, "next") /\ UNCHANGED obuf
                  ELSE /\ obuf' = [obuf EXCEPT ![c] = @ + ibytes[c]]
                       /\ Goto(Loop, IF ShouldActivate(c) THEN "activate" ELSE "next")
        /\ UNCHANGED <<tc_fd_, tc_timer_id, poller, kernel, server, cur, fd, timer_id, batch, fired>>

Activate == /\ pc[Loop] = "activate"
            /\ EpollAdd(tc_fd_[cur[Loop]], "out", cur[Loop])
            /\ Goto(Loop, "next")
            /\ UNCHANGED <<conns, kernel, server, cur, fd, timer_id, batch, fired>>

(* doWrite *)

\* The first write of a writable socket takes something; it fails when there is
\* no socket, and may when the peer has closed it.
Write == /\ pc[Loop] \in {"write", "more"}
         /\ LET c == cur[Loop]
                to == Socket(tc_fd_[c])
            IN  \/ obuf[c] = 0 /\ Goto(Loop, "written") /\ UNCHANGED obuf
                \/ /\ obuf[c] > 0 /\ (IF to = NoConn THEN TRUE ELSE fin[to])
                   /\ Goto(Loop, "close") /\ UNCHANGED obuf
                \/ /\ obuf[c] > 0 /\ to # NoConn
                   /\ \E k \in (IF pc[Loop] = "write" THEN 1 ELSE 0) .. obuf[c] :
                        /\ obuf' = [obuf EXCEPT ![c] = @ - k]
                        /\ Goto(Loop, IF k = 0 THEN "written" ELSE "more")
         /\ UNCHANGED <<tc_fd_, tc_timer_id, ibytes, poller, kernel, server, cur, fd, timer_id, batch, fired>>

AllWritten(c) == obuf[c] = 0

Written == /\ pc[Loop] = "written"
           /\ LET c == cur[Loop]
              IN  IF AllWritten(c) THEN EpollDel(tc_fd_[c], "out") ELSE UNCHANGED poller
           /\ Goto(Loop, "next")
           /\ UNCHANGED <<conns, kernel, server, cur, fd, timer_id, batch, fired>>
-----------------------------------------------------------------------------
(* doClose, by the loop's thread or by a worker whose timer ran out *)

TimeOut(w) == /\ pc[w] = "idle" /\ fired < MaxTimeouts /\ sent <= MaxBytes
              /\ \E x \in timers : /\ timers' = timers \ {x}
                                   /\ cur' = [cur EXCEPT ![w] = x[2]]
              /\ Goto(w, "close")
              /\ fired' = fired + 1
              /\ UNCHANGED <<conns, poller, kernel, ts_tcp_connections_, accepted, fd, timer_id, batch>>

KeepPolling(c) == UNCHANGED poller    \* mutant
Unregister(c) == EpollErase(tc_fd_[c])

Close(t) == /\ pc[t] = "close"
            /\ Unregister(cur[t])
            /\ Goto(t, "clear")
            /\ UNCHANGED <<conns, kernel, server, cur, fd, timer_id, batch, fired>>

ClearAndTake(t) == /\ pc[t] = "clear"
                   /\ ibytes' = [ibytes EXCEPT ![cur[t]] = 0]
                   /\ obuf' = [obuf EXCEPT ![cur[t]] = 0]
                   /\ fd' = [fd EXCEPT ![t] = tc_fd_[cur[t]]]
                   /\ Goto(t, "shut")
                   /\ UNCHANGED <<tc_fd_, tc_timer_id, poller, kernel, server, cur, timer_id, batch, fired>>

\* close(fd) takes the descriptor out of the kernel's interest set as well, and
\* what the socket held is gone.
Shut(t) == /\ pc[t] = "shut"
           /\ tc_fd_' = [tc_fd_ EXCEPT ![cur[t]] = -1]
           /\ sock' = [f \in Fds |-> IF f = fd[t] THEN NoConn ELSE sock[f]]
           /\ epoll' = [f \in Fds |-> IF f = fd[t] THEN {} ELSE epoll[f]]
           /\ inq' = [c \in Conns |-> IF c = Socket(fd[t]) THEN 0 ELSE inq[c]]
           /\ fin' = [c \in Conns |-> fin[c] /\ c # Socket(fd[t])]
           /\ Goto(t, "clean")
           /\ UNCHANGED <<tc_timer_id, ibytes, obuf, ep_event_map_, sent, server, cur, fd, timer_id, batch,
                          fired>>

\* Only the first entry of the connection is erased, of MaxListed or more one.
OneLess(n) == IF n = 0 THEN {0} ELSE IF n < MaxListed THEN {n - 1} ELSE {n, n - 1}
DoClean(t) == /\ pc[t] = "clean" /\ pc[Acceptor] \notin {"set", "append"}
              /\ \E n \in OneLess(ts_tcp_connections_[cur[t]]) :
                   ts_tcp_connections_' = [ts_tcp_connections_ EXCEPT ![cur[t]] = n]
              /\ Goto(t, Rest(t))
              /\ fd' = [fd EXCEPT ![t] = -1]
              /\ UNCHANGED <<conns, poller, kernel, timers, accepted, cur, timer_id, batch, fired>>

DoClose(t) == Close(t) \/ ClearAndTake(t) \/ Shut(t) \/ DoClean(t)
DoRead == Read \/ Cancel \/ AddNewTcpConn(Loop) \/ Send \/ Activate
DoWrite == Write \/ Written
LoopThread == Poll \/ Dispatch \/ DoRead \/ DoWrite \/ DoClose(Loop)

Next == \/ LoopThread \/ Accept \/ Register \/ AddNewTcpConn(Acceptor)
        \/ \E c \in Conns : PeerSends(c) \/ PeerCloses(c)
        \/ \E w \in Workers : TimeOut(w) \/ DoClose(w)

Spec == Init /\ [][Next]_vars

\* The threads run on, and a peer reads what it is sent: a socket that is
\* reported writable takes a byte at least.
FairSpec == /\ Spec /\ WF_vars(LoopThread) /\ WF_vars(Register \/ AddNewTcpConn(Acceptor))
            /\ \A w \in Workers : WF_vars(DoClose(w))
-----------------------------------------------------------------------------
Closing(c) == \E t \in All : cur[t] = c /\ pc[t] \in {"close", "clear", "shut", "clean"}
Arriving(c) == cur[Acceptor] = c /\ pc[Acceptor] # "idle"
Renewing(c) == cur[Loop] = c /\ pc[Loop] = "arm"
Quiet(c) == tc_fd_[c] # -1 /\ pc[Loop] # "aborted" /\ ~Closing(c) /\ ~Arriving(c)

TypeOK == /\ tc_fd_ \in [Conns -> Descriptors] /\ tc_timer_id \in [Conns -> TimerIds \cup {-1}]
          /\ obuf \in [Conns -> 0 .. MaxBuffer] /\ ibytes \in [Conns -> 0 .. MaxBuffer]
          /\ inq \in [Conns -> 0 .. MaxUnread]
          /\ ep_event_map_ \in [Descriptors -> [event : SUBSET {"in", "out"}, read : 0 .. MaxConns, write : 0 .. MaxConns]]
          /\ epoll \in [Fds -> SUBSET {"in", "out"}] /\ sock \in [Fds -> 0 .. MaxConns]
          /\ ts_tcp_connections_ \in [Conns -> 0 .. MaxListed] /\ timers \subseteq TimerIds \X Conns

\* Until the first timeout only the acceptor and the loop touch a connection.
Calm == fired = 0

(* Output that waits is armed and armed output has something to write: the   *)
(* loop is told that a connection is writable exactly while its output       *)
(* buffer holds bytes, although send and doWrite test the buffer before they *)
(* change the poller.  A worker in doClose breaks it: the output it clears   *)
(* stays armed.                                                              *)
OutArmed == Calm /\ pc[Loop] = "next" => \A c \in Conns : Quiet(c) =>
  (obuf[c] > 0 <=> "out" \in epoll[tc_fd_[c]])

(* Map, kernel and connections agree on every descriptor: what is polled is  *)
(* an open socket, and its events go to the connection that owns it.  Two    *)
(* threads that close a connection break it by erasing a descriptor that     *)
(* was given to the next one in between.                                     *)
FdsAgree == Calm =>
  /\ \A f \in Fds : ep_event_map_[f] # Nothing =>
       /\ epoll[f] = ep_event_map_[f].event
       /\ sock[f] = ep_event_map_[f].read
       /\ sock[f] # NoConn /\ tc_fd_[sock[f]] = f
  /\ \A f \in Fds : ep_event_map_[f] = Nothing => epoll[f] = {}

(* A descriptor in the batch is still in the map when executeCbs comes to it *)
(* (assert in epoll.cpp 94).                                                 *)
DispatchFinds == pc[Loop] # "aborted"

(* No connection is immortal: while it is open a timer is pending for it,    *)
(* whichever of the acceptor, the loop and the workers has dealt with it     *)
(* last, and the server still lists it.                                      *)
NotImmortal == \A c \in Conns : Quiet(c) /\ ~Renewing(c) =>
  ts_tcp_connections_[c] > 0 /\ \E x \in timers : x[2] = c

(* The loop, the map, the timers and the poller know of every open           *)
(* connection, and of each what it waits for.                                *)
Tracked == TypeOK /\ FdsAgree /\ NotImmortal /\ OutArmed

(* Output leaves the buffer and a peer that closes is noticed: again and     *)
(* again nothing waits for the loop, unless it gets bytes from the peer again *)
(* and again.  executeCbs writes only when there is nothing to read           *)
(* (epoll.cpp 98-102), so a peer that keeps sending may keep its own output   *)
(* back for ever, but not that of another.                                    *)
NothingWaits(c) == obuf[c] = 0 /\ (fin[c] => tc_fd_[c] = -1)
Receives(c) == pc[Loop] = "cancel" /\ cur[Loop] = c
EventsNoticed == \A c \in Conns : []<>(NothingWaits(c) \/ Receives(c) \/ ~Calm)
=============================================================================
