------------------------------ MODULE DataBuf ------------------------------
(***************************************************************************)
(* InputBuffer and OutputBuffer of memory/data_buf.h and data_buf.cpp over *)
(* the MemPool that all connections share.  Each connection reads and      *)
(* writes in a thread of its own (TcpConnection), so the pool is where     *)
(* they meet.  The bytes of each direction are numbered: buffers are       *)
(* compared with the streams they carry.  pop is followed by adjust, as    *)
(* write2fd does and callers of an InputBuffer must, so head_ is 0 between *)
(* operations and is left out.                                             *)
(***************************************************************************)
EXTENDS MemPool

CONSTANTS Conns,
          MaxBytes    \* of each connection, the length of both its streams

BufferAssumption == PoolAssumption /\ MaxBytes \in [Conns -> Nat]

VARIABLES ibuf, obuf,           \* data_buf_ of the two buffers, or Null
          op, step, n,          \* what a connection does, where, for how much
          grown,                \* the chunk it has just allocated, or Null
          inq, eof,             \* the socket: bytes to read, and its end
          sent,                 \* bytes the peer has sent so far
          delivered,            \* and those the user has taken
          put, wire             \* bytes given to write2buf, and written

place == <<op, step, n, grown>>
socket == <<inq, eof, sent>>
users == <<delivered, put, wire>>
vars == <<poolVars, ibuf, obuf, place, socket, users>>

Null == << >>
Buf(x) == IF op[x] = "read" THEN ibuf[x] ELSE obuf[x]
SetBuf(x, c) == IF op[x] = "read" THEN ibuf' = [ibuf EXCEPT ![x] = c] /\ UNCHANGED obuf
                                  ELSE obuf' = [obuf EXCEPT ![x] = c] /\ UNCHANGED ibuf
Upto(a, b) == [i \in 1 .. b - a |-> a + i]      \* the bytes after a, to b

Init == /\ PoolInit
        /\ ibuf = [x \in Conns |-> Null] /\ obuf = [x \in Conns |-> Null]
        /\ op = [x \in Conns |-> "none"] /\ step = [x \in Conns |-> "idle"]
        /\ n = [x \in Conns |-> 0] /\ grown = [x \in Conns |-> Null]
        /\ inq = [x \in Conns |-> << >>] /\ eof = [x \in Conns |-> FALSE]
        /\ sent = [x \in Conns |-> 0] /\ delivered = [x \in Conns |-> 0]
        /\ put = [x \in Conns |-> 0] /\ wire = [x \in Conns |-> 0]

At(x, st) == step[x] = st /\ ~exited
Goto(x, st) == step' = [step EXCEPT ![x] = st]
Return(x) == /\ Goto(x, "idle")
             /\ op' = [op EXCEPT ![x] = "none"] /\ n' = [n EXCEPT ![x] = 0]

PeerSends(x) == /\ ~eof[x] /\ ~exited
                /\ \E b \in sent[x] + 1 .. MaxBytes[x] :
                     /\ inq' = [inq EXCEPT ![x] = @ \o Upto(sent[x], b)]
                     /\ sent' = [sent EXCEPT ![x] = b]
                /\ UNCHANGED <<poolVars, ibuf, obuf, place, eof, users>>

PeerCloses(x) == /\ ~eof[x] /\ sent[x] = MaxBytes[x] /\ ~exited
                 /\ eof' = [eof EXCEPT ![x] = TRUE]
                 /\ UNCHANGED <<poolVars, ibuf, obuf, place, inq, sent, users>>
-----------------------------------------------------------------------------
(* readFromFd and write2buf *)

Begin(x, what, amount) == /\ At(x, "idle")
                          /\ op' = [op EXCEPT ![x] = what]
                          /\ n' = [n EXCEPT ![x] = amount]
                          /\ Goto(x, "room")
                          /\ UNCHANGED <<poolVars, ibuf, obuf, grown, socket, users>>

\* ioctl(FIONREAD), when the socket is reported readable.
BeginRead(x) == (inq[x] # << >> \/ eof[x]) /\ Begin(x, "read", Len(inq[x]))

BeginWrite(x) == \E k \in 1 .. MaxBytes[x] - put[x] : Begin(x, "write", k)

HasRoom(x) == Capacity(Buf(x)) - Len(chunk[Buf(x)]) >= n[x]

Need(x) == IF Buf(x) = Null THEN n[x] ELSE n[x] + Len(chunk[Buf(x)])

RoomEnough(x) == /\ At(x, "room") /\ Buf(x) # Null /\ HasRoom(x)
                 /\ Goto(x, "move")
                 /\ UNCHANGED <<poolVars, ibuf, obuf, op, n, grown, socket, users>>

Lacking(x) == At(x, "room") /\ (Buf(x) # Null => ~HasRoom(x))

Alloc(x) == /\ Lacking(x)
            /\ \E c \in DOMAIN chunk :
                 /\ AllocChunk(Need(x), c)
                 /\ IF Buf(x) = Null THEN SetBuf(x, c) /\ Goto(x, "move") /\ UNCHANGED grown
                    ELSE /\ grown' = [grown EXCEPT ![x] = c]
                         /\ Goto(x, "copy") /\ UNCHANGED <<ibuf, obuf>>
            /\ UNCHANGED <<op, n, socket, users>>

\* Return -1: a read then closes the connection, a write leaves it as it was.
AllocFails(x) == /\ Lacking(x) /\ NoFit(Need(x))
                 /\ IF op[x] = "read" THEN Goto(x, "clearIn") /\ UNCHANGED <<op, n>> ELSE Return(x)
                 /\ UNCHANGED <<poolVars, ibuf, obuf, grown, socket, users>>

AllocExits(x) == /\ Lacking(x) /\ Exit(Need(x))
                 /\ UNCHANGED <<ibuf, obuf, place, socket, users>>

CopyNothing(x) == chunk    \* mutant
Copied(x) == [chunk EXCEPT ![grown[x]] = chunk[Buf(x)]]

CopyAndRetrieve(x) == /\ At(x, "copy")
                      /\ Retrieve(Buf(x), Copied(x))
                      /\ SetBuf(x, grown[x])
                      /\ grown' = [grown EXCEPT ![x] = Null]
                      /\ Goto(x, "move")
                      /\ UNCHANGED <<op, n, socket, users>>

Append_(x, bytes) == chunk' = [chunk EXCEPT ![Buf(x)] = @ \o bytes]

ReadSize(x) == n[x]

\* At the end of the stream read returns 0 and the connection is closed.
MoveIn(x) == /\ At(x, "move") /\ op[x] = "read"
             /\ Append_(x, SubSeq(inq[x], 1, ReadSize(x)))
             /\ inq' = [inq EXCEPT ![x] = SubSeq(@, ReadSize(x) + 1, Len(@))]
             /\ Goto(x, IF n[x] = 0 THEN "clearIn" ELSE "user")
             /\ UNCHANGED <<mp_pool_, mp_total_, mp_left_, made, held, exited,
                            ibuf, obuf, op, n, grown, eof, sent, users>>

MoveOut(x) == /\ At(x, "move") /\ op[x] = "write"
              /\ Append_(x, Upto(put[x], put[x] + n[x]))
              /\ put' = [put EXCEPT ![x] = @ + n[x]]
              /\ Return(x)
              /\ UNCHANGED <<mp_pool_, mp_total_, mp_left_, made, held, exited,
                             ibuf, obuf, grown, socket, delivered, wire>>
-----------------------------------------------------------------------------
(* pop, write2fd, clear *)

\* The user's message callback takes some bytes and leaves the rest.
PopSome(x) == /\ At(x, "user")
              /\ \E k \in 0 .. Len(chunk[ibuf[x]]) - 1 :
                   /\ chunk' = [chunk EXCEPT ![ibuf[x]] = SubSeq(@, k + 1, Len(@))]
                   /\ delivered' = [delivered EXCEPT ![x] = @ + k]
              /\ Return(x)
              /\ UNCHANGED <<mp_pool_, mp_total_, mp_left_, made, held, exited,
                             ibuf, obuf, grown, socket, put, wire>>

PopAllKeeps(x) == UNCHANGED ibuf    \* mutant
DropBuf(x) == ibuf' = [ibuf EXCEPT ![x] = Null]

PopAll(x) == /\ At(x, "user")
             /\ delivered' = [delivered EXCEPT ![x] = @ + Len(chunk[ibuf[x]])]
             /\ Retrieve(ibuf[x], chunk)
             /\ DropBuf(x)
             /\ Return(x)
             /\ UNCHANGED <<obuf, grown, socket, put, wire>>

Write2fd(x) == /\ At(x, "idle") /\ obuf[x] # Null
               /\ \E k \in 1 .. Len(chunk[obuf[x]]) :
                    /\ chunk' = [chunk EXCEPT ![obuf[x]] = SubSeq(@, k + 1, Len(@))]
                    /\ wire' = [wire EXCEPT ![x] = @ + k]
               /\ UNCHANGED <<mp_pool_, mp_total_, mp_left_, made, held, exited,
                              ibuf, obuf, place, socket, delivered, put>>

Clear(x, buf) == IF buf[x] = Null THEN UNCHANGED <<poolVars, buf>>
                 ELSE Retrieve(buf[x], chunk) /\ buf' = [buf EXCEPT ![x] = Null]

ClearIn(x) == /\ At(x, "clearIn") /\ Clear(x, ibuf)
              /\ Goto(x, "clearOut")
              /\ UNCHANGED <<obuf, op, n, grown, socket, users>>

ClearOut(x) == /\ At(x, "clearOut") /\ Clear(x, obuf)
               /\ Goto(x, "closed")
               /\ UNCHANGED <<ibuf, op, n, grown, socket, users>>

Next == \E x \in Conns :
  \/ PeerSends(x) \/ PeerCloses(x) \/ BeginRead(x) \/ BeginWrite(x)
  \/ RoomEnough(x) \/ Alloc(x) \/ AllocFails(x) \/ AllocExits(x)
  \/ CopyAndRetrieve(x) \/ MoveIn(x) \/ MoveOut(x)
  \/ PopSome(x) \/ PopAll(x) \/ Write2fd(x) \/ ClearIn(x) \/ ClearOut(x)

Spec == Init /\ [][Next]_vars
-----------------------------------------------------------------------------
Holdings == [b \in Conns \X {"in", "out", "grown"} |->
               CASE b[2] = "in" -> ibuf[b[1]] [] b[2] = "out" -> obuf[b[1]]
                 [] OTHER -> grown[b[1]]]

(* The chunks outside the pool are those of the buffers, each of one buffer  *)
(* of one connection: none leaks and none is shared, whatever is grown,      *)
(* emptied or closed in between.                                             *)
OneOwner == /\ held = {Holdings[b] : b \in DOMAIN Holdings} \ {Null}
            /\ \A a, b \in DOMAIN Holdings : Holdings[a] = Holdings[b] /\ Holdings[a] # Null => a = b

(* No buffer holds more than its chunk.                                      *)
WithinCapacity == \A c \in held : Len(chunk[c]) <= Capacity(c)

(* Every chunk is accounted for, in the pool or with one buffer it fits.     *)
ChunksAccounted == OneOwner /\ WithinCapacity /\ PoolConsistent

Contents(c) == IF c = Null THEN << >> ELSE chunk[c]

(* The user gets the bytes of the peer in order and without a gap: those     *)
(* taken, those buffered and those in the socket make up what was sent.      *)
InputStream == \A x \in Conns : step[x] \notin {"clearOut", "closed"} =>
  Contents(ibuf[x]) \o inq[x] = Upto(delivered[x], sent[x])

(* The bytes that were accepted and not yet written are in the output buffer *)
(* in order; a write2buf that fails leaves them as they were.                *)
OutputStream == \A x \in Conns : step[x] # "closed" =>
  Contents(obuf[x]) = Upto(wire[x], put[x])

(* Both directions of a connection are streams.                              *)
StreamsKept == InputStream /\ OutputStream
=============================================================================
