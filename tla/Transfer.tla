------------------------------- MODULE Transfer -------------------------------
(***************************************************************************)
(* Messages over one TCP connection.  Several threads send through the     *)
(* same TcpClientEpoll, whose mutex each call of send holds while send_n   *)
(* loops; the peer reads message by message with recv_n, or in pieces with  *)
(* recv.  The loops poll a non-blocking socket, move as many bytes as the  *)
(* kernel takes or has, and give up after a time-out, when len tells how   *)
(* far they came.                                                          *)
(*                                                                         *)
(* The callers make use of len: a thread whose send timed out sends the    *)
(* rest of its message next, the reader asks for the rest of its frame.    *)
(* A byte is <<s, m, k>>: the k-th byte of the m-th message of thread s.   *)
(***************************************************************************)
EXTENDS Integers, Sequences, SequencesExt

CONSTANTS Senders,   \* threads that share the connection
          MsgSize,   \* bytes of a message
          Capacity,  \* what the socket buffers on the way hold
          MaxMsgs    \* bound: messages of a thread

ASSUME TransferAssumption == /\ MsgSize \in Nat \ {0}
                             /\ Capacity \in Nat \ {0}
                             /\ MaxMsgs \in Nat

VARIABLES holder,    \* the threads that hold _mutex
          pc,        \* where a thread is in send
          len,       \* send_n's len: bytes sent in this call
          buf_size,  \* send_n's buf_size: bytes left in this call
          msg,       \* the message that is next for a thread, or under way
          done,      \* what its calls so far have reported as sent
          pipe,      \* the bytes on the way
          closed,    \* the peer has closed
          reading,   \* where the reader is in recv_n or recv
          once,      \* it is in recv
          need,      \* buf_size: bytes left in this call
          frame,     \* the message the reader is putting together
          received,  \* history: all that the reader has received
          mixed      \* history: a send began amid another thread's message

sender == <<holder, pc, len, buf_size, msg, done>>
reader == <<reading, once, need, frame, received>>
vars == <<sender, pipe, closed, reader, mixed>>

Init == /\ holder = {}
        /\ pc = [s \in Senders |-> "idle"]
        /\ len = [s \in Senders |-> 0]
        /\ buf_size = [s \in Senders |-> 0]
        /\ msg = [s \in Senders |-> 1]
        /\ done = [s \in Senders |-> 0]
        /\ pipe = <<>> /\ closed = FALSE
        /\ reading = "idle" /\ once = FALSE /\ need = 0 /\ frame = <<>> /\ received = <<>>
        /\ mixed = FALSE

InMessage(s) == done[s] > 0

-------------------------------------------------------------------------------
(* TcpClientEpoll::send and SocketUtils::send_n *)

CallSend(s) == /\ pc[s] = "idle"
               /\ msg[s] <= MaxMsgs
               /\ pc' = [pc EXCEPT ![s] = "lock"]
               /\ UNCHANGED <<holder, len, buf_size, msg, done, pipe, closed, reader, mixed>>

BeginSend(s) == /\ pc' = [pc EXCEPT ![s] = "first"]
                /\ holder' = holder \cup {s}
                /\ len' = [len EXCEPT ![s] = 0]
                /\ buf_size' = [buf_size EXCEPT ![s] = MsgSize - done[s]]
                /\ mixed' = (mixed \/ \E t \in Senders \ {s} : InMessage(t))
                /\ UNCHANGED <<msg, done, pipe, closed, reader>>

\* Mutant: send_n is called without the guard.
LockForgotten(s) == pc[s] = "lock" /\ BeginSend(s)

Lock(s) == pc[s] = "lock" /\ holder = {} /\ BeginSend(s)

InLoop(s) == pc[s] \in {"first", "again"}

\* send_n returns.
Return(s) == /\ pc' = [pc EXCEPT ![s] = "idle"]
             /\ holder' = holder \ {s}
             /\ len' = [len EXCEPT ![s] = 0]
             /\ buf_size' = [buf_size EXCEPT ![s] = 0]

\* ... and its caller learns from len that n bytes of the message are sent.
ReturnPart(s, n) == /\ Return(s)
                    /\ done' = [done EXCEPT ![s] = @ + n]
                    /\ UNCHANGED <<msg, pipe, closed, reader, mixed>>

\* The kernel takes the next n bytes.
Put(s, n) == /\ InLoop(s)
             /\ ~closed
             /\ Len(pipe) + n <= Capacity
             /\ pipe' = pipe \o [i \in 1 .. n |-> <<s, msg[s], done[s] + len[s] + i>>]
             /\ UNCHANGED <<closed, reader, mixed>>

\* send_n sends the last of its bytes and returns 0.
SendRest(s) == /\ Put(s, buf_size[s])
               /\ Return(s)
               /\ msg' = [msg EXCEPT ![s] = @ + 1]
               /\ done' = [done EXCEPT ![s] = 0]

SendPart(s) == \E n \in 1 .. buf_size[s] - 1 :
                 /\ Put(s, n)
                 /\ len' = [len EXCEPT ![s] = @ + n]
                 /\ buf_size' = [buf_size EXCEPT ![s] = @ - n]
                 /\ pc' = [pc EXCEPT ![s] = "again"]
                 /\ UNCHANGED <<holder, msg, done>>

\* EAGAIN or EINTR: the loop goes on.
SendWaits(s) == /\ pc[s] = "first"
                /\ ~closed
                /\ pc' = [pc EXCEPT ![s] = "again"]
                /\ UNCHANGED <<holder, len, buf_size, msg, done, pipe, closed, reader, mixed>>

\* Mutant: the time-out is looked at only after an attempt that sent something.
SendTimesOutIfBegun(s) == pc[s] = "again" /\ len[s] > 0 /\ ReturnPart(s, len[s])

\* Mutant: a call that times out reports nothing.
SendTimesOutSilently(s) == pc[s] = "again" /\ ReturnPart(s, 0)

\* From the second round on the time may be over: send_n returns 2.
SendTimesOut(s) == pc[s] = "again" /\ ReturnPart(s, len[s])

\* Any other error: send_n returns -1.
SendFails(s) == InLoop(s) /\ closed /\ ReturnPart(s, len[s])

-------------------------------------------------------------------------------
(* The peer, SocketUtils::recv_n and SocketUtils::recv *)

RecvBegins == /\ reading = "idle"
              /\ ~closed
              /\ reading' = "first"
              /\ once' \in BOOLEAN
              /\ frame' = IF Len(frame) = MsgSize THEN <<>> ELSE frame
              /\ need' = MsgSize - Len(frame')
              /\ UNCHANGED <<sender, pipe, closed, received, mixed>>

\* The kernel has some bytes.
Get(n) == /\ reading # "idle"
          /\ n <= Len(pipe)
          /\ frame' = frame \o SubSeq(pipe, 1, n)
          /\ received' = received \o SubSeq(pipe, 1, n)
          /\ pipe' = SubSeq(pipe, n + 1, Len(pipe))
          /\ need' = need - n
          /\ UNCHANGED <<sender, closed, mixed>>

\* With the last byte needed recv_n returns 1.
RecvSome == /\ ~once
            /\ UNCHANGED once
            /\ \E n \in 1 .. need :
                 Get(n) /\ reading' = IF n = need THEN "idle" ELSE "again"

\* recv returns 1 with what there is.
RecvOnce == /\ once
            /\ \E n \in 1 .. need : Get(n)
            /\ reading' = "idle" /\ once' = FALSE

RecvWaits == /\ reading = "first"
             /\ reading' = "again"
             /\ UNCHANGED <<sender, pipe, closed, once, need, frame, received, mixed>>

RecvTimesOut == /\ reading = "again"
                /\ reading' = "idle" /\ once' = FALSE
                /\ UNCHANGED <<sender, pipe, closed, need, frame, received, mixed>>

\* The peer closes between two calls; what is on the way is lost.
PeerCloses == /\ reading = "idle"
              /\ ~closed
              /\ closed' = TRUE
              /\ pipe' = <<>>
              /\ UNCHANGED <<sender, reader, mixed>>

-------------------------------------------------------------------------------

send_n(s) == SendRest(s) \/ SendPart(s) \/ SendWaits(s) \/ SendTimesOut(s) \/ SendFails(s)
recv_n == RecvSome \/ RecvOnce \/ RecvWaits \/ RecvTimesOut

Next == \/ \E s \in Senders : CallSend(s) \/ Lock(s) \/ send_n(s)
        \/ RecvBegins \/ recv_n
        \/ PeerCloses

Spec == Init /\ [][Next]_vars

\* Threads run and time passes; the mutex does not forget a thread.  The
\* reader need not read.
FairSpec == Spec /\ \A s \in Senders : WF_vars(send_n(s)) /\ SF_vars(Lock(s))

-------------------------------------------------------------------------------
(* Correctness *)

Bytes == Senders \X (1 .. MaxMsgs) \X (1 .. MsgSize)

\* The types; buf_size is unsigned and must not pass below zero.
TypeOK == /\ holder \subseteq Senders
          /\ pc \in [Senders -> {"idle", "lock", "first", "again"}]
          /\ len \in [Senders -> 0 .. MsgSize]
          /\ buf_size \in [Senders -> 0 .. MsgSize]
          /\ msg \in [Senders -> 1 .. MaxMsgs + 1]
          /\ done \in [Senders -> 0 .. MsgSize]
          /\ pipe \in Seq(Bytes) /\ Len(pipe) <= Capacity
          /\ closed \in BOOLEAN
          /\ reading \in {"idle", "first", "again"}
          /\ once \in BOOLEAN
          /\ need \in 0 .. MsgSize
          /\ frame \in Seq(Bytes) /\ Len(frame) <= MsgSize
          /\ received \in Seq(Bytes)
          /\ mixed \in BOOLEAN

Stream == received \o pipe

\* What a thread has handed over of its message under way.
Handed(s) == done[s] + len[s]

IsHanded(b) == \/ b[2] < msg[b[1]]
               \/ /\ b[2] = msg[b[1]]
                  /\ b[3] <= Handed(b[1])

Before(a, b) == \/ a[2] < b[2]
                \/ /\ a[2] = b[2]
                   /\ a[3] < b[3]

\* Time-outs and resumed calls neither lose nor repeat a byte: len is exact.
\* The bytes that were reported as sent, and no others, are in the stream, and
\* each thread's come once and in order, unless the peer has closed.
StreamIsExact ==
  ~closed => /\ ToSet(Stream) = {b \in Bytes : IsHanded(b)}
             /\ \A i, j \in 1 .. Len(Stream) :
                  i < j /\ Stream[i][1] = Stream[j][1] => Before(Stream[i], Stream[j])

\* A frame that recv_n or recv fills is a message, or its beginning, as long as no
\* thread sends while another one has a message to finish: time-outs alone
\* do not shift the frames, and the mutex keeps concurrent calls apart.
FramesAreMessages ==
  ~mixed => \A i \in 1 .. Len(frame) : frame[i] = <<frame[1][1], frame[1][2], i>>

\* Every call of send returns, though the peer may not read and other threads
\* are in front.
SendReturns == \A s \in Senders : pc[s] = "lock" ~> pc[s] = "idle"
===============================================================================
