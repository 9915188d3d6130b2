------------------------------ MODULE Framing ------------------------------
(***************************************************************************)
(* TcpSocket: sendMsg and recvMsg, which put a length before a message and *)
(* write and read both piece by piece, over the byte stream of one         *)
(* direction of a connection.                                              *)
(*                                                                         *)
(* A client's socket blocks and a server's does not, so the two directions *)
(* differ: requests are written by a blocking and read by a non-blocking   *)
(* end, answers the other way round.  The classes of the two programs are  *)
(* close copies; the actions named Client... and Server... are the calls   *)
(* in which they differ.                                                   *)
(*                                                                         *)
(* A byte is named by its message and its place in the message's frame:    *)
(* <<m, 1>> to <<m, LenBytes>> are the length.  Only a reader that starts at   *)
(* <<m, 1>> reads the length of m; bytes from elsewhere are some number.   *)
(***************************************************************************)
EXTENDS Integers, Sequences, FiniteSetsExt, Functions

CONSTANTS
  LenBytes,  \* the bytes a length takes (4 in the code)
  Sizes,     \* the length of each message, in the order they are sent
  Capacity,  \* the bytes the kernels hold between write and read
  MayClose   \* whether the writing process may end

ASSUME FrameAssumption ==
  /\ LenBytes \in Nat \ {0} /\ Sizes \in Seq(Nat \ {0})
  /\ Capacity \in Nat \ {0} /\ MayClose \in BOOLEAN

VARIABLES
  writer,   \* the end that writes in this direction; it never changes
  sent,     \* messages sendMsg began to write
  wpc,      \* where sendMsg is
  left,     \* what writen has not written of its buffer
  line,     \* bytes written and not read
  arrived,  \* how many of these have reached the reader's kernel
  closed,   \* how the writing process ended, if it did
  rpc,      \* where recvMsg is
  buf,      \* what readn has read
  need,     \* the length it was asked for
  got,      \* the messages recvMsg returned; Stray for bytes that are none
  last,     \* how the last call of recvMsg ended
  inStep    \* history: no call has stopped inside a message

writerVars == <<sent, wpc, left>>
readerVars == <<rpc, buf, need, got, last>>
vars == <<writer, writerVars, line, arrived, closed, readerVars, inStep>>

----------------------------------------------------------------------------
Messages == 1..Len(Sizes)
Total(m) == LenBytes + Sizes[m]
Longest  == Max({0} \cup Range(Sizes))
Bytes    == Messages \X (Nat \ {0})

\* netdata in sendMsg: the length and the message.
Frame(m)  == [i \in 1..Total(m) |-> <<m, i>>]
Length(m) == [i \in 1..LenBytes |-> <<m, i>>]
Body(m)   == [i \in 1..Sizes[m] |-> <<m, LenBytes + i>>]

Stray == 0
\* The message these bytes are, if they are one.
Meaning(bytes) ==
  IF \E m \in Messages : bytes = Body(m)
  THEN CHOOSE m \in Messages : bytes = Body(m) ELSE Stray

Reader == IF writer = "client" THEN "server" ELSE "client"
Room == Len(line) < Capacity
\* The reader's kernel has nothing and will never have anything.
Eof == closed = "fin" /\ line = <<>>
\* select and epoll see an end-of-file or an error as something to read.
Ready == arrived > 0 \/ Eof \/ closed = "reset"

TypeOK ==
  /\ writer \in {"client", "server"}
  /\ sent \in 0..Len(Sizes)
  /\ wpc \in {"idle", "select", "write"}
  /\ left \in Seq(Bytes) /\ line \in Seq(Bytes) /\ buf \in Seq(Bytes)
  /\ arrived \in 0..Len(line)
  /\ closed \in {"no", "fin", "reset"}
  /\ rpc \in {"idle", "select", "length", "body"}
  /\ need \in Nat /\ Len(buf) <= need
  /\ got \in Seq(Messages \cup {Stray})
  /\ last \in {"none", "ok", "empty", "again", "timeout", "closed", "error", "nomem"}
  /\ inStep \in BOOLEAN

Init ==
  /\ writer \in {"client", "server"}
  /\ sent = 0 /\ wpc = "idle" /\ left = <<>>
  /\ line = <<>> /\ arrived = 0 /\ closed = "no"
  /\ rpc = "idle" /\ buf = <<>> /\ need = 0 /\ got = <<>> /\ last = "none"
  /\ inStep = TRUE

----------------------------------------------------------------------------
(* sendMsg.                                                                *)

SendMsg ==
  /\ closed = "no" /\ wpc = "idle" /\ sent < Len(Sizes)
  /\ wpc' = "select"
  /\ UNCHANGED <<writer, sent, left, line, arrived, closed, readerVars, inStep>>

\* writeTimeout finds the socket writable.
BeginWrite ==
  /\ wpc = "select" /\ Room
  /\ sent' = sent + 1 /\ wpc' = "write" /\ left' = Frame(sent + 1)
  /\ UNCHANGED <<writer, line, arrived, closed, readerVars, inStep>>

\* It does not: nothing was written, and the caller goes on.
SendTimeout ==
  /\ wpc = "select" /\ ~Room
  /\ wpc' = "idle"
  /\ UNCHANGED <<writer, sent, left, line, arrived, closed, readerVars, inStep>>

\* Mutant: writen does not advance its pointer.
WriteFromStart ==
  /\ wpc = "write" /\ Room
  /\ LET k == Min({Len(left), Capacity - Len(line)})
     IN /\ line' = line \o SubSeq(left, 1, k)
        /\ left' = SubSeq(left, 1, Len(left) - k)
        /\ wpc' = IF k = Len(left) THEN "idle" ELSE "write"
  /\ UNCHANGED <<writer, sent, arrived, closed, readerVars, inStep>>

\* writen's loop: write takes what the kernel has room for.
Write ==
  /\ wpc = "write" /\ Room
  /\ LET k == Min({Len(left), Capacity - Len(line)})
     IN /\ line' = line \o SubSeq(left, 1, k)
        /\ left' = SubSeq(left, k + 1, Len(left))
        /\ wpc' = IF k = Len(left) THEN "idle" ELSE "write"
  /\ UNCHANGED <<writer, sent, arrived, closed, readerVars, inStep>>

\* A server's write fails for want of room: writen gives up with the frame
\* half written, and no caller of sendMsg looks at what it returns.
ServerWriteAgain ==
  /\ writer = "server" /\ wpc = "write" /\ ~Room
  /\ wpc' = "idle" /\ left' = <<>> /\ inStep' = FALSE
  /\ UNCHANGED <<writer, sent, line, arrived, closed, readerVars>>

\* The writing process ends, at any point of sendMsg; what it wrote still
\* arrives, unless the connection is reset.
Close ==
  /\ MayClose /\ closed = "no"
  /\ \/ closed' = "fin" /\ UNCHANGED <<line, arrived>>
     \/ closed' = "reset" /\ line' = <<>> /\ arrived' = 0
  /\ wpc' = "idle" /\ left' = <<>>
  /\ UNCHANGED <<writer, sent, readerVars, inStep>>

\* A segment reaches the reader's kernel; the stream may be cut anywhere.
Arrive ==
  /\ arrived' \in (arrived + 1)..Len(line)
  /\ UNCHANGED <<writer, writerVars, line, closed, readerVars, inStep>>

----------------------------------------------------------------------------
(* recvMsg.                                                                *)

Return(how) == rpc' = "idle" /\ buf' = <<>> /\ need' = 0 /\ last' = how

\* readn is asked for the length.
ReadLength == rpc' = "length" /\ buf' = <<>> /\ need' = LenBytes

\* Mutant: one message per event.
ServerRecvMsgOnce ==
  /\ Reader = "server" /\ rpc = "idle"
  /\ last \in {"none", "again"} /\ Ready
  /\ ReadLength
  /\ UNCHANGED <<writer, writerVars, line, arrived, closed, got, last, inStep>>

\* workThread calls for the next message until recvMsg says EAGAIN, then
\* again when epoll reports something to read; any other failure ends the
\* server (RecvError of module Reactor).
ServerRecvMsg ==
  /\ Reader = "server" /\ rpc = "idle"
  /\ \/ last \in {"ok", "empty"}
     \/ last \in {"none", "again"} /\ Ready
  /\ ReadLength
  /\ UNCHANGED <<writer, writerVars, line, arrived, closed, got, last, inStep>>

\* A client calls it after every request, whatever the last call returned,
\* and waits in readTimeout.
ClientRecvMsg ==
  /\ Reader = "client" /\ rpc = "idle"
  /\ rpc' = "select"
  /\ UNCHANGED <<writer, writerVars, line, arrived, closed, buf, need, got, last, inStep>>

ClientReadable ==
  /\ rpc = "select" /\ Ready
  /\ ReadLength
  /\ UNCHANGED <<writer, writerVars, line, arrived, closed, got, last, inStep>>

ClientTimeout ==
  /\ rpc = "select" /\ ~Ready
  /\ Return("timeout")
  /\ UNCHANGED <<writer, writerVars, line, arrived, closed, got, inStep>>

\* What the next read of readn returns, and what is left on the line.
Chunk == Min({need - Len(buf), arrived})
Filled == buf \o SubSeq(line, 1, Chunk)
Consume ==
  /\ line' = SubSeq(line, Chunk + 1, Len(line))
  /\ arrived' = arrived - Chunk

\* Mutant: one read for a message, as if it came in one piece.
ReadSomeReturns ==
  /\ rpc \in {"length", "body"} /\ arrived > 0 /\ Len(buf) + arrived < need
  /\ Consume
  /\ IF rpc = "length" THEN buf' = Filled /\ UNCHANGED <<rpc, need, got, last>>
     ELSE got' = Append(got, Meaning(Filled)) /\ Return("ok")
  /\ UNCHANGED <<writer, writerVars, closed, inStep>>

\* A read that leaves readn waiting for more.
ReadSome ==
  /\ rpc \in {"length", "body"} /\ arrived > 0 /\ Len(buf) + arrived < need
  /\ Consume /\ buf' = Filled
  /\ UNCHANGED <<writer, writerVars, closed, rpc, need, got, last, inStep>>

\* The length is complete: ask for as many bytes as it says.
ReadHead ==
  /\ rpc = "length" /\ Len(buf) + arrived >= need
  /\ \E m \in Messages :
       Filled = Length(m) /\ rpc' = "body" /\ buf' = <<>> /\ need' = Sizes[m]
  /\ Consume
  /\ UNCHANGED <<writer, writerVars, closed, got, last, inStep>>

\* Bytes that are not a length say any number; malloc refuses a large one.
ReadStrayHead ==
  /\ rpc = "length" /\ Len(buf) + arrived >= need
  /\ \A m \in Messages : Filled # Length(m)
  /\ \/ /\ rpc' = "body" /\ buf' = <<>>
        /\ need' \in 0..Longest
        /\ UNCHANGED last
     \/ Return("nomem")
  /\ Consume
  /\ UNCHANGED <<writer, writerVars, closed, got, inStep>>

\* Mutant: the buffer of one message is kept for the next.
ReadBodyKeepsBuffer ==
  /\ rpc = "body" /\ Len(buf) + arrived >= need
  /\ Consume
  /\ got' = Append(got, Meaning(Filled))
  /\ rpc' = "idle" /\ buf' = Filled /\ need' = 0 /\ last' = "ok"
  /\ UNCHANGED <<writer, writerVars, closed, inStep>>

\* The message is complete.
ReadBody ==
  /\ rpc = "body" /\ Len(buf) + arrived >= need
  /\ Consume
  /\ got' = Append(got, Meaning(Filled))
  /\ Return("ok")
  /\ UNCHANGED <<writer, writerVars, closed, inStep>>

\* A server finds nothing more to read for now; what readn has read of the
\* message so far is forgotten.
ServerReadAgain ==
  /\ Reader = "server" /\ rpc \in {"length", "body"}
  /\ arrived = 0 /\ ~Ready /\ Len(buf) < need
  /\ Return("again")
  /\ inStep' = (inStep /\ rpc = "length" /\ buf = <<>>)
  /\ UNCHANGED <<writer, writerVars, line, arrived, closed, got>>

\* End-of-file between two messages: recvMsg returns 0 and no message.
EofAtStart ==
  /\ rpc = "length" /\ Eof /\ buf = <<>>
  /\ Return("empty")
  /\ UNCHANGED <<writer, writerVars, line, arrived, closed, got, inStep>>

\* Mutant: readn reads on at end-of-file.
EofInsideRetries ==
  /\ rpc \in {"length", "body"} /\ Eof /\ Len(buf) < need
  /\ UNCHANGED vars

\* End-of-file inside a message is reported ...
EofInside ==
  /\ rpc \in {"length", "body"} /\ Eof /\ Len(buf) < need
  /\ rpc = "length" => buf # <<>>
  /\ rpc = "body" /\ Reader = "server" => buf # <<>>
  /\ Return("closed")
  /\ UNCHANGED <<writer, writerVars, line, arrived, closed, got, inStep>>

\* ... except by the server between a length and its message: readn's 0 is
\* none of the cases recvMsg asks for, and it returns the memory it would
\* have read into.
ServerEofBeforeBody ==
  /\ Reader = "server" /\ rpc = "body" /\ Eof /\ buf = <<>> /\ need > 0
  /\ got' = Append(got, Stray) /\ Return("ok")
  /\ inStep' = FALSE
  /\ UNCHANGED <<writer, writerVars, line, arrived, closed>>

ReadError ==
  /\ rpc \in {"length", "body"} /\ closed = "reset" /\ Len(buf) < need
  /\ Return("error")
  /\ UNCHANGED <<writer, writerVars, line, arrived, closed, got, inStep>>

----------------------------------------------------------------------------
Writing == BeginWrite \/ SendTimeout \/ Write \/ ServerWriteAgain

Reading ==
  \/ ServerRecvMsg \/ ClientReadable \/ ReadSome \/ ReadHead \/ ReadStrayHead
  \/ ReadBody \/ ServerReadAgain \/ EofAtStart \/ EofInside
  \/ ServerEofBeforeBody \/ ReadError

Next == SendMsg \/ Writing \/ Close \/ Arrive \/ ClientRecvMsg \/ ClientTimeout \/ Reading

Spec == Init /\ [][Next]_vars

\* Both ends run, the network delivers, and select returns once there is
\* something to read.  A client need not call, and may wait for ever.
FairSpec == Spec /\ WF_vars(Writing) /\ WF_vars(Arrive) /\ WF_vars(Reading)

----------------------------------------------------------------------------
(* Properties.                                                             *)

\* The byte after b in the stream sendMsg writes.
After(b) == IF b[2] < Total(b[1]) THEN <<b[1], b[2] + 1>> ELSE <<b[1] + 1, 1>>

\* What was written, will be written or is read, in order.
Stream == buf \o (line \o left)

\* As long as no call stopped inside a message, the bytes between writer and
\* reader are the rest of what was sent, from the place recvMsg has reached,
\* without gap or repetition: writen goes on where the last write ended,
\* readn where the last read did, and the length is taken off once.
Aligned ==
  inStep =>
    /\ \A i \in 1..(Len(Stream) - 1) : Stream[i + 1] = After(Stream[i])
    /\ Stream # <<>> =>
         Stream[1] = <<Len(got) + 1, IF rpc = "body" THEN LenBytes + 1 ELSE 1>>
    /\ closed = "no" =>
         IF Stream = <<>> THEN Len(got) = sent
         ELSE Stream[Len(Stream)] = <<sent, Total(sent)>>
    /\ rpc = "body" => need = Sizes[Len(got) + 1]

\* What recvMsg returns is a message that was sent, whole; never a mixture of
\* several, and never memory nobody wrote.
OnlySent == Stray \notin Range(got)

\* recvMsg and sendMsg keep MessageStream: the messages read are those sent,
\* in their order, until some call has stopped inside one.
Messaging == INSTANCE MessageStream
KeepsStream == Messaging!Spec

\* A call of recvMsg that found something to read comes back; readn has no
\* timeout of its own, and in step it needs none.
RecvReturns ==
  (rpc \in {"length", "body"} /\ inStep) ~> (rpc = "idle" \/ ~inStep)

\* The server reads what a client sends, though epoll reports it only once.
Delivered ==
  \A m \in Messages :
    (writer = "client" /\ sent >= m) ~> (Len(got) >= m \/ closed # "no" \/ ~inStep)
=============================================================================
