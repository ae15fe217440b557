------------------------- MODULE SessionTypeProofs -------------------------
(***************************************************************************)
(* Proof that every variable of a session keeps its type, and every buffer  *)
(* position stays in its vector, for every size and bound and whatever the  *)
(* peer does.  One lemma per action, then the theorem.                      *)
(***************************************************************************)
EXTENDS SessionProperties, MessageBufferProofs

\* A message is flipped when it is written and stays flipped.
Flipped(b) == b.position <= b.limit

\* Until doWrite has sent more than there is (NWG_EUNKNOWN), the write
\* buffer's position lies between what was sent and the limit: what remains
\* to be read of it is inside the vector.
WriteBufferOK ==
    nWritten <= wbuf.limit =>
       nWritten <= wbuf.position /\ wbuf.position <= wbuf.limit

TypeInv == TypeOK /\ Flipped(wobj.buf) /\ WriteBufferOK

\* A run of numbered bytes is a sequence of the length asked for.
LEMMA RunType ==
    ASSUME NEW b \in Nat, NEW n \in Nat
    PROVE  Run(b, n) \in Seq(Nat) /\ Len(Run(b, n)) = n
<1>1. \A i \in 1..n : b + i \in Nat
  OBVIOUS
<1>2. Run(b, n) \in [1..n -> Nat]
  BY <1>1 DEF Run
<1>3. Run(b, n) \in Seq(Nat)
  BY <1>2, SeqDef
<1>4. Len(Run(b, n)) = n
  BY <1>2, <1>3, LenProperties DEF Run
<1>. QED  BY <1>3, <1>4

\* What a handler builds with put and flip is a flipped write object, numbered
\* next in the order of session.write() calls.
LEMMA MessageType ==
    ASSUME TypeOK, NEW n \in Nat
    PROVE  /\ Message(n) \in WriteObject
           /\ Message(n).id = Len(ends) + 1
           /\ InBounds(Message(n).buf)
           /\ Flipped(Message(n).buf)
           /\ Produced + n \in Nat
<1>1. Produced \in Nat
  BY DEF Produced, TypeOK, SocketType
<1>2. Run(Produced, n) \in Seq(Nat)
  BY <1>1, RunType
<1>3. /\ Put(EmptyBuffer, Run(Produced, n)) \in Buffer
      /\ InBounds(Put(EmptyBuffer, Run(Produced, n)))
  BY <1>2, EmptyBufferType, PutInserts
<1>4. /\ Message(n).buf \in Buffer
      /\ InBounds(Message(n).buf)
      /\ Message(n).buf.position = 0
  BY <1>3, FlipExposes DEF Message
<1>5. Message(n).id = Len(ends) + 1 /\ Len(ends) + 1 \in Nat
  BY LenProperties DEF Message, TypeOK, SocketType
<1>6. Message(n) \in WriteObject
  BY <1>4, <1>5 DEF Message, WriteObject
<1>. QED  BY <1>1, <1>4, <1>5, <1>6 DEF Flipped, Buffer

\* The null write object is typed like any other.
LEMMA NoObjectType ==
    NoObject \in WriteObject /\ InBounds(NoObject.buf) /\ Flipped(NoObject.buf)
BY EmptyBufferType DEF NoObject, WriteObject, Flipped, EmptyBuffer

\* Whatever the handler writes, or not, is a flipped message.
LEMMA HandlerType ==
    ASSUME TypeOK, HandlerSilent \/ HandlerWrites
    PROVE  /\ wobj' \in WriteObject
           /\ InBounds(wobj'.buf) /\ Flipped(wobj'.buf)
           /\ ends' \in Seq(Nat)
           /\ more' \in BOOLEAN
<1>1. CASE HandlerSilent
  BY <1>1, NoObjectType
     DEF HandlerSilent, ObjectAfterReset, TypeOK, SocketType
<1>2. CASE HandlerWrites
  <2>1. PICK n \in 0..MaxLen :
           wobj' = Message(n) /\ ends' = Append(ends, Produced + n)
    BY <1>2 DEF HandlerWrites
  <2>2. n \in Nat
    BY SessionAssumption
  <2>3. ends' \in Seq(Nat)
    BY <2>1, <2>2, MessageType DEF TypeOK, SocketType
  <2>4. more' \in BOOLEAN
    BY <1>2 DEF HandlerWrites
  <2>. QED  BY <2>1, <2>2, <2>3, <2>4, MessageType
<1>. QED  BY <1>1, <1>2

\* A handler that acts leaves no write object or a new one.
LEMMA ActsSilentOrWrites ==
    ASSUME STATE may, STATE must, HandlerActs(may, must)
    PROVE  HandlerSilent \/ HandlerWrites
BY DEF HandlerActs


Calls == [opened : Nat, received : Nat, sent : Nat, error : Nat, closed : Nat]

\* Counting a call of a handler's method keeps the counters' type.
LEMMA CallCounted ==
    ASSUME NEW cs \in Calls
    PROVE  /\ [cs EXCEPT !.opened = @ + 1] \in Calls
           /\ [cs EXCEPT !.received = @ + 1] \in Calls
           /\ [cs EXCEPT !.sent = @ + 1] \in Calls
           /\ [cs EXCEPT !.error = @ + 1] \in Calls
<1>1. [cs EXCEPT !.opened = @ + 1] \in Calls
  BY DEF Calls
<1>2. [cs EXCEPT !.received = @ + 1] \in Calls
  BY DEF Calls
<1>3. [cs EXCEPT !.sent = @ + 1] \in Calls
  BY DEF Calls
<1>4. [cs EXCEPT !.error = @ + 1] \in Calls
  BY DEF Calls
<1>. QED  BY <1>1, <1>2, <1>3, <1>4

\* The types of what End, Fail and StayOrEnd assign, whatever the calls made.
LEMMA EndType ==
    ASSUME TypeOK, NEW CONSTANT n \in Nat, STATE cs, cs \in Calls, End(cs, n)
    PROVE  /\ where' = "gone"
           /\ rdEv' \in BOOLEAN /\ wrEv' \in BOOLEAN
           /\ calls' \in Calls
           /\ fdCloses' \in Nat
<1>1. where' = "gone" /\ rdEv' \in BOOLEAN /\ wrEv' \in BOOLEAN
  BY DEF End
<1>2. calls' \in Calls
  BY DEF End, Calls
<1>3. fdCloses' \in Nat
  BY DEF End, TypeOK, SeenType
<1>. QED  BY <1>1, <1>2, <1>3

\* The types after the last lines of a callback, whatever was called.
LEMMA StayOrEndType ==
    ASSUME TypeOK, STATE cs, ACTION r, ACTION w, cs \in Calls,
           r \in BOOLEAN, w \in BOOLEAN, StayOrEnd(cs, r, w)
    PROVE  /\ where' \in {"loop", "gone"}
           /\ rdEv' \in BOOLEAN /\ wrEv' \in BOOLEAN
           /\ calls' \in Calls
           /\ fdCloses' \in Nat
<1>1. CASE closed' /\ End(cs, 1)
  BY <1>1, EndType
<1>2. CASE ~closed'
  <2>1. /\ where' = "loop" /\ rdEv' = r /\ wrEv' = w /\ calls' = cs
        /\ fdCloses' = fdCloses
    BY <1>2 DEF StayOrEnd
  <2>. QED  BY <2>1 DEF TypeOK, SeenType
<1>. QED  BY <1>1, <1>2 DEF StayOrEnd

\* doAccept and doConnect, from the new Session on, keep the types.
LEMMA OpenType == ASSUME TypeInv, Open PROVE TypeInv'
<1>1. HandlerSilent \/ HandlerWrites
  BY DEF Open, HandlerActs
<1>2. /\ wobj' \in WriteObject
      /\ InBounds(wobj'.buf) /\ Flipped(wobj'.buf)
      /\ ends' \in Seq(Nat)
      /\ more' \in BOOLEAN
  BY <1>1, HandlerType DEF TypeInv
<1>3. [calls EXCEPT !.opened = @ + 1] \in Calls
  BY CallCounted DEF TypeInv, TypeOK, SeenType, Calls
<1>4. /\ where' \in {"loop", "gone"}
      /\ rdEv' \in BOOLEAN /\ wrEv' \in BOOLEAN
      /\ calls' \in Calls /\ fdCloses' \in Nat
  BY <1>3, StayOrEndType DEF Open, TypeInv
<1>5. ControlType'
  BY <1>4 DEF Open, HandlerCloses, TypeInv, TypeOK, ControlType
<1>6. ReadingType'
  BY DEF Open, TypeInv, TypeOK, ReadingType, reading
<1>7. WritingType' /\ WriteBufferOK'
  BY <1>2 DEF Open, TypeInv, TypeOK, WritingType, WriteBufferOK
<1>8. SocketType'
  BY <1>2 DEF Open, TypeInv, TypeOK, SocketType, socket
<1>9. SeenType'
  BY <1>4 DEF Open, TypeInv, TypeOK, SeenType, Calls
<1>. QED  BY <1>2, <1>5, <1>6, <1>7, <1>8, <1>9 DEF TypeInv, TypeOK

\* Entering doRead keeps the types.
LEMMA ReadStartType == ASSUME TypeInv, ReadStart PROVE TypeInv'
<1>1. ControlType'
  BY DEF ReadStart, TypeInv, TypeOK, ControlType, events
<1>2. ReadingType'
  BY DEF ReadStart, TypeInv, TypeOK, ReadingType, reading
<1>3. WritingType' /\ WriteBufferOK' /\ Flipped(wobj.buf)'
  BY DEF ReadStart, TypeInv, TypeOK, WritingType, WriteBufferOK, writing
<1>4. SocketType'
  BY DEF ReadStart, TypeInv, TypeOK, SocketType, socket, output
<1>5. SeenType'
  BY DEF ReadStart, TypeInv, TypeOK, SeenType, seen
<1>. QED  BY <1>1, <1>2, <1>3, <1>4, <1>5 DEF TypeInv, TypeOK

\* A recv() that returns bytes keeps the types: put inserts them at the read
\* position, which is inside the vector.
LEMMA RecvType == ASSUME TypeInv, Recv PROVE TypeInv'
<1> DEFINE n == Min2(ReadBuffSize, arrived - got)
<1>1. n \in Nat /\ got + n <= arrived
  BY SessionAssumption DEF Recv, Min2, TypeInv, TypeOK, SocketType
<1>2. /\ rbuf' = Put(rbuf, Run(got, n)) /\ nRead' = nRead + n
      /\ result' = n /\ got' = got + n
  BY DEF Recv
<1> HIDE DEF n
<1>3. got \in Nat /\ Run(got, n) \in Seq(Nat)
  BY <1>1, RunType DEF TypeInv, TypeOK, SocketType
<1>4. ControlType'
  BY <1>1, <1>2 DEF Recv, TypeInv, TypeOK, ControlType, events
<1>5. rbuf' \in Buffer /\ InBounds(rbuf)'
  BY <1>2, <1>3, PutInserts DEF TypeInv, TypeOK, ReadingType
<1>6. ReadingType'
  BY <1>1, <1>2, <1>5 DEF Recv, TypeInv, TypeOK, ReadingType
<1>7. WritingType' /\ WriteBufferOK' /\ Flipped(wobj.buf)'
  BY DEF Recv, TypeInv, TypeOK, WritingType, WriteBufferOK, writing
<1>8. SocketType'
  BY <1>1, <1>2 DEF Recv, TypeInv, TypeOK, SocketType, output
<1>9. SeenType'
  BY DEF Recv, TypeInv, TypeOK, SeenType, seen
<1>. QED  BY <1>4, <1>6, <1>7, <1>8, <1>9 DEF TypeInv, TypeOK

\* doRead's branch for result == 0 keeps the types.
LEMMA ReadClosedType == ASSUME TypeInv, ReadClosed PROVE TypeInv'
<1>1. rbuf' \in Buffer /\ InBounds(rbuf)'
  BY FlipExposes DEF ReadClosed, TypeInv, TypeOK, ReadingType
<1>2. /\ where' = "gone"
      /\ rdEv' \in BOOLEAN /\ wrEv' \in BOOLEAN
      /\ calls' \in Calls /\ fdCloses' \in Nat
  BY EndType DEF ReadClosed, TypeInv, TypeOK, SeenType, Calls
<1>3. ControlType'
  BY <1>2 DEF ReadClosed, TypeInv, TypeOK, ControlType
<1>4. ReadingType'
  BY <1>1 DEF ReadClosed, TypeInv, TypeOK, ReadingType
<1>5. WritingType' /\ WriteBufferOK' /\ Flipped(wobj.buf)'
  BY DEF ReadClosed, TypeInv, TypeOK, WritingType, WriteBufferOK, writing
<1>6. SocketType'
  BY DEF ReadClosed, TypeInv, TypeOK, SocketType, socket, output
<1>7. SeenType'
  BY <1>2 DEF ReadClosed, TypeInv, TypeOK, SeenType, Calls
<1>. QED  BY <1>3, <1>4, <1>5, <1>6, <1>7 DEF TypeInv, TypeOK

\* The types after errorCaught, sessionClosed and delete session.
LEMMA FailType ==
    ASSUME TypeOK, NEW CONSTANT n \in Nat, Fail(n)
    PROVE  /\ where' = "gone"
           /\ rdEv' \in BOOLEAN /\ wrEv' \in BOOLEAN
           /\ calls' \in Calls
           /\ fdCloses' \in Nat
<1>1. [calls EXCEPT !.error = @ + 1] \in Calls
  BY CallCounted DEF TypeOK, SeenType, Calls
<1>2. End([calls EXCEPT !.error = @ + 1], n)
  BY DEF Fail
<1>. QED  BY <1>1, <1>2, EndType

\* doRead's branch for a failing recv() keeps the types.
LEMMA ReadFailedType == ASSUME TypeInv, ReadFailed PROVE TypeInv'
<1>1. rbuf' \in Buffer /\ InBounds(rbuf)'
  BY FlipExposes DEF ReadFailed, TypeInv, TypeOK, ReadingType
<1>2. /\ where' = "gone"
      /\ rdEv' \in BOOLEAN /\ wrEv' \in BOOLEAN
      /\ calls' \in Calls /\ fdCloses' \in Nat
  BY FailType DEF ReadFailed, TypeInv
<1>3. ControlType'
  BY <1>2 DEF ReadFailed, TypeInv, TypeOK, ControlType
<1>4. ReadingType'
  BY <1>1 DEF ReadFailed, TypeInv, TypeOK, ReadingType
<1>5. WritingType' /\ WriteBufferOK' /\ Flipped(wobj.buf)'
  BY DEF ReadFailed, TypeInv, TypeOK, WritingType, WriteBufferOK, writing
<1>6. SocketType'
  BY DEF ReadFailed, TypeInv, TypeOK, SocketType, socket, output
<1>7. SeenType'
  BY <1>2 DEF ReadFailed, TypeInv, TypeOK, SeenType, Calls
<1>. QED  BY <1>3, <1>4, <1>5, <1>6, <1>7 DEF TypeInv, TypeOK

\* The bytes messageReceived gets are those before the read position.
LEMMA ReceivedBytes ==
    ASSUME NEW b \in Buffer, InBounds(b)
    PROVE  /\ Bytes(TransformUp(Flip(b)), Remaining(TransformUp(Flip(b))))
                 = Bytes(Flip(b), b.position)
           /\ Bytes(Flip(b), b.position) \in Seq(Nat)
           /\ Len(Bytes(Flip(b), b.position)) = b.position
           /\ \A i \in 1..b.position :
                 Bytes(Flip(b), b.position)[i] = b.bs[i]
<1> DEFINE c == Flip(b)
           n == b.position
<1>1. c \in Buffer /\ c.bs = b.bs /\ c.position = 0 /\ c.limit = n
  BY FlipExposes
<1>2. n \in Nat /\ n <= Len(b.bs)
  BY DEF Buffer, InBounds
<1> HIDE DEF c, n
<1>3. Remaining(TransformUp(c)) = n
  BY <1>1, <1>2 DEF Remaining, TransformUp
<1>4. c.position + n <= Len(c.bs)
  BY <1>1, <1>2
<1>5. /\ Bytes(c, n) \in Seq(Nat)
      /\ Len(Bytes(c, n)) = n
      /\ \A i \in 1..n : Bytes(c, n)[i] = c.bs[c.position + i]
  BY <1>1, <1>2, <1>4, BytesRead
<1>6. \A i \in 1..n : Bytes(c, n)[i] = b.bs[i]
  BY <1>1, <1>5
<1>. QED  BY <1>3, <1>5, <1>6 DEF TransformUp, c, n

\* Session::resetWrite keeps the types.
LEMMA ResetWriteType ==
    ASSUME TypeOK, ResetWrite
    PROVE  last' \in WriteObject /\ wbuf' = EmptyBuffer
BY DEF ResetWrite, LastAfterReset, TypeOK, WritingType

\* The rest of doRead, from flip() to its last line, keeps the types.
LEMMA MessageReceivedType == ASSUME TypeInv, MessageReceived PROVE TypeInv'
<1>1. HandlerSilent \/ HandlerWrites
  BY DEF MessageReceived, HandlerActs
<1>2. /\ wobj' \in WriteObject
      /\ InBounds(wobj'.buf) /\ Flipped(wobj'.buf)
      /\ ends' \in Seq(Nat)
      /\ more' \in BOOLEAN
  BY <1>1, HandlerType DEF TypeInv
<1>3. stillReading' \in BOOLEAN /\ nRead' \in Nat
  <2>1. ReadLoopEnds
    BY DEF MessageReceived
  <2>2. nRead \in Nat
    BY DEF TypeInv, TypeOK, ReadingType
  <2>3. nRead' = 0 \/ nRead' = nRead
    BY <2>1 DEF ReadLoopEnds
  <2>4. stillReading' = TRUE \/ stillReading' = FALSE
    BY <2>1 DEF ReadLoopEnds
  <2>5. nRead' \in Nat
    BY <2>2, <2>3
  <2>6. stillReading' \in BOOLEAN
    BY <2>4
  <2>. QED  BY <2>5, <2>6
<1>4. [calls EXCEPT !.received = @ + 1] \in Calls
  BY CallCounted DEF TypeInv, TypeOK, SeenType, Calls
<1>5. rdEv \in BOOLEAN /\ ScheduledAfterRead \in BOOLEAN
  BY DEF ScheduledAfterRead, TypeInv, TypeOK, ControlType
<1>6. /\ where' \in {"loop", "gone"}
      /\ rdEv' \in BOOLEAN /\ wrEv' \in BOOLEAN
      /\ calls' \in Calls /\ fdCloses' \in Nat
  BY <1>4, <1>5, StayOrEndType DEF MessageReceived, TypeInv
<1>7. last' \in WriteObject /\ wbuf' = EmptyBuffer
  BY ResetWriteType DEF MessageReceived, TypeInv
<1>8. rbuf' \in Buffer /\ InBounds(rbuf)'
  BY FlipExposes DEF MessageReceived, TypeInv, TypeOK, ReadingType
<1>9. delivered' \in Seq(Nat)
  BY ReceivedBytes, Joined
     DEF MessageReceived, TypeInv, TypeOK, ReadingType, SeenType
<1>10. ControlType'
  BY <1>6 DEF MessageReceived, HandlerCloses, TypeInv, TypeOK, ControlType
<1>11. ReadingType'
  BY <1>3, <1>8 DEF ReadingType
<1>12. WritingType' /\ WriteBufferOK'
  BY <1>2, <1>7, EmptyBufferType
     DEF MessageReceived, TypeInv, TypeOK, WritingType, WriteBufferOK,
         EmptyBuffer
<1>13. SocketType'
  BY <1>2 DEF MessageReceived, TypeInv, TypeOK, SocketType, socket
<1>14. SeenType'
  BY <1>6, <1>9 DEF MessageReceived, TypeInv, TypeOK, SeenType, Calls
<1>. QED
  BY <1>2, <1>10, <1>11, <1>12, <1>13, <1>14 DEF TypeInv, TypeOK

\* Entering doWrite, with or without transformDown, keeps the types.
LEMMA WriteStartType == ASSUME TypeInv, WriteStart PROVE TypeInv'
<1>1. ControlType'
  BY DEF WriteStart, TypeInv, TypeOK, ControlType, events
<1>2. ReadingType'
  BY DEF WriteStart, TypeInv, TypeOK, ReadingType, reading
<1>3. WritingType' /\ WriteBufferOK' /\ Flipped(wobj.buf)'
  <2>1. CASE Transforms
    <3>1. /\ wbuf' = TransformDownOut(wobj.buf)
          /\ wobj' = [wobj EXCEPT !.buf = TransformDownIn(wobj.buf)]
          /\ nWritten' = nWritten
          /\ last' = last
      BY <2>1 DEF WriteStart
    <3>2. /\ wobj.buf \in Buffer /\ InBounds(wobj.buf)
          /\ wobj.buf.position <= wobj.buf.limit
          /\ wobj.id \in Nat
      BY DEF TypeInv, TypeOK, WritingType, WriteObject, Flipped
    <3>3. /\ wbuf' \in Buffer /\ InBounds(wbuf') /\ wbuf'.position = 0
      BY <3>1, <3>2, TransformDownMoves
    <3>4. TransformDownIn(wobj.buf)
             = [bs |-> wobj.buf.bs, position |-> 0, limit |-> wobj.buf.limit]
      BY <3>2, TransformDownMoves
    <3>5. wobj'.id = wobj.id /\ wobj'.buf = TransformDownIn(wobj.buf)
      BY <3>1 DEF TypeInv, TypeOK, WritingType, WriteObject
    <3>6. wobj'.buf \in Buffer /\ InBounds(wobj'.buf) /\ Flipped(wobj'.buf)
      BY <3>2, <3>4, <3>5 DEF Buffer, InBounds, Flipped
    <3>7. wobj' \in WriteObject
      BY <3>1, <3>2, <3>4, <3>5, <3>6 DEF WriteObject, TypeInv, TypeOK, WritingType
    <3>8. WriteBufferOK'
      BY <2>1, <3>1, <3>3 DEF WriteBufferOK, Transforms, Buffer
    <3>9. WritingType'
      BY <3>1, <3>3, <3>6, <3>7 DEF WritingType, TypeInv, TypeOK
    <3>. QED  BY <3>6, <3>8, <3>9
  <2>2. CASE ~Transforms
    BY <2>2 DEF WriteStart, TypeInv, TypeOK, WritingType, WriteBufferOK
  <2>. QED  BY <2>1, <2>2
<1>4. SocketType'
  BY DEF WriteStart, TypeInv, TypeOK, SocketType, socket, output
<1>5. SeenType'
  BY DEF WriteStart, TypeInv, TypeOK, SeenType, seen
<1>. QED  BY <1>1, <1>2, <1>3, <1>4, <1>5 DEF TypeInv, TypeOK

\* A send that is under way is left with a buffer whose rest is in the vector.
LEMMA SendingBuffer ==
    ASSUME TypeInv, Sending
    PROVE  /\ wbuf \in Buffer /\ InBounds(wbuf) /\ nWritten \in Nat
           /\ nWritten <= wbuf.position
           /\ wbuf.position \in Nat /\ wbuf.limit \in Nat
           /\ Remaining(wbuf) \in Nat
           /\ wbuf.position + Remaining(wbuf) = wbuf.limit
           /\ AfterRead(wbuf, Remaining(wbuf)) \in Buffer
           /\ InBounds(AfterRead(wbuf, Remaining(wbuf)))
           /\ AfterRead(wbuf, Remaining(wbuf))
                 = [bs |-> wbuf.bs, position |-> wbuf.limit,
                    limit |-> wbuf.limit]
<1>1. wbuf \in Buffer /\ InBounds(wbuf) /\ nWritten \in Nat
  BY DEF TypeInv, TypeOK, WritingType
<1>2. wbuf.position \in Nat /\ wbuf.limit \in Nat /\ nWritten < wbuf.limit
  BY <1>1 DEF Sending, Buffer
<1>3. nWritten <= wbuf.position /\ wbuf.position <= wbuf.limit
  BY <1>1, <1>2 DEF TypeInv, WriteBufferOK
<1>4. Remaining(wbuf) \in Nat
      /\ wbuf.position + Remaining(wbuf) = wbuf.limit
  BY <1>2, <1>3 DEF Remaining
<1>5. AfterRead(wbuf, Remaining(wbuf))
         = [bs |-> wbuf.bs, position |-> wbuf.limit, limit |-> wbuf.limit]
  BY <1>4 DEF AfterRead, At
<1>6. AfterRead(wbuf, Remaining(wbuf)) \in Buffer
  BY <1>1, <1>5 DEF Buffer
<1>7. InBounds(AfterRead(wbuf, Remaining(wbuf)))
  BY <1>1, <1>2, <1>5 DEF InBounds
<1>. QED  BY <1>1, <1>2, <1>3, <1>4, <1>5, <1>6, <1>7

\* A send() keeps the types: jump(nWritten) goes back to a position before the
\* limit.
LEMMA SendType == ASSUME TypeInv, Send PROVE TypeInv'
<1>1. PICK k \in 0..Min2(Remaining(wbuf), Room) :
         /\ wire' = wire \o Bytes(wbuf, k)
         /\ nWritten' = nWritten + k
         /\ wbuf' = Jump(AfterRead(wbuf, Remaining(wbuf)), nWritten')
  BY DEF Send
<1> DEFINE left == Remaining(wbuf)
<1>2. /\ wbuf \in Buffer /\ InBounds(wbuf) /\ nWritten \in Nat
      /\ nWritten <= wbuf.position
      /\ wbuf.position \in Nat /\ wbuf.limit \in Nat
      /\ left \in Nat /\ wbuf.position + left = wbuf.limit
      /\ AfterRead(wbuf, left) = [bs |-> wbuf.bs, position |-> wbuf.limit,
                                  limit |-> wbuf.limit]
  BY SendingBuffer DEF Send
<1>3. Room \in Int
  BY SessionAssumption, LenProperties DEF Room, TypeInv, TypeOK, SocketType
<1>4. k \in Nat /\ k <= left
  BY <1>2, <1>3 DEF Min2
<1>5. wbuf' = [bs |-> wbuf.bs, position |-> nWritten', limit |-> wbuf.limit]
  BY <1>1, <1>2 DEF Jump, At
<1> HIDE DEF left
<1>6. nWritten' \in Nat /\ nWritten' <= wbuf.limit
  BY <1>1, <1>2, <1>4
<1>7. wbuf'.bs = wbuf.bs /\ wbuf'.position = nWritten'
      /\ wbuf'.limit = wbuf.limit
  BY <1>5
<1>8. wbuf' \in Buffer
  BY <1>2, <1>5, <1>6 DEF Buffer
<1>9. InBounds(wbuf)'
  BY <1>2, <1>6, <1>7, LenProperties DEF InBounds, Buffer
<1>10. Bytes(wbuf, k) \in Seq(Nat) /\ Len(Bytes(wbuf, k)) = k
  <2>1. wbuf.position + k <= Len(wbuf.bs)
    BY <1>2, <1>4, LenProperties DEF InBounds, Buffer
  <2>. QED  BY <1>2, <1>4, <2>1, BytesRead
<1>11. wire' \in Seq(Nat) /\ Len(wire') = Len(wire) + k
  <2> DEFINE new == Bytes(wbuf, k)
  <2>1. new \in Seq(Nat) /\ Len(new) = k /\ wire' = wire \o new
    BY <1>1, <1>10
  <2>2. wire \in Seq(Nat)
    BY DEF TypeInv, TypeOK, SocketType
  <2> HIDE DEF new
  <2>3. wire \o new \in Seq(Nat) /\ Len(wire \o new) = Len(wire) + Len(new)
    BY <2>1, <2>2, Joined
  <2>. QED  BY <2>1, <2>3
<1>12. ControlType'
  BY DEF Send, TypeInv, TypeOK, ControlType, control, events
<1>13. ReadingType'
  BY DEF Send, TypeInv, TypeOK, ReadingType, reading
<1>14. WritingType' /\ Flipped(wobj.buf)'
  BY <1>6, <1>8, <1>9 DEF Send, TypeInv, TypeOK, WritingType
<1>15. WriteBufferOK'
  BY <1>6, <1>7 DEF WriteBufferOK
<1>16. SocketType'
  <2>1. drained' \in 0..Len(wire')
    BY <1>4, <1>11, LenProperties
       DEF Send, TypeInv, TypeOK, SocketType, socket
  <2>. QED
    BY <1>11, <2>1 DEF Send, TypeInv, TypeOK, SocketType, socket
<1>17. SeenType'
  BY DEF Send, TypeInv, TypeOK, SeenType, seen
<1>. QED
  BY <1>12, <1>13, <1>14, <1>15, <1>16, <1>17 DEF TypeInv, TypeOK

\* doWrite's return on EAGAIN keeps the types.
LEMMA WouldBlockType == ASSUME TypeInv, WouldBlock PROVE TypeInv'
<1>1. /\ wbuf' \in Buffer /\ InBounds(wbuf)'
      /\ wbuf' = [bs |-> wbuf.bs, position |-> wbuf.limit,
                  limit |-> wbuf.limit]
      /\ nWritten <= wbuf.limit /\ nWritten' = nWritten
      /\ wbuf.limit \in Nat
  BY SendingBuffer DEF WouldBlock, Sending
<1>2. WriteBufferOK'
  BY <1>1 DEF WriteBufferOK
<1>3. WritingType' /\ Flipped(wobj.buf)'
  BY <1>1 DEF WouldBlock, TypeInv, TypeOK, WritingType
<1>4. ControlType'
  BY DEF WouldBlock, TypeInv, TypeOK, ControlType, events
<1>5. ReadingType'
  BY DEF WouldBlock, TypeInv, TypeOK, ReadingType, reading
<1>6. SocketType'
  BY DEF WouldBlock, TypeInv, TypeOK, SocketType, socket, output
<1>7. SeenType'
  BY DEF WouldBlock, TypeInv, TypeOK, SeenType, seen
<1>. QED
  BY <1>2, <1>3, <1>4, <1>5, <1>6, <1>7 DEF TypeInv, TypeOK

\* doWrite's branch for a failing send() keeps the types.
LEMMA SendFailedType == ASSUME TypeInv, SendFailed PROVE TypeInv'
<1>1. /\ wbuf' \in Buffer /\ InBounds(wbuf)'
      /\ wbuf' = [bs |-> wbuf.bs, position |-> wbuf.limit,
                  limit |-> wbuf.limit]
      /\ nWritten <= wbuf.limit /\ nWritten' = nWritten
      /\ wbuf.limit \in Nat
  BY SendingBuffer DEF SendFailed, Sending
<1>2. WriteBufferOK'
  BY <1>1 DEF WriteBufferOK
<1>3. WritingType' /\ Flipped(wobj.buf)'
  BY <1>1 DEF SendFailed, TypeInv, TypeOK, WritingType
<1>4. /\ where' = "gone"
      /\ rdEv' \in BOOLEAN /\ wrEv' \in BOOLEAN
      /\ calls' \in Calls /\ fdCloses' \in Nat
  BY FailType DEF SendFailed, TypeInv
<1>5. ControlType'
  BY <1>4 DEF SendFailed, TypeInv, TypeOK, ControlType
<1>6. ReadingType'
  BY DEF SendFailed, TypeInv, TypeOK, ReadingType, reading
<1>7. SocketType'
  BY DEF SendFailed, TypeInv, TypeOK, SocketType, socket, output
<1>8. SeenType'
  BY <1>4 DEF SendFailed, TypeInv, TypeOK, SeenType, Calls
<1>. QED
  BY <1>2, <1>3, <1>5, <1>6, <1>7, <1>8 DEF TypeInv, TypeOK

\* A SIGPIPE keeps the types.
LEMMA KilledType == ASSUME TypeInv, Killed PROVE TypeInv'
<1>1. ControlType'
  BY DEF Killed, TypeInv, TypeOK, ControlType
<1>2. ReadingType'
  BY DEF Killed, TypeInv, TypeOK, ReadingType, reading
<1>3. WritingType' /\ WriteBufferOK' /\ Flipped(wobj.buf)'
  BY DEF Killed, TypeInv, TypeOK, WritingType, WriteBufferOK, writing
<1>4. SocketType'
  BY DEF Killed, TypeInv, TypeOK, SocketType, socket, output
<1>5. SeenType'
  BY DEF Killed, TypeInv, TypeOK, SeenType, seen
<1>. QED  BY <1>1, <1>2, <1>3, <1>4, <1>5 DEF TypeInv, TypeOK

\* doWrite's branch for NWG_EUNKNOWN keeps the types.
LEMMA WriteUnknownType == ASSUME TypeInv, WriteUnknown PROVE TypeInv'
<1>1. /\ where' = "gone"
      /\ rdEv' \in BOOLEAN /\ wrEv' \in BOOLEAN
      /\ calls' \in Calls /\ fdCloses' \in Nat
  BY FailType DEF WriteUnknown, TypeInv
<1>2. ControlType'
  BY <1>1 DEF WriteUnknown, TypeInv, TypeOK, ControlType
<1>3. ReadingType'
  BY DEF WriteUnknown, TypeInv, TypeOK, ReadingType, reading
<1>4. WritingType' /\ WriteBufferOK' /\ Flipped(wobj.buf)'
  BY DEF WriteUnknown, TypeInv, TypeOK, WritingType, WriteBufferOK, writing
<1>5. SocketType'
  BY DEF WriteUnknown, TypeInv, TypeOK, SocketType, socket, output
<1>6. SeenType'
  BY <1>1 DEF WriteUnknown, TypeInv, TypeOK, SeenType, Calls
<1>. QED  BY <1>2, <1>3, <1>4, <1>5, <1>6 DEF TypeInv, TypeOK

\* The rest of doWrite, from resetWrite() to its last line, keeps the types.
LEMMA MessageSentType == ASSUME TypeInv, MessageSent PROVE TypeInv'
<1>1. HandlerSilent \/ HandlerWrites
  BY DEF MessageSent, HandlerActs
<1>2. /\ wobj' \in WriteObject
      /\ InBounds(wobj'.buf) /\ Flipped(wobj'.buf)
      /\ ends' \in Seq(Nat)
      /\ more' \in BOOLEAN
  BY <1>1, HandlerType DEF TypeInv
<1>3. [calls EXCEPT !.sent = @ + 1] \in Calls
  BY CallCounted DEF TypeInv, TypeOK, SeenType, Calls
<1>4. ReadAfterSent \in BOOLEAN /\ (wobj'.id # 0) \in BOOLEAN
  BY DEF ReadAfterSent, TypeInv, TypeOK, ControlType
<1>5. /\ where' \in {"loop", "gone"}
      /\ rdEv' \in BOOLEAN /\ wrEv' \in BOOLEAN
      /\ calls' \in Calls /\ fdCloses' \in Nat
  BY <1>3, <1>4, StayOrEndType DEF MessageSent, TypeInv
<1>6. last' \in WriteObject /\ wbuf' = EmptyBuffer
  BY ResetWriteType DEF MessageSent, TypeInv
<1>7. reported' \in Seq(Nat)
  <2>1. last'.id \in Nat
    BY <1>6 DEF WriteObject
  <2>2. reported' = Append(reported, last'.id)
    BY DEF MessageSent
  <2>. QED  BY <2>1, <2>2 DEF TypeInv, TypeOK, SeenType
<1>8. ControlType'
  BY <1>5 DEF MessageSent, HandlerCloses, TypeInv, TypeOK, ControlType
<1>9. ReadingType'
  BY DEF MessageSent, TypeInv, TypeOK, ReadingType, reading
<1>10. nWritten' = 0
  BY DEF MessageSent, WrittenAfterSent
<1>11. WritingType'
  BY <1>2, <1>6, <1>10, EmptyBufferType DEF WritingType
<1>12. WriteBufferOK'
  BY <1>6, <1>10 DEF WriteBufferOK, EmptyBuffer
<1>13. SocketType'
  BY <1>2 DEF MessageSent, TypeInv, TypeOK, SocketType, socket
<1>14. SeenType'
  BY <1>5, <1>7 DEF MessageSent, TypeInv, TypeOK, SeenType, Calls
<1>. QED
  BY <1>2, <1>8, <1>9, <1>11, <1>12, <1>13, <1>14 DEF TypeInv, TypeOK

\* Nothing the peer does touches the session's state.
LEMMA PeerType == ASSUME TypeInv, Peer PROVE TypeInv'
<1>1. /\ UNCHANGED <<control, reading, writing, closed, events, output, seen>>
  BY DEF Peer, PeerSend, PeerFin, PeerReset, PeerDrain
<1>2. ControlType'
  BY <1>1 DEF TypeInv, TypeOK, ControlType, control, events
<1>3. ReadingType'
  BY <1>1 DEF TypeInv, TypeOK, ReadingType, reading
<1>4. WritingType' /\ WriteBufferOK' /\ Flipped(wobj.buf)'
  BY <1>1 DEF TypeInv, TypeOK, WritingType, WriteBufferOK, writing
<1>5. SeenType'
  BY <1>1 DEF TypeInv, TypeOK, SeenType, seen
<1>6. SocketType'
  <2>1. CASE PeerSend
    BY <2>1, <1>1 DEF PeerSend, TypeInv, TypeOK, SocketType, output
  <2>2. CASE PeerFin
    BY <2>2, <1>1 DEF PeerFin, TypeInv, TypeOK, SocketType, output
  <2>3. CASE PeerReset
    BY <2>3, <1>1 DEF PeerReset, TypeInv, TypeOK, SocketType, output
  <2>4. CASE PeerDrain
    <3>1. drained' \in 0..Len(wire') /\ turn' \in {"peer", "session"}
      BY <2>4, <1>1, LenProperties
         DEF PeerDrain, TypeInv, TypeOK, SocketType, output
    <3>. QED
      BY <3>1, <2>4, <1>1 DEF PeerDrain, TypeInv, TypeOK, SocketType, output
  <2>. QED  BY <2>1, <2>2, <2>3, <2>4 DEF Peer
<1>. QED  BY <1>2, <1>3, <1>4, <1>5, <1>6 DEF TypeInv, TypeOK

\* The types hold before doAccept or doConnect creates the session.
LEMMA InitType == Init => TypeInv
<1> SUFFICES ASSUME Init PROVE TypeInv
  OBVIOUS
<1>1. ControlType
  BY DEF Init, ControlType
<1>2. ReadingType
  BY EmptyBufferType DEF Init, ReadingType
<1>3. WritingType /\ WriteBufferOK /\ Flipped(wobj.buf)
  BY EmptyBufferType, NoObjectType
     DEF Init, WritingType, WriteBufferOK, EmptyBuffer
<1>4. SocketType
  <2>1. arrived \in Nat /\ got \in 0..arrived
    BY DEF Init
  <2>2. wire \in Seq(Nat) /\ ends \in Seq(Nat)
    BY DEF Init
  <2>3. drained \in 0..Len(wire)
    BY DEF Init
  <2>4. peer \in {"open", "fin", "reset", "finreset", "refused"}
    BY DEF Init
  <2>5. turn \in {"peer", "session"} /\ more \in BOOLEAN
    BY DEF Init
  <2>. QED  BY <2>1, <2>2, <2>3, <2>4, <2>5 DEF SocketType
<1>5. SeenType
  BY EmptySeq DEF Init, SeenType
<1>. QED  BY <1>1, <1>2, <1>3, <1>4, <1>5 DEF TypeInv, TypeOK

\* A step of another session keeps the types.
LEMMA StutterType == ASSUME TypeInv, UNCHANGED vars PROVE TypeInv'
BY DEF vars, control, reading, writing, events, socket, output, seen,
       TypeInv, TypeOK, ControlType, ReadingType, WritingType, SocketType,
       SeenType, WriteBufferOK

\* Every step keeps the types.
LEMMA NextType == TypeInv /\ [Next]_vars => TypeInv'
<1> SUFFICES ASSUME TypeInv, [Next]_vars PROVE TypeInv'
  OBVIOUS
<1>. QED
  BY OpenType, ReadStartType, RecvType, ReadClosedType, ReadFailedType,
     MessageReceivedType, WriteStartType, SendType, WouldBlockType,
     SendFailedType, KilledType, WriteUnknownType, MessageSentType, PeerType,
     StutterType
     DEF Next, InCallback

\* The types, and what keeps doWrite's reads inside the write buffer.
THEOREM TypeInvariant == Spec => []TypeInv
BY InitType, NextType, PTL DEF Spec

\* For every size and bound, every variable has its type and no buffer's
\* position or limit ever leaves its vector.
THEOREM TypeCorrect == Spec => []TypeOK
BY TypeInvariant, PTL DEF TypeInv

=============================================================================
