------------------------ MODULE SessionStreamProofs ------------------------
(***************************************************************************)
(* Proofs about the two streams of a session.  In: the handler gets the     *)
(* peer's bytes in order, none twice and none skipped, however recv() cuts  *)
(* them.  Out: what is sent is made of whole messages in order; and, when   *)
(* the peer waits for the response before it sends again, a session         *)
(* implements module OutputStream and never reaches NWG_EUNKNOWN.           *)
(***************************************************************************)
EXTENDS SessionControlProofs

\* Where the bytes recv() returned are: delivered, or in the read buffer.
ReadInv ==
    /\ where \in {"unborn", "loop", "doWrite", "killed"} =>
          Len(delivered) = got /\ rbuf.position = 0
    /\ where = "doRead" =>
          /\ got = Len(delivered) + rbuf.position
          /\ \A i \in 1..rbuf.position : rbuf.bs[i] = Len(delivered) + i
          /\ result = 0 => rbuf.position = 0
    /\ \A i \in 1..Len(delivered) : delivered[i] = i
    /\ InputInOrder

\* The i-th byte of a run, and when a sequence is one.
LEMMA RunBytes ==
    ASSUME NEW b \in Nat, NEW n \in Nat
    PROVE  \A i \in 1..n : Run(b, n)[i] = b + i
BY DEF Run

\* A sequence whose i-th byte is i is the run from the first byte on.
LEMMA IsRun ==
    ASSUME NEW s \in Seq(Nat), \A i \in 1..Len(s) : s[i] = i
    PROVE  s = Run(0, Len(s))
<1>1. s = [i \in 1..Len(s) |-> s[i]]
  OBVIOUS
<1>2. Len(s) \in Nat
  OBVIOUS
<1>3. \A i \in 1..Len(s) : s[i] = 0 + i
  BY <1>2
<1>. QED  BY <1>1, <1>3 DEF Run

\* The types of what the invariant speaks of.
LEMMA ReadTypes ==
    ASSUME TypeInv
    PROVE  /\ rbuf \in Buffer /\ InBounds(rbuf) /\ rbuf.position \in Nat
           /\ delivered \in Seq(Nat) /\ Len(delivered) \in Nat
           /\ got \in Nat /\ arrived \in Nat
BY LenProperties
   DEF TypeInv, TypeOK, ReadingType, SocketType, SeenType, Buffer

\* recv() puts the next bytes behind those the buffer holds.
LEMMA RecvKeepsOrder ==
    ASSUME TypeInv, ReadInv, Recv
    PROVE  ReadInv'
<1> DEFINE n == Min2(ReadBuffSize, arrived - got)
<1>t. /\ rbuf \in Buffer /\ InBounds(rbuf) /\ rbuf.position \in Nat
      /\ Len(delivered) \in Nat /\ got \in Nat /\ arrived \in Nat
  BY ReadTypes
<1>1. n \in Nat /\ n > 0
  BY <1>t, SessionAssumption DEF Recv, Min2
<1>2. /\ rbuf' = Put(rbuf, Run(got, n)) /\ result' = n /\ got' = got + n
      /\ delivered' = delivered
      /\ where = "doRead" /\ where' = "doRead"
  BY DEF Recv, seen
<1> HIDE DEF n
<1>3. Run(got, n) \in Seq(Nat) /\ Len(Run(got, n)) = n
  BY <1>t, <1>1, RunType
<1>4. \A i \in 1..n : Run(got, n)[i] = got + i
  BY <1>t, <1>1, RunBytes
<1>5. /\ rbuf'.position = rbuf.position + n
      /\ \A i \in 1..rbuf.position : rbuf'.bs[i] = rbuf.bs[i]
      /\ \A i \in 1..n : rbuf'.bs[rbuf.position + i] = Run(got, n)[i]
  <2> DEFINE s == Run(got, n)
  <2> HIDE DEF s
  <2>1. s \in Seq(Nat) /\ Len(s) = n
    BY <1>3 DEF s
  <2>2. /\ Put(rbuf, s).position = rbuf.position + Len(s)
        /\ \A i \in 1..rbuf.position : Put(rbuf, s).bs[i] = rbuf.bs[i]
        /\ \A i \in 1..Len(s) : Put(rbuf, s).bs[rbuf.position + i] = s[i]
    BY <1>t, <2>1, PutInserts
  <2>. QED  BY <1>2, <2>1, <2>2 DEF s
<1>6. /\ got = Len(delivered) + rbuf.position
      /\ \A i \in 1..rbuf.position : rbuf.bs[i] = Len(delivered) + i
  BY <1>2 DEF ReadInv
<1>7. got' = Len(delivered) + rbuf'.position
  BY <1>t, <1>1, <1>2, <1>5, <1>6
<1>8. ASSUME NEW i \in 1..rbuf'.position
      PROVE  rbuf'.bs[i] = Len(delivered) + i
  <2>1. CASE i <= rbuf.position
    BY <1>t, <1>5, <1>6, <2>1
  <2>2. CASE i > rbuf.position
    <3> DEFINE j == i - rbuf.position
    <3>1. j \in 1..n /\ i = rbuf.position + j
      BY <1>t, <1>1, <1>5, <2>2
    <3> HIDE DEF j
    <3>2. rbuf'.bs[i] = got + j
      BY <1>4, <1>5, <3>1
    <3>. QED  BY <1>t, <1>6, <3>1, <3>2
  <2>. QED  BY <1>t, <1>1, <1>5, <2>1, <2>2
<1>9. (\A i \in 1..Len(delivered) : delivered[i] = i)
      /\ delivered = Run(0, Len(delivered))
  BY DEF ReadInv, InputInOrder
<1>10. result' # 0
  BY <1>1, <1>2
<1>. QED
  BY <1>2, <1>7, <1>8, <1>9, <1>10 DEF ReadInv, InputInOrder

\* doRead hands over all the buffer holds, and flip() makes room for more.
LEMMA ReceivedKeepsOrder ==
    ASSUME TypeInv, ReadInv, MessageReceived
    PROVE  ReadInv'
<1> DEFINE p == rbuf.position
           new == Bytes(Flip(rbuf), p)
<1>t. /\ rbuf \in Buffer /\ InBounds(rbuf) /\ p \in Nat
      /\ delivered \in Seq(Nat) /\ Len(delivered) \in Nat /\ got \in Nat
  BY ReadTypes
<1>1. /\ rbuf' = Flip(rbuf) /\ got' = got /\ where = "doRead"
      /\ delivered' = delivered \o Bytes(TransformUp(rbuf'),
                                         Remaining(TransformUp(rbuf')))
  BY DEF MessageReceived, socket
<1>2. /\ Bytes(TransformUp(Flip(rbuf)), Remaining(TransformUp(Flip(rbuf))))
            = new
      /\ new \in Seq(Nat) /\ Len(new) = p
      /\ \A i \in 1..p : new[i] = rbuf.bs[i]
  BY <1>t, ReceivedBytes
<1>3. delivered' = delivered \o new
  BY <1>1, <1>2
<1>4. rbuf'.position = 0
  BY <1>t, <1>1, FlipExposes
<1>5. where' \in {"loop", "gone"}
  BY DEF MessageReceived, StayOrEnd, End
<1>6. /\ got = Len(delivered) + p
      /\ \A i \in 1..p : rbuf.bs[i] = Len(delivered) + i
      /\ \A i \in 1..Len(delivered) : delivered[i] = i
  BY <1>1 DEF ReadInv
<1> HIDE DEF new, p
<1>7. /\ delivered' \in Seq(Nat)
      /\ Len(delivered') = Len(delivered) + p
      /\ \A i \in 1..Len(delivered) : delivered'[i] = delivered[i]
      /\ \A i \in 1..p : delivered'[Len(delivered) + i] = new[i]
  <2>1. new \in Seq(Nat) /\ Len(new) = p /\ delivered \in Seq(Nat)
    BY <1>t, <1>2
  <2>2. /\ delivered \o new \in Seq(Nat)
        /\ Len(delivered \o new) = Len(delivered) + Len(new)
        /\ \A i \in 1..Len(delivered) : (delivered \o new)[i] = delivered[i]
        /\ \A i \in 1..Len(new) :
              (delivered \o new)[Len(delivered) + i] = new[i]
    BY <2>1, Joined
  <2>. QED  BY <1>3, <2>1, <2>2
<1>8. ASSUME NEW i \in 1..Len(delivered')
      PROVE  delivered'[i] = i
  <2>1. CASE i <= Len(delivered)
    BY <1>t, <1>6, <1>7, <2>1
  <2>2. CASE i > Len(delivered)
    <3> DEFINE j == i - Len(delivered)
    <3>1. j \in 1..p /\ i = Len(delivered) + j
      BY <1>t, <1>7, <2>2
    <3> HIDE DEF j
    <3>. QED  BY <1>2, <1>6, <1>7, <3>1
  <2>. QED  BY <1>t, <1>7, <2>1, <2>2
<1>9. delivered' = Run(0, Len(delivered'))
  BY <1>7, <1>8, IsRun
<1>10. Len(delivered') = got'
  BY <1>1, <1>6, <1>7
<1>11. ~(Len(delivered') < got')
  BY <1>t, <1>1, <1>10
<1>. QED
  BY <1>4, <1>5, <1>8, <1>9, <1>10, <1>11 DEF ReadInv, InputInOrder

\* Every step keeps the bytes in order.
LEMMA ReadStep ==
    ASSUME TypeInv, ReadInv, [Next]_vars
    PROVE  ReadInv'
<1>t. rbuf.position \in Nat /\ Len(delivered) \in Nat /\ got \in Nat
  BY ReadTypes
<1>1. CASE Open
  <2>1. /\ where = "unborn" /\ where' \in {"loop", "gone"}
        /\ UNCHANGED <<rbuf, got, delivered>>
    BY <1>1 DEF Open, StayOrEnd, End, reading, socket
  <2>. QED  BY <1>t, <2>1 DEF ReadInv, InputInOrder
<1>2. CASE ReadStart
  <2>1. /\ where = "loop" /\ where' = "doRead" /\ result' = 0
        /\ UNCHANGED <<rbuf, got, delivered>>
    BY <1>2 DEF ReadStart, reading, socket, seen
  <2>2. rbuf.position = 0 /\ got = Len(delivered)
    BY <2>1 DEF ReadInv
  <2>. QED  BY <1>t, <2>1, <2>2 DEF ReadInv, InputInOrder
<1>3. CASE Recv
  BY <1>3, RecvKeepsOrder
<1>4. CASE ReadClosed
  <2>1. /\ where = "doRead" /\ where' = "gone"
        /\ UNCHANGED <<got, delivered, peer>>
        /\ (result = 0 /\ nRead >= ReadBuffSize) \/ peer # "open"
    BY <1>4 DEF ReadClosed, End, socket
  <2>2. result = 0 => got = Len(delivered)
    BY <1>t, <2>1 DEF ReadInv
  <2>3. Len(delivered) < got => peer # "open"
    BY <1>t, <2>1, <2>2
  <2>. QED  BY <2>1, <2>3 DEF ReadInv, InputInOrder
<1>5. CASE ReadFailed
  <2>1. where' = "gone" /\ peer' # "open" /\ UNCHANGED delivered
    BY <1>5 DEF ReadFailed, Fail, End, socket
  <2>. QED  BY <2>1 DEF ReadInv, InputInOrder
<1>6. CASE MessageReceived
  BY <1>6, ReceivedKeepsOrder
<1>7. CASE WriteStart \/ WouldBlock \/ Killed \/ MessageSent \/ SendFailed
           \/ WriteUnknown
  <2>1. /\ where \in {"loop", "doWrite"}
        /\ where' \in {"loop", "doWrite", "killed", "gone"}
        /\ UNCHANGED <<rbuf, got, delivered>>
    BY <1>7 DEF WriteStart, WouldBlock, Sending, Killed, MessageSent,
       SendFailed, WriteUnknown, StayOrEnd, Fail, End, reading, socket, seen
  <2>2. Len(delivered) = got /\ rbuf.position = 0
    BY <2>1 DEF ReadInv
  <2>. QED  BY <1>t, <2>1, <2>2 DEF ReadInv, InputInOrder
<1>8. CASE Send \/ UNCHANGED vars
  BY <1>8 DEF Send, vars, control, reading, socket, seen, ReadInv,
     InputInOrder
<1>9. CASE Peer
  <2>1. /\ UNCHANGED <<where, result, rbuf, got, delivered>>
        /\ where # "gone"
    BY <1>9 DEF Peer, PeerSend, PeerFin, PeerReset, PeerDrain, Running,
       control, reading, seen
  <2>. QED  BY <2>1 DEF ReadInv, InputInOrder
<1>. QED
  BY <1>1, <1>2, <1>3, <1>4, <1>5, <1>6, <1>7, <1>8, <1>9 DEF Next, InCallback

\* The handler gets the peer's bytes in order, none twice, none skipped and
\* none of an earlier message, although doRead never resets the read buffer.
THEOREM InputDelivered == Spec => []InputInOrder
<1>1. Init => ReadInv
  <2> SUFFICES ASSUME Init PROVE ReadInv
    OBVIOUS
  <2>1. /\ where = "unborn" /\ delivered = <<>> /\ got = 0
        /\ rbuf.position = 0
    BY DEF Init, EmptyBuffer
  <2>2. delivered \in Seq(Nat) /\ Len(delivered) = 0
    BY <2>1
  <2>3. \A i \in 1..Len(delivered) : delivered[i] = i
    BY <2>2
  <2>4. delivered = Run(0, Len(delivered))
    BY <2>2, <2>3, IsRun
  <2>. QED  BY <2>1, <2>2, <2>3, <2>4 DEF ReadInv, InputInOrder
<1>2. TypeInv /\ ReadInv /\ [Next]_vars => ReadInv'
  BY ReadStep
<1>3. ReadInv => InputInOrder
  BY DEF ReadInv
<1>. QED  BY <1>1, <1>2, <1>3, TypeInvariant, PTL DEF Spec

-----------------------------------------------------------------------------
(***************************************************************************)
(* Output: only whole messages, in the order they were written.  Base is    *)
(* the number of bytes of all messages before the newest one.               *)
(***************************************************************************)
Base == FirstByte(Len(ends)) - 1
LastByte == wire[Len(wire)]

EndsInv == \A i, j \in 1..Len(ends) : i <= j => ends[i] <= ends[j]

\* The write object is the newest message, as it was written.
CurrentInv ==
    wobj.id # 0 =>
       /\ wobj.id = Len(ends)
       /\ wobj.buf.position = 0
       /\ wobj.buf.limit = Produced - Base
       /\ \A i \in 1..wobj.buf.limit : wobj.buf.bs[i] = Base + i

\* The write buffer is empty or holds the write object's bytes, and stands
\* behind what was sent of it or, after an EAGAIN, at its end.
BufferInv ==
    /\ wbuf.limit # 0 =>
          /\ wobj.id # 0 /\ wbuf.limit = wobj.buf.limit
          /\ \A i \in 1..wbuf.limit : wbuf.bs[i] = Base + i
    /\ nWritten <= wbuf.limit => wbuf.position \in {nWritten, wbuf.limit}
    /\ where = "unborn" => wbuf.limit = 0 /\ nWritten = 0

\* Which byte was sent last: the last one of a message when none is partly
\* written, else the one that nWritten counts up to.
WireInv ==
    /\ nWritten # 0 => wire # <<>>
    /\ wire # <<>> /\ nWritten = 0 =>
          /\ \E m \in 1..Len(ends) : LastByte = ends[m]
          /\ wobj.id # 0 => LastByte <= Base
    /\ nWritten # 0 /\ wbuf.limit # 0 =>
          LastByte = Base + nWritten /\ nWritten <= wbuf.limit

OutInv == EndsInv /\ CurrentInv /\ BufferInv /\ WireInv /\ MessagesWhole

\* The types of what the invariant speaks of.
LEMMA OutputTypes ==
    ASSUME TypeInv
    PROVE  /\ ends \in Seq(Nat) /\ Len(ends) \in Nat
           /\ \A m \in 1..Len(ends) : ends[m] \in Nat
           /\ wire \in Seq(Nat) /\ Len(wire) \in Nat
           /\ \A i \in 1..Len(wire) : wire[i] \in Nat
           /\ Produced \in Nat /\ nWritten \in Nat
           /\ wbuf.limit \in Nat /\ wbuf.position \in Nat
           /\ wobj.id \in Nat /\ wobj.buf.limit \in Nat
<1>1. ends \in Seq(Nat) /\ wire \in Seq(Nat) /\ nWritten \in Nat
  BY DEF TypeInv, TypeOK, SocketType, WritingType
<1>2. Len(ends) \in Nat /\ Len(wire) \in Nat
  BY <1>1
<1>3. \A m \in 1..Len(ends) : ends[m] \in Nat
  BY <1>1
<1>4. \A i \in 1..Len(wire) : wire[i] \in Nat
  BY <1>1
<1>5. Produced \in Nat
  BY <1>1 DEF Produced
<1>6. wbuf.limit \in Nat /\ wbuf.position \in Nat
  BY DEF TypeInv, TypeOK, WritingType, Buffer
<1>7. wobj.id \in Nat /\ wobj.buf.limit \in Nat
  BY DEF TypeInv, TypeOK, WritingType, WriteObject, Buffer
<1>. QED  BY <1>1, <1>2, <1>3, <1>4, <1>5, <1>6, <1>7

\* Where the newest message starts.
LEMMA BaseOfNewest ==
    ASSUME TypeInv, EndsInv, Len(ends) # 0
    PROVE  /\ Base = IF Len(ends) = 1 THEN 0 ELSE ends[Len(ends) - 1]
           /\ Produced = ends[Len(ends)]
           /\ Base \in Nat /\ Base <= Produced
<1>1. /\ ends \in Seq(Nat) /\ Len(ends) \in Nat
      /\ \A m \in 1..Len(ends) : ends[m] \in Nat
  BY OutputTypes
<1>2. Produced = ends[Len(ends)]
  BY <1>1 DEF Produced
<1>l. /\ Len(ends) \in 1..Len(ends)
      /\ Len(ends) # 1 => Len(ends) - 1 \in 1..Len(ends)
  <2> DEFINE l == Len(ends)
  <2>1. l \in Nat /\ l # 0
    BY <1>1
  <2> HIDE DEF l
  <2>2. l \in 1..l /\ (l # 1 => l - 1 \in 1..l)
    BY <2>1
  <2>. QED  BY <2>2 DEF l
<1>3. Base = IF Len(ends) = 1 THEN 0 ELSE ends[Len(ends) - 1]
  <2>1. Base = (IF Len(ends) = 1 THEN 1 ELSE ends[Len(ends) - 1] + 1) - 1
    BY DEF Base, FirstByte
  <2>2. CASE Len(ends) = 1
    BY <2>1, <2>2
  <2>3. CASE Len(ends) # 1
    <3>1. Len(ends) - 1 \in 1..Len(ends)
      BY <1>l, <2>3
    <3>2. ends[Len(ends) - 1] \in Nat
      BY <1>1, <3>1
    <3>. QED  BY <2>1, <2>3, <3>2
  <2>. QED  BY <2>2, <2>3
<1>4. CASE Len(ends) = 1
  BY <1>1, <1>2, <1>3, <1>4
<1>5. CASE Len(ends) # 1
  <2>1. Len(ends) - 1 \in 1..Len(ends) /\ Len(ends) \in 1..Len(ends)
    BY <1>l, <1>5
  <2>2. ends[Len(ends) - 1] <= ends[Len(ends)]
    BY <1>l, <2>1 DEF EndsInv
  <2>. QED  BY <1>1, <1>2, <1>3, <1>5, <2>1, <2>2
<1>. QED  BY <1>2, <1>3, <1>4, <1>5

\* A message as a handler builds it holds the next bytes.
LEMMA MessageContent ==
    ASSUME TypeInv, NEW n \in Nat
    PROVE  /\ Message(n).id = Len(ends) + 1
           /\ Message(n).buf.position = 0
           /\ Message(n).buf.limit = n
           /\ \A i \in 1..n : Message(n).buf.bs[i] = Produced + i
<1> DEFINE s == Run(Produced, n)
           b == Put(EmptyBuffer, s)
<1>1. Produced \in Nat
  BY OutputTypes
<1>2. s \in Seq(Nat) /\ Len(s) = n /\ \A i \in 1..n : s[i] = Produced + i
  BY <1>1, RunType, RunBytes
<1>3. EmptyBuffer \in Buffer /\ InBounds(EmptyBuffer)
      /\ EmptyBuffer.position = 0
  BY EmptyBufferType DEF EmptyBuffer
<1>4. Message(n) = [id |-> Len(ends) + 1, buf |-> Flip(b)]
  BY DEF Message
<1> HIDE DEF s
<1>5. /\ b \in Buffer /\ InBounds(b)
      /\ b.position = EmptyBuffer.position + Len(s)
      /\ \A i \in 1..Len(s) : b.bs[EmptyBuffer.position + i] = s[i]
  <2>1. s \in Seq(Nat)
    BY <1>2
  <2>. QED  BY <1>3, <2>1, PutInserts
<1>6. \A i \in 1..n : b.bs[i] = Produced + i
  BY <1>1, <1>2, <1>3, <1>5
<1>8. b.position = n
  BY <1>2, <1>3, <1>5
<1> HIDE DEF b
<1>7. Flip(b).bs = b.bs /\ Flip(b).position = 0 /\ Flip(b).limit = n
  BY <1>5, <1>8, FlipExposes
<1>. QED  BY <1>4, <1>6, <1>7

\* A message that is written comes behind all that were written before.
LEMMA EndsExtended ==
    ASSUME TypeInv, EndsInv, NEW n \in Nat, ends' = Append(ends, Produced + n)
    PROVE  /\ Len(ends') = Len(ends) + 1
           /\ \A m \in 1..Len(ends) : ends'[m] = ends[m]
           /\ EndsInv'
           /\ Produced' = Produced + n
           /\ Base' = Produced
           /\ \A m \in 1..Len(ends) : ends[m] <= Produced
<1> DEFINE p == Produced + n
<1>1. /\ ends \in Seq(Nat) /\ Len(ends) \in Nat
      /\ \A m \in 1..Len(ends) : ends[m] \in Nat
      /\ Produced \in Nat
  BY OutputTypes
<1>2. ends' = Append(ends, p) /\ p \in Nat /\ Produced <= p
  BY <1>1
<1>3. p = Produced + n
  OBVIOUS
<1> HIDE DEF p
<1>4. /\ ends' \in Seq(Nat)
      /\ Len(ends') = Len(ends) + 1
  BY <1>1, <1>2
<1>5. \A m \in 1..Len(ends) : ends'[m] = ends[m]
  BY <1>1, <1>2
<1>6. ends'[Len(ends) + 1] = p
  BY <1>1, <1>2
<1>7. \A m \in 1..Len(ends) : ends[m] <= Produced
  <2>1. TAKE m \in 1..Len(ends)
  <2>2. Produced = ends[Len(ends)] /\ Len(ends) \in 1..Len(ends)
    BY <1>1, <2>1 DEF Produced
  <2>. QED  BY <1>1, <2>1, <2>2 DEF EndsInv
<1>8. EndsInv'
  <2>1. SUFFICES ASSUME NEW i \in 1..Len(ends'), NEW j \in 1..Len(ends'),
                        i <= j
                 PROVE  ends'[i] <= ends'[j]
    BY DEF EndsInv
  <2>2. CASE j \in 1..Len(ends)
    <3>1. i \in 1..Len(ends)
      BY <1>1, <1>4, <2>1, <2>2
    <3>. QED  BY <1>5, <2>1, <2>2, <3>1 DEF EndsInv
  <2>3. CASE j = Len(ends) + 1 /\ i \in 1..Len(ends)
    BY <1>1, <1>2, <1>5, <1>6, <1>7, <2>3
  <2>4. CASE j = Len(ends) + 1 /\ i = Len(ends) + 1
    BY <1>2, <1>6, <2>4
  <2>. QED  BY <1>1, <1>4, <2>1, <2>2, <2>3, <2>4
<1>9. Produced' = p
  BY <1>1, <1>4, <1>6 DEF Produced
<1>10. Base' = Produced
  <2>1. Base' = (IF Len(ends') = 1 THEN 1 ELSE ends'[Len(ends') - 1] + 1) - 1
    BY DEF Base, FirstByte
  <2>2. CASE Len(ends) = 0
    BY <1>1, <1>4, <2>1, <2>2 DEF Produced
  <2>3. CASE Len(ends) # 0
    <3>1. Len(ends) \in 1..Len(ends) /\ Len(ends') - 1 = Len(ends)
          /\ Len(ends') # 1
      BY <1>1, <1>4, <2>3
    <3>2. ends'[Len(ends') - 1] = ends[Len(ends)]
      BY <1>5, <3>1
    <3>3. Produced = ends[Len(ends)]
      BY <1>1, <2>3 DEF Produced
    <3>. QED  BY <1>1, <2>1, <3>1, <3>2, <3>3
  <2>. QED  BY <2>2, <2>3
<1>. QED  BY <1>3, <1>4, <1>5, <1>7, <1>8, <1>9, <1>10


\* What a callback that ends with a call of the handler keeps: its write
\* buffer is empty, and nothing was sent that is not part of a whole message.
LEMMA AfterHandler ==
    ASSUME TypeInv, EndsInv, MessagesWhole, HandlerSilent \/ HandlerWrites,
           wire' = wire, where' # "unborn",
           wbuf'.limit = 0, wbuf'.position = 0, nWritten' \in {0, nWritten},
           nWritten' # 0 => wire # <<>>,
           wire # <<>> /\ nWritten' = 0 =>
              \E m \in 1..Len(ends) : LastByte = ends[m]
    PROVE  OutInv'
<1>1. /\ ends \in Seq(Nat) /\ Len(ends) \in Nat
      /\ \A m \in 1..Len(ends) : ends[m] \in Nat
      /\ Len(wire) \in Nat /\ nWritten \in Nat
  BY OutputTypes
<1>2. LastByte' = LastByte
  BY DEF LastByte
<1>3. BufferInv'
  BY <1>1 DEF BufferInv
<1>4. CASE HandlerSilent
  <2>1. ends' = ends /\ wobj'.id = 0
    BY <1>4 DEF HandlerSilent, ObjectAfterReset, NoObject
  <2>2. EndsInv'
    BY <2>1 DEF EndsInv
  <2>3. CurrentInv'
    BY <2>1 DEF CurrentInv
  <2>4. WireInv'
    BY <1>2, <2>1 DEF WireInv
  <2>5. MessagesWhole'
    BY <2>1 DEF MessagesWhole
  <2>. QED  BY <1>3, <2>2, <2>3, <2>4, <2>5 DEF OutInv
<1>5. CASE HandlerWrites
  <2>1. PICK n \in 0..MaxLen :
           wobj' = Message(n) /\ ends' = Append(ends, Produced + n)
    BY <1>5 DEF HandlerWrites
  <2>2. n \in Nat
    BY SessionAssumption
  <2>3. /\ Message(n).id = Len(ends) + 1
        /\ Message(n).buf.position = 0
        /\ Message(n).buf.limit = n
        /\ \A i \in 1..n : Message(n).buf.bs[i] = Produced + i
    BY <2>2, MessageContent
  <2>4. /\ Len(ends') = Len(ends) + 1
        /\ \A m \in 1..Len(ends) : ends'[m] = ends[m]
        /\ EndsInv'
        /\ Produced' = Produced + n
        /\ Base' = Produced
        /\ \A m \in 1..Len(ends) : ends[m] <= Produced
    BY <2>1, <2>2, EndsExtended
  <2>5. 1..Len(ends) \subseteq 1..Len(ends')
    BY <1>1, <2>4
  <2>6. CurrentInv'
    <3>1. Produced \in Nat
      BY OutputTypes
    <3>2. Produced' - Base' = n
      BY <2>2, <2>4, <3>1
    <3>. QED  BY <2>1, <2>3, <2>4, <3>2 DEF CurrentInv
  <2>7. WireInv'
    <3>1. nWritten' # 0 => wire' # <<>>
      OBVIOUS
    <3>2. ASSUME wire' # <<>>, nWritten' = 0
          PROVE  /\ \E m \in 1..Len(ends') : LastByte' = ends'[m]
                 /\ LastByte' <= Base'
      <4>1. PICK m \in 1..Len(ends) : LastByte = ends[m]
        BY <3>2
      <4>2. m \in 1..Len(ends') /\ ends'[m] = ends[m] /\ ends[m] <= Produced
        BY <2>4, <2>5, <4>1
      <4>. QED  BY <1>2, <2>4, <4>1, <4>2
    <3>. QED  BY <3>1, <3>2 DEF WireInv
  <2>8. MessagesWhole'
    <3>1. SUFFICES ASSUME NEW i \in 1..(Len(wire) - 1)
                   PROVE  \/ wire[i + 1] = wire[i] + 1
                          \/ /\ wire[i + 1] > wire[i]
                             /\ \E m \in 1..Len(ends') : wire[i] = ends'[m]
                             /\ \E m \in 1..Len(ends') :
                                   wire[i + 1] = ends'[m] + 1
      BY DEF MessagesWhole
    <3>2. \/ wire[i + 1] = wire[i] + 1
          \/ /\ wire[i + 1] > wire[i]
             /\ \E m \in 1..Len(ends) : wire[i] = ends[m]
             /\ \E m \in 1..Len(ends) : wire[i + 1] = ends[m] + 1
      BY DEF MessagesWhole
    <3>3. CASE wire[i + 1] = wire[i] + 1
      BY <3>3
    <3>4. ASSUME wire[i + 1] > wire[i],
                 NEW l \in 1..Len(ends), wire[i] = ends[l],
                 NEW m \in 1..Len(ends), wire[i + 1] = ends[m] + 1
          PROVE  /\ \E x \in 1..Len(ends') : wire[i] = ends'[x]
                 /\ \E x \in 1..Len(ends') : wire[i + 1] = ends'[x] + 1
      <4>1. l \in 1..Len(ends') /\ wire[i] = ends'[l]
        BY <2>4, <2>5, <3>4
      <4>2. m \in 1..Len(ends') /\ wire[i + 1] = ends'[m] + 1
        BY <2>4, <2>5, <3>4
      <4>. QED  BY <4>1, <4>2
    <3>. QED  BY <3>2, <3>3, <3>4
  <2>. QED  BY <1>3, <2>4, <2>6, <2>7, <2>8 DEF OutInv
<1>. QED  BY <1>4, <1>5

\* transformDown fills the write buffer with the newest message.
LEMMA WriteStartKeepsWhole ==
    ASSUME TypeInv, OutInv, WriteStart
    PROVE  OutInv'
<1>1. /\ where' = "doWrite" /\ UNCHANGED <<nWritten, wire, ends>>
  BY DEF WriteStart, output
<1>2. EndsInv' /\ MessagesWhole' /\ Base' = Base /\ Produced' = Produced
      /\ LastByte' = LastByte
  BY <1>1 DEF OutInv, EndsInv, MessagesWhole, Base, FirstByte, Produced,
     LastByte
<1>3. CASE ~Transforms
  <2>1. UNCHANGED <<wbuf, wobj>>
    BY <1>3 DEF WriteStart
  <2>2. CurrentInv'
    BY <1>1, <1>2, <2>1 DEF OutInv, CurrentInv
  <2>3. BufferInv'
    BY <1>1, <1>2, <2>1 DEF OutInv, BufferInv
  <2>4. WireInv'
    BY <1>1, <1>2, <2>1 DEF OutInv, WireInv
  <2>. QED  BY <1>2, <2>2, <2>3, <2>4 DEF OutInv
<1>4. CASE Transforms
  <2> DEFINE b == wobj.buf
  <2>1. /\ nWritten = 0 /\ wobj.id # 0
        /\ wbuf' = TransformDownOut(b)
        /\ wobj' = [wobj EXCEPT !.buf = TransformDownIn(b)]
    BY <1>4 DEF WriteStart, Transforms, WriteObjectPresent
  <2>2. b \in Buffer /\ InBounds(b) /\ b.position <= b.limit
    BY DEF TypeInv, TypeOK, WritingType, WriteObject, Flipped
  <2>3. /\ wobj.id = Len(ends) /\ b.position = 0
        /\ b.limit = Produced - Base
        /\ \A i \in 1..b.limit : b.bs[i] = Base + i
    BY <2>1 DEF OutInv, CurrentInv
  <2>4. wobj'.id = wobj.id /\ wobj'.buf = TransformDownIn(b)
    BY <2>1 DEF TypeInv, TypeOK, WritingType, WriteObject
  <2> HIDE DEF b
  <2>5. /\ TransformDownOut(b).position = 0
        /\ TransformDownOut(b).limit = b.limit - b.position
        /\ \A i \in 1..b.limit - b.position :
              TransformDownOut(b).bs[i] = b.bs[b.position + i]
        /\ TransformDownIn(b) = [bs |-> b.bs, position |-> 0,
                                 limit |-> b.limit]
    BY <2>2, TransformDownMoves
  <2>6. b.limit \in Nat /\ b.limit - b.position = b.limit
    BY <2>2, <2>3 DEF Buffer
  <2>7. /\ wbuf'.position = 0 /\ wbuf'.limit = b.limit
        /\ \A i \in 1..b.limit : wbuf'.bs[i] = Base + i
    <3>1. \A i \in 1..b.limit : 0 + i = i
      BY <2>6
    <3>. QED  BY <2>1, <2>3, <2>5, <2>6, <3>1
  <2>8. wobj'.buf.bs = b.bs /\ wobj'.buf.position = 0
        /\ wobj'.buf.limit = b.limit
    BY <2>4, <2>5
  <2>9. CurrentInv'
    BY <1>1, <1>2, <2>3, <2>4, <2>8 DEF CurrentInv
  <2>10. BufferInv'
    BY <1>1, <1>2, <2>1, <2>4, <2>7, <2>8 DEF BufferInv
  <2>11. WireInv'
    BY <1>1, <1>2, <2>1, <2>4 DEF OutInv, WireInv
  <2>. QED  BY <1>2, <2>9, <2>10, <2>11 DEF OutInv
<1>. QED  BY <1>3, <1>4


\* send() takes the bytes of the newest message behind those already sent.
LEMMA SendExtends ==
    ASSUME TypeInv, OutInv, Send
    PROVE  \E k \in Nat :
              /\ nWritten' = nWritten + k /\ nWritten' <= wbuf.limit
              /\ wbuf' = [bs |-> wbuf.bs, position |-> nWritten',
                          limit |-> wbuf.limit]
              /\ Len(wire') = Len(wire) + k
              /\ \A i \in 1..Len(wire) : wire'[i] = wire[i]
              /\ \A i \in 1..k : wire'[Len(wire) + i] = Base + nWritten + i
              /\ k = 0 => wire' = wire
<1>1. PICK k \in 0..Min2(Remaining(wbuf), Room) :
         /\ k = 0 => Remaining(wbuf) = 0
         /\ wire' = wire \o Bytes(wbuf, k)
         /\ nWritten' = nWritten + k
         /\ wbuf' = Jump(AfterRead(wbuf, Remaining(wbuf)), nWritten')
  BY DEF Send
<1> DEFINE left == Remaining(wbuf)
           new  == Bytes(wbuf, k)
<1>2. /\ wbuf \in Buffer /\ InBounds(wbuf) /\ nWritten \in Nat
      /\ wbuf.position \in Nat /\ wbuf.limit \in Nat
      /\ left \in Nat /\ wbuf.position + left = wbuf.limit
      /\ AfterRead(wbuf, left) = [bs |-> wbuf.bs, position |-> wbuf.limit,
                                  limit |-> wbuf.limit]
  BY SendingBuffer DEF Send
<1>3. nWritten < wbuf.limit
  BY DEF Send, Sending
<1>4. Room \in Int
  BY SessionAssumption, LenProperties DEF Room, TypeInv, TypeOK, SocketType
<1>5. k \in Nat /\ k <= left
  BY <1>1, <1>2, <1>4 DEF Min2
<1>6. wbuf' = [bs |-> wbuf.bs, position |-> nWritten', limit |-> wbuf.limit]
  BY <1>1, <1>2 DEF Jump, At
<1>7. /\ wbuf.position \in {nWritten, wbuf.limit}
      /\ \A i \in 1..wbuf.limit : wbuf.bs[i] = Base + i
  BY <1>2, <1>3 DEF OutInv, BufferInv
<1>8. k # 0 => wbuf.position = nWritten
  BY <1>2, <1>5, <1>7
<1>9. new \in Seq(Nat) /\ Len(new) = k
      /\ \A i \in 1..k : new[i] = wbuf.bs[wbuf.position + i]
  <2>1. wbuf.position + k <= Len(wbuf.bs)
    BY <1>2, <1>5, LenProperties DEF InBounds, Buffer
  <2>. QED  BY <1>2, <1>5, <2>1, BytesRead
<1>10. wire \in Seq(Nat) /\ Len(wire) \in Nat
  BY OutputTypes
<1>11. wire' = wire \o new
  BY <1>1
<1>12. nWritten' = nWritten + k
  BY <1>1
<1> HIDE DEF new, left
<1>13. nWritten' <= wbuf.limit
  <2>1. CASE k = 0
    BY <1>2, <1>3, <1>12, <2>1
  <2>2. CASE k # 0
    BY <1>2, <1>5, <1>8, <1>12, <2>2
  <2>. QED  BY <2>1, <2>2
<1>14. /\ Len(wire') = Len(wire) + k
       /\ \A i \in 1..Len(wire) : wire'[i] = wire[i]
       /\ \A i \in 1..k : wire'[Len(wire) + i] = new[i]
  <2>1. /\ Len(wire \o new) = Len(wire) + Len(new)
        /\ \A i \in 1..Len(wire) : (wire \o new)[i] = wire[i]
        /\ \A i \in 1..Len(new) : (wire \o new)[Len(wire) + i] = new[i]
    BY <1>9, <1>10, Joined
  <2>. QED  BY <1>9, <1>11, <2>1
<1>15. ASSUME NEW i \in 1..k
       PROVE  wire'[Len(wire) + i] = Base + nWritten + i
  <2>1. wbuf.position = nWritten
    BY <1>5, <1>8
  <2>2. wire'[Len(wire) + i] = wbuf.bs[nWritten + i]
    BY <1>9, <1>14, <2>1
  <2>3. nWritten + i \in 1..wbuf.limit
    BY <1>2, <1>5, <1>12, <1>13
  <2>4. wbuf.bs[nWritten + i] = Base + (nWritten + i)
    BY <1>7, <2>3
  <2>5. Base \in Nat
    <3>1. wobj.id # 0 /\ EndsInv /\ wobj.id = Len(ends)
      BY <1>2, <1>3 DEF OutInv, BufferInv, CurrentInv
    <3>. QED  BY <3>1, BaseOfNewest
  <2>6. Base + (nWritten + i) = Base + nWritten + i
    BY <1>2, <2>5
  <2>. QED  BY <2>2, <2>4, <2>6
<1>16. k = 0 => wire' = wire
  <2>1. ASSUME k = 0 PROVE wire' = wire
    <3>1. new = <<>>
      BY <1>9, <2>1
    <3>. QED  BY <1>10, <1>11, <3>1
  <2>. QED  BY <2>1
<1>. QED  BY <1>5, <1>6, <1>12, <1>13, <1>14, <1>15, <1>16

\* While a message is being sent it is the newest one and not empty.
LEMMA SendingNewest ==
    ASSUME TypeInv, OutInv, Sending
    PROVE  /\ wobj.id # 0 /\ wobj.id = Len(ends) /\ Len(ends) # 0
           /\ Base \in Nat /\ Base < Produced
           /\ Base + wbuf.limit = Produced
           /\ wire # <<>> /\ nWritten = 0 =>
                 \E m \in 1..Len(ends) : Base = ends[m]
<1>1. /\ ends \in Seq(Nat) /\ Len(ends) \in Nat
      /\ \A m \in 1..Len(ends) : ends[m] \in Nat
      /\ Produced \in Nat /\ nWritten \in Nat /\ wbuf.limit \in Nat
  BY OutputTypes
<1>2. wbuf.limit # 0
  BY <1>1 DEF Sending
<1>3. wobj.id # 0 /\ wbuf.limit = wobj.buf.limit
  BY <1>2 DEF OutInv, BufferInv
<1>4. wobj.id = Len(ends) /\ wobj.buf.limit = Produced - Base
  BY <1>3 DEF OutInv, CurrentInv
<1>5. /\ Base = IF Len(ends) = 1 THEN 0 ELSE ends[Len(ends) - 1]
      /\ Produced = ends[Len(ends)]
      /\ Base \in Nat /\ Base <= Produced
  BY <1>3, <1>4, BaseOfNewest DEF OutInv
<1>6. Base < Produced /\ Base + wbuf.limit = Produced
  BY <1>1, <1>2, <1>3, <1>4, <1>5
<1>7. ASSUME Len(ends) # 1 PROVE \E m \in 1..Len(ends) : Base = ends[m]
  <2> DEFINE l == Len(ends)
  <2>1. l \in Nat /\ l # 0 /\ l # 1 /\ Base = ends[l - 1]
    BY <1>1, <1>3, <1>4, <1>5, <1>7
  <2>2. l - 1 \in 1..l
    <3> HIDE DEF l
    <3>. QED  BY <2>1
  <2>. QED  BY <2>1, <2>2
<1>8. ASSUME wire # <<>>, nWritten = 0, Len(ends) = 1 PROVE FALSE
  <2>1. PICK m \in 1..Len(ends) : LastByte = ends[m]
    BY <1>8 DEF OutInv, WireInv
  <2>2. LastByte <= Base
    BY <1>3, <1>8 DEF OutInv, WireInv
  <2>3. m = 1 /\ Base = 0
    BY <1>5, <1>8, <2>1
  <2>. QED  BY <1>1, <1>5, <1>6, <1>8, <2>1, <2>2, <2>3
<1>. QED  BY <1>3, <1>4, <1>5, <1>6, <1>7, <1>8


\* The next bytes of the newest message keep the messages whole.
LEMMA SendKeepsWhole ==
    ASSUME TypeInv, OutInv, Send
    PROVE  OutInv'
<1>1. PICK k \in Nat :
         /\ nWritten' = nWritten + k /\ nWritten' <= wbuf.limit
         /\ wbuf' = [bs |-> wbuf.bs, position |-> nWritten',
                     limit |-> wbuf.limit]
         /\ Len(wire') = Len(wire) + k
         /\ \A i \in 1..Len(wire) : wire'[i] = wire[i]
         /\ \A i \in 1..k : wire'[Len(wire) + i] = Base + nWritten + i
         /\ k = 0 => wire' = wire
  BY SendExtends
<1>2. /\ wobj.id # 0 /\ wobj.id = Len(ends)
      /\ Base \in Nat /\ Base < Produced /\ Base + wbuf.limit = Produced
      /\ wire # <<>> /\ nWritten = 0 =>
            \E m \in 1..Len(ends) : Base = ends[m]
  BY SendingNewest DEF Send
<1>3. /\ UNCHANGED <<wobj, ends, where>> /\ where = "doWrite"
  BY DEF Send, Sending, control
<1>4. EndsInv' /\ CurrentInv' /\ Base' = Base /\ Produced' = Produced
  BY <1>3 DEF OutInv, EndsInv, CurrentInv, Base, FirstByte, Produced
<1>t. /\ wire \in Seq(Nat) /\ Len(wire) \in Nat /\ nWritten \in Nat
      /\ \A i \in 1..Len(wire) : wire[i] \in Nat
      /\ wbuf.limit \in Nat
  BY OutputTypes
<1>5. wbuf'.bs = wbuf.bs /\ wbuf'.position = nWritten'
      /\ wbuf'.limit = wbuf.limit
  BY <1>1
<1>6. BufferInv'
  BY <1>3, <1>4, <1>5 DEF OutInv, BufferInv
<1>7. CASE k = 0
  <2>1. nWritten' = nWritten /\ wire' = wire /\ LastByte' = LastByte
    BY <1>1, <1>t, <1>7 DEF LastByte
  <2>2. WireInv'
    BY <1>3, <1>4, <1>5, <2>1 DEF OutInv, WireInv
  <2>3. MessagesWhole'
    BY <1>3, <2>1 DEF OutInv, MessagesWhole
  <2>. QED  BY <1>4, <1>6, <2>2, <2>3 DEF OutInv
<1>8. CASE k # 0
  <2>1. LastByte' = Base + nWritten'
    <3>1. k \in 1..k
      BY <1>8
    <3>2. wire'[Len(wire) + k] = Base + nWritten + k
      BY <1>1, <3>1
    <3>. QED  BY <1>1, <1>2, <1>t, <3>2 DEF LastByte
  <2>2. wire' # <<>> /\ nWritten' # 0
    <3>1. Len(wire') # 0
      BY <1>1, <1>8, <1>t
    <3>. QED  BY <1>1, <1>8, <1>t, <3>1
  <2>3. WireInv'
    BY <1>1, <1>4, <1>5, <2>1, <2>2 DEF WireInv
  <2>4. MessagesWhole'
    <3>1. SUFFICES ASSUME NEW i \in 1..(Len(wire') - 1)
                   PROVE  \/ wire'[i + 1] = wire'[i] + 1
                          \/ /\ wire'[i + 1] > wire'[i]
                             /\ \E m \in 1..Len(ends) : wire'[i] = ends[m]
                             /\ \E m \in 1..Len(ends) :
                                   wire'[i + 1] = ends[m] + 1
      BY <1>3 DEF MessagesWhole
    <3>2. CASE i < Len(wire)
      <4>1. i \in 1..(Len(wire) - 1)
        BY <1>t, <3>2
      <4>2. wire'[i] = wire[i] /\ wire'[i + 1] = wire[i + 1]
        <5>1. i \in 1..Len(wire) /\ i + 1 \in 1..Len(wire)
          BY <1>t, <3>2
        <5>. QED  BY <1>1, <5>1
      <4>3. \/ wire[i + 1] = wire[i] + 1
            \/ /\ wire[i + 1] > wire[i]
               /\ \E m \in 1..Len(ends) : wire[i] = ends[m]
               /\ \E m \in 1..Len(ends) : wire[i + 1] = ends[m] + 1
        BY <4>1 DEF OutInv, MessagesWhole
      <4>. QED  BY <4>2, <4>3
    <3>3. CASE i = Len(wire)
      <4>1. i \in 1..Len(wire) /\ 1 \in 1..k
        BY <1>8, <1>t, <3>3
      <4>2. wire'[i] = LastByte /\ wire'[i + 1] = Base + nWritten + 1
        BY <1>1, <3>3, <4>1 DEF LastByte
      <4>3. wire # <<>>
        BY <1>t, <3>3, <4>1
      <4>4. CASE nWritten # 0
        <5>1. wbuf.limit # 0
          BY <1>1, <1>8, <1>t
        <5>2. LastByte = Base + nWritten
          BY <4>4, <5>1 DEF OutInv, WireInv
        <5>. QED  BY <4>2, <5>2
      <4>5. CASE nWritten = 0
        <5>1. LastByte <= Base
              /\ \E m \in 1..Len(ends) : LastByte = ends[m]
          BY <1>2, <4>3, <4>5 DEF OutInv, WireInv
        <5>2. \E m \in 1..Len(ends) : Base = ends[m]
          BY <1>2, <4>3, <4>5
        <5>3. LastByte \in Nat
          BY <1>t, <3>3, <4>1 DEF LastByte
        <5>4. wire'[i + 1] = Base + 1 /\ wire'[i + 1] > wire'[i]
          BY <1>2, <4>2, <4>5, <5>1, <5>3
        <5>. QED  BY <4>2, <5>1, <5>2, <5>4
      <4>. QED  BY <4>4, <4>5
    <3>4. CASE i > Len(wire)
      <4> DEFINE j == i - Len(wire)
      <4>1. j \in 1..k /\ j + 1 \in 1..k
            /\ i = Len(wire) + j /\ i + 1 = Len(wire) + (j + 1)
        BY <1>1, <1>t, <3>1, <3>4
      <4> HIDE DEF j
      <4>2. wire'[i] = Base + nWritten + j
        BY <1>1, <4>1
      <4>3. wire'[i + 1] = Base + nWritten + (j + 1)
        BY <1>1, <4>1
      <4>. QED  BY <1>2, <1>t, <4>1, <4>2, <4>3
    <3>. QED  BY <1>t, <3>1, <3>2, <3>3, <3>4
  <2>. QED  BY <1>4, <1>6, <2>3, <2>4 DEF OutInv
<1>. QED  BY <1>7, <1>8

\* A return on EAGAIN or an error leaves the write buffer at its end.
LEMMA StoppedKeepsWhole ==
    ASSUME TypeInv, OutInv, WouldBlock \/ SendFailed
    PROVE  OutInv'
<1>1. /\ wbuf' = [bs |-> wbuf.bs, position |-> wbuf.limit,
                  limit |-> wbuf.limit]
      /\ UNCHANGED <<wobj, nWritten, wire, ends>>
      /\ where' # "unborn"
  BY SendingBuffer DEF WouldBlock, SendFailed, Fail, End, output
<1>2. wbuf'.bs = wbuf.bs /\ wbuf'.position = wbuf.limit
      /\ wbuf'.limit = wbuf.limit
  BY <1>1
<1>3. Base' = Base /\ Produced' = Produced /\ LastByte' = LastByte
  BY <1>1 DEF Base, FirstByte, Produced, LastByte
<1>4. EndsInv' /\ CurrentInv' /\ MessagesWhole'
  BY <1>1, <1>3 DEF OutInv, EndsInv, CurrentInv, MessagesWhole
<1>5. BufferInv'
  BY <1>1, <1>2, <1>3 DEF OutInv, BufferInv
<1>6. WireInv'
  BY <1>1, <1>2, <1>3 DEF OutInv, WireInv
<1>. QED  BY <1>4, <1>5, <1>6 DEF OutInv

\* The steps that touch neither the messages nor the write buffer.
LEMMA OthersKeepWhole ==
    ASSUME OutInv, UNCHANGED <<wobj, wbuf, nWritten, wire, ends>>,
           where' = where \/ where' # "unborn"
    PROVE  OutInv'
<1>1. Base' = Base /\ Produced' = Produced /\ LastByte' = LastByte
  BY DEF Base, FirstByte, Produced, LastByte
<1>2. EndsInv' /\ CurrentInv' /\ MessagesWhole'
  BY <1>1 DEF OutInv, EndsInv, CurrentInv, MessagesWhole
<1>3. BufferInv'
  BY <1>1 DEF OutInv, BufferInv
<1>4. WireInv'
  BY <1>1 DEF OutInv, WireInv
<1>. QED  BY <1>2, <1>3, <1>4 DEF OutInv

\* Every step keeps the messages whole.
LEMMA OutStep ==
    ASSUME TypeInv, OutInv, [Next]_vars
    PROVE  OutInv'
<1>t. nWritten \in Nat
  BY OutputTypes
<1>e. EmptyBuffer.limit = 0 /\ EmptyBuffer.position = 0
  BY DEF EmptyBuffer
<1>i. /\ EndsInv /\ MessagesWhole
      /\ nWritten # 0 => wire # <<>>
      /\ wire # <<>> /\ nWritten = 0 =>
            \E m \in 1..Len(ends) : LastByte = ends[m]
  BY DEF OutInv, WireInv
<1>1. CASE Open
  <2>1. /\ HandlerSilent \/ HandlerWrites
        /\ UNCHANGED <<wire, wbuf, nWritten>>
        /\ where = "unborn" /\ where' # "unborn"
    BY <1>1 DEF Open, HandlerActs, StayOrEnd, End
  <2>2. wbuf.limit = 0 /\ nWritten = 0
    BY <2>1 DEF OutInv, BufferInv
  <2>3. wbuf.position = 0
    BY <2>2 DEF OutInv, BufferInv
  <2>. QED  BY <1>i, <2>1, <2>2, <2>3, AfterHandler
<1>2. CASE MessageReceived
  <2>1. /\ HandlerSilent \/ HandlerWrites
        /\ wbuf' = EmptyBuffer
        /\ UNCHANGED <<wire, nWritten>>
        /\ where' # "unborn"
    BY <1>2 DEF MessageReceived, HandlerActs, ResetWrite, StayOrEnd, End
  <2>. QED  BY <1>e, <1>i, <2>1, AfterHandler
<1>3. CASE MessageSent
  <2>1. /\ HandlerSilent \/ HandlerWrites
        /\ wbuf' = EmptyBuffer /\ nWritten' = 0
        /\ UNCHANGED wire
        /\ where' # "unborn"
        /\ nWritten = wbuf.limit
    BY <1>3 DEF MessageSent, HandlerActs, ResetWrite, StayOrEnd, End,
       WrittenAfterSent
  <2>2. ASSUME wire # <<>>, nWritten # 0
        PROVE  \E m \in 1..Len(ends) : LastByte = ends[m]
    <3>1. LastByte = Base + wbuf.limit
      BY <2>1, <2>2 DEF OutInv, WireInv
    <3>2. wobj.id # 0 /\ wbuf.limit = wobj.buf.limit
      BY <2>1, <2>2 DEF OutInv, BufferInv
    <3>3. wobj.id = Len(ends) /\ wobj.buf.limit = Produced - Base
      BY <3>2 DEF OutInv, CurrentInv
    <3>4. Produced = ends[Len(ends)] /\ Base \in Nat /\ Produced \in Nat
      BY <1>i, <3>2, <3>3, BaseOfNewest, OutputTypes
    <3>5. LastByte = ends[Len(ends)]
      BY <3>1, <3>2, <3>3, <3>4
    <3>6. Len(ends) \in 1..Len(ends)
      BY <3>2, <3>3, OutputTypes
    <3>. QED  BY <3>5, <3>6
  <2>. QED  BY <1>e, <1>i, <2>1, <2>2, AfterHandler
<1>4. CASE WriteStart
  BY <1>4, WriteStartKeepsWhole
<1>5. CASE Send
  BY <1>5, SendKeepsWhole
<1>6. CASE WouldBlock \/ SendFailed
  BY <1>6, StoppedKeepsWhole
<1>7. CASE ReadStart \/ Recv \/ ReadClosed \/ ReadFailed
  <2>1. /\ UNCHANGED <<wobj, wbuf, nWritten, wire, ends>>
        /\ where' = where \/ where' # "unborn"
    BY <1>7 DEF ReadStart, Recv, ReadClosed, ReadFailed, Fail, End, writing,
       output
  <2>. QED  BY <2>1, OthersKeepWhole
<1>8. CASE Killed \/ WriteUnknown
  <2>1. /\ UNCHANGED <<wobj, wbuf, nWritten, wire, ends>>
        /\ where' = where \/ where' # "unborn"
    BY <1>8 DEF Killed, WriteUnknown, Fail, End, writing, output
  <2>. QED  BY <2>1, OthersKeepWhole
<1>9. CASE Peer \/ UNCHANGED vars
  <2>1. UNCHANGED <<wobj, wbuf, nWritten, wire, ends, where>>
    BY <1>9 DEF Peer, PeerSend, PeerFin, PeerReset, PeerDrain, vars, control,
       writing, output
  <2>. QED  BY <2>1, OthersKeepWhole
<1>. QED
  BY <1>1, <1>2, <1>3, <1>4, <1>5, <1>6, <1>7, <1>8, <1>9 DEF Next, InCallback

\* Nothing was sent and nothing written when the program starts.
LEMMA OutInit == Init => OutInv
<1> SUFFICES ASSUME Init PROVE OutInv
  OBVIOUS
<1>1. /\ wobj.id = 0 /\ wbuf.limit = 0 /\ wbuf.position = 0 /\ nWritten = 0
      /\ wire = <<>> /\ ends = <<>> /\ Len(wire) = 0 /\ Len(ends) = 0
  BY DEF Init, NoObject, EmptyBuffer
<1>2. EndsInv
  BY <1>1 DEF EndsInv
<1>3. CurrentInv
  BY <1>1 DEF CurrentInv
<1>4. BufferInv
  BY <1>1 DEF BufferInv
<1>5. WireInv
  BY <1>1 DEF WireInv
<1>6. MessagesWhole
  BY <1>1 DEF MessagesWhole
<1>. QED  BY <1>2, <1>3, <1>4, <1>5, <1>6 DEF OutInv

\* Whatever the peer and the handler do, what goes out is made of whole
\* messages in the order of session.write(): a send() that took a part of a
\* message is followed by the rest of that message or by nothing.
THEOREM WholeMessagesSent == Spec => []MessagesWhole
<1>1. TypeInv /\ OutInv /\ [Next]_vars => OutInv'
  BY OutStep
<1>2. OutInv => MessagesWhole
  BY DEF OutInv
<1>. QED  BY OutInit, <1>1, <1>2, TypeInvariant, PTL DEF Spec

-----------------------------------------------------------------------------
(***************************************************************************)
(* The promise of module OutputStream, when the peer waits for the response *)
(* before it sends again.                                                   *)
(***************************************************************************)

\* Something of the newest message, or a message behind it, is to be sent.
Unsent == Len(wire) < Produced \/ more

\* Between two messages everything written is sent and reported, and no
\* writeEvent brings doWrite back.
BetweenInv ==
    wobj.id = 0 =>
       /\ nWritten = 0 /\ Len(wire) = Produced /\ ~more
       /\ Len(reported) = Len(ends)
       /\ ~wrEv /\ where # "doWrite"

\* While there is a message it alone is unreported, nWritten counts its bytes
\* on the wire, and until it and what follows it are out the peer does not send
\* and no callback reads: nothing calls messageReceived in between.
DuringInv ==
    wobj.id # 0 =>
       /\ where # "unborn"
       /\ Len(wire) = Base + nWritten
       /\ Len(reported) = Len(ends) - 1
       /\ where = "doWrite" => wbuf.limit = wobj.buf.limit
       /\ where # "doWrite" => Unsent
       /\ Unsent => turn = "session" /\ (rdEv => got = arrived)
       /\ where = "doRead" => result = 0 /\ rdEv

\* Callback by callback, with the write buffer and what woke doRead.
HalfInv ==
    /\ BetweenInv /\ DuringInv
    /\ nWritten # 0 => wbuf.limit # 0
    /\ where = "doRead" /\ result = 0 => got < arrived \/ peer # "open"
    /\ wire = Run(0, Len(wire))

StreamStep == [OutputStreamSpec!Next]_(OutputStreamSpec!streamVars)

\* A step that changes no message, no byte sent and no report is none of the
\* abstract specification.
LEMMA StreamStutters ==
    ASSUME UNCHANGED <<ends, wire, reported>>
    PROVE  StreamStep
BY DEF StreamStep, OutputStreamSpec!streamVars

\* After a handler that writes nothing: every message is out and reported.
LEMMA SilentKeepsHalf ==
    ASSUME HandlerSilent, ~more, UNCHANGED wire, nWritten' = 0, ~wrEv',
           Len(wire) = Produced, wire = Run(0, Len(wire)),
           Len(reported') = Len(ends), where' \in {"loop", "gone"}
    PROVE  HalfInv'
<1>1. wobj'.id = 0 /\ ends' = ends /\ more' = more
  BY DEF HandlerSilent, ObjectAfterReset, NoObject
<1>2. Produced' = Produced
  BY <1>1 DEF Produced
<1>3. BetweenInv'
  BY <1>1, <1>2 DEF BetweenInv
<1>4. DuringInv'
  BY <1>1 DEF DuringInv
<1>5. wire' = Run(0, Len(wire'))
  OBVIOUS
<1>. QED  BY <1>3, <1>4, <1>5 DEF HalfInv

\* After a handler that writes a message: it is the session's turn, and no
\* byte of the peer is left to read while it waits for one.
LEMMA WritesKeepHalf ==
    ASSUME TypeInv, EndsInv, HalfDuplex, HandlerWrites, UNCHANGED wire,
           nWritten' = 0, Len(wire) = Produced, wire = Run(0, Len(wire)),
           Len(reported') = Len(ends), where' \in {"loop", "gone"},
           turn' = "session", rdEv' => got' = arrived'
    PROVE  HalfInv'
<1>1. PICK n \in 0..MaxLen :
         /\ HalfDuplex /\ ~more' => n > 0
         /\ wobj' = Message(n) /\ ends' = Append(ends, Produced + n)
  BY DEF HandlerWrites
<1>2. n \in Nat /\ Produced \in Nat /\ Len(ends) \in Nat
  BY SessionAssumption, OutputTypes
<1>3. wobj'.id = Len(ends) + 1
  BY <1>1, <1>2, MessageContent
<1>4. Len(ends') = Len(ends) + 1 /\ Produced' = Produced + n
      /\ Base' = Produced
  BY <1>1, <1>2, EndsExtended
<1>5. Unsent'
  BY <1>1, <1>2, <1>4 DEF Unsent
<1>6. Len(wire') = Base' + nWritten'
  BY <1>2, <1>4
<1>7. Len(reported') = Len(ends') - 1 /\ wobj'.id # 0
  BY <1>2, <1>3, <1>4
<1>8. DuringInv'
  BY <1>5, <1>6, <1>7 DEF DuringInv
<1>9. BetweenInv'
  BY <1>7 DEF BetweenInv
<1>10. wire' = Run(0, Len(wire'))
  OBVIOUS
<1>. QED  BY <1>8, <1>9, <1>10 DEF HalfInv

\* What a handler writes is a new message of the abstract specification.
LEMMA WritesNewMessage ==
    ASSUME TypeInv, EndsInv, HandlerWrites
    PROVE  OutputStreamSpec!NewMessage
<1>1. PICK n \in 0..MaxLen : ends' = Append(ends, Produced + n)
  BY DEF HandlerWrites
<1>2. n \in Nat
  BY SessionAssumption
<1>3. ends \in Seq(Nat) /\ Len(ends) \in Nat /\ Produced \in Nat
  BY OutputTypes
<1> DEFINE p == Produced + n
<1>4. ends' = Append(ends, p) /\ p \in Nat /\ p >= Produced
  BY <1>1, <1>2, <1>3
<1> HIDE DEF p
<1>5. Len(ends') = Len(ends) + 1 /\ ends'[Len(ends) + 1] = p
  BY <1>3, <1>4
<1>6. SubSeq(ends', 1, Len(ends)) = ends
  BY <1>3, <1>4
<1>7. OutputStreamSpec!Written = Produced
  BY DEF OutputStreamSpec!Written, Produced
<1>. QED  BY <1>4, <1>5, <1>6, <1>7 DEF OutputStreamSpec!NewMessage


\* A message that was just written is not null.
LEMMA WritesPresent ==
    ASSUME TypeInv, HandlerWrites
    PROVE  wobj'.id # 0
<1>1. PICK n \in 0..MaxLen : wobj' = Message(n)
  BY DEF HandlerWrites
<1>2. Message(n).id = Len(ends) + 1
  BY DEF Message
<1>. QED  BY <1>1, <1>2, OutputTypes

\* A handler that acts in half duplex when nothing is unreported: it writes
\* nothing, or it is its turn and every byte of the request has been read.
LEMMA ActsBetween ==
    ASSUME TypeInv, OutInv, HalfDuplex, HalfInv, wobj.id = 0,
           \/ HandlerSilent
           \/ HandlerWrites /\ turn = "session" /\ (rdEv' => got = arrived),
           UNCHANGED <<wire, nWritten, reported, turn, got, arrived>>,
           wrEv' => wobj'.id # 0, where' \in {"loop", "gone"}
    PROVE  HalfInv' /\ StreamStep
<1>1. /\ nWritten' = 0 /\ Len(wire) = Produced /\ ~more
      /\ Len(reported') = Len(ends)
      /\ wire = Run(0, Len(wire)) /\ EndsInv
  BY DEF HalfInv, BetweenInv, OutInv
<1>2. CASE HandlerSilent
  <2>1. wobj'.id = 0 /\ ends' = ends
    BY <1>2 DEF HandlerSilent, ObjectAfterReset, NoObject
  <2>2. ~wrEv'
    BY <2>1
  <2>3. HalfInv'
    BY <1>1, <1>2, <2>2, SilentKeepsHalf
  <2>. QED  BY <2>1, <2>3, StreamStutters
<1>3. CASE HandlerWrites /\ turn = "session" /\ (rdEv' => got = arrived)
  <2>1. HalfInv'
    BY <1>1, <1>3, WritesKeepHalf
  <2>2. OutputStreamSpec!NewMessage
    BY <1>1, <1>3, WritesNewMessage
  <2>3. OutputStreamSpec!Write
    BY <1>1, <2>2 DEF OutputStreamSpec!Write,
       OutputStreamSpec!NothingOutstanding
  <2>. QED  BY <2>1, <2>3 DEF StreamStep, OutputStreamSpec!Next
<1>. QED  BY <1>2, <1>3

\* doAccept and doConnect, from the new Session on.
LEMMA OpenHalf ==
    ASSUME TypeInv, OutInv, HalfDuplex, HalfInv, Open
    PROVE  HalfInv' /\ StreamStep
<1>1. where = "unborn"
  BY DEF Open
<1>2. wobj.id = 0
  BY <1>1 DEF HalfInv, DuringInv
<1>3. \/ HandlerSilent
      \/ HandlerWrites /\ turn = "session"
  BY DEF Open, HandlerActs
<1>4. /\ where' \in {"loop", "gone"}
      /\ wrEv' => wobj'.id # 0
      /\ rdEv' => wobj'.id = 0
  BY DEF Open, StayOrEnd, End
<1>5. UNCHANGED <<wire, nWritten, reported, turn, got, arrived>>
  BY DEF Open, socket
<1>6. HandlerWrites => wobj'.id # 0
  BY WritesPresent
<1>. QED  BY <1>2, <1>3, <1>4, <1>5, <1>6, ActsBetween

\* The rest of doRead: it was woken by a request, not by a message of its own.
LEMMA ReceivedHalf ==
    ASSUME TypeInv, OutInv, HalfDuplex, HalfInv, MessageReceived
    PROVE  HalfInv' /\ StreamStep
<1>1. where = "doRead" /\ ReadLoopEnds
  BY DEF MessageReceived
<1>2. result # 0
  <2>1. \/ got = arrived /\ peer = "open"
        \/ result > 0
    BY <1>1 DEF ReadLoopEnds
  <2>2. CASE result > 0
    BY <2>2
  <2>3. CASE got = arrived /\ peer = "open"
    <3>1. ~(got < arrived)
      BY <2>3 DEF TypeInv, TypeOK, SocketType
    <3>. QED  BY <1>1, <2>3, <3>1 DEF HalfInv
  <2>. QED  BY <2>1, <2>2, <2>3
<1>3. wobj.id = 0
  BY <1>1, <1>2 DEF HalfInv, DuringInv
<1>4. ~wrEv
  BY <1>3 DEF HalfInv, BetweenInv
<1>5. \/ HandlerSilent
      \/ HandlerWrites /\ turn = "session" /\ got = arrived
  BY DEF MessageReceived, HandlerActs
<1>6. /\ where' \in {"loop", "gone"}
      /\ wrEv' => wobj'.id # 0
  BY <1>4 DEF MessageReceived, StayOrEnd, End, ScheduledAfterRead
<1>7. UNCHANGED <<wire, nWritten, reported, turn, got, arrived>>
  BY DEF MessageReceived, socket
<1>. QED  BY <1>3, <1>5, <1>6, <1>7, ActsBetween

\* In doWrite there is a message, and nWritten does not exceed its length.
LEMMA WritingMessage ==
    ASSUME TypeInv, OutInv, HalfInv, where = "doWrite"
    PROVE  /\ wobj.id # 0 /\ wobj.id = Len(ends) /\ nWritten <= wbuf.limit
           /\ Base \in Nat /\ Base + wbuf.limit = Produced
           /\ Len(wire) = Base + nWritten
<1>1. wobj.id # 0
  BY DEF HalfInv, BetweenInv
<1>2. /\ wbuf.limit = wobj.buf.limit /\ Len(wire) = Base + nWritten
  BY <1>1 DEF HalfInv, DuringInv
<1>3. /\ nWritten \in Nat /\ wbuf.limit \in Nat /\ Produced \in Nat
  BY OutputTypes
<1>4. nWritten <= wbuf.limit
  <2>1. CASE nWritten = 0
    BY <1>3, <2>1
  <2>2. CASE nWritten # 0
    BY <2>2 DEF HalfInv, OutInv, WireInv
  <2>. QED  BY <2>1, <2>2
<1>5. wobj.id = Len(ends) /\ wobj.buf.limit = Produced - Base
  BY <1>1 DEF OutInv, CurrentInv
<1>6. Base \in Nat
  BY <1>1, <1>5, BaseOfNewest DEF OutInv
<1>. QED  BY <1>1, <1>2, <1>3, <1>4, <1>5, <1>6

\* The rest of doWrite reports the newest message, which is out.
LEMMA SentHalf ==
    ASSUME TypeInv, OutInv, HalfDuplex, HalfInv, MessageSent
    PROVE  HalfInv' /\ StreamStep
<1>1. /\ where = "doWrite" /\ nWritten = wbuf.limit
      /\ nWritten' = 0 /\ UNCHANGED <<wire, turn, got, arrived>>
      /\ reported' = Append(reported, last'.id)
      /\ ResetWrite
  BY DEF MessageSent, WrittenAfterSent, socket
<1>2. /\ wobj.id # 0 /\ wobj.id = Len(ends)
      /\ Base \in Nat /\ Base + wbuf.limit = Produced
      /\ Len(wire) = Base + nWritten
  BY <1>1, WritingMessage
<1>3. Len(wire) = Produced
  BY <1>1, <1>2
<1>4. last'.id = Len(ends)
  BY <1>1, <1>2, LastMessage
<1>5. Len(reported) = Len(ends) - 1 /\ wire = Run(0, Len(wire)) /\ EndsInv
      /\ (more => turn = "session" /\ (rdEv => got = arrived))
  BY <1>2 DEF HalfInv, DuringInv, Unsent, OutInv
<1>6. Len(reported') = Len(ends)
  <2>1. reported \in Seq(Nat) /\ last'.id \in Nat /\ Len(ends) \in Nat
    BY <1>1, ReportTypes, LastMessage
  <2>2. Len(reported') = Len(reported) + 1
    BY <1>1, <2>1
  <2>. QED  BY <1>5, <2>1, <2>2
<1>7. \/ ~more /\ HandlerSilent
      \/ more /\ HandlerWrites
  BY DEF MessageSent, HandlerActs
<1>8. /\ where' \in {"loop", "gone"}
      /\ wrEv' => wobj'.id # 0
      /\ rdEv' => rdEv \/ wobj'.id = 0
  BY DEF MessageSent, StayOrEnd, End, ReadAfterSent
<1>9. OutputStreamSpec!Written = Produced
  BY DEF OutputStreamSpec!Written, Produced
<1>10. ~OutputStreamSpec!NothingOutstanding
  BY <1>5, OutputTypes DEF OutputStreamSpec!NothingOutstanding
<1>11. ASSUME ends' = ends \/ OutputStreamSpec!NewMessage
       PROVE  StreamStep
  <2>1. OutputStreamSpec!Report
    BY <1>1, <1>3, <1>4, <1>9, <1>10, <1>11 DEF OutputStreamSpec!Report
  <2>. QED  BY <2>1 DEF StreamStep, OutputStreamSpec!Next
<1>12. CASE ~more /\ HandlerSilent
  <2>1. wobj'.id = 0 /\ ends' = ends
    BY <1>12 DEF HandlerSilent, ObjectAfterReset, NoObject
  <2>2. ~wrEv'
    BY <1>8, <2>1
  <2>3. HalfInv'
    BY <1>1, <1>3, <1>5, <1>6, <1>8, <1>12, <2>2, SilentKeepsHalf
  <2>. QED  BY <1>11, <2>1, <2>3
<1>13. CASE more /\ HandlerWrites
  <2>1. wobj'.id # 0
    BY <1>13, WritesPresent
  <2>2. turn' = "session" /\ (rdEv' => got' = arrived')
    BY <1>1, <1>5, <1>8, <1>13, <2>1
  <2>3. HalfInv'
    BY <1>1, <1>3, <1>5, <1>6, <1>8, <1>13, <2>2, WritesKeepHalf
  <2>4. OutputStreamSpec!NewMessage
    BY <1>5, <1>13, WritesNewMessage
  <2>. QED  BY <1>11, <2>3, <2>4
<1>. QED  BY <1>7, <1>12, <1>13


\* send() takes the next bytes of the newest message.
LEMMA SendHalf ==
    ASSUME TypeInv, TypeInv', OutInv, HalfInv, Send
    PROVE  HalfInv' /\ StreamStep
<1>1. PICK k \in Nat :
         /\ nWritten' = nWritten + k /\ nWritten' <= wbuf.limit
         /\ wbuf' = [bs |-> wbuf.bs, position |-> nWritten',
                     limit |-> wbuf.limit]
         /\ Len(wire') = Len(wire) + k
         /\ \A i \in 1..Len(wire) : wire'[i] = wire[i]
         /\ \A i \in 1..k : wire'[Len(wire) + i] = Base + nWritten + i
         /\ k = 0 => wire' = wire
  BY SendExtends
<1>2. /\ where = "doWrite" /\ nWritten < wbuf.limit
      /\ UNCHANGED <<where, result, wobj, ends, more, rdEv, wrEv, got,
                     arrived, peer, turn, reported>>
  BY DEF Send, Sending, control, events, socket, seen
<1>3. /\ wobj.id # 0 /\ Base \in Nat /\ Base + wbuf.limit = Produced
      /\ Len(wire) = Base + nWritten
  BY <1>2, WritingMessage
<1>4. Base' = Base /\ Produced' = Produced
  BY <1>2 DEF Base, FirstByte, Produced
<1>5. wbuf'.limit = wbuf.limit
  BY <1>1
<1>t. /\ wire \in Seq(Nat) /\ Len(wire) \in Nat
      /\ nWritten \in Nat /\ wbuf.limit \in Nat /\ Produced \in Nat
  BY OutputTypes
<1>u. wire' \in Seq(Nat)
  BY DEF TypeInv, TypeOK, SocketType
<1>6. Unsent' => Unsent
  BY <1>1, <1>2, <1>4, <1>t DEF Unsent
<1>7. Len(wire') = Base' + nWritten'
  BY <1>1, <1>3, <1>4, <1>t
<1>8. DuringInv'
  BY <1>2, <1>4, <1>5, <1>6, <1>7 DEF HalfInv, DuringInv
<1>9. BetweenInv'
  BY <1>2, <1>3 DEF BetweenInv
<1>10. wire' = Run(0, Len(wire'))
  <2>1. ASSUME NEW i \in 1..Len(wire')
        PROVE  wire'[i] = i
    <3>1. CASE i <= Len(wire)
      <4>1. i \in 1..Len(wire) /\ wire = Run(0, Len(wire))
        BY <1>t, <3>1 DEF HalfInv
      <4>2. Run(0, Len(wire))[i] = 0 + i
        BY <1>t, <4>1, RunBytes
      <4>. QED  BY <1>1, <4>1, <4>2
    <3>2. CASE i > Len(wire)
      <4> DEFINE j == i - Len(wire)
      <4>1. j \in 1..k /\ i = Len(wire) + j
        BY <1>1, <1>t, <3>2
      <4> HIDE DEF j
      <4>2. wire'[i] = Base + nWritten + j
        BY <1>1, <4>1
      <4>. QED  BY <1>3, <1>t, <4>1, <4>2
    <3>. QED  BY <1>1, <1>t, <3>1, <3>2
  <2>. QED  BY <1>u, <2>1, IsRun
<1>11. HalfInv'
  BY <1>2, <1>5, <1>8, <1>9, <1>10, <1>1, <1>t DEF HalfInv
<1>12. CASE k = 0
  BY <1>1, <1>2, <1>11, <1>12, StreamStutters
<1>13. CASE k # 0
  <2> DEFINE new == [i \in 1..k |-> Len(wire) + i]
  <2>1. new = Run(Len(wire), k)
    BY DEF Run
  <2>2. new \in Seq(Nat) /\ Len(new) = k
        /\ \A i \in 1..k : new[i] = Len(wire) + i
    <3>1. Run(Len(wire), k) \in Seq(Nat) /\ Len(Run(Len(wire), k)) = k
          /\ \A i \in 1..k : Run(Len(wire), k)[i] = Len(wire) + i
      BY <1>t, RunType, RunBytes
    <3>. QED  BY <2>1, <3>1
  <2> HIDE DEF new
  <2>3. /\ wire \o new \in Seq(Nat)
        /\ Len(wire \o new) = Len(wire) + k
        /\ \A i \in 1..Len(wire) : (wire \o new)[i] = wire[i]
        /\ \A i \in 1..k : (wire \o new)[Len(wire) + i] = new[i]
    BY <1>t, <2>2, Joined
  <2>4. wire' = wire \o new
    <3>1. Len(wire') = Len(wire \o new)
      BY <1>1, <2>3
    <3>2. ASSUME NEW i \in 1..Len(wire')
          PROVE  wire'[i] = (wire \o new)[i]
      <4>1. CASE i <= Len(wire)
        <5>1. i \in 1..Len(wire)
          BY <1>t, <4>1
        <5>. QED  BY <1>1, <2>3, <5>1
      <4>2. CASE i > Len(wire)
        <5> DEFINE j == i - Len(wire)
        <5>1. j \in 1..k /\ i = Len(wire) + j
          BY <1>1, <1>t, <4>2
        <5> HIDE DEF j
        <5>2. wire'[i] = Base + nWritten + j
          BY <1>1, <5>1
        <5>3. (wire \o new)[i] = Len(wire) + j
          BY <2>2, <2>3, <5>1
        <5>. QED  BY <1>3, <5>2, <5>3
      <4>3. i <= Len(wire) \/ i > Len(wire)
        BY <1>t
      <4>. QED  BY <4>1, <4>2, <4>3
    <3>. QED  BY <1>u, <2>3, <3>1, <3>2, SeqEqual
  <2>5. Len(wire) + k <= Produced
    BY <1>1, <1>3, <1>t
  <2>6. k \in 1..(Produced - Len(wire)) /\ Len(wire) < Produced
    BY <1>13, <1>t, <2>5
  <2>7. OutputStreamSpec!Written = Produced
    BY DEF OutputStreamSpec!Written, Produced
  <2>8. OutputStreamSpec!Transmit
    BY <1>2, <2>4, <2>6, <2>7 DEF OutputStreamSpec!Transmit, new
  <2>. QED  BY <1>11, <2>8 DEF StreamStep, OutputStreamSpec!Next
<1>. QED  BY <1>12, <1>13


\* Entering doWrite: there is a message, and the write buffer holds it.
LEMMA WriteStartHalf ==
    ASSUME TypeInv, OutInv, HalfInv, WriteStart
    PROVE  HalfInv' /\ StreamStep
<1>1. /\ where = "loop" /\ wrEv /\ where' = "doWrite"
      /\ UNCHANGED <<nWritten, ends, wire, more, reported, rdEv, wrEv, turn,
                     got, arrived>>
  BY DEF WriteStart, events, socket, output, seen
<1>2. wobj.id # 0
  BY <1>1 DEF HalfInv, BetweenInv
<1>3. Base' = Base /\ Produced' = Produced /\ Unsent' = Unsent
  BY <1>1 DEF Base, FirstByte, Produced, Unsent
<1>4. wobj'.id = wobj.id
  BY MessageKept
<1>5. wbuf'.limit = wobj'.buf.limit /\ (nWritten' # 0 => wbuf'.limit # 0)
  <2>1. CASE Transforms
    <3> DEFINE b == wobj.buf
    <3>1. nWritten = 0 /\ wbuf' = TransformDownOut(b)
          /\ wobj' = [wobj EXCEPT !.buf = TransformDownIn(b)]
      BY <2>1 DEF WriteStart, Transforms
    <3>2. b \in Buffer /\ InBounds(b) /\ b.position <= b.limit
      BY DEF TypeInv, TypeOK, WritingType, WriteObject, Flipped
    <3>3. wobj'.buf = TransformDownIn(b)
      BY <3>1 DEF TypeInv, TypeOK, WritingType, WriteObject
    <3>4. b.position = 0
      BY <1>2 DEF OutInv, CurrentInv
    <3> HIDE DEF b
    <3>5. /\ TransformDownOut(b).limit = b.limit - b.position
          /\ TransformDownIn(b) = [bs |-> b.bs, position |-> 0,
                                   limit |-> b.limit]
      BY <3>2, TransformDownMoves
    <3>6. b.limit - b.position = b.limit
      BY <3>2, <3>4 DEF Buffer
    <3>. QED  BY <1>1, <3>1, <3>3, <3>5, <3>6
  <2>2. CASE ~Transforms
    <3>1. UNCHANGED <<wbuf, wobj>> /\ nWritten # 0
      BY <1>2, <2>2 DEF WriteStart, Transforms, WriteObjectPresent
    <3>2. wbuf.limit # 0
      BY <3>1 DEF HalfInv
    <3>3. wbuf.limit = wobj.buf.limit
      BY <3>2 DEF OutInv, BufferInv
    <3>. QED  BY <3>1, <3>2, <3>3
  <2>. QED  BY <2>1, <2>2
<1>6. DuringInv'
  BY <1>1, <1>2, <1>3, <1>4, <1>5 DEF HalfInv, DuringInv
<1>7. BetweenInv'
  BY <1>2, <1>4 DEF BetweenInv
<1>8. HalfInv'
  BY <1>1, <1>5, <1>6, <1>7 DEF HalfInv
<1>. QED  BY <1>1, <1>8, StreamStutters

\* doWrite returns, or the session ends, before the whole message is out.
LEMMA StoppedHalf ==
    ASSUME TypeInv, OutInv, HalfInv, WouldBlock \/ SendFailed \/ Killed
    PROVE  HalfInv' /\ StreamStep
<1>1. /\ Sending
      /\ where = "doWrite" /\ nWritten < wbuf.limit
      /\ where' \in {"loop", "gone", "killed"}
      /\ rdEv' => rdEv
      /\ UNCHANGED <<wobj, nWritten, ends, wire, more, reported, turn,
                     got, arrived>>
  BY DEF WouldBlock, SendFailed, Killed, Sending, Fail, End, events, writing,
     socket, output, seen
<1>2. wbuf'.limit = wbuf.limit
  <2>1. CASE WouldBlock \/ SendFailed
    <3>1. wbuf' = [bs |-> wbuf.bs, position |-> wbuf.limit,
                   limit |-> wbuf.limit]
      BY <1>1, <2>1, SendingBuffer DEF WouldBlock, SendFailed
    <3>. QED  BY <3>1
  <2>2. CASE Killed
    BY <2>2 DEF Killed, writing
  <2>. QED  BY <2>1, <2>2
<1>3. Base' = Base /\ Produced' = Produced /\ Unsent' = Unsent
  BY <1>1 DEF Base, FirstByte, Produced, Unsent
<1>4. /\ wobj.id # 0 /\ Base \in Nat /\ Base + wbuf.limit = Produced
      /\ Len(wire) = Base + nWritten
  BY <1>1, WritingMessage
<1>5. Unsent
  <2>1. nWritten \in Nat /\ wbuf.limit \in Nat
    BY OutputTypes
  <2>2. Len(wire) < Produced
    BY <1>1, <1>4, <2>1
  <2>. QED  BY <2>2 DEF Unsent
<1>6. DuringInv'
  BY <1>1, <1>2, <1>3, <1>4, <1>5 DEF HalfInv, DuringInv
<1>7. BetweenInv'
  BY <1>1, <1>4 DEF BetweenInv
<1>8. HalfInv'
  BY <1>1, <1>2, <1>6, <1>7 DEF HalfInv
<1>. QED  BY <1>1, <1>8, StreamStutters

\* Entering and leaving doRead with nothing delivered.
LEMMA ReadHalf ==
    ASSUME TypeInv, OutInv, HalfInv,
           ReadStart \/ Recv \/ ReadClosed \/ ReadFailed
    PROVE  HalfInv' /\ StreamStep
<1>1. UNCHANGED <<wobj, wbuf, nWritten, ends, wire, more, reported, turn,
                  arrived>>
  BY DEF ReadStart, Recv, ReadClosed, ReadFailed, writing, socket, output, seen
<1>2. Base' = Base /\ Produced' = Produced /\ Unsent' = Unsent
  BY <1>1 DEF Base, FirstByte, Produced, Unsent
<1>3. CASE ReadStart
  <2>1. /\ where = "loop" /\ where' = "doRead" /\ rdEv /\ result' = 0
        /\ got < arrived \/ peer # "open"
        /\ UNCHANGED <<rdEv, wrEv, got, peer>>
    BY <1>3 DEF ReadStart, Readable, events, socket
  <2>2. DuringInv'
    BY <1>1, <1>2, <2>1 DEF HalfInv, DuringInv
  <2>3. BetweenInv'
    BY <1>1, <1>2, <2>1 DEF HalfInv, BetweenInv
  <2>4. HalfInv'
    BY <1>1, <2>1, <2>2, <2>3 DEF HalfInv
  <2>. QED  BY <1>1, <2>4, StreamStutters
<1>4. CASE Recv
  <2>1. /\ where = "doRead" /\ got < arrived
        /\ UNCHANGED <<where, rdEv, wrEv>>
    BY <1>4 DEF Recv, events
  <2>2. wobj.id = 0
    <3>1. SUFFICES ASSUME wobj.id # 0 PROVE FALSE
      OBVIOUS
    <3>2. got = arrived
      BY <2>1, <3>1 DEF HalfInv, DuringInv
    <3>. QED  BY <2>1, <3>2 DEF TypeInv, TypeOK, SocketType
  <2>3. result' # 0
    <3>1. result' = Min2(ReadBuffSize, arrived - got)
      BY <1>4 DEF Recv
    <3>2. got \in Nat /\ arrived \in Nat
      BY DEF TypeInv, TypeOK, SocketType
    <3>. QED  BY <2>1, <3>1, <3>2, SessionAssumption DEF Min2
  <2>4. BetweenInv'
    BY <1>1, <1>2, <2>1 DEF HalfInv, BetweenInv
  <2>5. DuringInv'
    BY <1>1, <2>2 DEF DuringInv
  <2>6. HalfInv'
    BY <1>1, <2>3, <2>4, <2>5 DEF HalfInv
  <2>. QED  BY <1>1, <2>6, StreamStutters
<1>5. CASE ReadClosed \/ ReadFailed
  <2>1. /\ where = "doRead" /\ where' = "gone" /\ ~rdEv' /\ ~wrEv'
    BY <1>5 DEF ReadClosed, ReadFailed, Fail, End
  <2>2. DuringInv'
    BY <1>1, <1>2, <2>1 DEF HalfInv, DuringInv
  <2>3. BetweenInv'
    BY <1>1, <1>2, <2>1 DEF HalfInv, BetweenInv
  <2>4. HalfInv'
    BY <1>1, <2>1, <2>2, <2>3 DEF HalfInv
  <2>. QED  BY <1>1, <2>4, StreamStutters
<1>. QED  BY <1>3, <1>4, <1>5

\* The peer does not send before it has read the whole response.
LEMMA PeerHalf ==
    ASSUME TypeInv, HalfInv, Peer
    PROVE  HalfInv' /\ StreamStep
<1>1. UNCHANGED <<where, result, wobj, wbuf, nWritten, ends, wire, more,
                  reported, rdEv, wrEv, got>>
  BY DEF Peer, PeerSend, PeerFin, PeerReset, PeerDrain, control, writing,
     events, output, seen
<1>2. Base' = Base /\ Produced' = Produced /\ Unsent' = Unsent
  BY <1>1 DEF Base, FirstByte, Produced, Unsent
<1>3. BetweenInv'
  BY <1>1, <1>2 DEF HalfInv, BetweenInv
<1>t. /\ Len(wire) \in Nat /\ Produced \in Nat
      /\ got \in Nat /\ arrived \in Nat /\ drained \in 0..Len(wire)
  BY OutputTypes DEF TypeInv, TypeOK, SocketType
<1>4. CASE PeerSend
  <2>1. /\ turn = "peer" /\ arrived' = arrived + 1 /\ peer' = peer
    BY <1>4 DEF PeerSend
  <2>2. ~(wobj.id # 0 /\ Unsent)
    BY <2>1 DEF HalfInv, DuringInv
  <2>3. DuringInv'
    BY <1>1, <1>2, <2>2 DEF HalfInv, DuringInv
  <2>4. got < arrived => got' < arrived'
    BY <1>1, <1>t, <2>1
  <2>5. HalfInv'
    BY <1>1, <1>3, <2>1, <2>3, <2>4 DEF HalfInv
  <2>. QED  BY <1>1, <2>5, StreamStutters
<1>5. CASE PeerFin \/ PeerReset
  <2>1. peer' # "open" /\ UNCHANGED <<arrived, turn>>
    BY <1>5 DEF PeerFin, PeerReset
  <2>2. DuringInv'
    BY <1>1, <1>2, <2>1 DEF HalfInv, DuringInv
  <2>3. HalfInv'
    BY <1>1, <1>3, <2>1, <2>2 DEF HalfInv
  <2>. QED  BY <1>1, <2>3, StreamStutters
<1>6. CASE PeerDrain
  <2>1. /\ drained < Len(wire) /\ drained' = drained + 1
        /\ turn' = IF drained' = Produced /\ ~more THEN "peer" ELSE turn
        /\ UNCHANGED <<arrived, peer>>
    BY <1>6 DEF PeerDrain
  <2>2. Unsent => turn' = turn
    BY <1>t, <2>1 DEF Unsent
  <2>3. DuringInv'
    BY <1>1, <1>2, <2>1, <2>2 DEF HalfInv, DuringInv
  <2>4. HalfInv'
    BY <1>1, <1>3, <2>1, <2>3 DEF HalfInv
  <2>. QED  BY <1>1, <2>4, StreamStutters
<1>. QED  BY <1>4, <1>5, <1>6 DEF Peer

\* Every step in half duplex keeps the invariant and is one of the abstract
\* specification, or none.
LEMMA HalfStep ==
    ASSUME TypeInv, TypeInv', OutInv, HalfDuplex, HalfInv, [Next]_vars
    PROVE  HalfInv' /\ StreamStep
<1>1. CASE Open
  BY <1>1, OpenHalf
<1>2. CASE MessageReceived
  BY <1>2, ReceivedHalf
<1>3. CASE MessageSent
  BY <1>3, SentHalf
<1>4. CASE Send
  BY <1>4, SendHalf
<1>5. CASE WriteStart
  BY <1>5, WriteStartHalf
<1>6. CASE WouldBlock \/ SendFailed \/ Killed
  BY <1>6, StoppedHalf
<1>7. CASE WriteUnknown
  <2>1. where = "doWrite" /\ nWritten > wbuf.limit
    BY <1>7 DEF WriteUnknown
  <2>2. nWritten <= wbuf.limit
    BY <2>1, WritingMessage
  <2>. QED  BY <2>1, <2>2, OutputTypes
<1>8. CASE ReadStart \/ Recv \/ ReadClosed \/ ReadFailed
  BY <1>8, ReadHalf
<1>9. CASE Peer
  BY <1>9, PeerHalf
<1>10. CASE UNCHANGED vars
  <2>1. UNCHANGED <<where, result, wobj, wbuf, nWritten, ends, wire, more,
                    reported, rdEv, wrEv, got, arrived, peer, turn>>
    BY <1>10 DEF vars, control, writing, events, socket, output, seen
  <2>2. Base' = Base /\ Produced' = Produced /\ Unsent' = Unsent
    BY <2>1 DEF Base, FirstByte, Produced, Unsent
  <2>3. DuringInv'
    BY <2>1, <2>2 DEF HalfInv, DuringInv
  <2>4. BetweenInv'
    BY <2>1, <2>2 DEF HalfInv, BetweenInv
  <2>5. HalfInv'
    BY <2>1, <2>3, <2>4 DEF HalfInv
  <2>. QED  BY <2>1, <2>5, StreamStutters
<1>. QED
  BY <1>1, <1>2, <1>3, <1>4, <1>5, <1>6, <1>7, <1>8, <1>9, <1>10
     DEF Next, InCallback

\* Before the session exists no message does.
LEMMA HalfInit == Init => HalfInv /\ OutputStreamSpec!Init
<1> SUFFICES ASSUME Init PROVE HalfInv /\ OutputStreamSpec!Init
  OBVIOUS
<1>1. /\ wobj.id = 0 /\ wbuf.limit = 0 /\ nWritten = 0 /\ where = "unborn"
      /\ wire = <<>> /\ ends = <<>> /\ reported = <<>>
      /\ ~more /\ ~wrEv
  BY DEF Init, NoObject, EmptyBuffer
<1>2. wire \in Seq(Nat) /\ Len(wire) = 0 /\ Len(ends) = 0 /\ Len(reported) = 0
  BY <1>1
<1>3. wire = Run(0, Len(wire))
  <2>1. \A i \in 1..Len(wire) : wire[i] = i
    BY <1>2
  <2>. QED  BY <1>2, <2>1, IsRun
<1>4. BetweenInv /\ DuringInv
  BY <1>1, <1>2 DEF BetweenInv, DuringInv, Produced
<1>. QED  BY <1>1, <1>3, <1>4 DEF HalfInv, OutputStreamSpec!Init

\* When the peer waits for the response, the branch of doWrite for
\* NWG_EUNKNOWN is not reached: nWritten counts bytes of the message in the
\* write buffer, never those of one that was replaced.
THEOREM UnknownErrorUnreached ==
    ASSUME HalfDuplex
    PROVE  Spec => []NoUnknownError
<1>1. TypeInv /\ OutInv /\ [Next]_vars => OutInv'
  BY OutStep
<1>2. TypeInv /\ TypeInv' /\ OutInv /\ HalfInv /\ [Next]_vars => HalfInv'
  BY HalfStep
<1>3. Init => HalfInv
  BY HalfInit
<1>4. TypeInv /\ OutInv /\ HalfInv => NoUnknownError
  BY WritingMessage DEF NoUnknownError
<1>. QED
  BY OutInit, <1>1, <1>2, <1>3, <1>4, TypeInvariant, PTL DEF Spec

\* When the peer waits for the response, session.write() keeps the promise of
\* module OutputStream: messages go out one at a time, whole and in order, and
\* each is reported once, after its last byte was accepted.
THEOREM SessionKeepsPromise ==
    ASSUME HalfDuplex
    PROVE  Spec => OutputIsStream
<1>1. TypeInv /\ OutInv /\ [Next]_vars => OutInv'
  BY OutStep
<1>2. TypeInv /\ TypeInv' /\ OutInv /\ HalfInv /\ [Next]_vars
         => HalfInv' /\ StreamStep
  BY HalfStep
<1>3. Init => HalfInv /\ OutputStreamSpec!Init
  BY HalfInit
<1>. QED
  BY OutInit, <1>1, <1>2, <1>3, TypeInvariant, PTL
     DEF Spec, OutputIsStream, OutputStreamSpec!Spec, StreamStep


\* In half duplex every byte of a reported message is on the wire.
LEMMA ReportedIsOut ==
    ASSUME TypeInv, NoNullMessage, ReportInv, OutInv, HalfInv
    PROVE  SentMeansTransmitted
<1>1. SUFFICES ASSUME NEW i \in 1..Len(reported),
                      NEW b \in FirstByte(reported[i])..ends[reported[i]]
               PROVE  \E k \in 1..Len(wire) : wire[k] = b
  BY DEF SentMeansTransmitted
<1> DEFINE m == reported[i]
<1>t. /\ Len(ends) \in Nat /\ \A j \in 1..Len(ends) : ends[j] \in Nat
      /\ wire \in Seq(Nat) /\ Len(wire) \in Nat /\ Produced \in Nat
      /\ nWritten \in Nat
  BY OutputTypes
<1>2. m \in 1..Len(ends)
  <2>1. m \in Nat /\ m # 0 /\ m <= Len(ends)
    BY ReportTypes DEF NoNullMessage, ReportInv
  <2> HIDE DEF m
  <2>. QED  BY <1>t, <2>1
<1>3. FirstByte(m) \in Nat /\ FirstByte(m) >= 1
  <2>1. CASE m = 1
    BY <2>1 DEF FirstByte
  <2>2. CASE m # 1
    <3> HIDE DEF m
    <3>1. m - 1 \in 1..Len(ends)
      BY <1>2, <1>t, <2>2
    <3>2. ends[m - 1] \in Nat
      BY <1>t, <3>1
    <3>3. FirstByte(m) = ends[m - 1] + 1
      BY <2>2 DEF FirstByte
    <3>. QED  BY <3>2, <3>3
  <2>. QED  BY <2>1, <2>2
<1>4. ends[m] <= Len(wire)
  <2>1. /\ EndsInv /\ Len(ends) # 0
        /\ Base = IF Len(ends) = 1 THEN 0 ELSE ends[Len(ends) - 1]
        /\ Produced = ends[Len(ends)] /\ Base \in Nat
    <3>1. EndsInv /\ Len(ends) # 0
      BY <1>2, <1>t DEF OutInv
    <3>. QED  BY <3>1, BaseOfNewest
  <2>2. CASE wobj.id = 0
    <3>1. Len(wire) = ends[Len(ends)]
      BY <2>1, <2>2 DEF HalfInv, BetweenInv
    <3>2. Len(ends) \in 1..Len(ends)
      BY <1>t, <2>1
    <3>3. m <= Len(ends)
      BY <1>2
    <3>. QED  BY <1>2, <2>1, <3>1, <3>2, <3>3 DEF EndsInv
  <2>3. CASE wobj.id # 0
    <3>1. m < Len(ends)
      BY <2>3 DEF ReportInv, OutInv, CurrentInv
    <3> HIDE DEF m
    <3>2. Len(ends) # 1 /\ Len(ends) - 1 \in 1..Len(ends)
          /\ m <= Len(ends) - 1
      <4> DEFINE n == Len(ends)
      <4>1. n \in Nat /\ m \in Nat /\ m >= 1 /\ m < n
        BY <1>t, <1>2, <3>1
      <4>2. n # 1 /\ n - 1 \in 1..n /\ m <= n - 1
        <5> HIDE DEF n
        <5>. QED  BY <4>1
      <4>. QED  BY <4>2
    <3>3. ends[m] <= Base
      BY <1>2, <2>1, <3>2 DEF EndsInv
    <3>4. Base <= Len(wire)
      BY <1>t, <2>1, <2>3 DEF HalfInv, DuringInv
    <3>5. ends[m] \in Nat
      BY <1>t, <1>2
    <3>. QED  BY <1>t, <2>1, <3>3, <3>4, <3>5
  <2>. QED  BY <2>2, <2>3
<1>5. b \in 1..Len(wire)
  <2>1. ends[m] \in Nat
    BY <1>t, <1>2
  <2>2. b \in FirstByte(m)..ends[m]
    OBVIOUS
  <2> HIDE DEF m
  <2>. QED  BY <1>t, <1>3, <1>4, <2>1, <2>2
<1>6. wire[b] = b
  <2>1. wire = Run(0, Len(wire))
    BY DEF HalfInv
  <2>2. Run(0, Len(wire))[b] = 0 + b
    BY <1>t, <1>5, RunBytes
  <2>. QED  BY <1>5, <1>t, <2>1, <2>2
<1>. QED  BY <1>5, <1>6

\* When the peer waits for the response, a message that is reported to
\* messageSent ("RESPONSE SENT") has been sent, to its last byte.
THEOREM SentIsTransmitted ==
    ASSUME HalfDuplex
    PROVE  Spec => []SentMeansTransmitted
<1>1. TypeInv /\ OutInv /\ [Next]_vars => OutInv'
  BY OutStep
<1>2. TypeInv /\ TypeInv' /\ OutInv /\ HalfInv /\ [Next]_vars => HalfInv'
  BY HalfStep
<1>3. Init => HalfInv
  BY HalfInit
<1>4. Init => EventsInv
  BY ControlInit
<1>5. Init => ReportInv
  BY DEF Init, ReportInv, ReportedOnce, NoObject
<1>6. TypeInv /\ EventsInv /\ [Next]_vars => EventsInv'
  BY EventsStep
<1>7. TypeInv /\ EventsInv /\ ReportInv /\ [Next]_vars => ReportInv'
  BY ReportStep
<1>8. TypeInv /\ NoNullMessage /\ ReportInv /\ OutInv /\ HalfInv
         => SentMeansTransmitted
  BY ReportedIsOut
<1>. QED
  BY OutInit, <1>1, <1>2, <1>3, <1>4, <1>5, <1>6, <1>7, <1>8,
     NoNullMessageSent, TypeInvariant, PTL DEF Spec

=============================================================================
