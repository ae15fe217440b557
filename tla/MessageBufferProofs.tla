------------------------ MODULE MessageBufferProofs ------------------------
(***************************************************************************)
(* What the operators of a buffer and of the basic codec return, for every  *)
(* buffer: the facts the proofs about a session cite.                       *)
(***************************************************************************)
EXTENDS BasicProtocolCodec, SequenceTheorems, WellFoundedInduction, TLAPS

\* Appending bytes to bytes.
LEMMA Joined ==
    ASSUME NEW s \in Seq(Nat), NEW t \in Seq(Nat)
    PROVE  /\ s \o t \in Seq(Nat)
           /\ Len(s \o t) = Len(s) + Len(t)
           /\ \A i \in 1..Len(s) : (s \o t)[i] = s[i]
           /\ \A i \in 1..Len(t) : (s \o t)[Len(s) + i] = t[i]
<1>1. s \o t \in Seq(Nat)
  OBVIOUS
<1>2. Len(s \o t) = Len(s) + Len(t)
  OBVIOUS
<1>3. \A i \in 1..Len(s) : (s \o t)[i] = s[i]
  OBVIOUS
<1>4. \A i \in 1..Len(t) : (s \o t)[Len(s) + i] = t[i]
  OBVIOUS
<1>. QED  BY <1>1, <1>2, <1>3, <1>4

\* A stretch of bytes.
LEMMA Stretch ==
    ASSUME NEW s \in Seq(Nat), NEW m \in Nat, NEW n \in Nat,
           m <= n, n <= Len(s)
    PROVE  /\ SubSeq(s, m + 1, n) \in Seq(Nat)
           /\ Len(SubSeq(s, m + 1, n)) = n - m
           /\ \A i \in 1..n - m : SubSeq(s, m + 1, n)[i] = s[m + i]
<1>1. SubSeq(s, m + 1, n) \in Seq(Nat)
  OBVIOUS
<1>2. Len(SubSeq(s, m + 1, n)) = n - m
  OBVIOUS
<1>3. \A i \in 1..n - m : SubSeq(s, m + 1, n)[i] = s[m + i]
  OBVIOUS
<1>. QED  BY <1>1, <1>2, <1>3

\* A new or reset buffer is a buffer (MessageBuffer::MessageBuffer, reset).
LEMMA EmptyBufferType ==
    EmptyBuffer \in Buffer /\ InBounds(EmptyBuffer)
BY EmptySeq DEF EmptyBuffer, Buffer, InBounds

\* put inserts the bytes at the position and moves the position behind them:
\* what precedes the new position ends with exactly these bytes.
LEMMA PutInserts ==
    ASSUME NEW b \in Buffer, InBounds(b), NEW s \in Seq(Nat)
    PROVE  /\ Put(b, s) \in Buffer
           /\ InBounds(Put(b, s))
           /\ Put(b, s).position = b.position + Len(s)
           /\ Put(b, s).limit = b.limit
           /\ \A i \in 1..b.position : Put(b, s).bs[i] = b.bs[i]
           /\ \A i \in 1..Len(s) : Put(b, s).bs[b.position + i] = s[i]
<1> DEFINE before == SubSeq(b.bs, 1, b.position)
           after  == SubSeq(b.bs, b.position + 1, Len(b.bs))
<1>a. before \in Seq(Nat) /\ Len(before) = b.position
  <2>1. before \in Seq(Nat)
    BY DEF Buffer, InBounds
  <2>2. Len(before) = b.position
    BY DEF Buffer, InBounds
  <2>. QED  BY <2>1, <2>2
<1>e. \A i \in 1..b.position : before[i] = b.bs[i]
  BY DEF Buffer, InBounds
<1>b. after \in Seq(Nat) /\ Len(after) = Len(b.bs) - b.position
  <2>1. after \in Seq(Nat)
    BY DEF Buffer, InBounds
  <2>2. Len(after) = Len(b.bs) - b.position
    BY DEF Buffer, InBounds
  <2>. QED  BY <2>1, <2>2
<1>c. Put(b, s).bs = before \o s \o after
  BY DEF Put
<1> HIDE DEF before, after
<1>d. /\ before \o s \in Seq(Nat)
      /\ Len(before \o s) = b.position + Len(s)
      /\ \A i \in 1..Len(s) : (before \o s)[b.position + i] = s[i]
  <2>1. before \o s \in Seq(Nat)
    BY <1>a, Joined
  <2>2. Len(before \o s) = b.position + Len(s)
    BY <1>a, Joined
  <2>3. \A i \in 1..Len(s) : (before \o s)[Len(before) + i] = s[i]
    BY <1>a, Joined
  <2>. QED  BY <1>a, <2>1, <2>2, <2>3
<1>1. Put(b, s).bs \in Seq(Nat) /\ Len(Put(b, s).bs) = Len(b.bs) + Len(s)
  <2>1. before \o s \o after \in Seq(Nat)
    BY <1>b, <1>d, Joined
  <2>2. Len(before \o s \o after) = Len(before \o s) + Len(after)
    BY <1>b, <1>d, Joined
  <2>. QED  BY <1>b, <1>c, <1>d, <2>1, <2>2, LenProperties DEF Buffer
<1>2. Put(b, s).position = b.position + Len(s) /\ Put(b, s).limit = b.limit
  BY DEF Put
<1>3. Put(b, s) \in Buffer
  <2>1. b.position \in Nat /\ b.limit \in Nat /\ Len(s) \in Nat
    BY LenProperties DEF Buffer
  <2>2. Put(b, s) = [bs |-> Put(b, s).bs, position |-> Put(b, s).position,
                     limit |-> Put(b, s).limit]
    BY DEF Put
  <2>3. b.position + Len(s) \in Nat
    BY <2>1
  <2>. QED  BY <1>1, <1>2, <2>1, <2>2, <2>3 DEF Buffer
<1>4. InBounds(Put(b, s))
  BY <1>1, <1>2 DEF Buffer, InBounds
<1>5. ASSUME NEW i \in 1..b.position
      PROVE  Put(b, s).bs[i] = b.bs[i]
  <2>1. (before \o s)[i] = before[i] /\ i \in 1..Len(before \o s)
    <3>1. (before \o s)[i] = before[i]
      BY <1>a, Joined
    <3>2. i \in 1..Len(before \o s)
      BY <1>d DEF Buffer
    <3>. QED  BY <3>1, <3>2
  <2>2. (before \o s \o after)[i] = (before \o s)[i]
    BY <1>b, <1>d, <2>1, Joined
  <2>. QED  BY <1>c, <1>e, <2>1, <2>2
<1>6. ASSUME NEW i \in 1..Len(s)
      PROVE  Put(b, s).bs[b.position + i] = s[i]
  <2>1. b.position + i \in 1..Len(before \o s)
    BY <1>d DEF Buffer
  <2>2. (before \o s \o after)[b.position + i] = (before \o s)[b.position + i]
    BY <1>b, <1>d, <2>1, Joined
  <2>. QED  BY <1>c, <1>d, <2>2
<1>. QED  BY <1>2, <1>3, <1>4, <1>5, <1>6

\* flip exposes what precedes the position (MessageBuffer::flip).
LEMMA FlipExposes ==
    ASSUME NEW b \in Buffer, InBounds(b)
    PROVE  /\ Flip(b) \in Buffer
           /\ InBounds(Flip(b))
           /\ Flip(b).bs = b.bs
           /\ Flip(b).position = 0
           /\ Flip(b).limit = b.position
BY DEF Flip, At, Buffer, InBounds

\* read(n) returns the n bytes from the position on (MessageBuffer::read).
LEMMA BytesRead ==
    ASSUME NEW b \in Buffer, NEW n \in Nat, b.position + n <= Len(b.bs)
    PROVE  /\ Bytes(b, n) \in Seq(Nat)
           /\ Len(Bytes(b, n)) = n
           /\ \A i \in 1..n : Bytes(b, n)[i] = b.bs[b.position + i]
<1> DEFINE s == b.bs
           m == b.position
<1>1. s \in Seq(Nat) /\ m \in Nat /\ m + n <= Len(s)
  BY DEF Buffer
<1>2. Bytes(b, n) = SubSeq(s, m + 1, m + n)
  BY DEF Bytes
<1> HIDE DEF s, m
<1>3. m + n \in Nat /\ m <= m + n /\ (m + n) - m = n
  BY <1>1
<1>4. /\ SubSeq(s, m + 1, m + n) \in Seq(Nat)
      /\ Len(SubSeq(s, m + 1, m + n)) = (m + n) - m
      /\ \A i \in 1..(m + n) - m : SubSeq(s, m + 1, m + n)[i] = s[m + i]
  BY <1>1, <1>3, Stretch
<1>. QED  BY <1>2, <1>3, <1>4 DEF s, m

\* transformDown moves what is left of a flipped message to an emptied buffer
\* and leaves the message as it was: calling it again gives the same bytes.
LEMMA TransformDownMoves ==
    ASSUME NEW in \in Buffer, InBounds(in), in.position <= in.limit
    PROVE  /\ TransformDownOut(in) \in Buffer
           /\ InBounds(TransformDownOut(in))
           /\ TransformDownOut(in).position = 0
           /\ TransformDownOut(in).limit = in.limit - in.position
           /\ \A i \in 1..in.limit - in.position :
                 TransformDownOut(in).bs[i] = in.bs[in.position + i]
           /\ TransformDownIn(in) = [bs       |-> in.bs,
                                     position |-> 0,
                                     limit    |-> in.limit]
<1> DEFINE n == in.limit - in.position
           s == Bytes(in, n)
<1>1. n \in Nat /\ in.position \in Nat /\ in.position + n <= Len(in.bs)
  BY LenProperties DEF Buffer, InBounds
<1>2. s \in Seq(Nat) /\ Len(s) = n
      /\ \A i \in 1..n : s[i] = in.bs[in.position + i]
  BY <1>1, BytesRead
<1>3. EmptyBuffer \in Buffer /\ InBounds(EmptyBuffer)
      /\ EmptyBuffer.position = 0
  BY EmptyBufferType DEF EmptyBuffer
<1> HIDE DEF s
<1>4. /\ Put(EmptyBuffer, s) \in Buffer /\ InBounds(Put(EmptyBuffer, s))
      /\ Put(EmptyBuffer, s).position = n
  BY <1>1, <1>2, <1>3, PutInserts
<1>5. \A i \in 1..n : Put(EmptyBuffer, s).bs[i] = s[i]
  <2>1. \A i \in 1..Len(s) :
           Put(EmptyBuffer, s).bs[EmptyBuffer.position + i] = s[i]
    BY <1>2, <1>3, PutInserts
  <2>. QED  BY <1>1, <1>2, <1>3, <2>1
<1>6. TransformDownOut(in) = Flip(Put(EmptyBuffer, s))
  BY DEF TransformDownOut, Remaining, s
<1>7. TransformDownIn(in) = [bs |-> in.bs, position |-> 0, limit |-> in.limit]
  BY DEF TransformDownIn, AfterRead, Flip, At, Remaining, Buffer
<1>. QED  BY <1>2, <1>4, <1>5, <1>6, <1>7, FlipExposes


\* readUntil stops: at the first mark, or at the limit when there is none
\* before it (MessageBuffer::readUntil, sreadUntil).
LEMMA ReadUntilStops ==
    ASSUME NEW b \in Buffer, InBounds(b), b.position < b.limit, NEW mark
    PROVE  /\ StopsAt(b, mark) \in (b.position + 1)..b.limit
           /\ b.bs[StopsAt(b, mark)] = mark \/ StopsAt(b, mark) = b.limit
           /\ \A q \in (b.position + 1)..(StopsAt(b, mark) - 1) : b.bs[q] # mark
<1> DEFINE from == b.position + 1
           Stop(p) == b.bs[p] = mark \/ p >= b.limit
           stops == {p \in from..Len(b.bs) : Stop(p)}
<1>1. /\ b.position \in Nat /\ b.limit \in Nat /\ Len(b.bs) \in Nat
      /\ b.limit <= Len(b.bs)
  BY LenProperties DEF Buffer, InBounds
<1>2. b.limit \in stops /\ stops \subseteq Nat
  BY <1>1
<1>3. PICK p \in stops : \A q \in stops : ~ <<q, p>> \in OpToRel(<, Nat)
  BY <1>2, NatLessThanWellFounded, WFMin
<1>4. \A q \in stops : ~ q < p
  <2> HIDE DEF stops
  <2>. QED  BY <1>2, <1>3 DEF OpToRel
<1>5. p \in from..Len(b.bs) /\ Stop(p)
  BY <1>3
<1>6. \A q \in from..(p - 1) : ~Stop(q)
  BY <1>1, <1>4, <1>5
<1> DEFINE Right(x) ==
      /\ b.bs[x] = mark \/ x >= b.limit
      /\ \A q \in from..(x - 1) : b.bs[q] # mark /\ q < b.limit
<1>7. p \in from..Len(b.bs) /\ Right(p)
  BY <1>1, <1>5, <1>6
<1>8. StopsAt(b, mark) \in from..Len(b.bs) /\ Right(StopsAt(b, mark))
  <2>1. StopsAt(b, mark) = CHOOSE x \in from..Len(b.bs) : Right(x)
    BY DEF StopsAt
  <2> HIDE DEF Right
  <2>. QED  BY <1>7, <2>1
<1>9. StopsAt(b, mark) <= b.limit
  <2>1. SUFFICES ASSUME StopsAt(b, mark) > b.limit PROVE FALSE
    BY <1>1, <1>8
  <2>2. b.limit \in from..(StopsAt(b, mark) - 1)
    BY <1>1, <1>8, <2>1
  <2>. QED  BY <1>1, <1>8, <2>2
<1>. QED  BY <1>1, <1>8, <1>9

=============================================================================
