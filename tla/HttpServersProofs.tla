-------------------------- MODULE HttpServersProofs --------------------------
(***************************************************************************)
(* Proofs about the HTTP servers.  For one request to the second server and *)
(* chunks of any size: no stream stays open, and a response is as long as   *)
(* its header says and its file is, if that size is an int.  With a second   *)
(* request neither holds: it opens a stream while the first one is still     *)
(* being sent.                                                              *)
(* For any number of requests: the types of both servers, and that the third *)
(* server answers the first line of what has arrived.                       *)
(***************************************************************************)
EXTENDS HttpServers, MessageBufferProofs

OneRequest == MaxReads = 1

\* A file is being sent.
Streaming == state.readAndWriteFile /\ phase[S] = "open"

\* The inductive invariant, next to the types.

\* The stream is open as long as its file is being sent.
StreamInv == streams = IF Streaming THEN {1} ELSE {}

\* Before the request there is nothing.
StartInv ==
    /\ phase[S] = "unborn" => reads = 0
    /\ reads = 0 => /\ ~state.readAndWriteFile
                    /\ pending[S] = None
                    /\ announced[1] = 0 /\ body[1] = 0

\* The file can be sent as it is: its size is an int, and nobody changes it.
Exact == FitsInt(1) /\ ~shrunk /\ ~grown

\* Such a size is what the header says.
SizeInv == FitsInt(1) => announced[1] = size[1]

\* What was read of such a file and what is still in it make up its length.
FileInv ==
    Streaming =>
       /\ state.is = 1
       /\ Exact => /\ state.length = announced[1]
                   /\ state.nwritten + left = state.length

\* Only chunks carry bytes of the file.
PendingInv ==
    /\ pending[S].kind \in {"header", "chunk"} => pending[S].of = 1
    /\ pending[S].kind # "chunk" => pending[S].bytes = 0

\* What was sent and the chunk that waits are what was read of the file; all of
\* it once the stream is closed.
SentInv ==
    Exact /\ phase[S] # "gone" =>
       body[1] + pending[S].bytes =
          IF state.readAndWriteFile THEN state.nwritten ELSE announced[1]

DoneInv ==
    completed => phase[S] = "gone" /\ (Exact => body[1] = announced[1])

StreamsInv ==
    /\ StreamInv /\ StartInv /\ SizeInv /\ FileInv /\ PendingInv /\ SentInv
    /\ DoneInv

HttpInv == TypeOK /\ StreamsInv

-----------------------------------------------------------------------------
Kinds == {"header", "page", "chunk"}
Whole == [kind : Kinds, of : 0..MaxReads, bytes : 0..ReadBuffSize]
States == [is : 0..MaxReads, readAndWriteFile : BOOLEAN,
           length : 0..(SizeBound - 1), nwritten : Nat]
Ints == -IntBound..(IntBound - 1)
Sizes == Lengths \cup {Unopened}

\* The types, as far as the steps need them.
LEMMA Types ==
    ASSUME TypeOK, OneRequest
    PROVE  /\ phase \in [{S} -> {"unborn", "open", "gone"}]
           /\ pending \in [{S} -> Whole \cup {None}]
           /\ last \in [{S} -> Whole \cup {None}]
           /\ rd \in [{S} -> BOOLEAN] /\ wr \in [{S} -> BOOLEAN]
           /\ state \in States
           /\ left \in Nat /\ reads \in 0..1 /\ streams \subseteq {1}
           /\ headers \subseteq {1}
           /\ size \in [{1} -> Sizes] /\ announced \in [{1} -> Ints]
           /\ body \in [{1} -> Nat]
           /\ completed \in BOOLEAN /\ shrunk \in BOOLEAN /\ grown \in BOOLEAN
<1>1. 1..MaxReads = {1}
  BY DEF OneRequest
<1>. QED  BY <1>1 DEF TypeOK, SessionsType, Messages, OneRequest, Whole, Kinds,
                      States, Ints, Sizes

\* The same, put together again after a step.
LEMMA TypesAfter ==
    ASSUME OneRequest,
           phase' \in [{S} -> {"unborn", "open", "gone"}],
           pending' \in [{S} -> Whole \cup {None}],
           last' \in [{S} -> Whole \cup {None}],
           rd' \in [{S} -> BOOLEAN], wr' \in [{S} -> BOOLEAN],
           state' \in States,
           left' \in Nat, reads' \in 0..1, streams' \subseteq {1},
           headers' \subseteq {1}, size' \in [{1} -> Sizes],
           announced' \in [{1} -> Ints], body' \in [{1} -> Nat],
           completed' \in BOOLEAN, shrunk' \in BOOLEAN, grown' \in BOOLEAN
    PROVE  TypeOK'
<1>1. 1..MaxReads = {1}
  BY DEF OneRequest
<1>. QED  BY <1>1 DEF TypeOK, SessionsType, Messages, OneRequest, Whole, Kinds,
                      States, Ints, Sizes

\* What becomes of a file's size on its way to the header and to state.length:
\* an int and a size_t, and the size itself if it is an int.
LEMMA Conversions ==
    ASSUME NEW end \in Sizes
    PROVE  /\ ToInt(end) \in Ints
           /\ ToSizeT(ToInt(end)) \in 0..(SizeBound - 1)
           /\ end \in 0..(IntBound - 1) =>
                 ToInt(end) = end /\ ToSizeT(ToInt(end)) = end
<1>1. /\ end \in Int /\ IntBound \in Nat \ {0} /\ SizeBound \in Nat
      /\ IntBound < SizeBound
  BY HttpAssumption DEF Sizes, Unopened
<1> DEFINE m == 2 * IntBound
           x == end + IntBound
<1>2. m \in Nat \ {0} /\ x \in Int
  BY <1>1
<1>3. x % m \in 0..(m - 1)
  <2> HIDE DEF m, x
  <2>. QED  BY <1>2
<1>4. x \in 0..(m - 1) => x % m = x
  <2> HIDE DEF m, x
  <2>. QED  BY <1>2
<1>5. ToInt(end) = (x % m) - IntBound
  BY DEF ToInt
<1>6. end \in 0..(IntBound - 1) => x \in 0..(m - 1)
  BY <1>1
<1> DEFINE r == x % m
<1>7. r \in 0..(2 * IntBound - 1) /\ ToInt(end) = r - IntBound
  BY <1>3, <1>5
<1>8. end \in 0..(IntBound - 1) => r = end + IntBound
  BY <1>4, <1>6
<1> HIDE DEF r
<1>9. ToInt(end) \in Ints
  BY <1>1, <1>7 DEF Ints
<1>10. end \in 0..(IntBound - 1) => ToInt(end) = end
  BY <1>1, <1>7, <1>8
<1>11. ToSizeT(ToInt(end)) \in 0..(SizeBound - 1)
  BY <1>1, <1>9 DEF ToSizeT, Ints
<1>12. end \in 0..(IntBound - 1) => ToSizeT(end) = end
  BY DEF ToSizeT
<1>. QED  BY <1>9, <1>10, <1>11, <1>12

\* A message, taken apart.
LEMMA MessageParts ==
    ASSUME OneRequest, NEW m \in Whole \cup {None}
    PROVE  m.bytes \in Nat /\ m.kind \in Kinds \cup {"none"} /\ m.of \in {0, 1}
BY HttpAssumption DEF Whole, Kinds, None, Message, OneRequest, NoStream

\* What the callbacks do to the session.
LEMMA SessionSteps ==
    ASSUME TypeOK, OneRequest, NEW out \in Whole \cup {None},
           NEW close \in BOOLEAN, NEW more \in BOOLEAN,
           \/ Opened(S, out, close) \/ Sent(S, out, close)
           \/ Received(S, out, close, more)
    PROVE  /\ phase' \in [{S} -> {"unborn", "open", "gone"}]
           /\ pending' \in [{S} -> Whole \cup {None}]
           /\ last' \in [{S} -> Whole \cup {None}]
           /\ rd' \in [{S} -> BOOLEAN] /\ wr' \in [{S} -> BOOLEAN]
           /\ phase'[S] = IF close THEN "gone" ELSE "open"
           /\ pending'[S] = out
<1>1. Reported(S) \in Whole \cup {None}
  BY Types DEF Reported
<1>2. /\ pending' = [pending EXCEPT ![S] = out]
      /\ last' = last \/ last' = [last EXCEPT ![S] = Reported(S)]
      /\ phase' = [phase EXCEPT ![S] = IF close THEN "gone" ELSE "open"]
  BY DEF Opened, Sent, Received, LeaveOpen
<1>3. /\ phase' \in [{S} -> {"unborn", "open", "gone"}]
      /\ pending' \in [{S} -> Whole \cup {None}]
      /\ last' \in [{S} -> Whole \cup {None}]
      /\ phase'[S] = IF close THEN "gone" ELSE "open"
      /\ pending'[S] = out
  BY <1>1, <1>2, Types
<1>4. PICK r, w \in BOOLEAN : LeaveOpen(S, close, r, w)
  <2>1. rd[S] \in BOOLEAN /\ wr[S] \in BOOLEAN
    BY Types
  <2>. QED  BY <2>1 DEF Opened, Sent, Received
<1>5. rd' \in [{S} -> BOOLEAN] /\ wr' \in [{S} -> BOOLEAN]
  BY <1>4, Types DEF LeaveOpen
<1>. QED  BY <1>3, <1>5

\* The messages of the server are such.
LEMMA MessagesAre ==
    ASSUME OneRequest
    PROVE  /\ Header(1) \in Whole /\ Page \in Whole
           /\ \A n \in 0..ReadBuffSize : Content(1, n) \in Whole
BY HttpAssumption DEF Header, Page, Content, Message, Whole, Kinds, OneRequest,
                      NoStream

-----------------------------------------------------------------------------
(***************************************************************************)
(* The steps of the second server.                                          *)
(***************************************************************************)
\* sessionOpened
LEMMA ConnectedStep ==
    ASSUME HttpInv, OneRequest, Connected
    PROVE  HttpInv'
<1>1. TypeOK /\ StreamsInv
  BY DEF HttpInv
<1>2. Opened(S, None, FALSE) /\ phase[S] = "unborn" /\ reads = 0
  BY <1>1 DEF Connected, Opened, StreamsInv, StartInv
<1>3. UNCHANGED <<state, left, streams, reads, headers, size, announced, body,
                  completed, shrunk, grown>>
  BY DEF Connected, sent, file
<1>4. /\ phase' \in [{S} -> {"unborn", "open", "gone"}]
      /\ pending' \in [{S} -> Whole \cup {None}]
      /\ last' \in [{S} -> Whole \cup {None}]
      /\ rd' \in [{S} -> BOOLEAN] /\ wr' \in [{S} -> BOOLEAN]
      /\ phase'[S] = "open" /\ pending'[S] = None
  BY <1>1, <1>2, SessionSteps
<1>5. /\ ~state.readAndWriteFile /\ pending[S] = None
      /\ announced[1] = 0 /\ body[1] = 0
  BY <1>1, <1>2 DEF StreamsInv, StartInv
<1>6. TypeOK'
  BY <1>1, <1>3, <1>4, Types, TypesAfter
<1>7. StreamInv' /\ SizeInv' /\ FileInv'
  BY <1>1, <1>3, <1>5 DEF StreamsInv, StreamInv, SizeInv, FileInv, FitsInt,
                          Streaming
<1>8. StartInv' /\ PendingInv'
  BY <1>3, <1>4, <1>5 DEF StartInv, PendingInv, None, Message
<1>9. SentInv' /\ DoneInv'
  <2>1. ~completed
    BY <1>1, <1>2 DEF StreamsInv, DoneInv
  <2>2. None.bytes = 0
    BY DEF None, Message
  <2>. QED  BY <1>3, <1>4, <1>5, <2>1, <2>2 DEF SentInv, DoneInv
<1>. QED  BY <1>6, <1>7, <1>8, <1>9 DEF HttpInv, StreamsInv

\* A session that has ended has nothing to be accounted for.
LEMMA GoneStep ==
    ASSUME HttpInv, OneRequest, phase[S] = "open",
           phase' = [phase EXCEPT ![S] = "gone"],
           rd' = [rd EXCEPT ![S] = FALSE], wr' = [wr EXCEPT ![S] = FALSE],
           UNCHANGED <<pending, last, left, headers, size, announced, body,
                       completed, shrunk, grown>>,
           streams' = {}, state' \in States,
           state'.readAndWriteFile = state.readAndWriteFile,
           reads' \in 0..1, reads' = 0 => reads = 0
    PROVE  HttpInv'
<1>1. TypeOK /\ StreamsInv
  BY DEF HttpInv
<1>2. phase'[S] = "gone"
  BY <1>1, Types
<1>3. TypeOK'
  <2>1. /\ phase' \in [{S} -> {"unborn", "open", "gone"}]
        /\ rd' \in [{S} -> BOOLEAN] /\ wr' \in [{S} -> BOOLEAN]
    BY <1>1, Types
  <2>. QED  BY <1>1, <2>1, Types, TypesAfter
<1>4. StreamInv' /\ FileInv' /\ SentInv'
  BY <1>2 DEF StreamInv, FileInv, SentInv, Streaming
<1>5. SizeInv' /\ PendingInv'
  BY <1>1 DEF StreamsInv, SizeInv, FitsInt, PendingInv
<1>6. StartInv'
  BY <1>1, <1>2 DEF StreamsInv, StartInv
<1>7. DoneInv'
  BY <1>1 DEF StreamsInv, DoneInv
<1>. QED  BY <1>3, <1>4, <1>5, <1>6, <1>7 DEF HttpInv, StreamsInv

\* sessionClosed
LEMMA DisconnectedStep ==
    ASSUME HttpInv, OneRequest, Disconnected
    PROVE  HttpInv'
<1>1. TypeOK /\ StreamsInv
  BY DEF HttpInv
<1>2. /\ phase[S] = "open"
      /\ phase' = [phase EXCEPT ![S] = "gone"]
      /\ rd' = [rd EXCEPT ![S] = FALSE] /\ wr' = [wr EXCEPT ![S] = FALSE]
      /\ UNCHANGED <<pending, last, left, reads, headers, size, announced, body,
                     completed, shrunk, grown>>
  BY DEF Disconnected, Ended, LeaveOpen, sent, file
<1>3. /\ streams' = {} /\ state' \in States
      /\ state'.readAndWriteFile = state.readAndWriteFile
  <2>1. streams = IF state.readAndWriteFile THEN {1} ELSE {}
    BY <1>1, <1>2 DEF StreamsInv, StreamInv, Streaming
  <2>2. CASE state.readAndWriteFile
    <3>1. state.is = 1
      BY <1>1, <1>2, <2>2 DEF StreamsInv, FileInv, Streaming
    <3>2. state' = [state EXCEPT !.is = NoStream] /\ streams' = streams \ {1}
      BY <2>2, <3>1 DEF Disconnected, SessionClosed
    <3>3. state \in States /\ NoStream \in 0..MaxReads
      BY <1>1, Types DEF NoStream, OneRequest
    <3>. QED  BY <2>1, <2>2, <3>2, <3>3 DEF States
  <2>3. CASE ~state.readAndWriteFile
    BY <1>1, <2>1, <2>3, Types DEF Disconnected, SessionClosed
  <2>. QED  BY <2>2, <2>3
<1>4. reads' \in 0..1
  BY <1>1, <1>2, Types
<1>. QED  BY <1>2, <1>3, <1>4, GoneStep

\* messageReceived throws: the process ends and its streams are closed.
LEMMA ThrownStep ==
    ASSUME HttpInv, OneRequest, Thrown
    PROVE  HttpInv'
<1>1. TypeOK
  BY DEF HttpInv
<1>2. /\ phase[S] = "open"
      /\ phase' = [phase EXCEPT ![S] = "gone"]
      /\ rd' = [rd EXCEPT ![S] = FALSE] /\ wr' = [wr EXCEPT ![S] = FALSE]
      /\ UNCHANGED <<pending, last, state, left, headers, size, announced, body,
                     completed, shrunk, grown>>
      /\ streams' = {} /\ reads < MaxReads /\ reads' = reads + 1
  BY DEF Thrown, Ended, LeaveOpen, sent, file
<1>3. reads' \in 0..1 /\ reads' # 0
  BY <1>1, <1>2, Types DEF OneRequest
<1>4. state' \in States /\ state'.readAndWriteFile = state.readAndWriteFile
  BY <1>1, <1>2, Types
<1>. QED  BY <1>2, <1>3, <1>4, GoneStep

\* The file is truncated or appended to.
LEMMA FileResizedStep ==
    ASSUME HttpInv, OneRequest, FileResized
    PROVE  HttpInv'
<1>1. TypeOK /\ StreamsInv
  BY DEF HttpInv
<1>2. /\ phase[S] = "open" /\ left' \in Lengths \cup {0}
      /\ shrunk' = (shrunk \/ left' < left) /\ grown' = (grown \/ left' > left)
      /\ UNCHANGED <<phase, pending, last, rd, wr, state, streams, reads,
                     headers, size, announced, body, completed>>
  BY DEF FileResized, sent
<1>3. left' \in Nat /\ left \in Nat
  BY <1>1, <1>2, Types, HttpAssumption
<1>4. shrunk' \in BOOLEAN /\ grown' \in BOOLEAN
  BY <1>1, <1>2, Types
<1>5. TypeOK'
  BY <1>1, <1>2, <1>3, <1>4, Types, TypesAfter
<1>6. Exact' => Exact
  BY <1>2 DEF Exact, FitsInt
<1>7. Exact' => left' = left
  <2>1. Exact' => ~(left' < left) /\ ~(left' > left)
    BY <1>2 DEF Exact
  <2>. QED  BY <1>3, <2>1
<1>8. FileInv'
  BY <1>1, <1>2, <1>6, <1>7 DEF StreamsInv, FileInv, Streaming
<1>9. StreamInv' /\ StartInv' /\ SizeInv' /\ PendingInv'
  BY <1>1, <1>2 DEF StreamsInv, StreamInv, StartInv, SizeInv, FitsInt,
                    PendingInv, Streaming
<1>10. SentInv' /\ DoneInv'
  BY <1>1, <1>2, <1>6 DEF StreamsInv, SentInv, DoneInv
<1>. QED  BY <1>5, <1>8, <1>9, <1>10 DEF HttpInv, StreamsInv

\* messageReceived is called when there is nothing yet.
LEMMA RequestIsFirst ==
    ASSUME HttpInv, OneRequest, MessageReceived
    PROVE  /\ phase[S] = "open" /\ reads = 0 /\ reads' = 1
           /\ ~state.readAndWriteFile /\ pending[S] = None
           /\ announced[1] = 0 /\ body[1] = 0 /\ streams = {} /\ ~completed
           /\ UNCHANGED <<headers, body, completed, shrunk, grown>>
<1>1. TypeOK /\ StreamsInv
  BY DEF HttpInv
<1>2. phase[S] = "open"
  BY DEF MessageReceived, FileRequested, PageWritten, Received
<1>3. reads = 0 /\ reads' = 1
  BY <1>1, Types DEF MessageReceived, OneRequest
<1>4. /\ ~state.readAndWriteFile /\ pending[S] = None
      /\ announced[1] = 0 /\ body[1] = 0
  BY <1>1, <1>3 DEF StreamsInv, StartInv
<1>5. streams = {} /\ ~completed
  BY <1>1, <1>2, <1>4 DEF StreamsInv, StreamInv, DoneInv, Streaming
<1>. QED  BY <1>2, <1>3, <1>4, <1>5 DEF MessageReceived, sent, file

\* A request for a file.
LEMMA FileRequestedStep ==
    ASSUME HttpInv, OneRequest, MessageReceived, NEW reading \in BOOLEAN,
           FileRequested(reading)
    PROVE  HttpInv'
<1>1. TypeOK /\ StreamsInv
  BY DEF HttpInv
<1>2. /\ phase[S] = "open" /\ reads = 0 /\ reads' = 1
      /\ body[1] = 0 /\ streams = {} /\ ~completed
      /\ UNCHANGED <<headers, body, completed, shrunk, grown>>
  BY RequestIsFirst
<1> DEFINE st(len) == [is |-> 1, readAndWriteFile |-> TRUE,
                       length |-> len, nwritten |-> 0]
<1>3. PICK end \in Sizes :
         /\ Received(S, Header(1), reading, reading)
         /\ left' = IF end = Unopened THEN 0 ELSE end
         /\ Leave(st(ToSizeT(ToInt(end))), streams \cup {1}, reading)
         /\ announced' = [announced EXCEPT ![1] = ToInt(end)]
         /\ size' = [size EXCEPT ![1] = end]
  <2>1. reads + 1 = 1
    BY <1>2
  <2>. QED  BY <2>1 DEF FileRequested, Sizes
<1> DEFINE len == ToSizeT(ToInt(end))
<1>4. /\ ToInt(end) \in Ints /\ len \in 0..(SizeBound - 1)
      /\ end \in 0..(IntBound - 1) => ToInt(end) = end /\ len = end
  BY Conversions
<1>5. Leave(st(len), streams \cup {1}, reading)
  BY <1>3
<1> HIDE DEF len
<1>6. /\ phase' \in [{S} -> {"unborn", "open", "gone"}]
      /\ pending' \in [{S} -> Whole \cup {None}]
      /\ last' \in [{S} -> Whole \cup {None}]
      /\ rd' \in [{S} -> BOOLEAN] /\ wr' \in [{S} -> BOOLEAN]
      /\ phase'[S] = IF reading THEN "gone" ELSE "open"
      /\ pending'[S] = Header(1)
  BY <1>1, <1>3, MessagesAre, SessionSteps
<1>7. /\ streams' = IF reading THEN {} ELSE {1}
      /\ state'.is = IF reading THEN 0 ELSE 1
      /\ state'.readAndWriteFile /\ state'.length = len /\ state'.nwritten = 0
      /\ state' \in States
  <2>2. st(len) \in States
    BY <1>4 DEF States, OneRequest
  <2>3. st(len).readAndWriteFile /\ st(len).is = 1
    OBVIOUS
  <2>4. CASE reading
    <3>1. /\ state' = [st(len) EXCEPT !.is = 0]
          /\ streams' = (streams \cup {1}) \ {1}
      BY <1>5, <2>3, <2>4 DEF Leave, SessionClosed, NoStream
    <3>2. /\ state'.is = 0 /\ state'.readAndWriteFile
          /\ state'.length = len /\ state'.nwritten = 0
          /\ state' = [is |-> 0, readAndWriteFile |-> TRUE,
                       length |-> len, nwritten |-> 0]
      BY <3>1
    <3>3. state' \in States
      BY <1>4, <3>2 DEF States, OneRequest
    <3>. QED  BY <1>2, <2>4, <3>1, <3>2, <3>3
  <2>5. CASE ~reading
    <3>1. state' = st(len) /\ streams' = streams \cup {1}
      BY <1>5, <2>5 DEF Leave
    <3>2. /\ state'.is = 1 /\ state'.readAndWriteFile
          /\ state'.length = len /\ state'.nwritten = 0
      BY <3>1
    <3>. QED  BY <1>2, <2>2, <2>5, <3>1, <3>2
  <2>. QED  BY <2>4, <2>5
<1> HIDE DEF st
<1>8. /\ announced' \in [{1} -> Ints] /\ announced'[1] = ToInt(end)
      /\ size' \in [{1} -> Sizes] /\ size'[1] = end
  BY <1>1, <1>3, <1>4, Types
<1>9. TypeOK'
  <2>1. left' \in Nat
    BY <1>3, HttpAssumption DEF Sizes
  <2>2. reads' \in 0..1 /\ streams' \subseteq {1}
    BY <1>2, <1>7
  <2>. QED  BY <1>1, <1>2, <1>6, <1>7, <1>8, <2>1, <2>2, Types, TypesAfter
<1>10. StreamInv' /\ SizeInv' /\ FileInv'
  <2>1. FitsInt(1)' => end \in 0..(IntBound - 1)
    BY <1>8 DEF FitsInt
  <2>2. SizeInv'
    BY <1>8, <1>4, <2>1 DEF SizeInv
  <2>3. StreamInv'
    BY <1>6, <1>7 DEF StreamInv, Streaming
  <2>4. ASSUME Streaming', Exact'
        PROVE  /\ state'.length = announced'[1]
               /\ state'.nwritten + left' = state'.length
    <3>1. end \in 0..(IntBound - 1)
      BY <2>1, <2>4 DEF Exact
    <3>2. end # Unopened /\ end \in Nat
      BY <3>1, HttpAssumption DEF Unopened
    <3>. QED  BY <1>3, <1>7, <1>8, <1>4, <3>1, <3>2
  <2>5. Streaming' => state'.is = 1
    BY <1>6, <1>7 DEF Streaming
  <2>. QED  BY <2>2, <2>3, <2>4, <2>5 DEF FileInv
<1>11. StartInv' /\ PendingInv' /\ DoneInv'
  BY <1>2, <1>6 DEF StartInv, PendingInv, DoneInv, Header, Message
<1>12. SentInv'
  <2>1. Header(1).bytes = 0
    BY DEF Header, Message
  <2>. QED  BY <1>2, <1>6, <1>7, <2>1 DEF SentInv
<1>. QED  BY <1>9, <1>10, <1>11, <1>12 DEF HttpInv, StreamsInv

\* A request that is answered by a page.
LEMMA PageWrittenStep ==
    ASSUME HttpInv, OneRequest, MessageReceived, NEW reading \in BOOLEAN,
           PageWritten(reading)
    PROVE  HttpInv'
<1>1. TypeOK /\ StreamsInv
  BY DEF HttpInv
<1>2. /\ phase[S] = "open" /\ reads' = 1 /\ ~state.readAndWriteFile
      /\ announced[1] = 0 /\ body[1] = 0 /\ streams = {} /\ ~completed
      /\ UNCHANGED <<headers, body, completed, shrunk, grown>>
  BY RequestIsFirst
<1>3. /\ Received(S, Page, reading, reading)
      /\ UNCHANGED <<state, streams, left, announced, size>>
  BY <1>2 DEF PageWritten, Leave, SessionClosed
<1>4. /\ phase' \in [{S} -> {"unborn", "open", "gone"}]
      /\ pending' \in [{S} -> Whole \cup {None}]
      /\ last' \in [{S} -> Whole \cup {None}]
      /\ rd' \in [{S} -> BOOLEAN] /\ wr' \in [{S} -> BOOLEAN]
      /\ pending'[S] = Page
  BY <1>1, <1>3, MessagesAre, SessionSteps
<1>5. TypeOK'
  BY <1>1, <1>2, <1>3, <1>4, Types, TypesAfter
<1>6. StreamInv' /\ SizeInv' /\ FileInv' /\ SentInv'
  <2>1. Page.bytes = 0
    BY DEF Page, Message
  <2>2. SizeInv'
    BY <1>1, <1>3 DEF StreamsInv, SizeInv, FitsInt
  <2>. QED  BY <1>2, <1>3, <1>4, <2>1, <2>2
            DEF StreamInv, FileInv, SentInv, Streaming
<1>7. StartInv' /\ PendingInv' /\ DoneInv'
  <2>1. Page.kind = "page" /\ Page.bytes = 0
    BY DEF Page, Message
  <2>2. "unborn" # "open" /\ phase'[S] # "unborn"
    BY <1>3, <1>1, MessagesAre, SessionSteps
  <2>. QED  BY <1>2, <1>4, <2>1, <2>2 DEF StartInv, PendingInv, DoneInv
<1>. QED  BY <1>5, <1>6, <1>7 DEF HttpInv, StreamsInv

\* What is sent counts, if it is part of a file.
LEMMA TransmittedCounts ==
    ASSUME HttpInv, OneRequest, Transmitted
    PROVE  /\ headers' \subseteq {1} /\ body' \in [{1} -> Nat]
           /\ body'[1] = body[1] + pending[S].bytes
<1>1. TypeOK /\ PendingInv
  BY DEF HttpInv, StreamsInv
<1>2. /\ pending[S].bytes \in Nat
      /\ pending[S].kind \in {"header", "chunk"} => pending[S].of = 1
      /\ pending[S].kind # "chunk" => pending[S].bytes = 0
  BY <1>1, Types, MessageParts DEF PendingInv
<1>3. headers \subseteq {1} /\ body \in [{1} -> Nat] /\ body[1] \in Nat
  BY <1>1, Types
<1>4. headers' \subseteq {1}
  <2>1. headers' = IF pending[S].kind = "header"
                   THEN headers \cup {pending[S].of} ELSE headers
    BY DEF Transmitted
  <2>. QED  BY <1>2, <1>3, <2>1
<1>5. CASE pending[S].kind = "chunk"
  <2>1. body' = [body EXCEPT ![1] = body[1] + pending[S].bytes]
    BY <1>2, <1>5 DEF Transmitted
  <2>. QED  BY <1>2, <1>3, <1>4, <1>5, <2>1
<1>6. CASE pending[S].kind # "chunk"
  <2>1. body' = body
    BY <1>6 DEF Transmitted
  <2>. QED  BY <1>2, <1>3, <1>4, <1>6, <2>1
<1>. QED  BY <1>5, <1>6

\* A chunk is read and written: the last one closes the stream.
LEMMA NextChunkStep ==
    ASSUME HttpInv, OneRequest, NextChunk
    PROVE  HttpInv'
<1>1. TypeOK /\ StreamsInv
  BY DEF HttpInv
<1>2. /\ phase[S] = "open" /\ state.readAndWriteFile
      /\ state.nwritten < state.length /\ Streaming
      /\ UNCHANGED <<reads, size, announced, completed, shrunk, grown>>
  BY DEF NextChunk, MoreToSend, Sent, Streaming, file
<1>3. /\ state.is = 1 /\ streams = {1}
      /\ Exact => /\ state.length = announced[1]
                  /\ state.nwritten + left = state.length
  BY <1>1, <1>2 DEF StreamsInv, StreamInv, FileInv
<1>4. /\ state.nwritten \in Nat /\ state.length \in Nat /\ left \in Nat
      /\ state \in States /\ ReadBuffSize \in Nat
  BY <1>1, Types, HttpAssumption DEF States
<1> DEFINE n == Min2(ReadBuffSize, left)
<1>5. n \in 0..ReadBuffSize /\ n <= left /\ left - n \in Nat
  BY <1>4 DEF Min2
<1>6. /\ Sent(S, Content(1, n), FALSE) /\ left' = left - n /\ Transmitted
      /\ IF Counted(n) = state.length
         THEN /\ state' = [is |-> NoStream, readAndWriteFile |-> FALSE,
                           length |-> 0, nwritten |-> 0]
              /\ streams' = streams \ {1}
         ELSE /\ state' = [state EXCEPT !.nwritten = Counted(n)]
              /\ UNCHANGED streams
  BY <1>3 DEF NextChunk
<1> HIDE DEF n
<1>7. /\ phase' \in [{S} -> {"unborn", "open", "gone"}]
      /\ pending' \in [{S} -> Whole \cup {None}]
      /\ last' \in [{S} -> Whole \cup {None}]
      /\ rd' \in [{S} -> BOOLEAN] /\ wr' \in [{S} -> BOOLEAN]
      /\ phase'[S] = "open" /\ pending'[S] = Content(1, n)
  BY <1>1, <1>5, <1>6, MessagesAre, SessionSteps
<1>8. /\ headers' \subseteq {1} /\ body' \in [{1} -> Nat]
      /\ body'[1] = body[1] + pending[S].bytes
  BY <1>6, TransmittedCounts
<1>9. Exact => body'[1] = state.nwritten
  BY <1>1, <1>2, <1>8 DEF StreamsInv, SentInv
<1>10. /\ Content(1, n).bytes = n /\ Content(1, n).kind = "chunk"
       /\ Content(1, n).of = 1
  BY DEF Content, Message
<1>11. reads' = reads /\ reads # 0
  BY <1>1, <1>2 DEF StreamsInv, StartInv
<1>12. StartInv' /\ PendingInv'
  BY <1>7, <1>10, <1>11 DEF StartInv, PendingInv
<1>13. DoneInv' /\ SizeInv'
  BY <1>1, <1>2 DEF StreamsInv, DoneInv, SizeInv, FitsInt
<1>14. Exact' => Exact
  BY <1>2 DEF Exact, FitsInt
<1>15. CASE Counted(n) = state.length
  <2>1. /\ ~state'.readAndWriteFile /\ streams' = {}
        /\ state'.nwritten = 0 /\ state'.length = 0 /\ state' \in States
    <3>1. /\ state' = [is |-> 0, readAndWriteFile |-> FALSE,
                        length |-> 0, nwritten |-> 0]
          /\ streams' = {}
      BY <1>3, <1>6, <1>15 DEF NoStream
    <3>2. state' \in States
      BY <3>1, HttpAssumption DEF States, OneRequest
    <3>. QED  BY <3>1, <3>2
  <2>2. StreamInv' /\ FileInv'
    BY <2>1 DEF StreamInv, FileInv, Streaming
  <2>3. SentInv'
    <3>1. Exact => body'[1] + n = announced[1]
      BY <1>3, <1>4, <1>9, <1>15 DEF Counted
    <3>. QED  BY <1>2, <1>7, <1>10, <1>14, <2>1, <3>1 DEF SentInv
  <2>4. TypeOK'
    BY <1>1, <1>2, <1>5, <1>6, <1>7, <1>8, <2>1, Types, TypesAfter
  <2>. QED  BY <1>12, <1>13, <2>2, <2>3, <2>4 DEF HttpInv, StreamsInv
<1>16. CASE Counted(n) # state.length
  <2>1. Counted(n) = state.nwritten + n /\ Counted(n) \in Nat
    BY <1>4, <1>5 DEF Counted
  <2>2. state' = [state EXCEPT !.nwritten = Counted(n)] /\ streams' = {1}
    BY <1>3, <1>6, <1>16
  <2>3. /\ state'.readAndWriteFile /\ state'.is = 1
        /\ state'.nwritten = state.nwritten + n
        /\ state'.length = state.length /\ state' \in States
    BY <1>2, <1>3, <1>4, <2>1, <2>2 DEF States
  <2>4. Exact => state'.nwritten + left' = state'.length
    BY <1>3, <1>4, <1>5, <1>6, <2>3
  <2>5. StreamInv' /\ FileInv'
    BY <1>2, <1>3, <1>7, <1>14, <2>2, <2>3, <2>4 DEF StreamInv, FileInv, Streaming
  <2>6. SentInv'
    BY <1>2, <1>9, <1>10, <1>7, <1>14, <2>3 DEF SentInv
  <2>7. TypeOK'
    BY <1>1, <1>2, <1>5, <1>6, <1>7, <1>8, <2>2, <2>3, Types, TypesAfter
  <2>. QED  BY <1>12, <1>13, <2>5, <2>6, <2>7 DEF HttpInv, StreamsInv
<1>. QED  BY <1>15, <1>16

\* The last message is sent and the session is closed.
LEMMA AllSentStep ==
    ASSUME HttpInv, OneRequest, AllSent
    PROVE  HttpInv'
<1>1. TypeOK /\ StreamsInv
  BY DEF HttpInv
<1>2. /\ phase[S] = "open" /\ Sent(S, None, TRUE) /\ ~MoreToSend
      /\ SessionClosed(state, streams) /\ completed' = TRUE /\ Transmitted
      /\ UNCHANGED <<left, reads, size, announced, shrunk, grown>>
  BY DEF AllSent, Sent, file
<1>3. /\ phase' \in [{S} -> {"unborn", "open", "gone"}]
      /\ pending' \in [{S} -> Whole \cup {None}]
      /\ last' \in [{S} -> Whole \cup {None}]
      /\ rd' \in [{S} -> BOOLEAN] /\ wr' \in [{S} -> BOOLEAN]
      /\ phase'[S] = "gone" /\ pending'[S] = None
  BY <1>1, <1>2, SessionSteps
<1>4. /\ headers' \subseteq {1} /\ body' \in [{1} -> Nat]
      /\ body'[1] = body[1] + pending[S].bytes
  BY <1>2, TransmittedCounts
<1>5. /\ streams' = {}
      /\ state' \in States /\ state'.nwritten = state.nwritten
      /\ state'.length = state.length
      /\ state'.readAndWriteFile = state.readAndWriteFile
  <2>1. streams = IF state.readAndWriteFile THEN {1} ELSE {}
    BY <1>1, <1>2 DEF StreamsInv, StreamInv, Streaming
  <2>2. CASE state.readAndWriteFile
    <3>1. state.is = 1
      BY <1>1, <1>2, <2>2 DEF StreamsInv, FileInv, Streaming
    <3>2. state' = [state EXCEPT !.is = NoStream] /\ streams' = streams \ {1}
      BY <1>2, <2>2, <3>1 DEF SessionClosed
    <3>3. state \in States /\ NoStream \in 0..MaxReads
      BY <1>1, Types DEF NoStream, OneRequest
    <3>. QED  BY <2>1, <2>2, <3>2, <3>3 DEF States
  <2>3. CASE ~state.readAndWriteFile
    BY <1>1, <1>2, <2>1, <2>3, Types DEF SessionClosed
  <2>. QED  BY <2>2, <2>3
<1>6. Exact => body'[1] = announced[1]
  <2>1. state.nwritten \in Nat /\ state.length \in Nat /\ left \in Nat
    BY <1>1, Types, HttpAssumption DEF States
  <2>2. state.readAndWriteFile => ~(state.nwritten < state.length)
    BY <1>2 DEF MoreToSend
  <2>3. Exact /\ state.readAndWriteFile =>
           /\ state.length = announced[1]
           /\ state.nwritten + left = state.length
    BY <1>1, <1>2 DEF StreamsInv, FileInv, Streaming
  <2>4. Exact /\ state.readAndWriteFile => state.nwritten = announced[1]
    BY <2>1, <2>2, <2>3
  <2>5. Exact => body'[1] = IF state.readAndWriteFile THEN state.nwritten
                                                      ELSE announced[1]
    BY <1>1, <1>2, <1>4 DEF StreamsInv, SentInv
  <2>. QED  BY <2>4, <2>5
<1>7. TypeOK'
  BY <1>1, <1>2, <1>3, <1>4, <1>5, Types, TypesAfter
<1>8. SizeInv' /\ (Exact' => Exact)
  BY <1>1, <1>2 DEF StreamsInv, SizeInv, FitsInt, Exact
<1>9. StreamInv' /\ FileInv' /\ SentInv' /\ DoneInv'
  BY <1>2, <1>3, <1>5, <1>6, <1>8 DEF StreamInv, FileInv, SentInv, DoneInv,
                                       Streaming
<1>10. PendingInv'
  BY <1>3 DEF PendingInv, None, Message
<1>11. StartInv'
  <2>. SUFFICES ASSUME reads' = 0
                PROVE  /\ ~state'.readAndWriteFile /\ pending'[S] = None
                       /\ announced'[1] = 0 /\ body'[1] = 0
    BY <1>3 DEF StartInv
  <2>1. /\ ~state.readAndWriteFile /\ pending[S] = None
        /\ announced[1] = 0 /\ body[1] = 0
    BY <1>1, <1>2 DEF StreamsInv, StartInv
  <2>2. None.bytes = 0
    BY DEF None, Message
  <2>. QED  BY <1>2, <1>3, <1>4, <1>5, <2>1, <2>2
<1>. QED  BY <1>7, <1>9, <1>10, <1>11, <1>8 DEF HttpInv, StreamsInv

-----------------------------------------------------------------------------
(***************************************************************************)
(* The invariant, and the theorems, of both servers.  The third one has no  *)
(* streams.                                                                 *)
(***************************************************************************)
\* The second server starts with its invariant.
LEMMA HttpInvInit == ASSUME OneRequest, Init PROVE HttpInv
<1>1. /\ phase = [s \in {S} |-> "unborn"] /\ pending = [s \in {S} |-> None]
      /\ last = [s \in {S} |-> None]
      /\ rd = [s \in {S} |-> FALSE] /\ wr = [s \in {S} |-> FALSE]
      /\ state = [is |-> 0, readAndWriteFile |-> FALSE, length |-> 0,
                  nwritten |-> 0]
      /\ size = [i \in 1..MaxReads |-> Unopened]
      /\ announced = [i \in 1..MaxReads |-> 0]
      /\ body = [i \in 1..MaxReads |-> 0]
      /\ left = 0 /\ streams = {} /\ reads = 0
      /\ headers = {} /\ completed = FALSE /\ shrunk = FALSE /\ grown = FALSE
  BY DEF Init, SessionsInit, StreamInit, NoStream
<1>2. 1 \in 1..MaxReads
  BY DEF OneRequest
<1>3. TypeOK
  <2>1. SessionsType
    BY <1>1 DEF SessionsType, Messages
  <2>2. state \in [is : 0..MaxReads, readAndWriteFile : BOOLEAN,
                   length : 0..(SizeBound - 1), nwritten : Nat]
    BY <1>1, HttpAssumption DEF OneRequest
  <2>3. 0 \in -IntBound..(IntBound - 1)
    BY HttpAssumption
  <2>4. /\ size \in [1..MaxReads -> Lengths \cup {Unopened}]
        /\ announced \in [1..MaxReads -> -IntBound..(IntBound - 1)]
        /\ body \in [1..MaxReads -> Nat]
    BY <1>1, <2>3
  <2>5. /\ streams \subseteq 1..MaxReads /\ headers \subseteq 1..MaxReads
        /\ left \in Nat /\ reads \in 0..MaxReads
    BY <1>1 DEF OneRequest
  <2>6. completed \in BOOLEAN /\ shrunk \in BOOLEAN /\ grown \in BOOLEAN
    BY <1>1
  <2>. QED  BY <2>1, <2>2, <2>4, <2>5, <2>6 DEF TypeOK
<1>4. SizeInv
  BY <1>1, <1>2 DEF SizeInv, FitsInt, Unopened
<1>5. StreamsInv
  BY <1>1, <1>2, <1>4 DEF StreamsInv, StreamInv, StartInv, FileInv, PendingInv,
                          SentInv, DoneInv, Streaming, None, Message
<1>. QED  BY <1>3, <1>5 DEF HttpInv

\* Every step of the second server keeps it.
LEMMA HttpInvStep == ASSUME OneRequest, HttpInv, Next PROVE HttpInv'
<1>1. CASE Connected
  BY <1>1, ConnectedStep
<1>2. CASE MessageReceived
  <2>1. PICK reading \in BOOLEAN : FileRequested(reading) \/ PageWritten(reading)
    BY <1>2 DEF MessageReceived
  <2>. QED  BY <1>2, <2>1, FileRequestedStep, PageWrittenStep
<1>3. CASE NextChunk
  BY <1>3, NextChunkStep
<1>4. CASE AllSent
  BY <1>4, AllSentStep
<1>5. CASE Disconnected
  BY <1>5, DisconnectedStep
<1>6. CASE FileResized
  BY <1>6, FileResizedStep
<1>7. CASE Thrown
  BY <1>7, ThrownStep
<1>. QED  BY <1>1, <1>2, <1>3, <1>4, <1>5, <1>6, <1>7 DEF Next

\* The invariant of both.
ServersInv ==
    /\ version = 2 => HttpInv
    /\ version # 2 => /\ ~state.readAndWriteFile /\ streams = {}
                      /\ ~completed

\* It holds at the start.
LEMMA ServersInvInit == ASSUME OneRequest, ServersInit PROVE ServersInv
<1>1. CASE version = 2 /\ Init
  BY <1>1, HttpInvInit DEF ServersInv
<1>2. CASE version = 3 /\ StreamInit
  BY <1>2 DEF ServersInv, StreamInit
<1>. QED  BY <1>1, <1>2 DEF ServersInit

\* And is kept by both servers.
LEMMA ServersInvStep ==
    ASSUME OneRequest, ServersInv,
           [ServersNext]_<<version, session, second, third>>
    PROVE  ServersInv'
<1>1. CASE version = 2 /\ version' = 2 /\ Next
  BY <1>1, HttpInvStep DEF ServersInv
<1>2. CASE version = 3 /\ version' = 3 /\ UNCHANGED second
  BY <1>2 DEF ServersInv, second, sent
<1>3. CASE UNCHANGED <<version, session, second, third>>
  <2>1. UNCHANGED <<version, phase, pending, last, rd, wr, state, left, streams,
                    reads, headers, size, announced, body, completed, shrunk,
                    grown>>
    BY <1>3 DEF session, second, sent, file
  <2>. QED  BY <2>1 DEF ServersInv, HttpInv, TypeOK, SessionsType, StreamsInv,
              StreamInv, StartInv, SizeInv, FileInv, PendingInv, SentInv,
              DoneInv, Streaming, Exact, FitsInt
<1>. QED  BY <1>1, <1>2, <1>3 DEF ServersNext

\* It gives the properties.
LEMMA InvGives ==
    ASSUME OneRequest, ServersInv
    PROVE  StreamsClosed /\ ContentLength
<1>1. CASE version = 2
  <2>1. TypeOK /\ StreamsInv
    BY <1>1 DEF ServersInv, HttpInv
  <2>2. StreamsClosed
    BY <2>1 DEF StreamsInv, StreamInv, FileInv, StreamsClosed, Streaming
  <2>3. headers \subseteq {1}
    BY <2>1, Types
  <2>4. ContentLength
    BY <2>1, <2>3 DEF StreamsInv, DoneInv, SizeInv, Exact, ContentLength
  <2>. QED  BY <2>2, <2>4
<1>2. CASE version # 2
  BY <1>2 DEF ServersInv, StreamsClosed, ContentLength
<1>. QED  BY <1>1, <1>2

\* After one request no stream outlives its session, and while the session is
\* open its stream is, as readAndWriteFile says.
THEOREM OneRequestClosesStreams ==
    ASSUME MaxReads = 1
    PROVE  ServersSpec => []StreamsClosed
<1>1. OneRequest
  BY DEF OneRequest
<1>2. ServersInit => ServersInv
  BY <1>1, ServersInvInit
<1>3. ServersInv /\ [ServersNext]_<<version, session, second, third>>
         => ServersInv'
  BY <1>1, ServersInvStep
<1>4. ServersInv => StreamsClosed
  BY <1>1, InvGives
<1>. QED  BY <1>2, <1>3, <1>4, PTL DEF ServersSpec

\* A response that messageSent has ended is as long as its header says and its
\* file is, unless somebody has changed the file: for every file whose size is an
\* int and every size of a chunk.
THEOREM OneRequestFullLength ==
    ASSUME MaxReads = 1
    PROVE  ServersSpec => []ContentLength
<1>1. OneRequest
  BY DEF OneRequest
<1>2. ServersInit => ServersInv
  BY <1>1, ServersInvInit
<1>3. ServersInv /\ [ServersNext]_<<version, session, second, third>>
         => ServersInv'
  BY <1>1, ServersInvStep
<1>4. ServersInv => ContentLength
  BY <1>1, InvGives
<1>. QED  BY <1>2, <1>3, <1>4, PTL DEF ServersSpec


-----------------------------------------------------------------------------
(***************************************************************************)
(* The third server: what it answers is the first line of what has arrived. *)
(***************************************************************************)
LF == Third!LF

\* The read buffer begins with the first line of what has arrived, or with all
\* of it while no line end has; there its position is, and what may follow in
\* the buffer is never read.
LineInv ==
    /\ buffer.position <= arrived
    /\ \A i \in 1..buffer.position : buffer.bs[i] = request[i]
    /\ \A i \in 1..(buffer.position - 1) : request[i] # LF
    /\ \/ buffer.position = arrived
       \/ buffer.position # 0 /\ request[buffer.position] = LF

\* What is answered is what precedes the position, but for its last byte.
AnswerInv ==
    pending[S] # "none" =>
       /\ arrived # 0
       /\ pending[S] = Third!Answer(SubSeq(request, 1, buffer.position - 1))

CodecInv == Third!TypeOK /\ LineInv /\ AnswerInv

\* The read buffer of the third server is a buffer like any other.
LEMMA SameBuffers ==
    /\ Third!Buffer = Buffer
    /\ Third!EmptyBuffer = EmptyBuffer
    /\ \A b : Third!InBounds(b) = InBounds(b)
    /\ \A b, s : Third!Put(b, s) = Put(b, s)
    /\ \A b : Third!Flip(b) = Flip(b)
    /\ \A b, mark : Third!StopsAt(b, mark) = StopsAt(b, mark)
    /\ \A b, mark : Third!BytesUntil(b, mark) = BytesUntil(b, mark)
    /\ \A b, mark : Third!AfterReadUntil(b, mark) = AfterReadUntil(b, mark)
<1>1. Third!Buffer = Buffer /\ Third!EmptyBuffer = EmptyBuffer
  BY DEF Third!Buffer, Buffer, Third!EmptyBuffer, EmptyBuffer
<1>2. \A b : Third!InBounds(b) = InBounds(b)
  BY DEF Third!InBounds, InBounds
<1>3. \A b, s : Third!Put(b, s) = Put(b, s)
  BY DEF Third!Put, Put
<1>4. \A b : Third!Flip(b) = Flip(b)
  BY DEF Third!Flip, Flip, Third!At, At
<1>5. \A b, mark : Third!StopsAt(b, mark) = StopsAt(b, mark)
  BY DEF Third!StopsAt, StopsAt
<1>6. \A b, mark : Third!BytesUntil(b, mark) = BytesUntil(b, mark)
  BY <1>5 DEF Third!BytesUntil, BytesUntil
<1>7. \A b, mark : Third!AfterReadUntil(b, mark) = AfterReadUntil(b, mark)
  BY <1>5 DEF Third!AfterReadUntil, AfterReadUntil, Third!At, At
<1>. QED  BY <1>1, <1>2, <1>3, <1>4, <1>5, <1>6, <1>7

\* The types, as far as the steps need them.
LEMMA CodecTypes ==
    ASSUME Third!TypeOK
    PROVE  /\ buffer \in Buffer /\ InBounds(buffer)
           /\ buffer.position \in Nat /\ buffer.bs \in Seq(Nat)
           /\ buffer.position <= Len(buffer.bs)
           /\ request \in Seq(Nat) /\ request \in Requests
           /\ Len(request) \in Nat /\ arrived \in 0..Len(request)
           /\ still \in BOOLEAN
<1>1. buffer \in Buffer /\ InBounds(buffer)
  BY SameBuffers DEF Third!TypeOK
<1>2. request \in Requests /\ arrived \in 0..Len(request) /\ still \in BOOLEAN
  BY DEF Third!TypeOK
<1>3. request \in Seq(Nat)
  BY <1>2, CodecAssumption
<1>. QED  BY <1>1, <1>2, <1>3, LenProperties DEF Buffer, InBounds

\* A beginning of a sequence of bytes.
LEMMA Beginning ==
    ASSUME NEW s \in Seq(Nat), NEW n \in Nat, n <= Len(s)
    PROVE  /\ SubSeq(s, 1, n) \in Seq(Nat) /\ Len(SubSeq(s, 1, n)) = n
           /\ \A i \in 1..n : SubSeq(s, 1, n)[i] = s[i]
<1>1. /\ SubSeq(s, 0 + 1, n) \in Seq(Nat)
      /\ Len(SubSeq(s, 0 + 1, n)) = n - 0
      /\ \A i \in 1..n - 0 : SubSeq(s, 0 + 1, n)[i] = s[0 + i]
  BY LenProperties, Stretch
<1>. QED  BY <1>1

\* Two sequences with the same beginning.
LEMMA SameBeginning ==
    ASSUME NEW s \in Seq(Nat), NEW t \in Seq(Nat), NEW n \in Nat,
           n <= Len(s), n <= Len(t), \A i \in 1..n : s[i] = t[i]
    PROVE  SubSeq(s, 1, n) = SubSeq(t, 1, n)
<1>1. /\ SubSeq(s, 1, n) \in Seq(Nat) /\ Len(SubSeq(s, 1, n)) = n
      /\ \A i \in 1..n : SubSeq(s, 1, n)[i] = s[i]
  BY Beginning
<1>2. /\ SubSeq(t, 1, n) \in Seq(Nat) /\ Len(SubSeq(t, 1, n)) = n
      /\ \A i \in 1..n : SubSeq(t, 1, n)[i] = t[i]
  BY Beginning
<1>. QED  BY <1>1, <1>2, SeqEqual

\* The first line of what has arrived is what precedes the position, but for
\* its last byte.
LEMMA FirstLineIs ==
    ASSUME Third!TypeOK, LineInv, arrived # 0
    PROVE  Third!FirstLine(SubSeq(request, 1, arrived))
              = SubSeq(request, 1, buffer.position - 1)
<1> DEFINE s == SubSeq(request, 1, arrived)
           p == buffer.position
           ends == {i \in DOMAIN s : s[i] = LF}
<1>1. /\ p \in Nat /\ request \in Seq(Nat) /\ arrived \in Nat
      /\ arrived <= Len(request) /\ Len(request) \in Nat
  BY CodecTypes
<1>2. /\ s \in Seq(Nat) /\ Len(s) = arrived /\ DOMAIN s = 1..arrived
      /\ \A i \in 1..arrived : s[i] = request[i]
  <2>1. /\ s \in Seq(Nat) /\ Len(s) = arrived
        /\ \A i \in 1..arrived : s[i] = request[i]
    BY <1>1, Beginning
  <2>. QED  BY <2>1, LenProperties
<1>3. /\ p <= arrived /\ p # 0
      /\ \A i \in 1..(p - 1) : request[i] # LF
      /\ p = arrived \/ request[p] = LF
  BY DEF LineInv
<1>4. Third!FirstLine(s) =
         IF ends = {} THEN SubSeq(s, 1, Len(s) - 1)
         ELSE SubSeq(s, 1, (CHOOSE i \in ends : \A j \in ends : i <= j) - 1)
  BY DEF Third!FirstLine, LF
<1> HIDE DEF s, p
<1>5. SubSeq(s, 1, p - 1) = SubSeq(request, 1, p - 1)
  <2>1. p - 1 \in Nat /\ p - 1 <= Len(s) /\ p - 1 <= Len(request)
    BY <1>1, <1>2, <1>3
  <2>2. \A i \in 1..(p - 1) : s[i] = request[i]
    BY <1>1, <1>2, <1>3
  <2>. QED  BY <1>1, <1>2, <2>1, <2>2, SameBeginning
<1>6. CASE request[p] = LF
  <2>1. p \in ends /\ \A j \in ends : p <= j
    <3>1. p \in ends
      BY <1>1, <1>2, <1>3, <1>6
    <3>2. ASSUME NEW j \in ends PROVE p <= j
      <4>1. j \in 1..arrived /\ request[j] = LF
        BY <1>2
      <4>. QED  BY <1>1, <1>3, <4>1
    <3>. QED  BY <3>1, <3>2
  <2>2. ends \subseteq Nat
    BY <1>2
  <2>3. (CHOOSE i \in ends : \A j \in ends : i <= j) = p
    <3> DEFINE c == CHOOSE i \in ends : \A j \in ends : i <= j
    <3>1. c \in ends /\ \A j \in ends : c <= j
      BY <2>1
    <3>2. c <= p /\ p <= c
      BY <2>1, <3>1
    <3>. QED  BY <1>1, <2>2, <3>1, <3>2
  <2>. QED  BY <1>4, <1>5, <2>1, <2>3 DEF s, p
<1>7. CASE request[p] # LF
  <2>1. p = arrived
    BY <1>3, <1>7
  <2>2. ends = {}
    <3>1. SUFFICES ASSUME NEW j \in ends PROVE FALSE
      OBVIOUS
    <3>2. j \in 1..arrived /\ request[j] = LF
      BY <1>2
    <3>3. j # p /\ j \notin 1..(p - 1)
      BY <1>3, <1>7, <3>2
    <3>. QED  BY <1>1, <2>1, <3>2, <3>3
  <2>. QED  BY <1>2, <1>4, <1>5, <2>1, <2>2 DEF s, p
<1>. QED  BY <1>6, <1>7


\* What doRead has filled: what was before the position, and the piece after it.
LEMMA Filled ==
    ASSUME Third!TypeOK, LineInv, NEW n \in 1..(Len(request) - arrived),
           NEW filled,
           filled = Third!Flip(Third!Put(buffer,
                                  SubSeq(request, arrived + 1, arrived + n)))
    PROVE  /\ filled \in Buffer /\ InBounds(filled)
           /\ filled.position = 0 /\ filled.limit = buffer.position + n
           /\ \A i \in 1..buffer.position : filled.bs[i] = request[i]
           /\ \A i \in 1..n : filled.bs[buffer.position + i] = request[arrived + i]
<1> DEFINE piece == SubSeq(request, arrived + 1, arrived + n)
           put == Put(buffer, piece)
<1>1. /\ buffer \in Buffer /\ InBounds(buffer) /\ buffer.position \in Nat
      /\ request \in Seq(Nat) /\ arrived \in Nat /\ Len(request) \in Nat
      /\ arrived + n <= Len(request)
  BY CodecTypes
<1>2. /\ piece \in Seq(Nat) /\ Len(piece) = n
      /\ \A i \in 1..n : piece[i] = request[arrived + i]
  <2>1. (arrived + n) - arrived = n /\ arrived + n \in Nat
    BY <1>1
  <2>. QED  BY <1>1, <2>1, Stretch
<1>3. filled = Flip(put)
  BY SameBuffers
<1> HIDE DEF piece
<1>4. /\ put \in Buffer /\ InBounds(put)
      /\ put.position = buffer.position + n
      /\ \A i \in 1..buffer.position : put.bs[i] = buffer.bs[i]
      /\ \A i \in 1..n : put.bs[buffer.position + i] = piece[i]
  BY <1>1, <1>2, PutInserts
<1> HIDE DEF put
<1>5. /\ filled \in Buffer /\ InBounds(filled) /\ filled.bs = put.bs
      /\ filled.position = 0 /\ filled.limit = put.position
  BY <1>3, <1>4, FlipExposes
<1>. QED  BY <1>2, <1>4, <1>5 DEF LineInv

\* transformUp finds the first line again, or more of it.
LEMMA LineFound ==
    ASSUME Third!TypeOK, LineInv, NEW n \in 1..(Len(request) - arrived),
           NEW filled,
           filled = Third!Flip(Third!Put(buffer,
                                  SubSeq(request, arrived + 1, arrived + n)))
    PROVE  LET p == StopsAt(filled, LF)
           IN  /\ p \in 1..filled.limit /\ p <= arrived + n
               /\ \A i \in 1..p : filled.bs[i] = request[i]
               /\ \A i \in 1..(p - 1) : request[i] # LF
               /\ p = arrived + n \/ request[p] = LF
<1> DEFINE p == StopsAt(filled, LF)
           at == buffer.position
<1>1. /\ filled \in Buffer /\ InBounds(filled)
      /\ filled.position = 0 /\ filled.limit = at + n
      /\ \A i \in 1..at : filled.bs[i] = request[i]
      /\ \A i \in 1..n : filled.bs[at + i] = request[arrived + i]
  BY Filled
<1>2. at \in Nat /\ arrived \in Nat /\ n \in Nat /\ n # 0
  BY CodecTypes
<1>3. /\ at <= arrived
      /\ \A i \in 1..(at - 1) : request[i] # LF
      /\ at = arrived \/ (at # 0 /\ request[at] = LF)
  BY DEF LineInv
<1>4. /\ p \in 1..filled.limit
      /\ filled.bs[p] = LF \/ p = filled.limit
      /\ \A q \in 1..(p - 1) : filled.bs[q] # LF
  <2>1. filled.position < filled.limit
    BY <1>1, <1>2
  <2>2. /\ p \in (filled.position + 1)..filled.limit
        /\ filled.bs[p] = LF \/ p = filled.limit
        /\ \A q \in (filled.position + 1)..(p - 1) : filled.bs[q] # LF
    BY <1>1, <2>1, ReadUntilStops
  <2>3. filled.position + 1 = 1
    BY <1>1
  <2>. QED  BY <2>2, <2>3
<1> HIDE DEF p, at
<1>5. CASE at # 0 /\ request[at] = LF
  <2>1. filled.bs[at] = LF
    BY <1>1, <1>2, <1>5
  <2>2. ~(p > at)
    <3>1. SUFFICES ASSUME p > at PROVE FALSE
      OBVIOUS
    <3>2. at \in 1..(p - 1)
      BY <1>1, <1>2, <1>4, <1>5, <3>1
    <3>. QED  BY <1>4, <2>1, <3>2
  <2>3. ~(p < at)
    <3>1. SUFFICES ASSUME p < at PROVE FALSE
      OBVIOUS
    <3>2. p # filled.limit /\ p \in 1..(at - 1) /\ p \in 1..at
      BY <1>1, <1>2, <1>4, <3>1
    <3>3. filled.bs[p] = request[p]
      BY <1>1, <3>2
    <3>. QED  BY <1>3, <1>4, <3>2, <3>3
  <2>4. p = at
    BY <1>1, <1>2, <1>4, <2>2, <2>3
  <2>5. p <= arrived + n
    BY <1>2, <1>3, <2>4
  <2>6. \A i \in 1..p : filled.bs[i] = request[i]
    BY <1>1, <2>4
  <2>7. \A i \in 1..(p - 1) : request[i] # LF
    BY <1>3, <2>4
  <2>8. request[p] = LF
    BY <1>5, <2>4
  <2>. QED  BY <1>4, <2>5, <2>6, <2>7, <2>8 DEF p
<1>6. CASE at = arrived
  <2>1. \A i \in 1..(at + n) : filled.bs[i] = request[i]
    <3>1. ASSUME NEW i \in 1..(at + n) PROVE filled.bs[i] = request[i]
      <4>1. CASE i <= at
        BY <1>1, <1>2, <4>1
      <4>2. CASE i > at
        <5>1. i - at \in 1..n /\ at + (i - at) = i /\ arrived + (i - at) = i
          BY <1>2, <1>6, <4>2
        <5>2. filled.bs[at + (i - at)] = request[arrived + (i - at)]
          BY <1>1, <5>1
        <5>. QED  BY <5>1, <5>2
      <4>. QED  BY <1>2, <4>1, <4>2
    <3>. QED  BY <3>1
  <2>2. p \in 1..(at + n) /\ p <= arrived + n
    BY <1>1, <1>2, <1>4, <1>6
  <2>3. \A i \in 1..p : filled.bs[i] = request[i]
    BY <1>2, <2>1, <2>2
  <2>4. \A i \in 1..(p - 1) : request[i] # LF
    <3>1. ASSUME NEW i \in 1..(p - 1) PROVE request[i] # LF
      <4>1. i \in 1..p
        BY <1>2, <2>2
      <4>. QED  BY <1>4, <2>3, <4>1
    <3>. QED  BY <3>1
  <2>5. p = arrived + n \/ request[p] = LF
    <3>1. p \in 1..p
      BY <1>2, <2>2
    <3>. QED  BY <1>1, <1>4, <1>6, <2>3, <3>1
  <2>. QED  BY <1>4, <2>2, <2>3, <2>4, <2>5 DEF p
<1>. QED  BY <1>3, <1>5, <1>6

\* What the callbacks do to the session of the third server.
LEMMA ThirdSessionSteps ==
    ASSUME Third!SessionsType, NEW out \in Third!Messages,
           NEW close \in BOOLEAN, NEW more \in BOOLEAN,
           \/ Third!Opened(S, out, close) \/ Third!Sent(S, out, close)
           \/ Third!Received(S, out, close, more)
    PROVE  Third!SessionsType' /\ pending'[S] = out
<1>1. /\ phase \in [{S} -> {"unborn", "open", "gone"}]
      /\ pending \in [{S} -> Third!Messages]
      /\ last \in [{S} -> Third!Messages]
      /\ rd \in [{S} -> BOOLEAN] /\ wr \in [{S} -> BOOLEAN]
  BY DEF Third!SessionsType, Third!S, S
<1>2. Third!Reported(S) \in Third!Messages
  BY <1>1 DEF Third!Reported
<1>3. /\ pending' = [pending EXCEPT ![S] = out]
      /\ last' = last \/ last' = [last EXCEPT ![S] = Third!Reported(S)]
      /\ phase' = [phase EXCEPT ![S] = IF close THEN "gone" ELSE "open"]
  BY DEF Third!Opened, Third!Sent, Third!Received, Third!LeaveOpen
<1>4. /\ phase' \in [{S} -> {"unborn", "open", "gone"}]
      /\ pending' \in [{S} -> Third!Messages] /\ pending'[S] = out
      /\ last' \in [{S} -> Third!Messages]
  BY <1>1, <1>2, <1>3
<1>5. PICK r, w \in BOOLEAN : Third!LeaveOpen(S, close, r, w)
  <2>1. rd[S] \in BOOLEAN /\ wr[S] \in BOOLEAN
    BY <1>1
  <2>. QED  BY <2>1 DEF Third!Opened, Third!Sent, Third!Received
<1>6. rd' \in [{S} -> BOOLEAN] /\ wr' \in [{S} -> BOOLEAN]
  BY <1>1, <1>5 DEF Third!LeaveOpen
<1>. QED  BY <1>4, <1>6 DEF Third!SessionsType, Third!Messages, Third!S, S

\* The session of the third server ends.
LEMMA ThirdEnds ==
    ASSUME Third!SessionsType, Third!Ended(S)
    PROVE  Third!SessionsType' /\ pending' = pending
<1>1. /\ phase \in [{S} -> {"unborn", "open", "gone"}]
      /\ rd \in [{S} -> BOOLEAN] /\ wr \in [{S} -> BOOLEAN]
  BY DEF Third!SessionsType, Third!S, S
<1>2. /\ phase' = [phase EXCEPT ![S] = "gone"]
      /\ rd' = [rd EXCEPT ![S] = FALSE] /\ wr' = [wr EXCEPT ![S] = FALSE]
      /\ UNCHANGED <<pending, last>>
  BY DEF Third!Ended, Third!LeaveOpen
<1>3. /\ phase' \in [{S} -> {"unborn", "open", "gone"}]
      /\ rd' \in [{S} -> BOOLEAN] /\ wr' \in [{S} -> BOOLEAN]
  BY <1>1, <1>2
<1>. QED  BY <1>2, <1>3 DEF Third!SessionsType, Third!Messages, Third!S, S

\* Something of the request arrives, and is answered.
LEMMA ThirdReceivesStep ==
    ASSUME CodecInv, NEW n \in 1..(Len(request) - arrived),
           Third!MessageReceived(n)
    PROVE  CodecInv'
<1>1. Third!TypeOK /\ LineInv
  BY DEF CodecInv
<1>2. PICK filled : filled = Third!Flip(Third!Put(buffer,
                               SubSeq(request, arrived + 1, arrived + n)))
  OBVIOUS
<1>3. PICK p : p = StopsAt(filled, LF)
  OBVIOUS
<1>4. /\ p \in 1..filled.limit /\ p <= arrived + n
      /\ \A i \in 1..p : filled.bs[i] = request[i]
      /\ \A i \in 1..(p - 1) : request[i] # LF
      /\ p = arrived + n \/ request[p] = LF
  BY <1>1, <1>2, <1>3, LineFound
<1>5. /\ filled \in Buffer /\ InBounds(filled) /\ filled.position = 0
  BY <1>1, <1>2, Filled
<1>6. /\ request \in Seq(Nat) /\ request \in Requests /\ arrived \in Nat
      /\ arrived + n <= Len(request) /\ Len(request) \in Nat
      /\ filled.bs \in Seq(Nat) /\ filled.limit <= Len(filled.bs)
      /\ filled.limit \in Nat /\ Len(filled.bs) \in Nat
  BY <1>1, <1>5, CodecTypes, LenProperties DEF Buffer, InBounds
<1>7. /\ buffer' = Third!AfterReadUntil(filled, LF)
      /\ Third!Received(S, Third!Answer(Third!TransformUp(filled)), FALSE,
                        n >= ReadLimit)
      /\ arrived' = arrived + n /\ request' = request
      /\ still' = (n >= ReadLimit)
  BY <1>2 DEF Third!MessageReceived, Third!AfterTransformUp, LF, Third!S, S
<1>8. /\ buffer'.bs = filled.bs /\ buffer'.position = p
      /\ buffer'.limit = filled.limit
      /\ buffer' = [bs |-> filled.bs, position |-> p, limit |-> filled.limit]
  BY <1>3, <1>7, SameBuffers DEF AfterReadUntil, At
<1>9. LineInv'
  <2>1. LF' = LF
    BY DEF LF, Third!LF
  <2>2. p # 0
    BY <1>4
  <2>. QED  BY <1>4, <1>7, <1>8, <2>1, <2>2 DEF LineInv
<1>10. Third!TransformUp(filled) = SubSeq(request, 1, p - 1)
  <2>1. Third!TransformUp(filled) = SubSeq(filled.bs, 1, p - 1)
    <3>1. filled.position + 1 = 1
      BY <1>5
    <3>2. Third!TransformUp(filled) = BytesUntil(filled, LF)
      BY SameBuffers DEF Third!TransformUp, LF
    <3>. QED  BY <1>3, <3>1, <3>2 DEF BytesUntil
  <2>2. /\ p - 1 \in Nat /\ p - 1 <= Len(filled.bs) /\ p - 1 <= Len(request)
    <3>1. p \in Nat /\ p >= 1 /\ p <= filled.limit
      BY <1>4, <1>6
    <3>2. p <= Len(request)
      BY <1>4, <1>6, <3>1
    <3> HIDE <1>4
    <3>3. p <= Len(filled.bs)
      BY <1>6, <3>1
    <3> QED  BY <1>6, <3>1, <3>2, <3>3
  <2>3. \A i \in 1..(p - 1) : filled.bs[i] = request[i]
    <3>1. \A i \in 1..p : filled.bs[i] = request[i]
      BY <1>4
    <3>2. p \in Nat /\ p - 1 \in Int
      BY <1>4, <1>6
    <3>3. \A i \in 1..(p - 1) : i \in 1..p
      BY <3>2
    <3>. QED  BY <3>1, <3>3
  <2>. QED  BY <1>6, <2>1, <2>2, <2>3, SameBeginning
<1>11. Third!SessionsType' /\ pending'[S] = Third!Answer(Third!TransformUp(filled))
  <2>1. Third!Answer(Third!TransformUp(filled)) \in Third!Messages
    BY DEF Third!Answer, Third!Messages
  <2>2. (n >= ReadLimit) \in BOOLEAN
    OBVIOUS
  <2>. QED  BY <1>1, <1>7, <2>1, <2>2, ThirdSessionSteps DEF Third!TypeOK
<1>12. AnswerInv'
  <2>1. arrived' # 0
    BY <1>6, <1>7
  <2>2. pending'[S] = Third!Answer(SubSeq(request, 1, p - 1))
    BY <1>10, <1>11
  <2>3. pending'[S] = Third!Answer(SubSeq(request, 1, buffer.position - 1))'
    BY <1>7, <1>8, <2>2 DEF Third!Answer, Third!Matches, Third!CR
  <2>. QED  BY <2>1, <2>3 DEF AnswerInv
<1>13. Third!TypeOK'
  <2>1. buffer' \in Buffer /\ InBounds(buffer)'
    <3>1. p \in Nat /\ p <= filled.limit
      BY <1>4, <1>6
    <3>. QED  BY <1>6, <1>8, <3>1 DEF Buffer, InBounds
  <2>2. buffer' \in Third!Buffer /\ Third!InBounds(buffer)'
    BY <2>1, SameBuffers DEF InBounds, Third!InBounds
  <2>3. arrived' \in 0..Len(request')
    BY <1>6, <1>7
  <2>4. still' \in BOOLEAN
    BY <1>7
  <2>. QED  BY <1>6, <1>7, <1>11, <2>2, <2>3, <2>4 DEF Third!TypeOK
<1>. QED  BY <1>9, <1>12, <1>13 DEF CodecInv

\* The other callbacks leave the read buffer alone.
LEMMA ThirdOtherStep ==
    ASSUME CodecInv,
           Third!Connected \/ Third!MessageSent \/ Third!Disconnected
    PROVE  CodecInv'
<1>1. Third!TypeOK /\ Third!SessionsType
  BY DEF CodecInv, Third!TypeOK
<1>2. UNCHANGED <<buffer, still, request, arrived>>
  BY DEF Third!Connected, Third!MessageSent, Third!Disconnected, Third!input
<1>3. Third!SessionsType' /\ (pending'[S] = "none" \/ pending'[S] = pending[S])
  <2>1. CASE Third!Connected \/ Third!MessageSent
    <3>1. \E close \in BOOLEAN : \/ Third!Opened(S, "none", close)
                                 \/ Third!Sent(S, "none", close)
      BY <2>1 DEF Third!Connected, Third!MessageSent, Third!S, S
    <3>2. "none" \in Third!Messages
      BY DEF Third!Messages
    <3>. QED  BY <1>1, <3>1, <3>2, ThirdSessionSteps
  <2>2. CASE Third!Disconnected
    <3>1. Third!Ended(S)
      BY <2>2 DEF Third!Disconnected, Third!S, S
    <3>. QED  BY <1>1, <3>1, ThirdEnds
  <2>. QED  BY <2>1, <2>2
<1>4. LineInv' /\ AnswerInv'
  BY <1>2, <1>3 DEF CodecInv, LineInv, AnswerInv, Third!Answer, Third!Matches,
     LF, Third!LF, Third!CR
<1>5. Third!TypeOK'
  BY <1>1, <1>2, <1>3 DEF Third!TypeOK, Third!InBounds
<1>. QED  BY <1>4, <1>5 DEF CodecInv

\* The third server starts with an empty buffer.
LEMMA CodecInit == Third!Init => CodecInv
<1> SUFFICES ASSUME Third!Init PROVE CodecInv
  OBVIOUS
<1>1. /\ buffer = EmptyBuffer /\ still = FALSE /\ arrived = 0
      /\ request \in Requests /\ Third!SessionsInit
  BY SameBuffers DEF Third!Init
<1>2. request \in Seq(Nat) /\ Len(request) \in Nat
  BY <1>1, CodecAssumption, LenProperties
<1>3. Third!SessionsType /\ pending[S] = "none"
  BY <1>1 DEF Third!SessionsInit, Third!SessionsType, Third!Messages, Third!S, S
<1>4. buffer \in Third!Buffer /\ Third!InBounds(buffer)
  BY <1>1, SameBuffers, EmptyBufferType
<1>5. still \in BOOLEAN
  BY <1>1
<1>6. buffer.position = 0
  BY <1>1 DEF EmptyBuffer
<1>7. arrived \in 0..Len(request)
  BY <1>1, <1>2
<1>8. Third!TypeOK
  BY <1>1, <1>3, <1>4, <1>5, <1>7 DEF Third!TypeOK
<1>9. LineInv /\ AnswerInv
  BY <1>1, <1>3, <1>6 DEF LineInv, AnswerInv
<1>. QED  BY <1>8, <1>9 DEF CodecInv


\* The third server keeps its invariant.
LEMMA CodecStep ==
    ASSUME CodecInv, Third!Next
    PROVE  CodecInv'
<1>1. CASE Third!Connected \/ Third!MessageSent \/ Third!Disconnected
  BY <1>1, ThirdOtherStep
<1>2. CASE \E n \in 1..(Len(request) - arrived) : Third!MessageReceived(n)
  BY <1>2, ThirdReceivesStep
<1>. QED  BY <1>1, <1>2 DEF Third!Next

-----------------------------------------------------------------------------
(***************************************************************************)
(* The types of the second server, however many requests there are.         *)
(***************************************************************************)
\* A header belongs to a stream.
Numbered == pending[S].kind = "header" => pending[S].of # 0

SecondInv == TypeOK /\ Numbered

Any == 1..MaxReads

\* The types, as far as the steps need them.
LEMMA SecondTypes ==
    ASSUME TypeOK
    PROVE  /\ phase \in [{S} -> {"unborn", "open", "gone"}]
           /\ pending \in [{S} -> Whole \cup {None}]
           /\ last \in [{S} -> Whole \cup {None}]
           /\ rd \in [{S} -> BOOLEAN] /\ wr \in [{S} -> BOOLEAN]
           /\ state \in States
           /\ left \in Nat /\ reads \in 0..MaxReads
           /\ streams \subseteq Any /\ headers \subseteq Any
           /\ size \in [Any -> Sizes] /\ announced \in [Any -> Ints]
           /\ body \in [Any -> Nat]
           /\ completed \in BOOLEAN /\ shrunk \in BOOLEAN /\ grown \in BOOLEAN
BY DEF TypeOK, SessionsType, Messages, Whole, Kinds, States, Any, Ints, Sizes

\* The same, put together again after a step.
LEMMA SecondTypesAfter ==
    ASSUME phase' \in [{S} -> {"unborn", "open", "gone"}],
           pending' \in [{S} -> Whole \cup {None}],
           last' \in [{S} -> Whole \cup {None}],
           rd' \in [{S} -> BOOLEAN], wr' \in [{S} -> BOOLEAN],
           state' \in States, left' \in Nat, reads' \in 0..MaxReads,
           streams' \subseteq Any, headers' \subseteq Any,
           size' \in [Any -> Sizes], announced' \in [Any -> Ints],
           body' \in [Any -> Nat],
           completed' \in BOOLEAN, shrunk' \in BOOLEAN, grown' \in BOOLEAN
    PROVE  TypeOK'
BY DEF TypeOK, SessionsType, Messages, Whole, Kinds, States, Any, Ints, Sizes

\* What the callbacks do to the session.
LEMMA SecondSessionSteps ==
    ASSUME TypeOK, NEW out \in Whole \cup {None},
           NEW close \in BOOLEAN, NEW more \in BOOLEAN,
           \/ Opened(S, out, close) \/ Sent(S, out, close)
           \/ Received(S, out, close, more)
    PROVE  /\ phase' \in [{S} -> {"unborn", "open", "gone"}]
           /\ pending' \in [{S} -> Whole \cup {None}]
           /\ last' \in [{S} -> Whole \cup {None}]
           /\ rd' \in [{S} -> BOOLEAN] /\ wr' \in [{S} -> BOOLEAN]
           /\ pending'[S] = out
<1>1. Reported(S) \in Whole \cup {None}
  BY SecondTypes DEF Reported
<1>2. /\ pending' = [pending EXCEPT ![S] = out]
      /\ last' = last \/ last' = [last EXCEPT ![S] = Reported(S)]
      /\ phase' = [phase EXCEPT ![S] = IF close THEN "gone" ELSE "open"]
  BY DEF Opened, Sent, Received, LeaveOpen
<1>3. /\ phase' \in [{S} -> {"unborn", "open", "gone"}]
      /\ pending' \in [{S} -> Whole \cup {None}]
      /\ last' \in [{S} -> Whole \cup {None}]
      /\ pending'[S] = out
  BY <1>1, <1>2, SecondTypes
<1>4. PICK r, w \in BOOLEAN : LeaveOpen(S, close, r, w)
  <2>1. rd[S] \in BOOLEAN /\ wr[S] \in BOOLEAN
    BY SecondTypes
  <2>. QED  BY <2>1 DEF Opened, Sent, Received
<1>5. rd' \in [{S} -> BOOLEAN] /\ wr' \in [{S} -> BOOLEAN]
  BY <1>4, SecondTypes DEF LeaveOpen
<1>. QED  BY <1>3, <1>5

\* sessionClosed closes a stream and leaves the rest of the state.
LEMMA SessionClosedTypes ==
    ASSUME NEW st \in States, NEW open \in SUBSET Any, SessionClosed(st, open)
    PROVE  state' \in States /\ streams' \subseteq Any
<1>1. CASE st.readAndWriteFile
  <2>1. state' = [st EXCEPT !.is = 0] /\ streams' = open \ {st.is}
    BY <1>1 DEF SessionClosed, NoStream
  <2>2. 0 \in 0..MaxReads
    BY HttpAssumption
  <2>. QED  BY <2>1, <2>2 DEF States
<1>2. CASE ~st.readAndWriteFile
  BY <1>2 DEF SessionClosed
<1>. QED  BY <1>1, <1>2

\* What is sent counts.
LEMMA TransmittedTypes ==
    ASSUME SecondInv, Transmitted
    PROVE  headers' \subseteq Any /\ body' \in [Any -> Nat]
<1>1. /\ pending[S] \in Whole \cup {None}
      /\ headers \subseteq Any /\ body \in [Any -> Nat]
  BY SecondTypes DEF SecondInv
<1>2. /\ pending[S].bytes \in Nat /\ pending[S].of \in 0..MaxReads
  BY <1>1, HttpAssumption DEF Whole, None, Message, NoStream
<1>3. headers' \subseteq Any
  <2>1. pending[S].kind = "header" => pending[S].of \in Any
    BY <1>2, HttpAssumption DEF SecondInv, Numbered, Any
  <2>. QED  BY <1>1, <2>1 DEF Transmitted
<1>4. body' \in [Any -> Nat]
  <2>1. CASE pending[S].kind # "chunk"
    BY <1>1, <2>1 DEF Transmitted
  <2>2. CASE pending[S].kind = "chunk"
    <3>1. body' = [body EXCEPT ![pending[S].of] =
                      body[pending[S].of] + pending[S].bytes]
      BY <2>2 DEF Transmitted
    <3>2. CASE pending[S].of \in Any
      <4>1. body[pending[S].of] + pending[S].bytes \in Nat
        BY <1>1, <1>2, <3>2
      <4>. QED  BY <1>1, <3>1, <4>1
    <3>3. CASE pending[S].of \notin Any
      BY <1>1, <3>1, <3>3
    <3>. QED  BY <3>2, <3>3
  <2>. QED  BY <2>1, <2>2
<1>. QED  BY <1>3, <1>4

\* A file is asked for.
LEMMA SecondFileStep ==
    ASSUME SecondInv, MessageReceived, NEW reading \in BOOLEAN,
           FileRequested(reading)
    PROVE  SecondInv'
<1>1. TypeOK
  BY DEF SecondInv
<1>2. /\ reads \in 0..MaxReads /\ reads + 1 \in Any /\ reads' = reads + 1
      /\ UNCHANGED <<headers, body, completed, shrunk, grown>>
  BY <1>1, SecondTypes, HttpAssumption DEF MessageReceived, Any, sent, file
<1> DEFINE st(len) == [is |-> reads + 1, readAndWriteFile |-> TRUE,
                       length |-> len, nwritten |-> 0]
<1>3. PICK end \in Sizes :
         /\ Received(S, Header(reads + 1), reading, reading)
         /\ left' = IF end = Unopened THEN 0 ELSE end
         /\ Leave(st(ToSizeT(ToInt(end))), streams \cup {reads + 1}, reading)
         /\ announced' = [announced EXCEPT ![reads + 1] = ToInt(end)]
         /\ size' = [size EXCEPT ![reads + 1] = end]
  BY DEF FileRequested, Sizes
<1>4. ToInt(end) \in Ints /\ ToSizeT(ToInt(end)) \in 0..(SizeBound - 1)
  BY Conversions
<1>5. Header(reads + 1) \in Whole
  BY <1>2, HttpAssumption
  DEF Header, Message, Whole, Kinds, Any
<1>6. /\ phase' \in [{S} -> {"unborn", "open", "gone"}]
      /\ pending' \in [{S} -> Whole \cup {None}]
      /\ last' \in [{S} -> Whole \cup {None}]
      /\ rd' \in [{S} -> BOOLEAN] /\ wr' \in [{S} -> BOOLEAN]
      /\ pending'[S] = Header(reads + 1)
  BY <1>1, <1>3, <1>5, SecondSessionSteps
<1>7. st(ToSizeT(ToInt(end))) \in States
  <2>1. reads + 1 \in 0..MaxReads
    BY <1>2, HttpAssumption DEF Any
  <2>. QED  BY <1>4, <2>1 DEF States
<1>8. streams \cup {reads + 1} \in SUBSET Any
  BY <1>1, <1>2, SecondTypes
<1> HIDE DEF st
<1>9. state' \in States /\ streams' \subseteq Any
  <2>1. CASE reading
    BY <1>3, <1>7, <1>8, <2>1, SessionClosedTypes DEF Leave
  <2>2. CASE ~reading
    BY <1>3, <1>7, <1>8, <2>2 DEF Leave
  <2>. QED  BY <2>1, <2>2
<1>10. announced' \in [Any -> Ints] /\ size' \in [Any -> Sizes]
  BY <1>1, <1>2, <1>3, <1>4, SecondTypes
<1>11. TypeOK'
  <2>1. left' \in Nat /\ reads' \in 0..MaxReads
    BY <1>2, <1>3, HttpAssumption DEF Any, Sizes
  <2>. QED  BY <1>1, <1>2, <1>6, <1>9, <1>10, <2>1, SecondTypes,
               SecondTypesAfter
<1>12. Numbered'
  <2>1. Header(reads + 1).of = reads + 1 /\ reads + 1 # 0
    BY <1>2 DEF Header, Message
  <2>. QED  BY <1>6, <2>1 DEF Numbered
<1>. QED  BY <1>11, <1>12 DEF SecondInv

\* A page is the answer.
LEMMA SecondPageStep ==
    ASSUME SecondInv, MessageReceived, NEW reading \in BOOLEAN,
           PageWritten(reading)
    PROVE  SecondInv'
<1>1. TypeOK
  BY DEF SecondInv
<1>2. /\ reads' \in 0..MaxReads
      /\ UNCHANGED <<headers, body, completed, shrunk, grown>>
  BY <1>1, SecondTypes, HttpAssumption DEF MessageReceived, sent, file
<1>3. /\ Received(S, Page, reading, reading)
      /\ Leave(state, streams, reading)
      /\ UNCHANGED <<left, announced, size>>
  BY DEF PageWritten
<1>4. Page \in Whole /\ Page.kind = "page"
  BY HttpAssumption DEF Page, Message, Whole, Kinds, NoStream
<1>5. /\ phase' \in [{S} -> {"unborn", "open", "gone"}]
      /\ pending' \in [{S} -> Whole \cup {None}]
      /\ last' \in [{S} -> Whole \cup {None}]
      /\ rd' \in [{S} -> BOOLEAN] /\ wr' \in [{S} -> BOOLEAN]
      /\ pending'[S] = Page
  BY <1>1, <1>3, <1>4, SecondSessionSteps
<1>6. state \in States /\ streams \in SUBSET Any
  BY <1>1, SecondTypes
<1>7. state' \in States /\ streams' \subseteq Any
  <2>1. CASE reading
    BY <1>3, <1>6, <2>1, SessionClosedTypes DEF Leave
  <2>2. CASE ~reading
    BY <1>3, <1>6, <2>2 DEF Leave
  <2>. QED  BY <2>1, <2>2
<1>8. TypeOK'
  BY <1>1, <1>2, <1>3, <1>5, <1>7, SecondTypes, SecondTypesAfter
<1>9. Numbered'
  BY <1>4, <1>5 DEF Numbered
<1>. QED  BY <1>8, <1>9 DEF SecondInv

\* A chunk is read and written.
LEMMA SecondChunkStep ==
    ASSUME SecondInv, NextChunk
    PROVE  SecondInv'
<1>1. TypeOK
  BY DEF SecondInv
<1>2. /\ state.readAndWriteFile /\ Transmitted
      /\ UNCHANGED <<reads, size, announced, completed, shrunk, grown>>
  BY DEF NextChunk, MoreToSend, file
<1>3. /\ state \in States /\ left \in Nat /\ ReadBuffSize \in Nat
      /\ state.nwritten \in Nat /\ state.length \in Nat
      /\ state.is \in 0..MaxReads
  BY <1>1, SecondTypes, HttpAssumption DEF States
<1> DEFINE n == Min2(ReadBuffSize, left)
<1>4. n \in 0..ReadBuffSize /\ n <= left /\ left - n \in Nat
  BY <1>3 DEF Min2
<1>5. /\ Sent(S, Content(state.is, n), FALSE) /\ left' = left - n
      /\ IF Counted(n) = state.length
         THEN /\ state' = [is |-> NoStream, readAndWriteFile |-> FALSE,
                           length |-> 0, nwritten |-> 0]
              /\ streams' = streams \ {state.is}
         ELSE /\ state' = [state EXCEPT !.nwritten = Counted(n)]
              /\ UNCHANGED streams
  BY DEF NextChunk
<1> HIDE DEF n
<1>6. /\ Content(state.is, n) \in Whole
      /\ Content(state.is, n).kind = "chunk"
  BY <1>3, <1>4 DEF Content, Message, Whole, Kinds
<1>7. /\ phase' \in [{S} -> {"unborn", "open", "gone"}]
      /\ pending' \in [{S} -> Whole \cup {None}]
      /\ last' \in [{S} -> Whole \cup {None}]
      /\ rd' \in [{S} -> BOOLEAN] /\ wr' \in [{S} -> BOOLEAN]
      /\ pending'[S] = Content(state.is, n)
  BY <1>1, <1>5, <1>6, SecondSessionSteps
<1>8. headers' \subseteq Any /\ body' \in [Any -> Nat]
  BY <1>2, TransmittedTypes
<1>9. state' \in States /\ streams' \subseteq Any
  <2>1. CASE Counted(n) = state.length
    <3>1. state' = [is |-> 0, readAndWriteFile |-> FALSE, length |-> 0,
                    nwritten |-> 0]
          /\ streams' = streams \ {state.is}
      BY <1>5, <2>1 DEF NoStream
    <3>2. state' \in States
      BY <3>1, HttpAssumption DEF States
    <3>3. streams' \subseteq Any
      BY <1>1, <3>1, SecondTypes
    <3>. QED  BY <3>2, <3>3
  <2>2. CASE Counted(n) # state.length
    <3>1. state' = [state EXCEPT !.nwritten = Counted(n)] /\ streams' = streams
      BY <1>5, <2>2
    <3>2. Counted(n) = state.nwritten + n /\ Counted(n) \in Nat
      BY <1>3, <1>4 DEF Counted
    <3>3. state' \in States
      BY <1>3, <3>1, <3>2 DEF States
    <3>4. streams' \subseteq Any
      BY <1>1, <3>1, SecondTypes
    <3>. QED  BY <3>3, <3>4
  <2>. QED  BY <2>1, <2>2
<1>10. TypeOK'
  BY <1>1, <1>2, <1>4, <1>5, <1>7, <1>8, <1>9, SecondTypes, SecondTypesAfter
<1>11. Numbered'
  BY <1>6, <1>7 DEF Numbered
<1>. QED  BY <1>10, <1>11 DEF SecondInv

\* The last message is sent.
LEMMA SecondAllSentStep ==
    ASSUME SecondInv, AllSent
    PROVE  SecondInv'
<1>1. TypeOK
  BY DEF SecondInv
<1>2. /\ Sent(S, None, TRUE) /\ SessionClosed(state, streams)
      /\ completed' = TRUE /\ Transmitted
      /\ UNCHANGED <<left, reads, size, announced, shrunk, grown>>
  BY DEF AllSent, file
<1>3. /\ phase' \in [{S} -> {"unborn", "open", "gone"}]
      /\ pending' \in [{S} -> Whole \cup {None}]
      /\ last' \in [{S} -> Whole \cup {None}]
      /\ rd' \in [{S} -> BOOLEAN] /\ wr' \in [{S} -> BOOLEAN]
      /\ pending'[S] = None
  BY <1>1, <1>2, SecondSessionSteps
<1>4. headers' \subseteq Any /\ body' \in [Any -> Nat]
  BY <1>2, TransmittedTypes
<1>5. state' \in States /\ streams' \subseteq Any
  <2>1. state \in States /\ streams \in SUBSET Any
    BY <1>1, SecondTypes
  <2>. QED  BY <1>2, <2>1, SessionClosedTypes
<1>6. completed' \in BOOLEAN
  BY <1>2
<1>7. TypeOK'
  BY <1>1, <1>2, <1>3, <1>4, <1>5, <1>6, SecondTypes, SecondTypesAfter
<1>8. Numbered'
  BY <1>3 DEF Numbered, None, Message
<1>. QED  BY <1>7, <1>8 DEF SecondInv

\* The session begins or ends, messageReceived throws, or the file is resized.
LEMMA SecondOtherStep ==
    ASSUME SecondInv, Connected \/ Disconnected \/ Thrown \/ FileResized
    PROVE  SecondInv'
<1>1. TypeOK
  BY DEF SecondInv
<1>2. CASE Connected
  <2>1. /\ Opened(S, None, FALSE)
        /\ UNCHANGED <<state, left, streams, reads, headers, size, announced,
                       body, completed, shrunk, grown>>
    BY <1>2 DEF Connected, sent, file
  <2>2. /\ phase' \in [{S} -> {"unborn", "open", "gone"}]
        /\ pending' \in [{S} -> Whole \cup {None}]
        /\ last' \in [{S} -> Whole \cup {None}]
        /\ rd' \in [{S} -> BOOLEAN] /\ wr' \in [{S} -> BOOLEAN]
        /\ pending'[S] = None
    BY <1>1, <2>1, SecondSessionSteps
  <2>3. TypeOK'
    BY <1>1, <2>1, <2>2, SecondTypes, SecondTypesAfter
  <2>4. Numbered'
    BY <2>2 DEF Numbered, None, Message
  <2>. QED  BY <2>3, <2>4 DEF SecondInv
<1>3. CASE Disconnected \/ Thrown
  <2>1. /\ phase' = [phase EXCEPT ![S] = "gone"]
        /\ rd' = [rd EXCEPT ![S] = FALSE] /\ wr' = [wr EXCEPT ![S] = FALSE]
        /\ UNCHANGED <<pending, last, left, headers, size, announced, body,
                       completed, shrunk, grown>>
    BY <1>3 DEF Disconnected, Thrown, Ended, LeaveOpen, sent, file
  <2>2. /\ phase' \in [{S} -> {"unborn", "open", "gone"}]
        /\ rd' \in [{S} -> BOOLEAN] /\ wr' \in [{S} -> BOOLEAN]
    BY <1>1, <2>1, SecondTypes
  <2>3. reads' \in 0..MaxReads
    <3>1. reads' = reads \/ (reads < MaxReads /\ reads' = reads + 1)
      BY <1>3 DEF Disconnected, Thrown
    <3>. QED  BY <1>1, <3>1, SecondTypes, HttpAssumption
  <2>4. state' \in States /\ streams' \subseteq Any
    <3>1. state \in States /\ streams \in SUBSET Any
      BY <1>1, SecondTypes
    <3>2. CASE Disconnected
      BY <3>1, <3>2, SessionClosedTypes DEF Disconnected
    <3>3. CASE Thrown
      BY <3>1, <3>3 DEF Thrown
    <3>. QED  BY <1>3, <3>2, <3>3
  <2>5. TypeOK'
    BY <1>1, <2>1, <2>2, <2>3, <2>4, SecondTypes, SecondTypesAfter
  <2>6. Numbered'
    BY <2>1 DEF Numbered, SecondInv
  <2>. QED  BY <2>5, <2>6 DEF SecondInv
<1>4. CASE FileResized
  <2>1. /\ left' \in Lengths \cup {0}
        /\ shrunk' = (shrunk \/ left' < left) /\ grown' = (grown \/ left' > left)
        /\ UNCHANGED <<phase, pending, last, rd, wr, state, streams, reads,
                       headers, size, announced, body, completed>>
    BY <1>4 DEF FileResized, sent
  <2>2. left' \in Nat /\ shrunk' \in BOOLEAN /\ grown' \in BOOLEAN
    BY <1>1, <2>1, SecondTypes, HttpAssumption
  <2>3. TypeOK'
    BY <1>1, <2>1, <2>2, SecondTypes, SecondTypesAfter
  <2>4. Numbered'
    BY <2>1 DEF Numbered, SecondInv
  <2>. QED  BY <2>3, <2>4 DEF SecondInv
<1>. QED  BY <1>2, <1>3, <1>4

\* The second server keeps its types.
LEMMA SecondStep == ASSUME SecondInv, Next PROVE SecondInv'
<1>1. CASE MessageReceived
  <2>1. PICK reading \in BOOLEAN : FileRequested(reading) \/ PageWritten(reading)
    BY <1>1 DEF MessageReceived
  <2>. QED  BY <1>1, <2>1, SecondFileStep, SecondPageStep
<1>2. CASE NextChunk
  BY <1>2, SecondChunkStep
<1>3. CASE AllSent
  BY <1>3, SecondAllSentStep
<1>4. CASE Connected \/ Disconnected \/ Thrown \/ FileResized
  BY <1>4, SecondOtherStep
<1>. QED  BY <1>1, <1>2, <1>3, <1>4 DEF Next

\* And starts with them.
LEMMA SecondInit == Init => SecondInv
<1> SUFFICES ASSUME Init PROVE SecondInv
  OBVIOUS
<1>1. /\ phase = [s \in {S} |-> "unborn"] /\ pending = [s \in {S} |-> None]
      /\ last = [s \in {S} |-> None]
      /\ rd = [s \in {S} |-> FALSE] /\ wr = [s \in {S} |-> FALSE]
      /\ state = [is |-> 0, readAndWriteFile |-> FALSE, length |-> 0,
                  nwritten |-> 0]
      /\ size = [i \in 1..MaxReads |-> Unopened]
      /\ announced = [i \in 1..MaxReads |-> 0]
      /\ body = [i \in 1..MaxReads |-> 0]
      /\ left = 0 /\ streams = {} /\ reads = 0
      /\ headers = {} /\ completed = FALSE /\ shrunk = FALSE /\ grown = FALSE
  BY DEF Init, SessionsInit, StreamInit, NoStream
<1>2. SessionsType
  BY <1>1 DEF SessionsType, Messages
<1>3. state \in [is : 0..MaxReads, readAndWriteFile : BOOLEAN,
                 length : 0..(SizeBound - 1), nwritten : Nat]
  BY <1>1, HttpAssumption
<1>4. 0 \in -IntBound..(IntBound - 1)
  BY HttpAssumption
<1>5. /\ size \in [1..MaxReads -> Lengths \cup {Unopened}]
      /\ announced \in [1..MaxReads -> -IntBound..(IntBound - 1)]
      /\ body \in [1..MaxReads -> Nat]
  BY <1>1, <1>4
<1>6. /\ streams \subseteq 1..MaxReads /\ headers \subseteq 1..MaxReads
      /\ left \in Nat /\ reads \in 0..MaxReads
  BY <1>1, HttpAssumption
<1>7. completed \in BOOLEAN /\ shrunk \in BOOLEAN /\ grown \in BOOLEAN
  BY <1>1
<1>8. TypeOK
  BY <1>2, <1>3, <1>5, <1>6, <1>7 DEF TypeOK
<1>9. Numbered
  BY <1>1 DEF Numbered, None, Message
<1>. QED  BY <1>8, <1>9 DEF SecondInv

-----------------------------------------------------------------------------
(***************************************************************************)
(* The types, and the third server's answer.                                *)
(***************************************************************************)
\* The invariant of whichever server it is, for any number of requests.
EitherInv ==
    /\ version \in {2, 3}
    /\ version = 2 => SecondInv
    /\ version = 3 => CodecInv

\* It holds at the start.
LEMMA EitherInit == ServersInit => EitherInv
<1> SUFFICES ASSUME ServersInit PROVE EitherInv
  OBVIOUS
<1>1. CASE version = 2 /\ Init
  BY <1>1, SecondInit DEF EitherInv
<1>2. CASE version = 3 /\ Third!Init
  BY <1>2, CodecInit DEF EitherInv
<1>. QED  BY <1>1, <1>2 DEF ServersInit

\* And is kept by every step.
LEMMA EitherStep ==
    ASSUME EitherInv, [ServersNext]_<<version, session, second, third>>
    PROVE  EitherInv'
<1>1. CASE version = 2 /\ version' = 2 /\ Next
  BY <1>1, SecondStep DEF EitherInv
<1>2. CASE version = 3 /\ version' = 3 /\ Third!Next
  BY <1>2, CodecStep DEF EitherInv
<1>3. CASE UNCHANGED <<version, session, second, third>>
  <2>1. UNCHANGED <<version, phase, pending, last, rd, wr, state, left, streams,
                    reads, headers, size, announced, body, completed, shrunk,
                    grown>>
        /\ UNCHANGED <<buffer, still, request, arrived>>
    BY <1>3 DEF session, second, third, sent, file
  <2>2. SecondInv => SecondInv'
    BY <2>1 DEF SecondInv, Numbered, TypeOK, SessionsType
  <2>3. Third!TypeOK => Third!TypeOK'
    BY <2>1 DEF Third!TypeOK, Third!SessionsType, Third!InBounds
  <2>4. LineInv /\ AnswerInv => LineInv' /\ AnswerInv'
    BY <2>1 DEF LineInv, AnswerInv, Third!Answer, Third!Matches, LF, Third!LF,
       Third!CR
  <2>. QED  BY <2>1, <2>2, <2>3, <2>4 DEF EitherInv, CodecInv
<1>. QED  BY <1>1, <1>2, <1>3 DEF ServersNext

\* The types of both servers, however many requests arrive: the position and the
\* limit of the read buffer stay within it, and whatever the size of a file, what
\* is announced is an int and what its sending is measured by a size_t.
THEOREM ServersTypesCorrect == ServersSpec => []ServersTypeOK
<1>1. EitherInv => ServersTypeOK
  BY DEF EitherInv, SecondInv, CodecInv, ServersTypeOK
<1>. QED  BY <1>1, EitherInit, EitherStep, PTL DEF ServersSpec

\* The third server answers the first line of all that has arrived, in however
\* many pieces, though each piece is inserted before what the codec left behind.
THEOREM FirstLineAnswered == ServersSpec => []AnswersFirstLine
<1>1. EitherInv => AnswersFirstLine
  <2>1. SUFFICES ASSUME EitherInv, version = 3, pending[S] # "none"
                 PROVE  pending[S] = Third!Answer(
                           Third!FirstLine(SubSeq(request, 1, arrived)))
    BY DEF AnswersFirstLine, Third!AnswersFirstLine, Third!S, S
  <2>2. /\ Third!TypeOK /\ LineInv /\ arrived # 0
        /\ pending[S] = Third!Answer(SubSeq(request, 1, buffer.position - 1))
    BY <2>1 DEF EitherInv, CodecInv, AnswerInv
  <2>. QED  BY <2>2, FirstLineIs
<1>. QED  BY <1>1, EitherInit, EitherStep, PTL DEF ServersSpec

=============================================================================
