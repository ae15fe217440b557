----------------------------- MODULE HttpCodec -----------------------------
(***************************************************************************)
(* A session of the third HTTP server (examples/httpserverv3.cc).  Its      *)
(* codec, unlike the basic one, reads a line only and leaves the rest of    *)
(* the read buffer behind, into which the next doRead puts more.  So here   *)
(* the read buffer is the real one of module MessageBuffer, and the request *)
(* a sequence of bytes that arrives in pieces.                              *)
(***************************************************************************)
EXTENDS MessageBuffer

CONSTANTS Requests,     \* what a client may send: non-empty sequences of bytes
          WellFormed,   \* the first lines that match PATTERN, without the \r
          ReadLimit     \* READBUFFSIZE

VARIABLES phase, pending, last, rd, wr,     \* the session
          buffer,       \* its read buffer
          still,        \* stillReading
          request,      \* what the client sends
          arrived       \* how many bytes of it doRead has read

S == 1
CR == 13
LF == 10

INSTANCE Sessions WITH SessionId <- {S}, Msg <- {"200 OK", "400 BAD REQUEST"},
                       NoMessage <- "none"

input == <<buffer, still, request, arrived>>
vars == <<sessionsVars, input>>

-----------------------------------------------------------------------------
\* HttpProtocolCodec::transformUp: the line it matches, and what that leaves.
Matches(line) == \E w \in WellFormed : line = w \/ line = Append(w, CR)

TransformUp(b) == BytesUntil(b, LF)
AfterTransformUp(b) == AfterReadUntil(b, LF)

\* HttpHandler::messageReceived
Answer(line) == IF Matches(line) THEN "200 OK" ELSE "400 BAD REQUEST"

\* sessionOpened
Connected ==
    /\ Opened(S, "none", FALSE)
    /\ UNCHANGED input

\* The bytes are put into the read buffer where the codec left its position.
\* A doRead that reaches READBUFFSIZE is the last one that reads.
MessageReceived(n) ==
    /\ ~still
    /\ LET piece == SubSeq(request, arrived + 1, arrived + n)
           filled == Flip(Put(buffer, piece))
       IN  /\ buffer' = AfterTransformUp(filled)
           /\ Received(S, Answer(TransformUp(filled)), FALSE, n >= ReadLimit)
    /\ arrived' = arrived + n
    /\ still' = (n >= ReadLimit)
    /\ UNCHANGED request

MessageSent ==
    /\ Sent(S, "none", TRUE)
    /\ UNCHANGED input

Disconnected ==
    /\ Ended(S)
    /\ UNCHANGED input

Init ==
    /\ SessionsInit
    /\ buffer = EmptyBuffer
    /\ still = FALSE /\ arrived = 0
    /\ request \in Requests

Next ==
    \/ Connected \/ MessageSent \/ Disconnected
    \/ \E n \in 1..(Len(request) - arrived) :
          n < 2 * ReadLimit /\ MessageReceived(n)

Spec == Init /\ [][Next]_vars

-----------------------------------------------------------------------------
\* The types; the read buffer's position and limit stay within it.
TypeOK ==
    /\ SessionsType
    /\ buffer \in Buffer /\ InBounds(buffer)
    /\ still \in BOOLEAN
    /\ request \in Requests /\ arrived \in 0..Len(request)

\* The first line of what has arrived, as far as it goes; as long as its end is
\* missing, so is its last byte.
FirstLine(s) ==
    LET ends == {i \in DOMAIN s : s[i] = LF}
    IN  IF ends = {} THEN SubSeq(s, 1, Len(s) - 1)
        ELSE SubSeq(s, 1, (CHOOSE i \in ends : \A j \in ends : i <= j) - 1)

\* The answer that waits to be sent is the answer to the first line of all that
\* has arrived, in however many pieces, though the codec reads the line out of
\* the buffer each time and doRead inserts each piece before what is left.
AnswersFirstLine ==
    pending[S] # "none" =>
       pending[S] = Answer(FirstLine(SubSeq(request, 1, arrived)))

=============================================================================
