----------------------------- MODULE HttpStream -----------------------------
(***************************************************************************)
(* A session of the second HTTP server (examples/httpserverv2.cc), which    *)
(* answers a request for a file with a header and then sends the file in    *)
(* chunks, one from each messageSent.  Streams are numbered by the call of   *)
(* messageReceived that opens them.                                         *)
(***************************************************************************)
EXTENDS Integers

CONSTANTS Lengths,      \* the sizes of the files, in bytes
          ReadBuffSize, \* READBUFFSIZE, the size of a chunk
          IntBound,     \* 2^31: an int is in -IntBound..(IntBound - 1)
          SizeBound,    \* 2^64: a size_t is in 0..(SizeBound - 1)
          MaxReads      \* bound: how often messageReceived is called

ASSUME HttpAssumption ==
    /\ Lengths \subseteq Nat /\ ReadBuffSize \in Nat \ {0} /\ MaxReads \in Nat
    /\ IntBound \in Nat \ {0} /\ SizeBound \in Nat /\ IntBound < SizeBound

VARIABLES phase, pending, last, rd, wr,     \* the session
          state,        \* its SessionState
          left,         \* what state.is will still yield of its file
          streams,      \* the streams that were opened and not closed
          reads,        \* calls of messageReceived so far
          \* History.
          headers,      \* the streams whose header was sent
          size,         \* the sizes of their files, when they were opened
          announced,    \* their Content-Length
          body,         \* the bytes of their files that were sent
          completed,    \* messageSent has closed the session
          shrunk, grown \* a file got shorter, longer, while it was being sent

S == 1
NoStream == 0
Unopened == -1      \* tellg() of a stream that could not be opened

Message(kind, of, n) == [kind |-> kind, of |-> of, bytes |-> n]
None == Message("none", NoStream, 0)
Page == Message("page", NoStream, 0)
Header(i) == Message("header", i, 0)
Content(i, n) == Message("chunk", i, n)

INSTANCE Sessions WITH
    SessionId <- {S},
    Msg <- [kind : {"header", "page", "chunk"}, of : 0..MaxReads,
            bytes : 0..ReadBuffSize],
    NoMessage <- None

sent == <<headers, body, completed>>
file == <<shrunk, grown>>
vars == <<sessionsVars, state, left, streams, reads, size, announced, sent,
          file>>

Min2(a, b) == IF a < b THEN a ELSE b

\* The conversions of a file's size on its way from tellg() into int length and
\* on into size_t state.length.
ToInt(n) == ((n + IntBound) % (2 * IntBound)) - IntBound
KeepsSign(n) == n
ToSizeT(n) == IF n < 0 THEN SizeBound + n ELSE n

-----------------------------------------------------------------------------
(***************************************************************************)
(* sessionClosed: a stream in use is closed and deleted.                    *)
(***************************************************************************)
StreamForgotten(st, open) == state' = st /\ streams' = open
SessionClosed(st, open) ==
    IF st.readAndWriteFile
    THEN state' = [st EXCEPT !.is = NoStream] /\ streams' = open \ {st.is}
    ELSE state' = st /\ streams' = open

\* What a callback leaves of the state, with the sessionClosed that follows
\* when the session was closed in it.
Leave(st, open, close) ==
    IF close THEN SessionClosed(st, open) ELSE state' = st /\ streams' = open

(***************************************************************************)
(* messageReceived, which closes a session that is still reading.           *)
(***************************************************************************)
\* A regular file, which can be opened or, for lack of permission or of
\* descriptors, cannot; the code goes on with either stream.
FileRequested(still) ==
    \E end \in Lengths \cup {Unopened} :
       /\ Received(S, Header(reads + 1), still, still)
       /\ left' = IF end = Unopened THEN 0 ELSE end
       /\ Leave([is |-> reads + 1, readAndWriteFile |-> TRUE,
                 length |-> ToSizeT(ToInt(end)), nwritten |-> 0],
                streams \cup {reads + 1}, still)
       /\ announced' = [announced EXCEPT ![reads + 1] = ToInt(end)]
       /\ size' = [size EXCEPT ![reads + 1] = end]

\* A directory, an unknown file, or no request at all.
PageWritten(still) ==
    /\ Received(S, Page, still, still)
    /\ Leave(state, streams, still)
    /\ UNCHANGED <<left, announced, size>>

MessageReceived ==
    /\ reads < MaxReads
    /\ reads' = reads + 1
    /\ \E still \in BOOLEAN : FileRequested(still) \/ PageWritten(still)
    /\ UNCHANGED <<sent, file>>

\* Asking the filesystem about a path or listing a directory throws, and nobody
\* catches it: the process ends, without sessionClosed, and its streams with it.
Thrown ==
    /\ reads < MaxReads /\ rd[S]
    /\ Ended(S)
    /\ reads' = reads + 1
    /\ streams' = {}
    /\ UNCHANGED <<state, left, size, announced, sent, file>>

(***************************************************************************)
(* messageSent.                                                             *)
(***************************************************************************)
\* The message that was pending has been sent whole.
Transmitted ==
    LET m == pending[S] IN
    /\ headers' = IF m.kind = "header" THEN headers \cup {m.of} ELSE headers
    /\ body' = IF m.kind = "chunk" THEN [body EXCEPT ![m.of] = @ + m.bytes]
                                   ELSE body

OnlyFullChunks ==
    state.readAndWriteFile /\ state.nwritten + ReadBuffSize <= state.length
MoreToSend == state.readAndWriteFile /\ state.nwritten < state.length

\* The next chunk; the one that makes nwritten equal to length closes the stream.
NotCounted(n) == state.nwritten
Counted(n) == state.nwritten + n

NextChunk ==
    /\ MoreToSend
    /\ LET n == Min2(ReadBuffSize, left) IN
       /\ Sent(S, Content(state.is, n), FALSE)
       /\ left' = left - n
       /\ IF Counted(n) = state.length
          THEN /\ state' = [is |-> NoStream, readAndWriteFile |-> FALSE,
                            length |-> 0, nwritten |-> 0]
               /\ streams' = streams \ {state.is}
          ELSE /\ state' = [state EXCEPT !.nwritten = Counted(n)]
               /\ UNCHANGED streams
    /\ Transmitted
    /\ UNCHANGED <<reads, size, announced, completed, file>>

AllSent ==
    /\ ~MoreToSend
    /\ Sent(S, None, TRUE)
    /\ SessionClosed(state, streams)
    /\ completed' = TRUE
    /\ Transmitted
    /\ UNCHANGED <<left, reads, size, announced, file>>

-----------------------------------------------------------------------------
\* sessionOpened
Connected ==
    /\ Opened(S, None, FALSE)
    /\ UNCHANGED <<state, left, streams, reads, size, announced, sent, file>>

Disconnected ==
    /\ Ended(S)
    /\ SessionClosed(state, streams)
    /\ UNCHANGED <<left, reads, size, announced, sent, file>>

\* Somebody truncates the file or appends to it, which the stream sees as long as
\* it has not met the file's end.
FileResized ==
    /\ state.readAndWriteFile /\ left > 0 /\ phase[S] = "open"
    /\ left' \in Lengths \cup {0}
    /\ shrunk' = (shrunk \/ left' < left)
    /\ grown' = (grown \/ left' > left)
    /\ UNCHANGED <<phase, pending, last, rd, wr, state, streams, reads, size,
                   announced, sent>>

StreamInit ==
    /\ state = [is |-> NoStream, readAndWriteFile |-> FALSE, length |-> 0,
                nwritten |-> 0]
    /\ size = [i \in 1..MaxReads |-> Unopened]
    /\ announced = [i \in 1..MaxReads |-> 0]
    /\ body = [i \in 1..MaxReads |-> 0]
    /\ left = 0 /\ streams = {} /\ reads = 0
    /\ headers = {} /\ completed = FALSE /\ shrunk = FALSE /\ grown = FALSE

Init == SessionsInit /\ StreamInit

Next ==
    \/ Connected \/ MessageReceived \/ Thrown \/ NextChunk \/ AllSent
    \/ Disconnected \/ FileResized

Spec == Init /\ [][Next]_vars

-----------------------------------------------------------------------------
\* The types: in particular what is printed as Content-Length is an int and what
\* nwritten is compared with a size_t, whatever the file's size and though the
\* one is assigned to the other.
TypeOK ==
    /\ SessionsType
    /\ state \in [is : 0..MaxReads, readAndWriteFile : BOOLEAN,
                  length : 0..(SizeBound - 1), nwritten : Nat]
    /\ left \in Nat
    /\ reads \in 0..MaxReads
    /\ streams \subseteq 1..MaxReads /\ headers \subseteq 1..MaxReads
    /\ size \in [1..MaxReads -> Lengths \cup {Unopened}]
    /\ announced \in [1..MaxReads -> -IntBound..(IntBound - 1)]
    /\ body \in [1..MaxReads -> Nat]
    /\ completed \in BOOLEAN /\ shrunk \in BOOLEAN /\ grown \in BOOLEAN

\* The session's stream is the only open one: while the session is open it is
\* there exactly as long as readAndWriteFile says so, and no stream outlives
\* the session, however it ends, also by an exception that ends the process.
StreamsClosed ==
    /\ phase[S] = "open" =>
          streams = IF state.readAndWriteFile THEN {state.is} ELSE {}
    /\ phase[S] = "gone" => streams = {}

\* A response is as long as its header says, and as its file: when messageSent
\* closes a session that was asked for a file whose size is an int, exactly that
\* many bytes of it have been announced and sent, unless somebody has changed
\* the file meanwhile.
FitsInt(i) == size[i] \in 0..(IntBound - 1)
ContentLength ==
    completed /\ ~shrunk /\ ~grown =>
       \A i \in headers :
          FitsInt(i) => body[i] = announced[i] /\ announced[i] = size[i]

\* The response ends, unless somebody truncates the file or the Content-Length
\* is negative: that of a file that cannot be opened, or whose size exceeds an
\* int and is not back among the natural numbers.
NegativeLength == \E i \in 1..MaxReads : announced[i] < 0
ResponseEnds ==
    \/ <>(shrunk \/ NegativeLength)
    \/ (phase[S] = "open" /\ wr[S] ~> phase[S] = "gone")

\* "send the header first" (httpserverv2.cc, line 175): no part of a file goes
\* out before its header.  With two reads the second one drops the header that
\* waits, and the chunks follow the page written in its place.
HeaderFirst == \A i \in 1..MaxReads : body[i] > 0 => i \in headers

=============================================================================
