-------------------------- MODULE EchoConversation --------------------------
(***************************************************************************)
(* The echo server with the echo client (examples/echoclient.cc) as one of  *)
(* its clients; the others are any clients.  Between the two there is a      *)
(* stream in each direction, in which a message is a number of bytes: what  *)
(* was written whole may be received in pieces, and pieces of two messages   *)
(* at once.  Both sides call messageReceived for each piece.  Messages are   *)
(* short, so that send() takes each of them whole.                          *)
(***************************************************************************)
EXTENDS EchoServer, Sequences

CONSTANTS Us,           \* the echo client
          Size          \* the bytes of a message that is not empty

ASSUME ConversationAssumption == Us \in Client /\ Size \in Nat \ {0}

VARIABLES
    ourPhase, ourPending, ourLast, ourRd, ourWr,    \* the client's session
    msgNo,
    toServer, toClient, \* bytes on their way
    \* History: what the client has sent, whether its handler has closed, and
    \* whether a message was not received whole and alone.
    sent, closed, cut

Our == INSTANCE Sessions WITH
    SessionId <- {Us}, Msg <- {"first", "second", "typed", "blank"},
    NoMessage <- "none", phase <- ourPhase, pending <- ourPending,
    last <- ourLast, rd <- ourRd, wr <- ourWr

server  == <<phase, pending, last, rd, wr, numClient, welcome, evicted>>
ours    == <<ourPhase, ourPending, ourLast, ourRd, ourWr>>
streams == <<toServer, toClient>>
history == <<sent, closed, cut>>
conversation == <<ours, msgNo, streams, history>>

-----------------------------------------------------------------------------
\* A piece of what is on its way is received.
Piece(way, n) ==
    /\ n \in 1..way
    /\ cut' = (cut \/ n # Size \/ way # Size)

(***************************************************************************)
(* EchoClientHandler.                                                       *)
(***************************************************************************)
\* What messageReceived writes, the third time what the user types; then it
\* closes.
Answers ==
    CASE msgNo = 0 -> {"first"}
      [] msgNo = 1 -> {"second"}
      [] msgNo = 2 -> {"typed", "blank"}
      [] OTHER     -> {}

ClosesEarly == msgNo >= 2
ClosesLate == msgNo > 3
Closes == msgNo > 2

ClientReceives ==
    /\ \E n \in 1..toClient :
          Piece(toClient, n) /\ toClient' = IF Closes THEN 0 ELSE toClient - n
    /\ \/ /\ ~Closes
          /\ \E m \in Answers : Our!Received(Us, m, FALSE, FALSE)
          /\ msgNo' = msgNo + 1
          /\ UNCHANGED closed
       \/ /\ Closes
          /\ Our!Received(Us, "none", TRUE, FALSE)
          /\ closed' = TRUE
          /\ UNCHANGED msgNo
    /\ UNCHANGED <<server, toServer, sent>>

\* messageSent does nothing; of an empty message no byte is sent.  What is sent
\* to a session that is gone is left out.
ClientSends ==
    /\ Our!Sent(Us, "none", FALSE)
    /\ sent' = Append(sent, ourPending[Us])
    /\ toServer' = IF ourPending[Us] = "blank" \/ phase[Us] = "gone"
                   THEN toServer ELSE toServer + Size
    /\ UNCHANGED <<server, msgNo, toClient, closed, cut>>

\* The server has closed the connection.
ClientEnds ==
    /\ phase[Us] = "gone"
    /\ Our!Ended(Us)
    /\ UNCHANGED <<server, msgNo, streams, history>>

-----------------------------------------------------------------------------
(***************************************************************************)
(* The server's session with the client.                                    *)
(***************************************************************************)
Accepted ==
    /\ Connected(Us)
    /\ Our!Opened(Us, "none", FALSE)
    /\ UNCHANGED <<msgNo, streams, history>>

\* What the client sends never fills the server's read buffer.
ServerReceives ==
    /\ \E n \in 1..toServer : Piece(toServer, n) /\ toServer' = toServer - n
    /\ Echo(Us) /\ wr'[Us]
    /\ UNCHANGED <<ours, msgNo, toClient, sent, closed>>

ServerSends ==
    /\ MessageSent(Us)
    /\ toClient' = IF ourPhase[Us] = "gone" THEN 0 ELSE toClient + Size
    /\ UNCHANGED <<ours, msgNo, toServer, history>>

\* The client has closed the connection.
ServerEnds ==
    /\ ourPhase[Us] = "gone"
    /\ Disconnected(Us)
    /\ UNCHANGED conversation

ConversationStep ==
    \/ Accepted \/ ClientReceives \/ ClientSends \/ ClientEnds
    \/ ServerReceives \/ ServerSends \/ ServerEnds

AnyClient(c) == Connected(c) \/ Echo(c) \/ MessageSent(c) \/ Disconnected(c)

-----------------------------------------------------------------------------
ConversationInit ==
    /\ Init
    /\ Our!SessionsInit
    /\ msgNo = 0 /\ toServer = 0 /\ toClient = 0
    /\ sent = <<>> /\ closed = FALSE /\ cut = FALSE

ConversationNext ==
    \/ ConversationStep
    \/ \E c \in Client \ {Us} : AnyClient(c) /\ UNCHANGED conversation

\* What was written is sent, what was sent is received, and the end of a
\* connection is seen; the other clients read what they are sent.
ConversationSpec ==
    /\ ConversationInit
    /\ [][ConversationNext]_<<server, conversation>>
    /\ WF_<<server, conversation>>(ClientReceives)
    /\ WF_<<server, conversation>>(ClientSends)
    /\ WF_<<server, conversation>>(ClientEnds)
    /\ WF_<<server, conversation>>(ServerReceives)
    /\ WF_<<server, conversation>>(ServerSends)
    /\ WF_<<server, conversation>>(ServerEnds)
    /\ \A c \in Client \ {Us} : WF_server(MessageSent(c))

-----------------------------------------------------------------------------
\* The types of both sides.
ConversationTypeOK ==
    /\ TypeOK
    /\ Our!SessionsType
    /\ msgNo \in 0..3 /\ toServer \in Nat /\ toClient \in Nat
    /\ sent \in Seq({"first", "second", "typed", "blank"})
    /\ closed \in BOOLEAN /\ cut \in BOOLEAN

\* The two never wait for each other for ever: the client comes to its end,
\* though it takes each piece of an answer for an answer, and replaces a message
\* that still waits to be sent, and so does the server.  Only if the user types
\* nothing no answer comes.
ConversationEnds ==
    ourPhase[Us] = "open" ~>
       \/ ourPhase[Us] = "gone"
       \/ \E i \in DOMAIN sent : sent[i] = "blank"

\* As long as each message is received whole and alone, the client closes only
\* after the server has answered all three of its messages.
ConversationWhole ==
    closed /\ ~cut => sent = <<"first", "second", "typed">>

=============================================================================
