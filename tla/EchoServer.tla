----------------------------- MODULE EchoServer -----------------------------
(***************************************************************************)
(* The echo server (examples/echoserver.cc): the handler of all clients     *)
(* shares the counter numClient, and closes clients over the limit.         *)
(***************************************************************************)
EXTENDS Naturals, FiniteSets

CONSTANTS Client,       \* the sessions that are ever accepted
          MaxClient     \* MAX_CLIENT

ASSUME EchoAssumption == MaxClient \in Nat /\ IsFiniteSet(Client)

VARIABLES phase, pending, last, rd, wr,     \* the sessions
          numClient,
          welcome,      \* history: the clients that were welcomed
          evicted       \* history: those messageSent has closed

INSTANCE Sessions WITH SessionId <- Client,
                       Msg <- {"welcome", "limit", "echo"},
                       NoMessage <- "none"

vars == <<sessionsVars, numClient, welcome, evicted>>

-----------------------------------------------------------------------------
MissedIncrement == numClient
OneMore == numClient + 1

Greeting == IF numClient' > MaxClient THEN "limit" ELSE "welcome"

\* sessionOpened
Connected(c) ==
    /\ numClient' = OneMore
    /\ Opened(c, Greeting, FALSE)
    /\ welcome' = IF Greeting = "welcome" THEN welcome \cup {c} ELSE welcome
    /\ UNCHANGED evicted

\* messageReceived
Echo(c) ==
    /\ \E still \in BOOLEAN : Received(c, "echo", FALSE, still)
    /\ UNCHANGED <<numClient, welcome, evicted>>

\* messageSent, and the sessionClosed that follows when it closes the session.
FullIsTooMany == numClient >= MaxClient
TooMany == numClient > MaxClient

MessageSent(c) ==
    /\ Sent(c, "none", TooMany)
    /\ IF TooMany
       THEN evicted' = evicted \cup {c} /\ numClient' = numClient - 1
       ELSE UNCHANGED <<evicted, numClient>>
    /\ UNCHANGED welcome

\* The client leaves, or its connection fails: sessionClosed.
NotCounted == numClient
OneLess == numClient - 1

Disconnected(c) ==
    /\ Ended(c)
    /\ numClient' = OneLess
    /\ UNCHANGED <<welcome, evicted>>

Init ==
    /\ SessionsInit
    /\ numClient = 0
    /\ welcome = {} /\ evicted = {}

Next ==
    \E c \in Client :
        Connected(c) \/ Echo(c) \/ MessageSent(c) \/ Disconnected(c)

Spec == Init /\ [][Next]_vars

\* A client that reads what it is sent has every message sent.
FairSpec == Spec /\ \A c \in Client : WF_vars(MessageSent(c))

-----------------------------------------------------------------------------
TypeOK ==
    /\ SessionsType
    /\ numClient \in Nat
    /\ welcome \subseteq Client /\ evicted \subseteq Client

\* The counter that all sessions share counts the sessions that are open, so
\* every way a session ends goes through sessionClosed once.
ClientsCounted == numClient = Cardinality(OpenSessions)

\* Only what is over the limit is closed: after an eviction the server is
\* still full, whichever client was closed.
EvictsOnlyExcess ==
    [][evicted' # evicted => Cardinality(OpenSessions') >= MaxClient]_vars

\* The limit is restored: the clients over it are closed when something is sent.
LimitRestored == numClient > MaxClient ~> numClient <= MaxClient

\* "Client limit exceeded!" is what a client over the limit is told; only
\* clients that were told so are closed.
OnlyRefusedAreClosed == evicted \cap welcome = {}

=============================================================================
