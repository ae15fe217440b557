---------------------------- MODULE HttpServers ----------------------------
(***************************************************************************)
(* A session of one of two HTTP servers: of the second, which streams files *)
(* (HttpStream), or of the third, which has a codec of its own (HttpCodec). *)
(***************************************************************************)
EXTENDS HttpStream, Sequences

CONSTANTS Requests, WellFormed, ReadLimit       \* of the third server

ASSUME CodecAssumption ==
    /\ Requests \subseteq Seq(Nat) \ {<<>>} /\ WellFormed \subseteq Seq(Nat)
    /\ ReadLimit \in Nat \ {0}

VARIABLES version,                              \* 2 or 3
          buffer, still, request, arrived       \* of the third server

Third == INSTANCE HttpCodec

second == <<state, left, streams, reads, size, announced, sent, file>>
third  == <<buffer, still, request, arrived>>
session == <<phase, pending, last, rd, wr>>

-----------------------------------------------------------------------------
ThirdIdle == buffer = <<>> /\ still = FALSE /\ request = <<>> /\ arrived = 0

ServersInit ==
    \/ version = 2 /\ Init /\ ThirdIdle
    \/ version = 3 /\ Third!Init /\ StreamInit

ServersNext ==
    /\ UNCHANGED version
    /\ \/ version = 2 /\ Next /\ UNCHANGED third
       \/ version = 3 /\ Third!Next /\ UNCHANGED second

\* A client that reads what it is sent has every message sent.
Transmission ==
    /\ UNCHANGED version
    /\ \/ version = 2 /\ (NextChunk \/ AllSent) /\ UNCHANGED third
       \/ version = 3 /\ Third!MessageSent /\ UNCHANGED second

ServersSpec ==
    /\ ServersInit
    /\ [][ServersNext]_<<version, session, second, third>>
    /\ WF_<<version, session, second, third>>(Transmission)

-----------------------------------------------------------------------------
\* The types of whichever server it is.
ServersTypeOK ==
    /\ version \in {2, 3}
    /\ version = 2 => TypeOK
    /\ version = 3 => Third!TypeOK

\* Of the third server: what it answers is the first line of all that has
\* arrived, in however many pieces.
AnswersFirstLine == version = 3 => Third!AnswersFirstLine

=============================================================================
