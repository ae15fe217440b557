-------------------------- MODULE HandlerContract --------------------------
(***************************************************************************)
(* What a Handler (src/nwg_handler.h) may rely on, whatever the connection  *)
(* does: sessionOpened comes first and once; messageReceived and            *)
(* messageSent only come while the session is open; sessionClosed comes     *)
(* once, after at most one errorCaught, and nothing comes after it.         *)
(* calls counts the calls made so far; two calls made by one run of the     *)
(* library's code count in one step.                                        *)
(***************************************************************************)
EXTENDS Naturals

VARIABLE calls

NoCalls == [opened |-> 0, received |-> 0, sent |-> 0, error |-> 0,
            closed |-> 0]

Open == calls.opened = 1 /\ calls.closed = 0

Closing(cs) == [cs EXCEPT !.closed = 1]

\* A call after which the session stays open, or is closed at once.
Call(cs) == calls' \in {cs, Closing(cs)}

SessionOpened   == calls = NoCalls /\ Call([calls EXCEPT !.opened = 1])
MessageReceived == Open /\ Call([calls EXCEPT !.received = @ + 1])
MessageSent     == Open /\ Call([calls EXCEPT !.sent = @ + 1])
SessionClosed   == Open /\ calls' \in {Closing(calls),
                                       Closing([calls EXCEPT !.error = 1])}

Init == calls = NoCalls

Next == SessionOpened \/ MessageReceived \/ MessageSent \/ SessionClosed

Spec == Init /\ [][Next]_calls

=============================================================================
