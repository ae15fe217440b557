------------------------------ MODULE Sessions ------------------------------
(***************************************************************************)
(* The sessions of a process as their handler sees them: one step for each  *)
(* callback, messages whole, the bytes and system calls of module Session   *)
(* left out.  Session implements this module (for one session), and the     *)
(* modules of the example servers are built on it.                          *)
(*                                                                          *)
(* In every step out is the message the handler passes to session.write()   *)
(* (NoMessage: none), and close tells whether it calls session.close().     *)
(***************************************************************************)
CONSTANTS SessionId, Msg, NoMessage

VARIABLES
    phase,      \* "unborn", "open", "gone"
    pending,    \* the message to be written, _writeObject
    last,       \* the one before it, _lastWriteObject
    rd, wr      \* readEvent / writeEvent is added

sessionsVars == <<phase, pending, last, rd, wr>>

Messages == Msg \cup {NoMessage}

SessionsType ==
    /\ phase \in [SessionId -> {"unborn", "open", "gone"}]
    /\ pending \in [SessionId -> Messages]
    /\ last \in [SessionId -> Messages]
    /\ rd \in [SessionId -> BOOLEAN]
    /\ wr \in [SessionId -> BOOLEAN]

OpenSessions == {s \in SessionId : phase[s] = "open"}

\* The message that messageSent is called with, and that resetWrite() leaves as
\* the last one.
Reported(s) == IF pending[s] # NoMessage THEN pending[s] ELSE last[s]

-----------------------------------------------------------------------------
\* The end of a callback: a session the handler closed is deleted with its
\* events, another one waits for the events r and w.
LeaveOpen(s, close, r, w) ==
    /\ phase' = [phase EXCEPT ![s] = IF close THEN "gone" ELSE "open"]
    /\ rd' = [rd EXCEPT ![s] = ~close /\ r]
    /\ wr' = [wr EXCEPT ![s] = ~close /\ w]

\* A connection: sessionOpened.
Opened(s, out, close) ==
    /\ phase[s] = "unborn"
    /\ pending' = [pending EXCEPT ![s] = out]
    /\ LeaveOpen(s, close, out = NoMessage, out # NoMessage)
    /\ UNCHANGED last

\* Data: messageReceived.  A message that waits to be written is dropped, and a
\* new one is not scheduled while the session is still reading.
Received(s, out, close, still) ==
    /\ phase[s] = "open" /\ rd[s]
    /\ last' = [last EXCEPT ![s] = Reported(s)]
    /\ pending' = [pending EXCEPT ![s] = out]
    /\ LeaveOpen(s, close, rd[s], wr[s] \/ (out # NoMessage /\ ~still))

\* The message is sent: messageSent.
Sent(s, out, close) ==
    /\ phase[s] = "open" /\ wr[s]
    /\ last' = [last EXCEPT ![s] = Reported(s)]
    /\ pending' = [pending EXCEPT ![s] = out]
    /\ LeaveOpen(s, close, rd[s] \/ out = NoMessage, out # NoMessage)

\* The peer has ended its stream or an error ends the session: sessionClosed.
Ended(s) ==
    /\ phase[s] = "open"
    /\ LeaveOpen(s, TRUE, FALSE, FALSE)
    /\ UNCHANGED <<pending, last>>

-----------------------------------------------------------------------------
SessionsInit ==
    /\ phase = [s \in SessionId |-> "unborn"]
    /\ pending = [s \in SessionId |-> NoMessage]
    /\ last = [s \in SessionId |-> NoMessage]
    /\ rd = [s \in SessionId |-> FALSE]
    /\ wr = [s \in SessionId |-> FALSE]

\* Any handler at all.
SessionsNext ==
    \E s \in SessionId :
       \/ Ended(s)
       \/ \E out \in Messages, close \in BOOLEAN :
             \/ Opened(s, out, close)
             \/ Sent(s, out, close)
             \/ \E still \in BOOLEAN : Received(s, out, close, still)

SessionsSpec == SessionsInit /\ [][SessionsNext]_sessionsVars

=============================================================================
