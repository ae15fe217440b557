------------------------- MODULE SessionProperties -------------------------
(***************************************************************************)
(* What is checked, and in part proved, of module Session.                  *)
(***************************************************************************)
EXTENDS Session

WriteObject == [id : Nat, buf : Buffer]

ControlType ==
    /\ where \in {"unborn", "loop", "doRead", "doWrite", "gone", "killed"}
    /\ result \in Nat
    /\ closed \in BOOLEAN
    /\ rdEv \in BOOLEAN /\ wrEv \in BOOLEAN

ReadingType ==
    /\ rbuf \in Buffer /\ InBounds(rbuf)
    /\ nRead \in Nat
    /\ stillReading \in BOOLEAN

WritingType ==
    /\ wobj \in WriteObject /\ InBounds(wobj.buf)
    /\ last \in WriteObject
    /\ wbuf \in Buffer /\ InBounds(wbuf)
    /\ nWritten \in Nat

SocketType ==
    /\ arrived \in Nat /\ got \in 0..arrived
    /\ wire \in Seq(Nat) /\ drained \in 0..Len(wire)
    /\ peer \in {"open", "fin", "reset", "finreset", "refused"}
    /\ turn \in {"peer", "session"}
    /\ more \in BOOLEAN
    /\ ends \in Seq(Nat)

SeenType ==
    /\ delivered \in Seq(Nat) /\ reported \in Seq(Nat)
    /\ calls \in [opened : Nat, received : Nat, sent : Nat, error : Nat,
                  closed : Nat]
    /\ fdCloses \in Nat

\* The types, and that no buffer's position or limit leaves its vector
\* (_bs.begin() + _position in nwg_messagebuffer.cc is never out of range).
TypeOK ==
    ControlType /\ ReadingType /\ WritingType /\ SocketType /\ SeenType

-----------------------------------------------------------------------------
(***************************************************************************)
(* Safety, whatever the peer does.                                          *)
(***************************************************************************)

\* libevent never holds an event of a session that does not exist, so no
\* callback gets a dangling pointer; and a session that exists and is not in a
\* callback waits for at least one event, so it is never forgotten.
EventsOfLiveSession ==
    /\ where \in {"unborn", "gone", "killed"} => ~rdEv /\ ~wrEv
    /\ where = "loop" => rdEv \/ wrEv

\* The handler gets the peer's bytes in order, none twice, none skipped and
\* none of an earlier message, although the read buffer is never reset.  Between
\* callbacks it has got every byte that recv() returned, and a session that
\* ends drops received bytes only when the peer has ended its stream.
InputInOrder ==
    /\ delivered = Run(0, Len(delivered))
    /\ where = "loop" => Len(delivered) = got
    /\ where = "gone" /\ Len(delivered) < got => peer # "open"

\* doWrite never passes a null message to messageSent: while writeEvent is
\* added there is a message to write or one that was written before.
NoNullMessage ==
    /\ wrEv => wobj.id # 0 \/ last.id # 0
    /\ \A i \in 1..Len(reported) : reported[i] # 0

\* No message is reported to messageSent twice, and never out of order.
ReportedOnce ==
    \A i, j \in 1..Len(reported) : i < j => reported[i] < reported[j]

\* What goes out is made of whole messages in the order they were written:
\* after a byte comes the next one, or, only after the last byte of a message,
\* the first byte of a later message.
MessagesWhole ==
    \A i \in 1..(Len(wire) - 1) :
       \/ wire[i + 1] = wire[i] + 1
       \/ /\ wire[i + 1] > wire[i]
          /\ \E m \in 1..Len(ends) : wire[i] = ends[m]
          /\ \E m \in 1..Len(ends) : wire[i + 1] = ends[m] + 1

\* A message that waits to be written has its event added, except when doRead
\* gave up scheduling it because readBuffSize had been reached.
WriteScheduled ==
    where = "loop" /\ wobj.id # 0 => wrEv \/ stillReading

\* A session the handler has closed is gone when the callback returns.
CloseIsHonoured == closed => where = "gone"

\* The descriptor is closed at most once, never while the session lives, and
\* every way a session ends closes it but the one for result == 0.
FdClosedOnce ==
    /\ fdCloses <= 1
    /\ fdCloses = 1 => where = "gone"
    /\ where = "gone" /\ fdCloses = 0 =>
          ~closed /\ calls.error = 0
          /\ (peer \in {"fin", "finreset"} \/ stillReading)

\* The handler's methods are called in the order module HandlerContract gives.
HandlerContractSpec == INSTANCE HandlerContract
CallsInOrder == HandlerContractSpec!Spec

\* Callback by callback the session does what module Sessions says of it, for
\* whatever handler: that module leaves out the bytes and system calls only.
ThisSession == 1
Of(value) == [s \in {ThisSession} |-> value]
PhaseNow == IF where = "unborn" THEN "unborn"
            ELSE IF where \in {"gone", "killed"} THEN "gone" ELSE "open"
SessionsSpecOfOne == INSTANCE Sessions WITH
    SessionId <- {ThisSession}, Msg <- 1..MaxMessages, NoMessage <- 0,
    phase <- Of(PhaseNow), pending <- Of(wobj.id), last <- Of(last.id),
    rd <- Of(rdEv), wr <- Of(wrEv)
CallbackByCallback == SessionsSpecOfOne!SessionsSpec

-----------------------------------------------------------------------------
(***************************************************************************)
(* Safety when the peer waits for the response (HalfDuplex).                *)
(***************************************************************************)

\* session.write() keeps the promise of module OutputStream: no message is
\* replaced, cut short, reordered or reported before it is sent.
OutputStreamSpec == INSTANCE OutputStream
OutputIsStream == OutputStreamSpec!Spec

\* The branch of doWrite for nWritten != limit (NWG_EUNKNOWN) is not reached.
NoUnknownError == where = "doWrite" => nWritten <= wbuf.limit

-----------------------------------------------------------------------------
(***************************************************************************)
(* What the source says of itself and the code does not do.                 *)
(***************************************************************************)

\* "doRead() OUT (closed, result == 0)": the session's descriptor is closed
\* when the session is.
FdReleased == where = "gone" => fdCloses = 1

\* "result == 0": that return of doRead means that recv() reported the end of
\* the peer's stream.
ResultZeroMeansStreamEnded ==
    where = "gone" /\ fdCloses = 0 => peer \in {"fin", "finreset"}

\* "RESPONSE SENT": a message that is reported to messageSent has been sent.
FirstByte(m) == IF m = 1 THEN 1 ELSE ends[m - 1] + 1
SentMeansTransmitted ==
    \A i \in 1..Len(reported) :
       \A b \in FirstByte(reported[i])..ends[reported[i]] :
          \E k \in 1..Len(wire) : wire[k] = b

-----------------------------------------------------------------------------
(***************************************************************************)
(* Liveness.                                                                *)
(***************************************************************************)

\* A callback returns: in particular the loop of doWrite, which sends nothing
\* in its first round after an EAGAIN, does not spin.
CallbackReturns ==
    where \in {"doRead", "doWrite"} ~> where \notin {"doRead", "doWrite"}

\* A session that has readEvent added, or gets it, ends after the end of the
\* peer's stream, whatever it goes on writing and whether or not the peer reads.
\* One that has only writeEvent does not notice that end: not while the peer
\* does not read, and never if its handler writes in each messageSent.
FinEndsSession == peer = "fin" /\ rdEv ~> ~Running

\* Every message the handler writes is reported, or the session ends.
SentOrEnded ==
    \A m \in 1..MaxMessages :
       Len(ends) >= m ~> \/ \E i \in 1..Len(reported) : reported[i] = m
                         \/ ~Running

=============================================================================
