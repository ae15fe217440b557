------------------------------ MODULE Session ------------------------------
(***************************************************************************)
(* One session of the library: the Session object (src/nwg_session.cc), the *)
(* three callbacks of src/nwg_evcb.cc that libevent runs for it, the        *)
(* handler they call, and the kernel socket and the peer at the other end.  *)
(*                                                                          *)
(* The program has one thread, so the callbacks of a session never overlap; *)
(* what interleaves with them is the peer, between any two system calls.    *)
(* Each recv() and each send() is therefore a step of its own, and the code *)
(* that runs from one system call to the next one is one step.              *)
(*                                                                          *)
(* The bytes the peer sends are numbered 1, 2, ...; so are the bytes of all *)
(* messages the handler passes to session.write().                          *)
(***************************************************************************)
EXTENDS BasicProtocolCodec

CONSTANTS
    ReadBuffSize,   \* Service::getReadBuffSize()
    SendRoom,       \* bytes the kernel accepts before the peer reads them
    HalfDuplex,     \* TRUE: the peer waits for the response to its request
    MaxIn,          \* bound: bytes the peer ever sends
    MaxMessages,    \* bound: messages the handler ever writes
    MaxLen          \* bound: bytes of a message

ASSUME SessionAssumption ==
    /\ ReadBuffSize \in Nat \ {0}
    /\ SendRoom \in Nat \ {0}
    /\ HalfDuplex \in BOOLEAN
    /\ MaxIn \in Nat /\ MaxMessages \in Nat /\ MaxLen \in Nat \ {0}

VARIABLES
    \* Control: which callback runs, if any, and its local variable result.
    where,          \* "unborn", "loop", "doRead", "doWrite", "gone", "killed"
    result,
    \* The Session object and its two libevent events.
    closed, wobj, last, rbuf, wbuf, nRead, nWritten, stillReading,
    rdEv, wrEv,     \* readEvent / writeEvent is added
    \* The socket and the peer.
    arrived, got,   \* bytes that reached the socket / that recv() returned
    drained,        \* bytes the peer has read
    peer,           \* "open", "fin", "reset", "finreset", "refused"
    turn,           \* in half duplex, whose turn it is: "peer", "session"
    more,           \* in half duplex, the last message is not the final one
    \* What the outside has seen.
    wire,           \* bytes send() accepted, in order
    ends,           \* ends[m] = number of the last byte of message m
    delivered,      \* bytes passed to messageReceived, in order
    reported,       \* messages passed to messageSent, in order (0: null)
    calls,          \* how often each handler method was called
    fdCloses        \* how often close(fd) was called

control  == <<where, result>>
reading  == <<rbuf, nRead, stillReading>>
writing  == <<wobj, last, wbuf, nWritten>>
events   == <<rdEv, wrEv>>
socket   == <<arrived, got, drained, peer, turn>>
output   == <<wire, ends, more>>
seen     == <<delivered, reported, calls, fdCloses>>
vars     == <<control, reading, writing, closed, events, socket, output, seen>>

-----------------------------------------------------------------------------
Min2(a, b) == IF a < b THEN a ELSE b

NoObject == [id |-> 0, buf |-> EmptyBuffer]     \* a null shared_ptr
WriteObjectPresent == wobj.id # 0               \* isWriteObjectPresent()

Produced == IF ends = <<>> THEN 0 ELSE ends[Len(ends)]

\* The n bytes after byte b, as a sequence.
Run(b, n) == [i \in 1..n |-> b + i]

\* A message of n bytes as handlers build it: filled, then flipped.
Message(n) == [id  |-> Len(ends) + 1,
               buf |-> Flip(Put(EmptyBuffer, Run(Produced, n)))]

Running == where \notin {"gone", "killed"}
Room == SendRoom - (Len(wire) - drained)

OnlyDataIsReadable == got < arrived
Readable == got < arrived \/ peer # "open"
Writable == Room > 0 \/ peer \in {"reset", "finreset", "refused"}

-----------------------------------------------------------------------------
(***************************************************************************)
(* What the code between two system calls is made of.                       *)
(***************************************************************************)

\* resetWrite(): a present write object becomes the last one, leaving none, and
\* the write buffer is emptied.
LastForgotten == last
LastAfterReset == IF WriteObjectPresent THEN wobj ELSE last

ObjectKept == wobj
ObjectAfterReset == NoObject

ResetWrite == last' = LastAfterReset /\ wbuf' = EmptyBuffer

\* The handler leaves the session without a write object.
HandlerSilent == wobj' = ObjectAfterReset /\ UNCHANGED <<ends, more>>

\* The handler writes a message.  In half duplex it knows whether another one
\* follows, and the message that completes a response is not empty.
HandlerWrites ==
    /\ Len(ends) < MaxMessages
    /\ more' \in BOOLEAN
    /\ more' => HalfDuplex /\ Len(ends) + 1 < MaxMessages
    /\ \E n \in 0..MaxLen :
          /\ HalfDuplex /\ ~more' => n > 0
          /\ wobj' = Message(n)
          /\ ends' = Append(ends, Produced + n)

HandlerActs(may, must) ==
    \/ ~must /\ HandlerSilent
    \/ (may \/ must) /\ HandlerWrites

\* The handler calls session.close() or does not.
HandlerCloses == closed' \in BOOLEAN

\* sessionClosed, then delete session: the destructor frees both events.
EndWithoutDelete(cs, closing) ==
    /\ where' = "loop"
    /\ UNCHANGED events
    /\ calls' = [cs EXCEPT !.closed = @ + 1]
    /\ fdCloses' = fdCloses + closing
End(cs, closing) ==
    /\ where' = "gone"
    /\ rdEv' = FALSE /\ wrEv' = FALSE
    /\ calls' = [cs EXCEPT !.closed = @ + 1]
    /\ fdCloses' = fdCloses + closing

Fail(closing) == End([calls EXCEPT !.error = @ + 1], closing)

\* The last lines of a callback whose handler may have closed the session:
\* events(r, w) says which events a session that stays is waiting for.
CloseIgnored(cs, r, w) ==
    /\ where' = "loop"
    /\ rdEv' = r /\ wrEv' = w
    /\ calls' = cs
    /\ UNCHANGED fdCloses
CloseLeaksFd(cs, r, w) ==
    \/ /\ closed'
       /\ End(cs, 0)
    \/ /\ ~closed'
       /\ where' = "loop"
       /\ rdEv' = r /\ wrEv' = w
       /\ calls' = cs
       /\ UNCHANGED fdCloses
StayOrEnd(cs, r, w) ==
    \/ /\ closed'
       /\ End(cs, 1)
    \/ /\ ~closed'
       /\ where' = "loop"
       /\ rdEv' = r /\ wrEv' = w
       /\ calls' = cs
       /\ UNCHANGED fdCloses

-----------------------------------------------------------------------------
(***************************************************************************)
(* doAccept and doConnect, from the new Session on.                         *)
(***************************************************************************)
Open ==
    /\ where = "unborn"
    /\ HandlerActs(HalfDuplex => turn = "session", FALSE)
    /\ HandlerCloses
    /\ StayOrEnd([calls EXCEPT !.opened = @ + 1], wobj'.id = 0, wobj'.id # 0)
    /\ UNCHANGED <<result, reading, last, wbuf, nWritten, socket, wire,
                   delivered, reported>>

(***************************************************************************)
(* doRead.                                                                  *)
(***************************************************************************)
ReadStart ==
    /\ where = "loop" /\ rdEv /\ Readable
    /\ where' = "doRead"
    /\ result' = 0
    /\ UNCHANGED <<reading, writing, closed, events, socket, output, seen>>

\* recv() returns bytes.
Recv ==
    /\ where = "doRead" /\ nRead < ReadBuffSize /\ got < arrived
    /\ LET n == Min2(ReadBuffSize, arrived - got) IN
       /\ rbuf' = Put(rbuf, Run(got, n))
       /\ nRead' = nRead + n
       /\ result' = n
       /\ got' = got + n
    /\ UNCHANGED <<where, stillReading, writing, closed, events, arrived,
                   drained, peer, turn, output, seen>>

\* result == 0: recv() reported the end of the stream, or it was never called.
ReadClosed ==
    /\ where = "doRead"
    /\ \/ nRead >= ReadBuffSize /\ result = 0
       \/ nRead < ReadBuffSize /\ got = arrived /\ peer \in {"fin", "finreset"}
    /\ rbuf' = Flip(rbuf)
    /\ stillReading' = (stillReading \/ nRead >= ReadBuffSize)
    /\ End(calls, 0)
    /\ UNCHANGED <<result, nRead, writing, closed, socket, output, delivered,
                   reported>>

\* recv() failed with something else than EAGAIN.
ReadFailed ==
    /\ where = "doRead" /\ nRead < ReadBuffSize /\ got = arrived
    /\ peer \in {"reset", "refused"}
    /\ rbuf' = Flip(rbuf)
    /\ nRead' = 0 /\ stillReading' = FALSE
    /\ Fail(1)
    /\ UNCHANGED <<result, writing, closed, socket, output, delivered,
                   reported>>

\* recv() said EAGAIN, or the loop ended because readBuffSize was reached.
ReadLoopEnds ==
    \/ /\ nRead < ReadBuffSize /\ got = arrived /\ peer = "open"
       /\ nRead' = 0 /\ stillReading' = FALSE
    \/ /\ nRead >= ReadBuffSize /\ result > 0
       /\ stillReading' = TRUE
       /\ UNCHANGED nRead

\* writeEvent is added for a message to write, but not while still reading.
NotScheduled == wrEv
ScheduledAfterRead == wrEv \/ (wobj'.id # 0 /\ ~stillReading')

MessageReceived ==
    /\ where = "doRead"
    /\ ReadLoopEnds
    /\ rbuf' = Flip(rbuf)
    /\ LET message == TransformUp(rbuf') IN
       delivered' = delivered \o Bytes(message, Remaining(message))
    /\ ResetWrite
    /\ HandlerActs(HalfDuplex => turn = "session" /\ got = arrived, FALSE)
    /\ HandlerCloses
    /\ StayOrEnd([calls EXCEPT !.received = @ + 1], rdEv,
                 ScheduledAfterRead)
    /\ UNCHANGED <<result, nWritten, socket, wire, reported>>

(***************************************************************************)
(* doWrite.                                                                 *)
(***************************************************************************)
\* transformDown is skipped while a message is partly written, and returns at
\* once for a null write object.
AlwaysTransforms == WriteObjectPresent
Transforms == nWritten = 0 /\ WriteObjectPresent

WriteStart ==
    /\ where = "loop" /\ wrEv /\ Writable
    /\ where' = "doWrite"
    /\ IF Transforms
       THEN /\ wbuf' = TransformDownOut(wobj.buf)
            /\ wobj' = [wobj EXCEPT !.buf = TransformDownIn(@)]
       ELSE UNCHANGED <<wbuf, wobj>>
    /\ UNCHANGED <<result, reading, last, nWritten, closed, events, socket,
                   output, seen>>

Sending == where = "doWrite" /\ nWritten < wbuf.limit

\* send() accepts a prefix of what is left, or nothing when nothing is left.
Send ==
    /\ Sending
    /\ peer \in {"open", "fin"}
    /\ LET left == Remaining(wbuf) IN
       \E k \in 0..Min2(left, Room) :
          /\ k = 0 => left = 0
          /\ wire' = wire \o Bytes(wbuf, k)
          /\ nWritten' = nWritten + k
          /\ wbuf' = Jump(AfterRead(wbuf, left), nWritten')
    /\ UNCHANGED <<control, reading, wobj, last, closed, events, socket, ends,
                   more, seen>>

\* send() says EAGAIN: return, with the buffer read to its end.
WouldBlock ==
    /\ Sending
    /\ peer \in {"open", "fin"}
    /\ Remaining(wbuf) > 0 /\ Room = 0
    /\ wbuf' = AfterRead(wbuf, Remaining(wbuf))
    /\ where' = "loop"
    /\ UNCHANGED <<result, reading, wobj, last, nWritten, closed, events,
                   socket, output, seen>>

\* send() failed with something else than EAGAIN.
SendFailed ==
    /\ Sending
    /\ peer \in {"reset", "refused"}
    /\ wbuf' = AfterRead(wbuf, Remaining(wbuf))
    /\ Fail(1)
    /\ UNCHANGED <<result, reading, wobj, last, nWritten, closed, socket,
                   output, delivered, reported>>

\* send() on a socket whose peer has closed and then reset the connection
\* raises SIGPIPE, which nothing in the library or the examples ignores.
Killed ==
    /\ Sending
    /\ peer = "finreset"
    /\ where' = "killed"
    /\ rdEv' = FALSE /\ wrEv' = FALSE
    /\ UNCHANGED <<result, reading, writing, closed, socket, output, seen>>

\* The loop ended without nWritten reaching the limit exactly.
WriteUnknown ==
    /\ where = "doWrite" /\ nWritten > wbuf.limit
    /\ Fail(1)
    /\ UNCHANGED <<result, reading, writing, closed, socket, output,
                   delivered, reported>>

NotRestarted == nWritten
WrittenAfterSent == 0

\* With nothing more to write the session waits for data again.
ReadNotAdded == rdEv
ReadAfterSent == rdEv \/ wobj'.id = 0

MessageSent ==
    /\ where = "doWrite" /\ nWritten = wbuf.limit
    /\ nWritten' = WrittenAfterSent
    /\ ResetWrite
    /\ reported' = Append(reported, last'.id)
    /\ HandlerActs(~HalfDuplex, HalfDuplex /\ more)
    /\ HandlerCloses
    /\ StayOrEnd([calls EXCEPT !.sent = @ + 1],
                 ReadAfterSent, wobj'.id # 0)
    /\ UNCHANGED <<result, reading, socket, wire, delivered>>

-----------------------------------------------------------------------------
(***************************************************************************)
(* The peer.  In half duplex it sends a request while it is its turn, and   *)
(* has its turn again when it has read the whole response.                  *)
(***************************************************************************)
PeerSend ==
    /\ Running /\ peer = "open" /\ arrived < MaxIn
    /\ turn = "peer"
    /\ arrived' = arrived + 1
    /\ turn' \in (IF HalfDuplex THEN {"peer", "session"} ELSE {turn})
    /\ UNCHANGED <<control, reading, writing, closed, events, got, drained,
                   peer, output, seen>>

PeerFin ==
    /\ Running /\ peer = "open"
    /\ peer' = "fin"
    /\ UNCHANGED <<control, reading, writing, closed, events, arrived, got,
                   drained, turn, output, seen>>

PeerReset ==
    /\ Running
    /\ \/ peer = "open" /\ peer' = "reset"
       \/ peer = "fin" /\ peer' = "finreset"
    /\ UNCHANGED <<control, reading, writing, closed, events, arrived, got,
                   drained, turn, output, seen>>

PeerDrain ==
    /\ Running /\ peer \in {"open", "fin"} /\ drained < Len(wire)
    /\ drained' = drained + 1
    /\ turn' = IF drained' = Produced /\ ~more THEN "peer" ELSE turn
    /\ UNCHANGED <<control, reading, writing, closed, events, arrived, got,
                   peer, output, seen>>

-----------------------------------------------------------------------------
Init ==
    /\ where = "unborn" /\ result = 0
    /\ closed = FALSE
    /\ wobj = NoObject /\ last = NoObject
    /\ rbuf = EmptyBuffer /\ wbuf = EmptyBuffer
    /\ nRead = 0 /\ nWritten = 0 /\ stillReading = FALSE
    /\ rdEv = FALSE /\ wrEv = FALSE
    /\ arrived = 0 /\ got = 0 /\ drained = 0
    /\ peer \in {"open", "refused"}
    /\ turn \in (IF HalfDuplex THEN {"peer", "session"} ELSE {"peer"})
    /\ more = FALSE
    /\ wire = <<>> /\ ends = <<>> /\ delivered = <<>> /\ reported = <<>>
    /\ calls = [opened |-> 0, received |-> 0, sent |-> 0, error |-> 0,
                closed |-> 0]
    /\ fdCloses = 0

\* What runs inside a callback once libevent has called it.
InCallback ==
    \/ Recv \/ ReadClosed \/ ReadFailed \/ MessageReceived
    \/ Send \/ WouldBlock \/ SendFailed \/ Killed \/ WriteUnknown
    \/ MessageSent

Peer == PeerSend \/ PeerFin \/ PeerReset \/ PeerDrain

Next == Open \/ ReadStart \/ WriteStart \/ InCallback \/ Peer

Spec == Init /\ [][Next]_vars

\* libevent reports a ready descriptor in every pass of its loop and runs each
\* callback it has activated, and a callback that has started runs on.
Fairness ==
    /\ WF_vars(Open)
    /\ SF_vars(ReadStart) /\ SF_vars(WriteStart)
    /\ WF_vars(InCallback)

LoopFairSpec == Spec /\ Fairness

\* A peer, moreover, that reads what it is sent.
FairSpec == LoopFairSpec /\ WF_vars(PeerDrain)

=============================================================================
