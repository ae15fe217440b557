------------------------ MODULE SessionControlProofs ------------------------
(***************************************************************************)
(* Proofs about the control of a session, for every size and bound and      *)
(* whatever the peer does: its libevent events, its descriptor, the order   *)
(* of the handler's calls, which messages are reported, and that it         *)
(* implements module Sessions.                                              *)
(***************************************************************************)
EXTENDS SessionTypeProofs

-----------------------------------------------------------------------------
(***************************************************************************)
(* Control: events, the descriptor, the calls of the handler.               *)
(***************************************************************************)

\* A callback runs only for an event that stays added while it runs.
EventsInv ==
    /\ where = "doRead" => rdEv
    /\ where = "doWrite" => wrEv
    /\ EventsOfLiveSession

\* Nothing is closed or reported as an error before the session ends.
DescriptorInv ==
    /\ where # "gone" => fdCloses = 0 /\ calls.error = 0
    /\ FdClosedOnce

\* What was called so far, by where the session is.
CallsInv ==
    /\ where = "unborn" => calls = HandlerContractSpec!NoCalls
    /\ where \in {"loop", "doRead", "doWrite", "killed"} =>
          calls.opened = 1 /\ calls.closed = 0 /\ calls.error = 0

\* A message is reported at most once because its number is greater than all
\* those reported before it, both while it waits as the write object and after
\* resetWrite() made it the last one, as long as writeEvent is added.
ReportInv ==
    /\ wobj.id <= Len(ends) /\ last.id <= Len(ends)
    /\ \A i \in 1..Len(reported) : reported[i] <= Len(ends)
    /\ wobj.id # 0 => \A i \in 1..Len(reported) : reported[i] < wobj.id
    /\ wrEv /\ wobj.id = 0 =>
          \A i \in 1..Len(reported) : reported[i] < last.id
    /\ ReportedOnce

\* A message is numbered, so it is present.
LEMMA MessagePresent ==
    ASSUME TypeOK, HandlerSilent \/ HandlerWrites
    PROVE  \/ wobj'.id = 0 /\ ends' = ends
           \/ wobj'.id = Len(ends) + 1 /\ Len(ends') = Len(ends) + 1
<1>1. CASE HandlerSilent
  BY <1>1 DEF HandlerSilent, ObjectAfterReset, NoObject
<1>2. CASE HandlerWrites
  <2>1. PICK n \in 0..MaxLen :
           wobj' = Message(n) /\ ends' = Append(ends, Produced + n)
    BY <1>2 DEF HandlerWrites
  <2>2. n \in Nat
    BY SessionAssumption
  <2>3. Message(n).id = Len(ends) + 1 /\ Produced + n \in Nat
    BY <2>2, MessageType
  <2>4. ends \in Seq(Nat)
    BY DEF TypeOK, SocketType
  <2>5. Len(ends') = Len(ends) + 1
    BY <2>1, <2>3, <2>4
  <2>. QED  BY <2>1, <2>3, <2>5
<1>. QED  BY <1>1, <1>2

\* Every step keeps the events of a session in step with where it is.
LEMMA EventsStep == ASSUME TypeInv, EventsInv, [Next]_vars PROVE EventsInv'
<1> USE DEF EventsInv, EventsOfLiveSession
<1>1. CASE Open
  <2>1. \/ where' = "gone" /\ rdEv' = FALSE /\ wrEv' = FALSE
        \/ where' = "loop" /\ rdEv' = (wobj'.id = 0) /\ wrEv' = (wobj'.id # 0)
    BY <1>1 DEF Open, StayOrEnd, End
  <2>. QED  BY <2>1
<1>2. CASE ReadStart
  BY <1>2 DEF ReadStart, events
<1>3. CASE Recv
  BY <1>3 DEF Recv, events
<1>4. CASE ReadClosed \/ ReadFailed \/ SendFailed \/ WriteUnknown
  <2>1. where' = "gone" /\ rdEv' = FALSE /\ wrEv' = FALSE
    BY <1>4 DEF ReadClosed, ReadFailed, SendFailed, WriteUnknown, Fail, End
  <2>. QED  BY <2>1
<1>5. CASE MessageReceived
  <2>1. \/ where' = "gone" /\ rdEv' = FALSE /\ wrEv' = FALSE
        \/ where' = "loop" /\ rdEv' = rdEv
    BY <1>5 DEF MessageReceived, StayOrEnd, End
  <2>2. rdEv
    BY <1>5 DEF MessageReceived
  <2>. QED  BY <2>1, <2>2
<1>6. CASE WriteStart
  BY <1>6 DEF WriteStart, events
<1>7. CASE Send
  BY <1>7 DEF Send, control, events
<1>8. CASE WouldBlock
  BY <1>8 DEF WouldBlock, Sending, events
<1>9. CASE Killed
  BY <1>9 DEF Killed
<1>10. CASE MessageSent
  <2>1. \/ where' = "gone" /\ rdEv' = FALSE /\ wrEv' = FALSE
        \/ /\ where' = "loop"
           /\ rdEv' = ReadAfterSent /\ wrEv' = (wobj'.id # 0)
    BY <1>10 DEF MessageSent, StayOrEnd, End
  <2>. QED  BY <2>1 DEF ReadAfterSent
<1>11. CASE Peer
  BY <1>11 DEF Peer, PeerSend, PeerFin, PeerReset, PeerDrain, control, events
<1>12. CASE UNCHANGED vars
  BY <1>12 DEF vars, control, events
<1>. QED
  BY <1>1, <1>2, <1>3, <1>4, <1>5, <1>6, <1>7, <1>8, <1>9, <1>10, <1>11, <1>12
     DEF Next, InCallback

\* Every step keeps the descriptor open until the session ends.
LEMMA DescriptorStep ==
    ASSUME TypeInv, DescriptorInv, CloseIsHonoured, [Next]_vars
    PROVE  DescriptorInv' /\ CloseIsHonoured'
<1> USE DEF DescriptorInv, FdClosedOnce, CloseIsHonoured
<1>t. calls \in Calls /\ nRead \in Nat /\ stillReading \in BOOLEAN
      /\ closed \in BOOLEAN
  BY DEF TypeInv, TypeOK, SeenType, Calls, ReadingType, ControlType
<1>1. CASE Open
  <2>1. \/ where' = "gone" /\ closed' /\ fdCloses' = fdCloses + 1
        \/ /\ where' = "loop" /\ ~closed' /\ fdCloses' = fdCloses
           /\ calls' = [calls EXCEPT !.opened = @ + 1]
    BY <1>1 DEF Open, StayOrEnd, End
  <2>2. where # "gone"
    BY <1>1 DEF Open
  <2>3. calls' = [calls EXCEPT !.opened = @ + 1] => calls'.error = calls.error
    BY <1>t DEF Calls
  <2>. QED  BY <2>1, <2>2, <2>3
<1>2. CASE ReadStart \/ WriteStart
  BY <1>2 DEF ReadStart, WriteStart, seen
<1>3. CASE Recv
  BY <1>3 DEF Recv, seen
<1>4. CASE ReadClosed
  <2>1. /\ where = "doRead" /\ where' = "gone" /\ fdCloses' = fdCloses
        /\ closed' = closed /\ calls' = [calls EXCEPT !.closed = @ + 1]
    BY <1>4 DEF ReadClosed, End
  <2>2. calls'.error = calls.error
    BY <1>t, <2>1 DEF Calls
  <2>3. peer' \in {"fin", "finreset"} \/ stillReading'
    BY <1>4 DEF ReadClosed, socket
  <2>. QED  BY <2>1, <2>2, <2>3
<1>5. CASE ReadFailed \/ SendFailed \/ WriteUnknown
  <2>1. /\ where \in {"doRead", "doWrite"}
        /\ where' = "gone" /\ fdCloses' = fdCloses + 1
        /\ closed' = closed
    BY <1>5 DEF ReadFailed, SendFailed, WriteUnknown, Sending, Fail, End
  <2>. QED  BY <2>1
<1>6. CASE MessageReceived
  <2>1. \/ where' = "gone" /\ closed' /\ fdCloses' = fdCloses + 1
        \/ /\ where' = "loop" /\ ~closed' /\ fdCloses' = fdCloses
           /\ calls' = [calls EXCEPT !.received = @ + 1]
    BY <1>6 DEF MessageReceived, StayOrEnd, End
  <2>2. where # "gone"
    BY <1>6 DEF MessageReceived
  <2>3. calls' = [calls EXCEPT !.received = @ + 1]
           => calls'.error = calls.error
    BY <1>t DEF Calls
  <2>. QED  BY <2>1, <2>2, <2>3
<1>7. CASE Send \/ WouldBlock
  BY <1>7 DEF Send, WouldBlock, Sending, control, seen
<1>8. CASE Killed
  BY <1>8 DEF Killed, Sending, seen
<1>9. CASE MessageSent
  <2>1. \/ where' = "gone" /\ closed' /\ fdCloses' = fdCloses + 1
        \/ /\ where' = "loop" /\ ~closed' /\ fdCloses' = fdCloses
           /\ calls' = [calls EXCEPT !.sent = @ + 1]
    BY <1>9 DEF MessageSent, StayOrEnd, End
  <2>2. where # "gone"
    BY <1>9 DEF MessageSent
  <2>3. calls' = [calls EXCEPT !.sent = @ + 1] => calls'.error = calls.error
    BY <1>t DEF Calls
  <2>. QED  BY <2>1, <2>2, <2>3
<1>10. CASE Peer
  <2>1. UNCHANGED <<where, closed, stillReading, calls, fdCloses>>
        /\ where # "gone"
    BY <1>10 DEF Peer, PeerSend, PeerFin, PeerReset, PeerDrain, Running,
                 control, reading, seen
  <2>. QED  BY <2>1
<1>11. CASE UNCHANGED vars
  BY <1>11 DEF vars, control, reading, socket, seen
<1>. QED
  BY <1>1, <1>2, <1>3, <1>4, <1>5, <1>6, <1>7, <1>8, <1>9, <1>10, <1>11
     DEF Next, InCallback

\* A session starts with its descriptor open and no event.
LEMMA ControlInit ==
    Init => EventsInv /\ DescriptorInv /\ CloseIsHonoured
BY DEF Init, EventsInv, EventsOfLiveSession, DescriptorInv, FdClosedOnce,
       CloseIsHonoured

\* Whatever the peer and the handler do, libevent holds an event of a session
\* exactly as long as the session lives.
THEOREM EventsOnlyOfLiveSession == Spec => []EventsOfLiveSession
<1>1. Init => EventsInv
  BY ControlInit
<1>2. TypeInv /\ EventsInv /\ [Next]_vars => EventsInv'
  BY EventsStep
<1>3. EventsInv => EventsOfLiveSession
  BY DEF EventsInv
<1>. QED  BY <1>1, <1>2, <1>3, TypeInvariant, PTL DEF Spec

\* The descriptor of a session is closed at most once, never while the session
\* lives, and by every way a session ends but the branch for result == 0.
THEOREM DescriptorClosedOnce == Spec => []FdClosedOnce
<1>1. Init => DescriptorInv /\ CloseIsHonoured
  BY ControlInit
<1>2. TypeInv /\ DescriptorInv /\ CloseIsHonoured /\ [Next]_vars
         => DescriptorInv' /\ CloseIsHonoured'
  BY DescriptorStep
<1>3. DescriptorInv => FdClosedOnce
  BY DEF DescriptorInv
<1>. QED  BY <1>1, <1>2, <1>3, TypeInvariant, PTL DEF Spec

\* A session that a handler has closed is gone when the callback returns.
THEOREM CloseHonoured == Spec => []CloseIsHonoured
<1>1. Init => DescriptorInv /\ CloseIsHonoured
  BY ControlInit
<1>2. TypeInv /\ DescriptorInv /\ CloseIsHonoured /\ [Next]_vars
         => DescriptorInv' /\ CloseIsHonoured'
  BY DescriptorStep
<1>. QED  BY <1>1, <1>2, TypeInvariant, PTL DEF Spec

-----------------------------------------------------------------------------
(***************************************************************************)
(* The messages that are written and reported.                              *)
(***************************************************************************)

\* What resetWrite() leaves as the last message is the one that was present,
\* or, without one, the last message it was before.
LEMMA LastMessage ==
    ASSUME TypeInv, ResetWrite
    PROVE  /\ last'.id \in Nat
           /\ wobj.id # 0 => last'.id = wobj.id
           /\ wobj.id = 0 => last'.id = last.id
BY DEF ResetWrite, LastAfterReset, WriteObjectPresent, TypeInv, TypeOK,
       WritingType, WriteObject

\* doWrite's transformDown does not change which message is written.
LEMMA MessageKept ==
    ASSUME TypeInv, WriteStart
    PROVE  wobj'.id = wobj.id /\ UNCHANGED <<last, reported, ends, rdEv, wrEv,
                                             stillReading>>
<1>1. wobj'.id = wobj.id
  BY DEF WriteStart, TypeInv, TypeOK, WritingType, WriteObject
<1>. QED  BY <1>1 DEF WriteStart, output, seen, events, reading

\* A step that keeps the messages apart from these keeps the invariants below.
MessagesKept ==
    /\ UNCHANGED <<last, reported, ends>>
    /\ wobj'.id = wobj.id

\* The steps that neither call resetWrite() nor open the session.
LEMMA MessagesKeptBy ==
    ASSUME TypeInv, [Next]_vars,
           ~Open, ~MessageReceived, ~MessageSent
    PROVE  MessagesKept /\ (wrEv' => wrEv)
<1>1. CASE WriteStart
  BY <1>1, MessageKept DEF MessagesKept
<1>2. CASE ReadStart \/ Recv \/ ReadClosed \/ ReadFailed
  BY <1>2 DEF MessagesKept, ReadStart, Recv, ReadClosed, ReadFailed, Fail, End,
     writing, events, output, seen
<1>3. CASE Send \/ WouldBlock \/ SendFailed \/ Killed \/ WriteUnknown
  BY <1>3 DEF MessagesKept, Send, WouldBlock, SendFailed, Killed, WriteUnknown,
     Fail, End, writing, events, output, seen
<1>4. CASE Peer
  BY <1>4 DEF MessagesKept, Peer, PeerSend, PeerFin, PeerReset, PeerDrain,
     writing, events, output, seen
<1>5. CASE UNCHANGED vars
  BY <1>5 DEF MessagesKept, vars, writing, events, output, seen
<1>. QED  BY <1>1, <1>2, <1>3, <1>4, <1>5 DEF Next, InCallback

\* Every step keeps a message under every writeEvent, and reports no null one.
LEMMA NoNullStep ==
    ASSUME TypeInv, EventsInv, NoNullMessage, [Next]_vars
    PROVE  NoNullMessage'
<1>t. reported \in Seq(Nat)
  BY DEF TypeInv, TypeOK, SeenType
<1>1. CASE Open
  <2>1. wrEv' => wobj'.id # 0
    BY <1>1 DEF Open, StayOrEnd, End
  <2>2. reported' = reported
    BY <1>1 DEF Open
  <2>. QED  BY <2>1, <2>2 DEF NoNullMessage
<1>2. CASE MessageReceived
  <2>1. reported' = reported /\ ResetWrite
    BY <1>2 DEF MessageReceived
  <2>2. wrEv' => wrEv \/ wobj'.id # 0
    BY <1>2 DEF MessageReceived, StayOrEnd, End, ScheduledAfterRead
  <2>3. wrEv => last'.id # 0
    BY <2>1, LastMessage DEF NoNullMessage
  <2>. QED  BY <2>1, <2>2, <2>3 DEF NoNullMessage
<1>3. CASE MessageSent
  <2>1. reported' = Append(reported, last'.id) /\ ResetWrite /\ wrEv
    BY <1>3 DEF MessageSent, EventsInv
  <2>2. wrEv' => wobj'.id # 0
    BY <1>3 DEF MessageSent, StayOrEnd, End
  <2>3. last'.id # 0 /\ last'.id \in Nat
    BY <2>1, LastMessage DEF NoNullMessage
  <2>4. \A i \in 1..Len(reported') : reported'[i] # 0
    BY <1>t, <2>1, <2>3 DEF NoNullMessage
  <2>. QED  BY <2>2, <2>4 DEF NoNullMessage
<1>4. CASE ~Open /\ ~MessageReceived /\ ~MessageSent
  BY <1>4, MessagesKeptBy DEF MessagesKept, NoNullMessage
<1>. QED  BY <1>1, <1>2, <1>3, <1>4

\* doWrite never passes a null message to messageSent.
THEOREM NoNullMessageSent == Spec => []NoNullMessage
<1>1. Init => EventsInv
  BY ControlInit
<1>2. Init => NoNullMessage
  BY DEF Init, NoNullMessage
<1>3. TypeInv /\ EventsInv /\ [Next]_vars => EventsInv'
  BY EventsStep
<1>4. TypeInv /\ EventsInv /\ NoNullMessage /\ [Next]_vars => NoNullMessage'
  BY NoNullStep
<1>. QED  BY <1>1, <1>2, <1>3, <1>4, TypeInvariant, PTL DEF Spec

\* Every step keeps a waiting message scheduled, or doRead still reading.
LEMMA ScheduledStep ==
    ASSUME TypeInv, EventsInv, WriteScheduled, [Next]_vars
    PROVE  WriteScheduled'
<1>1. CASE Open
  BY <1>1 DEF Open, StayOrEnd, End, WriteScheduled
<1>2. CASE MessageReceived
  BY <1>2 DEF MessageReceived, StayOrEnd, End, ScheduledAfterRead,
     WriteScheduled
<1>3. CASE MessageSent
  BY <1>3 DEF MessageSent, StayOrEnd, End, WriteScheduled
<1>4. CASE WouldBlock
  BY <1>4 DEF WouldBlock, Sending, EventsInv, events, WriteScheduled
<1>5. CASE ReadStart \/ Recv \/ ReadClosed \/ ReadFailed
  BY <1>5 DEF ReadStart, Recv, ReadClosed, ReadFailed, Fail, End,
     WriteScheduled
<1>6. CASE WriteStart \/ Send \/ SendFailed \/ Killed \/ WriteUnknown
  BY <1>6 DEF WriteStart, Send, SendFailed, Sending, Killed, WriteUnknown,
     Fail, End, control, WriteScheduled
<1>7. CASE Peer
  BY <1>7 DEF Peer, PeerSend, PeerFin, PeerReset, PeerDrain, control, writing,
     reading, events, WriteScheduled
<1>8. CASE UNCHANGED vars
  BY <1>8 DEF vars, control, writing, reading, events, WriteScheduled
<1>. QED
  BY <1>1, <1>2, <1>3, <1>4, <1>5, <1>6, <1>7, <1>8 DEF Next, InCallback

\* A message that waits to be written has its event added, except when doRead
\* gave up scheduling it because readBuffSize had been reached.
THEOREM WriteIsScheduled == Spec => []WriteScheduled
<1>1. Init => EventsInv
  BY ControlInit
<1>2. Init => WriteScheduled
  BY DEF Init, WriteScheduled
<1>3. TypeInv /\ EventsInv /\ [Next]_vars => EventsInv'
  BY EventsStep
<1>4. TypeInv /\ EventsInv /\ WriteScheduled /\ [Next]_vars => WriteScheduled'
  BY ScheduledStep
<1>. QED  BY <1>1, <1>2, <1>3, <1>4, TypeInvariant, PTL DEF Spec

\* Appending a number greater than all the others keeps a sequence increasing.
LEMMA AppendIncreasing ==
    ASSUME NEW s \in Seq(Nat), NEW n \in Nat,
           \A i \in 1..Len(s) : s[i] < n,
           \A i, j \in 1..Len(s) : i < j => s[i] < s[j]
    PROVE  /\ Append(s, n) \in Seq(Nat)
           /\ Len(Append(s, n)) = Len(s) + 1
           /\ \A i \in 1..Len(s) : Append(s, n)[i] = s[i]
           /\ Append(s, n)[Len(s) + 1] = n
           /\ \A i, j \in 1..Len(Append(s, n)) :
                 i < j => Append(s, n)[i] < Append(s, n)[j]
<1> DEFINE t == Append(s, n)
<1>1. t \in Seq(Nat) /\ Len(t) = Len(s) + 1
  OBVIOUS
<1>2. \A i \in 1..Len(s) : t[i] = s[i]
  OBVIOUS
<1>3. t[Len(s) + 1] = n
  OBVIOUS
<1>4. Len(s) \in Nat
  OBVIOUS
<1> HIDE DEF t
<1>5. ASSUME NEW i \in 1..Len(t), NEW j \in 1..Len(t), i < j
      PROVE  t[i] < t[j]
  <2>1. i \in 1..Len(s) /\ t[i] = s[i]
    BY <1>1, <1>2, <1>4, <1>5
  <2>2. CASE j = Len(s) + 1
    BY <1>3, <2>1, <2>2
  <2>3. CASE j # Len(s) + 1
    <3>1. j \in 1..Len(s) /\ t[j] = s[j]
      BY <1>1, <1>2, <1>4, <2>3
    <3>. QED  BY <1>5, <2>1, <3>1
  <2>. QED  BY <2>2, <2>3
<1>. QED  BY <1>1, <1>2, <1>3, <1>5 DEF t

\* What the invariant says, with the types of what it speaks of.
LEMMA ReportTypes ==
    ASSUME TypeInv
    PROVE  /\ wobj.id \in Nat /\ last.id \in Nat /\ Len(ends) \in Nat
           /\ reported \in Seq(Nat) /\ Len(reported) \in Nat
           /\ \A i \in 1..Len(reported) : reported[i] \in Nat
<1>1. wobj.id \in Nat /\ last.id \in Nat
  BY DEF TypeInv, TypeOK, WritingType, WriteObject
<1>2. ends \in Seq(Nat) /\ reported \in Seq(Nat)
  BY DEF TypeInv, TypeOK, SocketType, SeenType
<1>3. Len(ends) \in Nat /\ Len(reported) \in Nat
  BY <1>2, LenProperties
<1>4. \A i \in 1..Len(reported) : reported[i] \in Nat
  BY <1>2
<1>. QED  BY <1>1, <1>2, <1>3, <1>4

\* Every step keeps the messages reported so far below those to come.
LEMMA ReportStep ==
    ASSUME TypeInv, EventsInv, ReportInv, [Next]_vars
    PROVE  ReportInv'
<1>t. /\ wobj.id \in Nat /\ last.id \in Nat /\ Len(ends) \in Nat
      /\ reported \in Seq(Nat) /\ Len(reported) \in Nat
      /\ \A i \in 1..Len(reported) : reported[i] \in Nat
  BY ReportTypes
<1>1. CASE Open
  <2>1. \/ wobj'.id = 0 /\ ends' = ends
        \/ wobj'.id = Len(ends) + 1 /\ Len(ends') = Len(ends) + 1
    BY <1>1, MessagePresent DEF Open, HandlerActs, TypeInv
  <2>2. reported' = reported /\ last' = last
    BY <1>1 DEF Open
  <2>3. wrEv' => wobj'.id # 0
    BY <1>1 DEF Open, StayOrEnd, End
  <2>. QED  BY <1>t, <2>1, <2>2, <2>3 DEF ReportInv, ReportedOnce
<1>2. CASE MessageReceived
  <2>1. \/ wobj'.id = 0 /\ ends' = ends
        \/ wobj'.id = Len(ends) + 1 /\ Len(ends') = Len(ends) + 1
    BY <1>2, MessagePresent DEF MessageReceived, HandlerActs, TypeInv
  <2>2. reported' = reported /\ ResetWrite
    BY <1>2 DEF MessageReceived
  <2>3. wrEv' => wrEv \/ wobj'.id # 0
    BY <1>2 DEF MessageReceived, StayOrEnd, End, ScheduledAfterRead
  <2>4. /\ wobj.id # 0 => last'.id = wobj.id
        /\ wobj.id = 0 => last'.id = last.id
    BY <2>2, LastMessage
  <2>5. last'.id <= Len(ends')
    BY <1>t, <2>1, <2>4 DEF ReportInv
  <2>6. wrEv => \A i \in 1..Len(reported) : reported[i] < last'.id
    BY <2>4 DEF ReportInv
  <2>. QED
    BY <1>t, <2>1, <2>2, <2>3, <2>5, <2>6 DEF ReportInv, ReportedOnce
<1>3. CASE MessageSent
  <2>1. \/ wobj'.id = 0 /\ ends' = ends
        \/ wobj'.id = Len(ends) + 1 /\ Len(ends') = Len(ends) + 1
    BY <1>3, MessagePresent DEF MessageSent, HandlerActs, TypeInv
  <2>2. reported' = Append(reported, last'.id) /\ ResetWrite /\ wrEv
    BY <1>3 DEF MessageSent, EventsInv
  <2>3. wrEv' => wobj'.id # 0
    BY <1>3 DEF MessageSent, StayOrEnd, End
  <2>4. /\ last'.id \in Nat
        /\ wobj.id # 0 => last'.id = wobj.id
        /\ wobj.id = 0 => last'.id = last.id
    BY <2>2, LastMessage
  <2>5. last'.id <= Len(ends)
    BY <1>t, <2>4 DEF ReportInv
  <2>6. \A i \in 1..Len(reported) : reported[i] < last'.id
    BY <2>2, <2>4 DEF ReportInv
  <2> DEFINE n == last'.id
  <2> HIDE DEF n
  <2>7. n \in Nat /\ (\A i \in 1..Len(reported) : reported[i] < n)
        /\ reported' = Append(reported, n)
    BY <2>2, <2>4, <2>6 DEF n
  <2>8. /\ Len(reported') = Len(reported) + 1
        /\ \A i \in 1..Len(reported) : reported'[i] = reported[i]
        /\ reported'[Len(reported) + 1] = n
        /\ \A i, j \in 1..Len(reported') :
              i < j => reported'[i] < reported'[j]
    BY <1>t, <2>7, AppendIncreasing DEF ReportInv, ReportedOnce
  <2>9. \A i \in 1..Len(reported') : reported'[i] <= Len(ends)
    <3> TAKE i \in 1..Len(reported')
    <3>1. CASE i = Len(reported) + 1
      BY <2>5, <2>8, <3>1 DEF n
    <3>2. CASE i # Len(reported) + 1
      <4>1. i \in 1..Len(reported)
        BY <1>t, <2>8, <3>2
      <4>. QED  BY <2>8, <4>1 DEF ReportInv
    <3>. QED  BY <3>1, <3>2
  <2>10. Len(ends) <= Len(ends')
    BY <1>t, <2>1
  <2>11. \A i \in 1..Len(reported') : reported'[i] \in Nat
    BY <1>t, <2>7, <2>8
  <2>12. (\A i \in 1..Len(reported') : reported'[i] <= Len(ends'))
    BY <1>t, <2>1, <2>9, <2>11
  <2>13. wobj'.id # 0 =>
            \A i \in 1..Len(reported') : reported'[i] < wobj'.id
    BY <1>t, <2>1, <2>9, <2>11
  <2>14. wobj'.id <= Len(ends') /\ last'.id <= Len(ends')
    BY <1>t, <2>1, <2>4, <2>5
  <2>. QED
    BY <2>3, <2>8, <2>12, <2>13, <2>14 DEF ReportInv, ReportedOnce
<1>4. CASE ~Open /\ ~MessageReceived /\ ~MessageSent
  BY <1>4, MessagesKeptBy DEF MessagesKept, ReportInv, ReportedOnce
<1>. QED  BY <1>1, <1>2, <1>3, <1>4

\* No message is reported to messageSent twice, and never out of order.
THEOREM ReportsInOrder == Spec => []ReportedOnce
<1>1. Init => EventsInv
  BY ControlInit
<1>2. Init => ReportInv
  BY DEF Init, ReportInv, ReportedOnce, NoObject
<1>3. TypeInv /\ EventsInv /\ [Next]_vars => EventsInv'
  BY EventsStep
<1>4. TypeInv /\ EventsInv /\ ReportInv /\ [Next]_vars => ReportInv'
  BY ReportStep
<1>5. ReportInv => ReportedOnce
  BY DEF ReportInv
<1>. QED  BY <1>1, <1>2, <1>3, <1>4, <1>5, TypeInvariant, PTL DEF Spec

-----------------------------------------------------------------------------
(***************************************************************************)
(* The order of the handler's calls: Session implements HandlerContract.    *)
(***************************************************************************)

\* What the contract says of a step, with its operators expanded.
ContractStep == [HandlerContractSpec!Next]_calls

\* sessionOpened, perhaps followed by sessionClosed.
LEMMA OpenedStep ==
    ASSUME CallsInv, Open
    PROVE  CallsInv' /\ ContractStep
<1> DEFINE cs == [opened |-> 1, received |-> 0, sent |-> 0, error |-> 0,
                  closed |-> 0]
<1>1. calls = [opened |-> 0, received |-> 0, sent |-> 0, error |-> 0,
               closed |-> 0]
  BY DEF Open, CallsInv, HandlerContractSpec!NoCalls
<1>2. [calls EXCEPT !.opened = @ + 1] = cs
  BY <1>1
<1>3. [calls EXCEPT !.opened = 1] = cs
  BY <1>1
<1>4. \/ where' = "gone" /\ calls' = [cs EXCEPT !.closed = @ + 1]
      \/ where' = "loop" /\ calls' = cs
  BY <1>2 DEF Open, StayOrEnd, End
<1>5. [cs EXCEPT !.closed = @ + 1] = [cs EXCEPT !.closed = 1]
  OBVIOUS
<1>6. HandlerContractSpec!SessionOpened
  BY <1>1, <1>3, <1>4, <1>5
     DEF HandlerContractSpec!SessionOpened, HandlerContractSpec!NoCalls,
         HandlerContractSpec!Call, HandlerContractSpec!Closing
<1>7. CallsInv'
  BY <1>4 DEF CallsInv
<1>. QED  BY <1>6, <1>7 DEF ContractStep, HandlerContractSpec!Next

\* A counter other than these two does not matter to whether a session is open.
LEMMA Counted ==
    ASSUME NEW cs \in Calls, cs.opened = 1, cs.closed = 0
    PROVE  /\ [cs EXCEPT !.closed = @ + 1] = [cs EXCEPT !.closed = 1]
           /\ [cs EXCEPT !.received = @ + 1].opened = 1
           /\ [cs EXCEPT !.received = @ + 1].closed = 0
           /\ [cs EXCEPT !.received = @ + 1].error = cs.error
           /\ [cs EXCEPT !.sent = @ + 1].opened = 1
           /\ [cs EXCEPT !.sent = @ + 1].closed = 0
           /\ [cs EXCEPT !.sent = @ + 1].error = cs.error
           /\ [cs EXCEPT !.error = @ + 1].opened = 1
           /\ [cs EXCEPT !.error = @ + 1].closed = 0
<1>1. [cs EXCEPT !.closed = @ + 1] = [cs EXCEPT !.closed = 1]
  OBVIOUS
<1>2. /\ [cs EXCEPT !.received = @ + 1].opened = 1
      /\ [cs EXCEPT !.received = @ + 1].closed = 0
      /\ [cs EXCEPT !.received = @ + 1].error = cs.error
  BY DEF Calls
<1>3. /\ [cs EXCEPT !.sent = @ + 1].opened = 1
      /\ [cs EXCEPT !.sent = @ + 1].closed = 0
      /\ [cs EXCEPT !.sent = @ + 1].error = cs.error
  BY DEF Calls
<1>4. /\ [cs EXCEPT !.error = @ + 1].opened = 1
      /\ [cs EXCEPT !.error = @ + 1].closed = 0
  BY DEF Calls
<1>. QED  BY <1>1, <1>2, <1>3, <1>4

\* What holds of the calls while the session is in a callback.
LEMMA OpenSession ==
    ASSUME TypeInv, CallsInv, where \in {"loop", "doRead", "doWrite", "killed"}
    PROVE  /\ calls \in Calls /\ calls.opened = 1 /\ calls.closed = 0
           /\ calls.error = 0 /\ HandlerContractSpec!Open
BY DEF TypeInv, TypeOK, SeenType, Calls, CallsInv, HandlerContractSpec!Open

\* messageReceived, perhaps followed by sessionClosed.
LEMMA ReceivedStep ==
    ASSUME TypeInv, CallsInv, MessageReceived
    PROVE  CallsInv' /\ ContractStep
<1> DEFINE cs == [calls EXCEPT !.received = @ + 1]
<1>1. /\ calls \in Calls /\ calls.opened = 1 /\ calls.closed = 0
      /\ calls.error = 0 /\ HandlerContractSpec!Open
  BY OpenSession DEF MessageReceived
<1>2. /\ cs \in Calls /\ cs.opened = 1 /\ cs.closed = 0 /\ cs.error = 0
  BY <1>1, CallCounted, Counted
<1>3. \/ where' = "gone" /\ calls' = [cs EXCEPT !.closed = @ + 1]
      \/ where' = "loop" /\ calls' = cs
  BY DEF MessageReceived, StayOrEnd, End
<1>4. HandlerContractSpec!Call(cs)
  <2> HIDE DEF cs
  <2>1. [cs EXCEPT !.closed = @ + 1] = [cs EXCEPT !.closed = 1]
    BY <1>2, Counted
  <2>. QED
    BY <1>3, <2>1 DEF HandlerContractSpec!Call, HandlerContractSpec!Closing
<1>5. CallsInv'
  <2> HIDE DEF cs
  <2>. QED  BY <1>2, <1>3 DEF CallsInv
<1>. QED
  BY <1>1, <1>4, <1>5 DEF ContractStep, HandlerContractSpec!Next,
     HandlerContractSpec!MessageReceived

\* messageSent, perhaps followed by sessionClosed.
LEMMA SentStep ==
    ASSUME TypeInv, CallsInv, MessageSent
    PROVE  CallsInv' /\ ContractStep
<1> DEFINE cs == [calls EXCEPT !.sent = @ + 1]
<1>1. /\ calls \in Calls /\ calls.opened = 1 /\ calls.closed = 0
      /\ calls.error = 0 /\ HandlerContractSpec!Open
  BY OpenSession DEF MessageSent
<1>2. /\ cs \in Calls /\ cs.opened = 1 /\ cs.closed = 0 /\ cs.error = 0
  BY <1>1, CallCounted, Counted
<1>3. \/ where' = "gone" /\ calls' = [cs EXCEPT !.closed = @ + 1]
      \/ where' = "loop" /\ calls' = cs
  BY DEF MessageSent, StayOrEnd, End
<1>4. HandlerContractSpec!Call(cs)
  <2> HIDE DEF cs
  <2>1. [cs EXCEPT !.closed = @ + 1] = [cs EXCEPT !.closed = 1]
    BY <1>2, Counted
  <2>. QED
    BY <1>3, <2>1 DEF HandlerContractSpec!Call, HandlerContractSpec!Closing
<1>5. CallsInv'
  <2> HIDE DEF cs
  <2>. QED  BY <1>2, <1>3 DEF CallsInv
<1>. QED
  BY <1>1, <1>4, <1>5 DEF ContractStep, HandlerContractSpec!Next,
     HandlerContractSpec!MessageSent

\* sessionClosed, alone or after errorCaught.
LEMMA ClosedStep ==
    ASSUME TypeInv, CallsInv,
           ReadClosed \/ ReadFailed \/ SendFailed \/ WriteUnknown
    PROVE  CallsInv' /\ ContractStep
<1>1. /\ calls \in Calls /\ calls.opened = 1 /\ calls.closed = 0
      /\ calls.error = 0 /\ HandlerContractSpec!Open
  BY OpenSession
     DEF ReadClosed, ReadFailed, SendFailed, Sending, WriteUnknown
<1> DEFINE es == [calls EXCEPT !.error = @ + 1]
<1>2. es \in Calls /\ es.opened = 1 /\ es.closed = 0
  BY <1>1, CallCounted, Counted
<1>3. es = [calls EXCEPT !.error = 1]
  BY <1>1
<1>4. where' = "gone"
  BY DEF ReadClosed, ReadFailed, SendFailed, WriteUnknown, Fail, End
<1>5. \/ calls' = [calls EXCEPT !.closed = @ + 1]
      \/ calls' = [es EXCEPT !.closed = @ + 1]
  BY DEF ReadClosed, ReadFailed, SendFailed, WriteUnknown, Fail, End
<1>6. [calls EXCEPT !.closed = @ + 1] = [calls EXCEPT !.closed = 1]
  BY <1>1, Counted
<1>7. [es EXCEPT !.closed = @ + 1] = [es EXCEPT !.closed = 1]
  <2> HIDE DEF es
  <2>. QED  BY <1>2, Counted
<1> HIDE DEF es
<1>8. HandlerContractSpec!SessionClosed
  BY <1>1, <1>3, <1>5, <1>6, <1>7
     DEF HandlerContractSpec!SessionClosed, HandlerContractSpec!Closing
<1>. QED
  BY <1>4, <1>8 DEF CallsInv, ContractStep, HandlerContractSpec!Next

\* Every step of a session is a step of the contract, or calls no handler.
LEMMA CallsStep ==
    ASSUME TypeInv, CallsInv, [Next]_vars
    PROVE  CallsInv' /\ ContractStep
<1>1. CASE Open
  BY <1>1, OpenedStep
<1>2. CASE MessageReceived
  BY <1>2, ReceivedStep
<1>3. CASE MessageSent
  BY <1>3, SentStep
<1>4. CASE ReadClosed \/ ReadFailed \/ SendFailed \/ WriteUnknown
  BY <1>4, ClosedStep
<1>5. CASE ReadStart \/ WriteStart \/ Recv \/ WouldBlock \/ Killed
  <2>1. /\ calls' = calls
        /\ where \in {"loop", "doRead", "doWrite"}
        /\ where' \in {"loop", "doRead", "doWrite", "killed"}
    BY <1>5 DEF ReadStart, WriteStart, Recv, WouldBlock, Sending, Killed, seen
  <2>. QED  BY <2>1 DEF CallsInv, ContractStep
<1>6. CASE Send \/ Peer \/ UNCHANGED vars
  <2>1. calls' = calls /\ where' = where
    BY <1>6 DEF Send, Peer, PeerSend, PeerFin, PeerReset, PeerDrain, vars,
       control, seen
  <2>. QED  BY <2>1 DEF CallsInv, ContractStep
<1>. QED
  BY <1>1, <1>2, <1>3, <1>4, <1>5, <1>6 DEF Next, InCallback

\* The handler's methods are called in the order module HandlerContract gives:
\* the session implements that specification.
THEOREM HandlerCallsInOrder == Spec => CallsInOrder
<1>1. Init => CallsInv /\ HandlerContractSpec!Init
  BY DEF Init, CallsInv, HandlerContractSpec!Init, HandlerContractSpec!NoCalls
<1>2. TypeInv /\ CallsInv /\ [Next]_vars => CallsInv' /\ ContractStep
  BY CallsStep
<1>. QED
  BY <1>1, <1>2, TypeInvariant, PTL
     DEF Spec, CallsInOrder, HandlerContractSpec!Spec, ContractStep

-----------------------------------------------------------------------------
(***************************************************************************)
(* Session implements Sessions: seen callback by callback, the bytes and    *)
(* the system calls left out, a session does what the modules of the        *)
(* example servers are built on.                                            *)
(***************************************************************************)
\* The invariant: the number of a message is within the bound.
NumberedInv ==
    /\ wobj.id \in 0..MaxMessages /\ last.id \in 0..MaxMessages
    /\ Len(ends) \in 0..MaxMessages

AbstractStep == [SessionsSpecOfOne!SessionsNext]_(SessionsSpecOfOne!sessionsVars)

\* A function of one session, at that session and updated there.
LEMMA OfOne ==
    ASSUME NEW v, NEW w
    PROVE  /\ Of(v)[ThisSession] = v
           /\ [Of(v) EXCEPT ![ThisSession] = w] = Of(w)
BY DEF Of

\* The end of a callback, abstractly.
LEMMA LeavesOpen ==
    ASSUME NEW close \in BOOLEAN, NEW r \in BOOLEAN, NEW w \in BOOLEAN,
           PhaseNow' = IF close THEN "gone" ELSE "open",
           rdEv' = (~close /\ r), wrEv' = (~close /\ w)
    PROVE  SessionsSpecOfOne!LeaveOpen(ThisSession, close, r, w)
<1>1. Of(PhaseNow)' = [Of(PhaseNow) EXCEPT ![ThisSession] =
                          IF close THEN "gone" ELSE "open"]
  BY OfOne DEF Of
<1>2. Of(rdEv)' = [Of(rdEv) EXCEPT ![ThisSession] = ~close /\ r]
  BY OfOne DEF Of
<1>3. Of(wrEv)' = [Of(wrEv) EXCEPT ![ThisSession] = ~close /\ w]
  BY OfOne DEF Of
<1>. QED  BY <1>1, <1>2, <1>3 DEF SessionsSpecOfOne!LeaveOpen

\* A session that ends keeps its messages and loses its events.
LEMMA EndedStep ==
    ASSUME TypeInv, PhaseNow = "open", PhaseNow' = "gone",
           rdEv' = FALSE, wrEv' = FALSE,
           wobj'.id = wobj.id, last'.id = last.id
    PROVE  AbstractStep
<1>1. SessionsSpecOfOne!LeaveOpen(ThisSession, TRUE, FALSE, FALSE)
  BY LeavesOpen
<1>2. Of(PhaseNow)[ThisSession] = "open"
  BY OfOne
<1>3. Of(wobj.id)' = Of(wobj.id) /\ Of(last.id)' = Of(last.id)
  BY DEF Of
<1>4. SessionsSpecOfOne!Ended(ThisSession)
  BY <1>1, <1>2, <1>3 DEF SessionsSpecOfOne!Ended
<1>. QED  BY <1>4 DEF AbstractStep, SessionsSpecOfOne!SessionsNext

\* A step inside a callback, or of the peer, changes nothing of the session
\* that module Sessions keeps.
LEMMA SilentStep ==
    ASSUME PhaseNow' = PhaseNow, rdEv' = rdEv, wrEv' = wrEv,
           wobj'.id = wobj.id, last'.id = last.id
    PROVE  AbstractStep
<1>1. /\ Of(PhaseNow)' = Of(PhaseNow) /\ Of(wobj.id)' = Of(wobj.id)
      /\ Of(last.id)' = Of(last.id)
      /\ Of(rdEv)' = Of(rdEv) /\ Of(wrEv)' = Of(wrEv)
  BY DEF Of
<1>. QED  BY <1>1 DEF AbstractStep, SessionsSpecOfOne!sessionsVars

\* The last message after resetWrite(), abstractly.
LEMMA ReportedMessage ==
    ASSUME TypeInv, ResetWrite
    PROVE  Of(last.id)' = [Of(last.id) EXCEPT ![ThisSession] =
                              SessionsSpecOfOne!Reported(ThisSession)]
<1>1. last'.id = IF wobj.id # 0 THEN wobj.id ELSE last.id
  BY LastMessage DEF TypeInv, TypeOK, WritingType, WriteObject
<1>2. SessionsSpecOfOne!Reported(ThisSession) = last'.id
  BY <1>1, OfOne DEF SessionsSpecOfOne!Reported
<1>. QED  BY <1>2, OfOne DEF Of

\* Whatever the handler writes is a message within the bound.
LEMMA NumberedAct ==
    ASSUME TypeInv, NumberedInv, NEW may, NEW must, HandlerActs(may, must)
    PROVE  wobj'.id \in 0..MaxMessages /\ Len(ends') \in 0..MaxMessages
<1>1. CASE HandlerSilent
  <2>1. wobj'.id = 0 /\ ends' = ends
    BY <1>1 DEF HandlerSilent, ObjectAfterReset, NoObject
  <2>. QED  BY <2>1, SessionAssumption DEF NumberedInv
<1>2. CASE HandlerWrites
  <2>1. PICK n \in 0..MaxLen :
           wobj' = Message(n) /\ ends' = Append(ends, Produced + n)
    BY <1>2 DEF HandlerWrites
  <2>2. n \in Nat
    BY SessionAssumption
  <2>3. Message(n).id = Len(ends) + 1 /\ Produced + n \in Nat
    BY <2>2, MessageType DEF TypeInv
  <2>4. ends \in Seq(Nat)
    BY DEF TypeInv, TypeOK, SocketType
  <2>5. Len(ends') = Len(ends) + 1
    BY <2>1, <2>3, <2>4
  <2>6. Len(ends) < MaxMessages
    BY <1>2 DEF HandlerWrites
  <2>7. Len(ends) + 1 \in 0..MaxMessages
    BY <2>6, SessionAssumption DEF NumberedInv
  <2>. QED  BY <2>1, <2>3, <2>5, <2>7
<1>. QED  BY <1>1, <1>2 DEF HandlerActs

\* resetWrite() keeps the numbers within the bound.
LEMMA NumberedReset ==
    ASSUME TypeInv, NumberedInv, ResetWrite
    PROVE  last'.id \in 0..MaxMessages
BY LastMessage DEF NumberedInv, TypeInv, TypeOK, WritingType, WriteObject

-----------------------------------------------------------------------------
(***************************************************************************)
(* The steps that are callbacks of the handler.                             *)
(***************************************************************************)

\* Numbers within the bound are the messages of the abstract session.
LEMMA AbstractMessage ==
    ASSUME NEW m \in 0..MaxMessages
    PROVE  m \in SessionsSpecOfOne!Messages
BY SessionAssumption DEF SessionsSpecOfOne!Messages

\* What StayOrEnd does, abstractly.
LEMMA StaysOrEnds ==
    ASSUME TypeInv', NEW cs, NEW r \in BOOLEAN, NEW w \in BOOLEAN,
           StayOrEnd(cs, r, w)
    PROVE  SessionsSpecOfOne!LeaveOpen(ThisSession, closed', r, w)
<1>1. closed' \in BOOLEAN
  BY DEF TypeInv, TypeOK, ControlType
<1>2. /\ PhaseNow' = IF closed' THEN "gone" ELSE "open"
      /\ rdEv' = (~closed' /\ r) /\ wrEv' = (~closed' /\ w)
  BY DEF StayOrEnd, End, PhaseNow
<1>. QED  BY <1>1, <1>2, LeavesOpen

\* sessionOpened.
LEMMA OpenImplements ==
    ASSUME TypeInv, TypeInv', NumberedInv, Open
    PROVE  AbstractStep /\ NumberedInv'
<1>1. wobj'.id \in 0..MaxMessages /\ Len(ends') \in 0..MaxMessages
  BY NumberedAct DEF Open
<1>2. last' = last
  BY DEF Open
<1>3. SessionsSpecOfOne!LeaveOpen(ThisSession, closed', wobj'.id = 0,
                                  wobj'.id # 0)
  BY StaysOrEnds DEF Open
<1>4. Of(PhaseNow)[ThisSession] = "unborn"
  BY OfOne DEF Open, PhaseNow
<1>5. /\ Of(wobj.id)' = [Of(wobj.id) EXCEPT ![ThisSession] = wobj'.id]
      /\ Of(last.id)' = Of(last.id)
  BY <1>2, OfOne DEF Of
<1>6. SessionsSpecOfOne!Opened(ThisSession, wobj'.id, closed')
  BY <1>3, <1>4, <1>5 DEF SessionsSpecOfOne!Opened
<1>7. wobj'.id \in SessionsSpecOfOne!Messages /\ closed' \in BOOLEAN
  BY <1>1, AbstractMessage DEF TypeInv, TypeOK, ControlType
<1>8. AbstractStep
  BY <1>6, <1>7 DEF AbstractStep, SessionsSpecOfOne!SessionsNext
<1>. QED  BY <1>1, <1>2, <1>8 DEF NumberedInv

\* messageReceived.
LEMMA ReceivedImplements ==
    ASSUME TypeInv, TypeInv', EventsInv, NumberedInv, MessageReceived
    PROVE  AbstractStep /\ NumberedInv'
<1>1. wobj'.id \in 0..MaxMessages /\ Len(ends') \in 0..MaxMessages
  BY NumberedAct DEF MessageReceived
<1>2. ResetWrite /\ where = "doRead"
  BY DEF MessageReceived
<1>3. rdEv \in BOOLEAN /\ rdEv /\ wrEv \in BOOLEAN
  BY <1>2 DEF EventsInv, TypeInv, TypeOK, ControlType
<1>4. SessionsSpecOfOne!LeaveOpen(ThisSession, closed', rdEv,
                                  wrEv \/ (wobj'.id # 0 /\ ~stillReading'))
  BY <1>3, StaysOrEnds DEF MessageReceived, ScheduledAfterRead
<1>5. /\ Of(PhaseNow)[ThisSession] = "open"
      /\ Of(rdEv)[ThisSession] = rdEv /\ Of(wrEv)[ThisSession] = wrEv
  BY <1>2, OfOne DEF PhaseNow
<1>6. /\ Of(wobj.id)' = [Of(wobj.id) EXCEPT ![ThisSession] = wobj'.id]
      /\ Of(last.id)' = [Of(last.id) EXCEPT ![ThisSession] =
                            SessionsSpecOfOne!Reported(ThisSession)]
  BY <1>2, OfOne, ReportedMessage DEF Of
<1>7. SessionsSpecOfOne!Received(ThisSession, wobj'.id, closed', stillReading')
  BY <1>3, <1>4, <1>5, <1>6 DEF SessionsSpecOfOne!Received
<1>8. /\ wobj'.id \in SessionsSpecOfOne!Messages
      /\ closed' \in BOOLEAN /\ stillReading' \in BOOLEAN
  BY <1>1, AbstractMessage DEF TypeInv, TypeOK, ControlType, ReadingType
<1>9. AbstractStep
  BY <1>7, <1>8 DEF AbstractStep, SessionsSpecOfOne!SessionsNext
<1>. QED  BY <1>1, <1>2, <1>9, NumberedReset DEF NumberedInv

\* messageSent.
LEMMA SentImplements ==
    ASSUME TypeInv, TypeInv', EventsInv, NumberedInv, MessageSent
    PROVE  AbstractStep /\ NumberedInv'
<1>1. wobj'.id \in 0..MaxMessages /\ Len(ends') \in 0..MaxMessages
  BY NumberedAct DEF MessageSent
<1>2. ResetWrite /\ where = "doWrite"
  BY DEF MessageSent
<1>3. rdEv \in BOOLEAN /\ wrEv
  BY <1>2 DEF EventsInv, TypeInv, TypeOK, ControlType
<1>4. SessionsSpecOfOne!LeaveOpen(ThisSession, closed',
                                  rdEv \/ wobj'.id = 0, wobj'.id # 0)
  BY <1>3, StaysOrEnds DEF MessageSent, ReadAfterSent
<1>5. /\ Of(PhaseNow)[ThisSession] = "open"
      /\ Of(rdEv)[ThisSession] = rdEv /\ Of(wrEv)[ThisSession] = wrEv
  BY <1>2, OfOne DEF PhaseNow
<1>6. /\ Of(wobj.id)' = [Of(wobj.id) EXCEPT ![ThisSession] = wobj'.id]
      /\ Of(last.id)' = [Of(last.id) EXCEPT ![ThisSession] =
                            SessionsSpecOfOne!Reported(ThisSession)]
  BY <1>2, OfOne, ReportedMessage DEF Of
<1>7. SessionsSpecOfOne!Sent(ThisSession, wobj'.id, closed')
  BY <1>3, <1>4, <1>5, <1>6 DEF SessionsSpecOfOne!Sent
<1>8. wobj'.id \in SessionsSpecOfOne!Messages /\ closed' \in BOOLEAN
  BY <1>1, AbstractMessage DEF TypeInv, TypeOK, ControlType
<1>9. AbstractStep
  BY <1>7, <1>8 DEF AbstractStep, SessionsSpecOfOne!SessionsNext
<1>. QED  BY <1>1, <1>2, <1>9, NumberedReset DEF NumberedInv

\* sessionClosed without a call of the handler before it, or after errorCaught;
\* and the process that is killed.
LEMMA EndImplements ==
    ASSUME TypeInv, NumberedInv,
           \/ ReadClosed \/ ReadFailed \/ SendFailed \/ WriteUnknown
           \/ Killed
    PROVE  AbstractStep /\ NumberedInv'
<1>1. /\ where \in {"doRead", "doWrite"} /\ where' \in {"gone", "killed"}
      /\ rdEv' = FALSE /\ wrEv' = FALSE
  BY DEF ReadClosed, ReadFailed, SendFailed, WriteUnknown, Killed, Sending,
     Fail, End
<1>2. UNCHANGED <<wobj, last, ends>>
  BY DEF ReadClosed, ReadFailed, SendFailed, WriteUnknown, Killed, Fail, End,
     writing, output
<1>3. PhaseNow = "open" /\ PhaseNow' = "gone"
  BY <1>1 DEF PhaseNow
<1>. QED  BY <1>1, <1>2, <1>3, EndedStep DEF NumberedInv

\* Every other step.
LEMMA SilentImplements ==
    ASSUME TypeInv, NumberedInv,
           \/ ReadStart \/ Recv \/ WriteStart \/ Send \/ WouldBlock \/ Peer
           \/ UNCHANGED vars
    PROVE  AbstractStep /\ NumberedInv'
<1>1. /\ wobj'.id = wobj.id
      /\ UNCHANGED <<last, ends, rdEv, wrEv>>
      /\ PhaseNow' = PhaseNow
  <2>1. CASE WriteStart
    <3>1. PhaseNow' = PhaseNow
      BY <2>1 DEF WriteStart, PhaseNow
    <3>. QED  BY <2>1, <3>1, MessageKept
  <2>2. CASE ReadStart \/ Recv \/ WouldBlock
    BY <2>2 DEF ReadStart, Recv, WouldBlock, Sending, writing, output, events,
       PhaseNow
  <2>3. CASE Send \/ Peer \/ UNCHANGED vars
    BY <2>3 DEF Send, Peer, PeerSend, PeerFin, PeerReset, PeerDrain, vars,
       control, writing, output, events, PhaseNow
  <2>. QED  BY <2>1, <2>2, <2>3
<1>. QED  BY <1>1, SilentStep DEF NumberedInv

\* A new session is unborn, with no message and no event.
LEMMA InitImplements == Init => NumberedInv /\ SessionsSpecOfOne!SessionsInit
<1> SUFFICES ASSUME Init PROVE NumberedInv /\ SessionsSpecOfOne!SessionsInit
  OBVIOUS
<1>1. /\ wobj.id = 0 /\ last.id = 0 /\ ends = << >>
      /\ PhaseNow = "unborn" /\ rdEv = FALSE /\ wrEv = FALSE
  BY DEF Init, NoObject, PhaseNow
<1>2. NumberedInv
  BY <1>1, SessionAssumption DEF NumberedInv
<1>3. SessionsSpecOfOne!SessionsInit
  BY <1>1 DEF SessionsSpecOfOne!SessionsInit, Of
<1>. QED  BY <1>2, <1>3

\* Every step of a session is a step of the abstract one, or stutters.
LEMMA NextImplements ==
    TypeInv /\ TypeInv' /\ EventsInv /\ NumberedInv /\ [Next]_vars
       => AbstractStep /\ NumberedInv'
BY OpenImplements, ReceivedImplements, SentImplements, EndImplements,
   SilentImplements DEF Next, InCallback

\* Whatever the handler and the peer do, and for every size and bound, a session
\* implements module Sessions: what is shown of a server written against that
\* module holds of it on top of doRead and doWrite.
THEOREM SessionImplementsSessions == Spec => CallbackByCallback
<1>1. Init => EventsInv
  BY ControlInit
<1>2. TypeInv /\ EventsInv /\ [Next]_vars => EventsInv'
  BY EventsStep
<1>. QED
  BY <1>1, <1>2, InitImplements, NextImplements, TypeInvariant, PTL
     DEF Spec, CallbackByCallback, SessionsSpecOfOne!SessionsSpec, AbstractStep

=============================================================================
