-------------------------- MODULE EchoServerProofs --------------------------
(***************************************************************************)
(* Proof that the echo server's counter counts the open sessions, and that  *)
(* only clients over the limit are closed, for every number of clients and  *)
(* every limit; and that the echo client and the server take turns as long  *)
(* as each message is received whole.                                       *)
(***************************************************************************)
EXTENDS EchoConversation, FiniteSetTheorems, SequenceTheorems, TLAPS

Phase == [Client -> {"unborn", "open", "gone"}]

CountInv == phase \in Phase /\ ClientsCounted

\* The open sessions are finitely many, so they can be counted.
LEMMA OpenFinite ==
    IsFiniteSet(OpenSessions) /\ Cardinality(OpenSessions) \in Nat
<1>1. OpenSessions \subseteq Client
  BY DEF OpenSessions
<1>2. IsFiniteSet(OpenSessions)
  BY <1>1, EchoAssumption, FS_Subset
<1>. QED  BY <1>2, FS_CardinalityType

\* A session that opens is one more.
LEMMA OneOpens ==
    ASSUME phase \in Phase, NEW c \in Client, phase[c] = "unborn",
           phase' = [phase EXCEPT ![c] = "open"]
    PROVE  /\ phase' \in Phase
           /\ Cardinality(OpenSessions') = Cardinality(OpenSessions) + 1
<1>1. OpenSessions' = OpenSessions \cup {c} /\ c \notin OpenSessions
  BY DEF OpenSessions, Phase
<1>2. Cardinality(OpenSessions') = Cardinality(OpenSessions) + 1
  BY <1>1, OpenFinite, FS_AddElement
<1>. QED  BY <1>2 DEF Phase

\* A session that is gone is one less.
LEMMA OneGoes ==
    ASSUME phase \in Phase, NEW c \in Client, phase[c] = "open",
           phase' = [phase EXCEPT ![c] = "gone"]
    PROVE  /\ phase' \in Phase
           /\ Cardinality(OpenSessions') = Cardinality(OpenSessions) - 1
<1>1. OpenSessions' = OpenSessions \ {c} /\ c \in OpenSessions
  BY DEF OpenSessions, Phase
<1>2. Cardinality(OpenSessions') = Cardinality(OpenSessions) - 1
  BY <1>1, OpenFinite, FS_RemoveElement
<1>. QED  BY <1>2 DEF Phase

\* A session that goes on does not change the number.
LEMMA NoneGoes ==
    ASSUME phase \in Phase, NEW c \in Client, phase[c] = "open",
           phase' = [phase EXCEPT ![c] = "open"]
    PROVE  phase' \in Phase /\ OpenSessions' = OpenSessions
<1>1. phase' = phase
  BY DEF Phase
<1>. QED  BY <1>1 DEF OpenSessions

\* The counter is right at the start, when no session is open.
LEMMA CountInit == Init => CountInv
<1> SUFFICES ASSUME Init PROVE CountInv
  OBVIOUS
<1>1. phase = [s \in Client |-> "unborn"] /\ numClient = 0
  BY DEF Init, SessionsInit
<1>2. OpenSessions = {}
  BY <1>1 DEF OpenSessions
<1>. QED  BY <1>1, <1>2, FS_EmptySet DEF CountInv, Phase, ClientsCounted

\* A client connects.
LEMMA ConnectedStep ==
    ASSUME CountInv, NEW c \in Client, Connected(c)
    PROVE  CountInv' /\ evicted' = evicted
<1>1. /\ phase[c] = "unborn" /\ phase' = [phase EXCEPT ![c] = "open"]
      /\ numClient' = numClient + 1 /\ evicted' = evicted
  BY DEF Connected, Opened, LeaveOpen, OneMore
<1>. QED  BY <1>1, OneOpens DEF CountInv, ClientsCounted

\* A line is echoed.
LEMMA EchoStep ==
    ASSUME CountInv, NEW c \in Client, Echo(c)
    PROVE  CountInv' /\ evicted' = evicted
<1>1. /\ phase[c] = "open" /\ phase' = [phase EXCEPT ![c] = "open"]
      /\ numClient' = numClient /\ evicted' = evicted
  BY DEF Echo, Received, LeaveOpen
<1>. QED  BY <1>1, NoneGoes DEF CountInv, ClientsCounted

\* Something is sent, and the client closed if there are too many.
LEMMA MessageSentStep ==
    ASSUME CountInv, NEW c \in Client, MessageSent(c)
    PROVE  /\ CountInv'
           /\ evicted' # evicted => Cardinality(OpenSessions') >= MaxClient
<1>1. CASE numClient > MaxClient
  <2>1. /\ phase[c] = "open" /\ phase' = [phase EXCEPT ![c] = "gone"]
        /\ numClient' = numClient - 1
    BY <1>1 DEF MessageSent, Sent, LeaveOpen, TooMany
  <2>2. /\ phase' \in Phase
        /\ Cardinality(OpenSessions') = Cardinality(OpenSessions) - 1
    BY <2>1, OneGoes DEF CountInv
  <2>3. Cardinality(OpenSessions) > MaxClient
    BY <1>1 DEF CountInv, ClientsCounted
  <2>4. Cardinality(OpenSessions') >= MaxClient
    BY <2>2, <2>3, OpenFinite, EchoAssumption
  <2>. QED  BY <2>1, <2>2, <2>4 DEF CountInv, ClientsCounted
<1>2. CASE ~(numClient > MaxClient)
  <2>1. /\ phase[c] = "open" /\ phase' = [phase EXCEPT ![c] = "open"]
        /\ numClient' = numClient /\ evicted' = evicted
    BY <1>2 DEF MessageSent, Sent, LeaveOpen, TooMany
  <2>. QED  BY <2>1, NoneGoes DEF CountInv, ClientsCounted
<1>. QED  BY <1>1, <1>2

\* A client leaves.
LEMMA DisconnectedStep ==
    ASSUME CountInv, NEW c \in Client, Disconnected(c)
    PROVE  CountInv' /\ evicted' = evicted
<1>1. /\ phase[c] = "open" /\ phase' = [phase EXCEPT ![c] = "gone"]
      /\ numClient' = numClient - 1 /\ evicted' = evicted
  BY DEF Disconnected, Ended, LeaveOpen, OneLess
<1>. QED  BY <1>1, OneGoes DEF CountInv, ClientsCounted

\* Every step keeps the counter right, and closes a client only when there are
\* too many.
LEMMA CountStep ==
    ASSUME CountInv, [Next]_vars
    PROVE  /\ CountInv'
           /\ evicted' # evicted => Cardinality(OpenSessions') >= MaxClient
<1>1. CASE UNCHANGED vars
  BY <1>1 DEF vars, sessionsVars, CountInv, ClientsCounted, OpenSessions
<1>2. CASE Next
  BY <1>2, ConnectedStep, EchoStep, MessageSentStep, DisconnectedStep DEF Next
<1>. QED  BY <1>1, <1>2

\* The counter that all sessions share counts the sessions that are open.
THEOREM CounterIsRight == Spec => []ClientsCounted
<1>1. CountInv /\ [Next]_vars => CountInv'
  BY CountStep
<1>2. CountInv => ClientsCounted
  BY DEF CountInv
<1>. QED  BY <1>1, <1>2, CountInit, PTL DEF Spec

\* A client is closed only when that leaves the server full.
THEOREM OnlyExcessEvicted == Spec => EvictsOnlyExcess
<1>1. CountInv /\ [Next]_vars => CountInv'
  BY CountStep
<1>2. CountInv /\ [Next]_vars =>
         [evicted' # evicted => Cardinality(OpenSessions') >= MaxClient]_vars
  BY CountStep
<1>. QED  BY <1>1, <1>2, CountInit, PTL DEF Spec, EvictsOnlyExcess


-----------------------------------------------------------------------------
(***************************************************************************)
(* The server with the echo client is the server.                           *)
(***************************************************************************)
\* What the client does leaves the server alone, and what the server does with
\* the client is a step of the server.
LEMMA ConversationIsServer ==
    [ConversationNext]_<<server, conversation>> => [Next]_vars
<1>1. Us \in Client
  BY ConversationAssumption
<1>2. UNCHANGED server => UNCHANGED vars
  BY DEF server, vars, sessionsVars
<1>3. ClientReceives \/ ClientSends \/ ClientEnds => UNCHANGED server
  BY DEF ClientReceives, ClientSends, ClientEnds
<1>4. Accepted \/ ServerReceives \/ ServerSends \/ ServerEnds => Next
  BY <1>1 DEF Accepted, ServerReceives, ServerSends, ServerEnds, Next
<1>5. (\E c \in Client \ {Us} : AnyClient(c)) => Next
  BY DEF AnyClient, Next
<1>. QED  BY <1>2, <1>3, <1>4, <1>5 DEF ConversationNext, ConversationStep

\* In the conversation as well, the counter counts the open sessions.
THEOREM CounterIsRightInConversation == ConversationSpec => []ClientsCounted
<1>1. CountInv /\ [ConversationNext]_<<server, conversation>> => CountInv'
  BY ConversationIsServer, CountStep
<1>2. CountInv => ClientsCounted
  BY DEF CountInv
<1>3. ConversationInit => CountInv
  BY CountInit DEF ConversationInit
<1>. QED  BY <1>1, <1>2, <1>3, PTL DEF ConversationSpec

\* In the conversation as well, a client is closed only when that leaves the
\* server full.
THEOREM OnlyExcessEvictedInConversation == ConversationSpec => EvictsOnlyExcess
<1>1. CountInv /\ [ConversationNext]_<<server, conversation>> => CountInv'
  BY ConversationIsServer, CountStep
<1>2. CountInv /\ [ConversationNext]_<<server, conversation>> =>
         [evicted' # evicted => Cardinality(OpenSessions') >= MaxClient]_vars
  BY ConversationIsServer, CountStep
<1>3. ConversationInit => CountInv
  BY CountInit DEF ConversationInit
<1>. QED  BY <1>1, <1>2, <1>3, PTL DEF ConversationSpec, EvictsOnlyExcess

-----------------------------------------------------------------------------
(***************************************************************************)
(* The types of both sides.                                                 *)
(***************************************************************************)
\* The client writes what it has to write.
WaitsToBeSent == ourWr[Us] => ourPending[Us] # "none"

TypesInv == CountInv /\ ConversationTypeOK /\ WaitsToBeSent

\* The types hold at the start.
LEMMA TypesInit == ConversationInit => TypesInv
<1> SUFFICES ASSUME ConversationInit PROVE TypesInv
  OBVIOUS
<1>1. CountInv
  BY CountInit DEF ConversationInit
<1>2. TypeOK
  BY DEF ConversationInit, Init, SessionsInit, TypeOK, SessionsType, Messages
<1>3. Our!SessionsType /\ WaitsToBeSent
  BY DEF ConversationInit, Our!SessionsInit, Our!SessionsType, Our!Messages,
         WaitsToBeSent
<1>4. sent \in Seq({"first", "second", "typed", "blank"})
  BY DEF ConversationInit
<1>5. closed \in BOOLEAN /\ cut \in BOOLEAN
  BY Zenon DEF ConversationInit
<1>6. msgNo \in 0..3 /\ toServer \in Nat /\ toClient \in Nat
  BY DEF ConversationInit
<1>. QED
  BY <1>1, <1>2, <1>3, <1>4, <1>5, <1>6 DEF TypesInv, ConversationTypeOK

\* A step of the server keeps its types.
LEMMA ServerTypes ==
    ASSUME CountInv, TypeOK, [Next]_vars
    PROVE  TypeOK'
<1>1. numClient' \in Nat
  <2>1. CountInv'
    BY CountStep
  <2>2. IsFiniteSet(OpenSessions')
    BY EchoAssumption, FS_Subset DEF OpenSessions
  <2>. QED  BY <2>1, <2>2, FS_CardinalityType DEF CountInv, ClientsCounted
<1>2. CASE UNCHANGED vars
  BY <1>2 DEF vars, sessionsVars, TypeOK, SessionsType
<1>3. ASSUME NEW c \in Client, Connected(c)
      PROVE  TypeOK'
  <2>1. Greeting \in Messages
    BY DEF Greeting, Messages
  <2>2. SessionsType'
    BY <1>3, <2>1 DEF Connected, Opened, LeaveOpen, TypeOK, SessionsType
  <2>. QED  BY <1>1, <1>3, <2>2 DEF Connected, TypeOK
<1>4. ASSUME NEW c \in Client, Echo(c)
      PROVE  TypeOK'
  <2>1. Reported(c) \in Messages /\ "echo" \in Messages
    BY DEF Reported, Messages, TypeOK, SessionsType
  <2>2. SessionsType'
    BY <1>4, <2>1 DEF Echo, Received, LeaveOpen, TypeOK, SessionsType
  <2>. QED  BY <1>1, <1>4, <2>2 DEF Echo, TypeOK
<1>5. ASSUME NEW c \in Client, MessageSent(c)
      PROVE  TypeOK'
  <2>1. Reported(c) \in Messages /\ "none" \in Messages
    BY DEF Reported, Messages, TypeOK, SessionsType
  <2>2. SessionsType'
    BY <1>5, <2>1 DEF MessageSent, Sent, LeaveOpen, TypeOK, SessionsType
  <2>. QED  BY <1>1, <1>5, <2>2 DEF MessageSent, TypeOK
<1>6. ASSUME NEW c \in Client, Disconnected(c)
      PROVE  TypeOK'
  <2>1. SessionsType'
    BY <1>6 DEF Disconnected, Ended, LeaveOpen, TypeOK, SessionsType
  <2>. QED  BY <1>1, <1>6, <2>1 DEF Disconnected, TypeOK
<1>. QED  BY <1>2, <1>3, <1>4, <1>5, <1>6 DEF Next

\* The client receives an answer, or a piece of one.
LEMMA ClientReceivesTypes ==
    ASSUME TypesInv, ClientReceives
    PROVE  TypesInv'
<1>1. PICK n \in 1..toClient :
         Piece(toClient, n) /\ toClient' = IF Closes THEN 0 ELSE toClient - n
  BY DEF ClientReceives
<1>2. toClient \in Nat
  BY DEF TypesInv, ConversationTypeOK
<1>3. toClient' \in Nat /\ toServer' \in Nat
  BY <1>1, <1>2 DEF TypesInv, ConversationTypeOK, ClientReceives
<1>4. cut' \in BOOLEAN
  <2>1. cut' = (cut \/ n # Size \/ toClient # Size)
    BY <1>1 DEF Piece
  <2>. QED  BY <2>1 DEF TypesInv, ConversationTypeOK
<1>5. CountInv' /\ TypeOK'
  BY DEF TypesInv, CountInv, ClientsCounted, OpenSessions, TypeOK,
         SessionsType, ConversationTypeOK, ClientReceives, server
<1>6. Our!Reported(Us) \in Our!Messages
  BY DEF Our!Reported, Our!Messages, Our!SessionsType, TypesInv,
         ConversationTypeOK
<1>7. CASE /\ ~Closes /\ msgNo' = msgNo + 1 /\ UNCHANGED closed
           /\ \E m \in Answers : Our!Received(Us, m, FALSE, FALSE)
  <2>1. PICK m \in Answers : Our!Received(Us, m, FALSE, FALSE)
    BY <1>7
  <2>2. m \in Our!Messages /\ m # "none"
    BY DEF Answers, Our!Messages
  <2>3. Our!SessionsType'
    BY <1>6, <2>1, <2>2 DEF Our!Received, Our!LeaveOpen, Our!SessionsType,
       TypesInv, ConversationTypeOK
  <2>4. WaitsToBeSent'
    BY <2>1, <2>2 DEF Our!Received, Our!SessionsType, WaitsToBeSent, TypesInv,
       ConversationTypeOK
  <2>5. msgNo' \in 0..3 /\ closed' \in BOOLEAN
    BY <1>7 DEF Closes, TypesInv, ConversationTypeOK
  <2>. QED
    BY <1>3, <1>4, <1>5, <2>3, <2>4, <2>5
    DEF TypesInv, ConversationTypeOK, ClientReceives
<1>8. CASE /\ Closes /\ closed' = TRUE /\ UNCHANGED msgNo
           /\ Our!Received(Us, "none", TRUE, FALSE)
  <2>1. Our!SessionsType'
    BY <1>6, <1>8 DEF Our!Received, Our!LeaveOpen, Our!SessionsType,
       Our!Messages, TypesInv, ConversationTypeOK
  <2>2. WaitsToBeSent'
    BY <1>8 DEF Our!Received, Our!LeaveOpen, Our!SessionsType, WaitsToBeSent,
       TypesInv, ConversationTypeOK
  <2>3. msgNo' \in 0..3 /\ closed' \in BOOLEAN
    BY <1>8 DEF TypesInv, ConversationTypeOK
  <2>. QED
    BY <1>3, <1>4, <1>5, <2>1, <2>2, <2>3
    DEF TypesInv, ConversationTypeOK, ClientReceives
<1>. QED  BY <1>7, <1>8 DEF ClientReceives

\* The client's message is sent.
LEMMA ClientSendsTypes ==
    ASSUME TypesInv, ClientSends
    PROVE  TypesInv'
<1>1. /\ ourWr[Us] /\ sent' = Append(sent, ourPending[Us])
      /\ Our!Sent(Us, "none", FALSE)
  BY DEF ClientSends, Our!Sent
<1>2. ourPending[Us] \in {"first", "second", "typed", "blank"}
  BY <1>1 DEF TypesInv, WaitsToBeSent, ConversationTypeOK, Our!SessionsType,
     Our!Messages
<1>3. sent' \in Seq({"first", "second", "typed", "blank"})
  BY <1>1, <1>2 DEF TypesInv, ConversationTypeOK
<1>4. toServer' \in Nat
  BY ConversationAssumption DEF ClientSends, TypesInv, ConversationTypeOK
<1>5. Our!Reported(Us) \in Our!Messages
  BY DEF Our!Reported, Our!Messages, Our!SessionsType, TypesInv,
         ConversationTypeOK
<1>6. Our!SessionsType'
  BY <1>1, <1>5 DEF Our!Sent, Our!LeaveOpen, Our!SessionsType, Our!Messages,
     TypesInv, ConversationTypeOK
<1>7. WaitsToBeSent'
  BY <1>1 DEF Our!Sent, Our!LeaveOpen, Our!SessionsType, WaitsToBeSent,
     TypesInv, ConversationTypeOK
<1>8. CountInv' /\ TypeOK'
  BY DEF TypesInv, CountInv, ClientsCounted, OpenSessions, TypeOK,
         SessionsType, ConversationTypeOK, ClientSends, server
<1>. QED
  BY <1>3, <1>4, <1>6, <1>7, <1>8 DEF TypesInv, ConversationTypeOK, ClientSends

\* The client's session ends with the connection.
LEMMA ClientEndsTypes ==
    ASSUME TypesInv, ClientEnds
    PROVE  TypesInv'
<1>1. Our!Ended(Us)
  BY DEF ClientEnds
<1>2. Our!SessionsType' /\ WaitsToBeSent'
  BY <1>1 DEF Our!Ended, Our!LeaveOpen, Our!SessionsType, WaitsToBeSent,
     TypesInv, ConversationTypeOK
<1>3. CountInv' /\ TypeOK'
  BY DEF TypesInv, CountInv, ClientsCounted, OpenSessions, TypeOK,
         SessionsType, ConversationTypeOK, ClientEnds, server
<1>. QED
  BY <1>2, <1>3
  DEF TypesInv, ConversationTypeOK, ClientEnds, streams, history

\* The server accepts the client.
LEMMA AcceptedTypes ==
    ASSUME TypesInv, Accepted
    PROVE  TypesInv'
<1>1. Next
  BY ConversationAssumption DEF Accepted, Next
<1>2. CountInv' /\ TypeOK'
  BY <1>1, CountStep, ServerTypes DEF TypesInv, ConversationTypeOK
<1>3. Our!Opened(Us, "none", FALSE)
  BY DEF Accepted
<1>4. Our!SessionsType' /\ WaitsToBeSent'
  BY <1>3 DEF Our!Opened, Our!LeaveOpen, Our!SessionsType, Our!Messages,
     WaitsToBeSent, TypesInv, ConversationTypeOK
<1>. QED
  BY <1>2, <1>4
  DEF TypesInv, ConversationTypeOK, Accepted, streams, history

\* The server receives something of the client, or sends it its answer, or ends
\* their session.
LEMMA ServerSideTypes ==
    ASSUME TypesInv, ServerReceives \/ ServerSends \/ ServerEnds
    PROVE  TypesInv'
<1>1. Next
  BY ConversationAssumption DEF ServerReceives, ServerSends, ServerEnds, Next
<1>2. CountInv' /\ TypeOK'
  BY <1>1, CountStep, ServerTypes DEF TypesInv, ConversationTypeOK
<1>3. UNCHANGED ours
  BY DEF ServerReceives, ServerSends, ServerEnds, conversation
<1>4. Our!SessionsType' /\ WaitsToBeSent'
  BY <1>3 DEF ours, Our!SessionsType, Our!Messages, WaitsToBeSent, TypesInv,
     ConversationTypeOK
<1>5. CASE ServerReceives
  <2>1. PICK n \in 1..toServer :
           Piece(toServer, n) /\ toServer' = toServer - n
    BY <1>5 DEF ServerReceives
  <2>2. toServer' \in Nat
    BY <2>1 DEF TypesInv, ConversationTypeOK
  <2>3. cut' = (cut \/ n # Size \/ toServer # Size)
    BY <2>1 DEF Piece
  <2>4. cut' \in BOOLEAN
    BY <2>3 DEF TypesInv, ConversationTypeOK
  <2>. QED
    BY <1>2, <1>4, <1>5, <2>2, <2>4
    DEF TypesInv, ConversationTypeOK, ServerReceives
<1>6. CASE ServerSends
  <2>1. toClient' \in Nat
    BY <1>6, ConversationAssumption
    DEF ServerSends, TypesInv, ConversationTypeOK
  <2>. QED
    BY <1>2, <1>4, <1>6, <2>1
    DEF TypesInv, ConversationTypeOK, ServerSends, history
<1>7. CASE ServerEnds
  BY <1>2, <1>4, <1>7
  DEF TypesInv, ConversationTypeOK, ServerEnds, conversation, streams, history
<1>. QED  BY <1>5, <1>6, <1>7

\* Another client does something, or nobody does.
LEMMA OthersTypes ==
    ASSUME TypesInv, [Next]_vars, UNCHANGED conversation
    PROVE  TypesInv'
<1>1. CountInv' /\ TypeOK'
  BY CountStep, ServerTypes DEF TypesInv, ConversationTypeOK
<1>2. UNCHANGED ours
  BY DEF conversation
<1>3. Our!SessionsType' /\ WaitsToBeSent'
  BY <1>2 DEF ours, Our!SessionsType, Our!Messages, WaitsToBeSent, TypesInv,
     ConversationTypeOK
<1>. QED
  BY <1>1, <1>3
  DEF TypesInv, ConversationTypeOK, conversation, streams, history

\* Every step keeps the types.
LEMMA TypesStep ==
    ASSUME TypesInv, [ConversationNext]_<<server, conversation>>
    PROVE  TypesInv'
<1>1. CASE UNCHANGED <<server, conversation>>
  <2>1. UNCHANGED vars /\ UNCHANGED conversation
    BY <1>1 DEF server, vars, sessionsVars
  <2>. QED  BY <2>1, OthersTypes
<1>2. CASE ConversationStep
  BY <1>2, AcceptedTypes, ClientReceivesTypes, ClientSendsTypes,
     ClientEndsTypes, ServerSideTypes DEF ConversationStep
<1>3. CASE \E c \in Client \ {Us} : AnyClient(c) /\ UNCHANGED conversation
  <2>1. Next /\ UNCHANGED conversation
    BY <1>3 DEF AnyClient, Next
  <2>. QED  BY <2>1, OthersTypes
<1>. QED  BY <1>1, <1>2, <1>3 DEF ConversationNext

\* The sessions of both sides, the client's counter and the streams keep their
\* types, and the client never has nothing to write when it writes.
THEOREM ConversationTypesCorrect == ConversationSpec => []ConversationTypeOK
<1>1. TypesInv => ConversationTypeOK
  BY DEF TypesInv
<1>. QED  BY <1>1, TypesInit, TypesStep, PTL DEF ConversationSpec


-----------------------------------------------------------------------------
(***************************************************************************)
(* The two take turns, as long as each message is received whole and alone. *)
(***************************************************************************)
\* What the client has sent when it has sent n messages and none was empty.
Written(n) == SubSeq(<<"first", "second", "typed">>, 1, n)

\* What it may have written as its message number n.
WrittenAs(n) ==
    CASE n = 1 -> {"first"}
      [] n = 2 -> {"second"}
      [] n = 3 -> {"typed", "blank"}
      [] OTHER -> {}

\* One message is on its way, or waits to be sent, on one side; and the client
\* has sent as many as it has written, but the one that waits.
OneMessage ==
    /\ toServer \in {0, Size} /\ toClient \in {0, Size}
    /\ toClient = Size => toServer = 0 /\ ~wr[Us] /\ ~ourWr[Us]
    /\ toServer = Size => ~wr[Us] /\ ~ourWr[Us]
    /\ wr[Us] => ~ourWr[Us]

SentAll ==
    toServer = Size \/ toClient = Size \/ wr[Us] => sent = Written(msgNo)

SentButOne ==
    ourWr[Us] => /\ msgNo # 0 /\ sent = Written(msgNo - 1)
                 /\ ourPending[Us] \in WrittenAs(msgNo)

NotYet ==
    ourPhase[Us] = "unborn" =>
       /\ msgNo = 0 /\ sent = <<>> /\ ~wr[Us]
       /\ toServer = 0 /\ toClient = 0

InTurn ==
    ~cut /\ ourPhase[Us] # "gone" =>
       OneMessage /\ SentAll /\ SentButOne /\ NotYet

TurnsInv == TypesInv /\ InTurn /\ ConversationWhole

\* The messages of the client, one by one.
LEMMA WrittenIs ==
    /\ Written(0) = <<>>
    /\ Written(1) = Append(Written(0), "first")
    /\ Written(2) = Append(Written(1), "second")
    /\ Written(3) = Append(Written(2), "typed")
    /\ Written(3) = <<"first", "second", "typed">>
<1> DEFINE all == <<"first", "second", "typed">>
<1>1. /\ all \in Seq({"first", "second", "typed"}) /\ Len(all) = 3
      /\ all[1] = "first" /\ all[2] = "second" /\ all[3] = "typed"
  OBVIOUS
<1> HIDE DEF all
<1>2. ASSUME NEW n \in 0..3
      PROVE  /\ Written(n) \in Seq({"first", "second", "typed"})
             /\ Len(Written(n)) = n
             /\ \A i \in 1..n : Written(n)[i] = all[i]
  <2>1. Written(n) = SubSeq(all, 1, n)
    BY DEF Written, all
  <2>. QED  BY <1>1, <2>1, SubSeqProperties
<1>3. ASSUME NEW n \in 1..3
      PROVE  Written(n) = Append(Written(n - 1), all[n])
  <2>1. n - 1 \in 0..3 /\ n \in 0..3
    OBVIOUS
  <2>2. /\ Written(n) \in Seq({"first", "second", "typed"})
        /\ Len(Written(n)) = n
        /\ \A i \in 1..n : Written(n)[i] = all[i]
    BY <1>2, <2>1
  <2>3. /\ Written(n - 1) \in Seq({"first", "second", "typed"})
        /\ Len(Written(n - 1)) = n - 1
        /\ \A i \in 1..(n - 1) : Written(n - 1)[i] = all[i]
    BY <1>2, <2>1
  <2>4. all[n] \in {"first", "second", "typed"}
    BY <1>1
  <2> DEFINE next == Append(Written(n - 1), all[n])
  <2>5. /\ next \in Seq({"first", "second", "typed"}) /\ Len(next) = n
        /\ \A i \in 1..n : next[i] = all[i]
    BY <2>3, <2>4, AppendProperties
  <2>. QED  BY <2>2, <2>5, SeqEqual
<1>4. Written(0) = <<>>
  BY <1>2, EmptySeq
<1>5. Written(3) = all
  <2>1. /\ Written(3) \in Seq({"first", "second", "typed"})
        /\ Len(Written(3)) = 3 /\ \A i \in 1..3 : Written(3)[i] = all[i]
    BY <1>2
  <2>. QED  BY <1>1, <2>1, SeqEqual
<1>. QED  BY <1>1, <1>3, <1>4, <1>5 DEF all

\* Sending what waits completes what is sent, if it is not empty.
LEMMA SentNext ==
    ASSUME NEW n \in 0..3, NEW m \in WrittenAs(n), n # 0, m # "blank"
    PROVE  Append(Written(n - 1), m) = Written(n)
<1>1. CASE n = 1
  <2>1. m = "first"
    BY <1>1 DEF WrittenAs
  <2>2. Written(n - 1) = Written(0) /\ Written(n) = Written(1)
    BY <1>1
  <2>. QED  BY <2>1, <2>2, WrittenIs
<1>2. CASE n = 2
  <2>1. m = "second"
    BY <1>2 DEF WrittenAs
  <2>2. Written(n - 1) = Written(1) /\ Written(n) = Written(2)
    BY <1>2
  <2>. QED  BY <2>1, <2>2, WrittenIs
<1>3. CASE n = 3
  <2>1. m = "typed"
    BY <1>3 DEF WrittenAs
  <2>2. Written(n - 1) = Written(2) /\ Written(n) = Written(3)
    BY <1>3
  <2>. QED  BY <2>1, <2>2, WrittenIs
<1>. QED  BY <1>1, <1>2, <1>3

\* The turns hold at the start.
LEMMA TurnsInit == ConversationInit => TurnsInv
<1> SUFFICES ASSUME ConversationInit PROVE TurnsInv
  OBVIOUS
<1>1. TypesInv
  BY TypesInit
<1>2. /\ toServer = 0 /\ toClient = 0 /\ msgNo = 0 /\ sent = <<>>
      /\ wr[Us] = FALSE /\ ourWr[Us] = FALSE
  BY ConversationAssumption
  DEF ConversationInit, Init, SessionsInit, Our!SessionsInit
<1>3. OneMessage /\ SentAll /\ SentButOne /\ NotYet
  BY <1>2, ConversationAssumption DEF OneMessage, SentAll, SentButOne, NotYet
<1>4. ConversationWhole
  BY DEF ConversationInit, ConversationWhole
<1>. QED  BY <1>1, <1>3, <1>4 DEF TurnsInv, InTurn

\* The client receives: it has the turn then.
LEMMA ClientReceivesTurn ==
    ASSUME TurnsInv, ClientReceives
    PROVE  InTurn' /\ ConversationWhole'
<1>1. PICK n \in 1..toClient :
         Piece(toClient, n) /\ toClient' = IF Closes THEN 0 ELSE toClient - n
  BY DEF ClientReceives
<1>2. cut' = (cut \/ n # Size \/ toClient # Size)
  BY <1>1 DEF Piece
<1>3. /\ UNCHANGED <<sent, toServer>> /\ wr' = wr
  BY DEF ClientReceives, server
<1>4. /\ ourPhase \in [{Us} -> {"unborn", "open", "gone"}]
      /\ ourPending \in [{Us} -> Our!Messages] /\ ourWr \in [{Us} -> BOOLEAN]
      /\ msgNo \in 0..3
  BY DEF TurnsInv, TypesInv, ConversationTypeOK, Our!SessionsType
<1>5. ourPhase[Us] = "open"
  BY DEF ClientReceives, Our!Received
<1>6. CASE cut'
  BY <1>6 DEF InTurn, ConversationWhole
<1>7. CASE ~cut'
  <2>1. ~cut /\ n = Size /\ toClient = Size
    BY <1>2, <1>7
  <2>2. OneMessage /\ SentAll
    BY <1>5, <2>1 DEF TurnsInv, InTurn
  <2>3. toServer = 0 /\ ~wr[Us] /\ sent = Written(msgNo)
    BY <2>1, <2>2 DEF OneMessage, SentAll
  <2>4. toClient' = 0 /\ toServer' = 0 /\ ~wr'[Us] /\ Size # 0
    BY <1>1, <1>3, <2>1, <2>3, ConversationAssumption
  <2>5. CASE /\ ~Closes /\ msgNo' = msgNo + 1 /\ UNCHANGED closed
             /\ \E m \in Answers : Our!Received(Us, m, FALSE, FALSE)
    <3>1. PICK m \in Answers : Our!Received(Us, m, FALSE, FALSE)
      BY <2>5
    <3>2. /\ ourPending'[Us] = m /\ ourPhase'[Us] = "open"
      BY <1>4, <3>1 DEF Our!Received, Our!LeaveOpen
    <3>3. m \in WrittenAs(msgNo')
      BY <1>4, <2>5, <3>1 DEF Answers, WrittenAs, Closes
    <3>4. msgNo' # 0 /\ msgNo' - 1 = msgNo
      BY <1>4, <2>5
    <3>5. sent' = Written(msgNo' - 1)
      BY <1>3, <2>3, <3>4
    <3>6. SentButOne'
      BY <3>2, <3>3, <3>4, <3>5 DEF SentButOne
    <3>7. OneMessage' /\ SentAll' /\ NotYet'
      BY <2>4, <3>2 DEF OneMessage, SentAll, NotYet
    <3>8. ConversationWhole'
      BY <1>3, <2>1, <2>5 DEF TurnsInv, ConversationWhole
    <3>. QED  BY <3>6, <3>7, <3>8 DEF InTurn
  <2>6. CASE Closes /\ Our!Received(Us, "none", TRUE, FALSE)
    <3>1. ourPhase'[Us] = "gone"
      BY <1>4, <2>6 DEF Our!Received, Our!LeaveOpen
    <3>2. msgNo = 3
      BY <1>4, <2>6 DEF Closes
    <3>3. sent' = <<"first", "second", "typed">>
      BY <1>3, <2>3, <3>2, WrittenIs
    <3>. QED  BY <3>1, <3>3 DEF InTurn, ConversationWhole
  <2>. QED  BY <2>5, <2>6 DEF ClientReceives
<1>. QED  BY <1>6, <1>7

\* The client sends: its message is on its way then.
LEMMA ClientSendsTurn ==
    ASSUME TurnsInv, ClientSends
    PROVE  InTurn' /\ ConversationWhole'
<1>1. /\ ourPhase[Us] = "open" /\ ourWr[Us] /\ Our!Sent(Us, "none", FALSE)
      /\ sent' = Append(sent, ourPending[Us])
      /\ UNCHANGED <<msgNo, toClient, closed, cut>> /\ wr' = wr
  BY DEF ClientSends, Our!Sent, server
<1>2. /\ ourPhase \in [{Us} -> {"unborn", "open", "gone"}]
      /\ ourWr \in [{Us} -> BOOLEAN] /\ msgNo \in 0..3
  BY DEF TurnsInv, TypesInv, ConversationTypeOK, Our!SessionsType
<1>3. ourPhase'[Us] = "open" /\ ~ourWr'[Us]
  BY <1>1, <1>2 DEF Our!Sent, Our!LeaveOpen
<1>4. CASE cut'
  BY <1>4 DEF InTurn, ConversationWhole
<1>5. CASE ~cut'
  <2>1. OneMessage /\ SentButOne
    BY <1>1, <1>5 DEF TurnsInv, InTurn
  <2>2. toServer = 0 /\ toClient = 0 /\ ~wr[Us]
    BY <1>1, <2>1 DEF OneMessage
  <2>3. /\ msgNo # 0 /\ sent = Written(msgNo - 1)
        /\ ourPending[Us] \in WrittenAs(msgNo)
    BY <1>1, <2>1 DEF SentButOne
  <2>4. toServer' = 0 \/ (toServer' = Size /\ ourPending[Us] # "blank")
    BY <2>2, ConversationAssumption DEF ClientSends
  <2>5. toServer' = Size => sent' = Written(msgNo)
    <3>1. HAVE toServer' = Size
    <3>2. ourPending[Us] # "blank"
      BY <2>4, <3>1, ConversationAssumption
    <3>. QED  BY <1>1, <1>2, <2>3, <3>2, SentNext
  <2>6. OneMessage'
    BY <1>1, <1>3, <2>2, <2>4, ConversationAssumption DEF OneMessage
  <2>7. SentAll'
    BY <1>1, <2>2, <2>5, ConversationAssumption DEF SentAll
  <2>8. SentButOne' /\ NotYet'
    BY <1>3 DEF SentButOne, NotYet
  <2>9. ~closed
    <3>1. SUFFICES ASSUME closed PROVE FALSE
      OBVIOUS
    <3>2. sent = <<"first", "second", "typed">>
      BY <1>1, <1>5, <3>1 DEF TurnsInv, ConversationWhole
    <3>3. Len(Written(msgNo - 1)) <= 2
      BY <1>2, <2>3 DEF Written
    <3>. QED  BY <2>3, <3>2, <3>3
  <2>. QED  BY <1>1, <2>6, <2>7, <2>8, <2>9 DEF InTurn, ConversationWhole
<1>. QED  BY <1>4, <1>5

\* The client's session ends: it has no turn any more.
LEMMA ClientEndsTurn ==
    ASSUME TurnsInv, ClientEnds
    PROVE  InTurn' /\ ConversationWhole'
<1>1. ourPhase \in [{Us} -> {"unborn", "open", "gone"}]
  BY DEF TurnsInv, TypesInv, ConversationTypeOK, Our!SessionsType
<1>2. ourPhase'[Us] = "gone"
  BY <1>1 DEF ClientEnds, Our!Ended, Our!LeaveOpen
<1>3. UNCHANGED <<closed, cut, sent>>
  BY DEF ClientEnds, history
<1>. QED  BY <1>2, <1>3 DEF TurnsInv, InTurn, ConversationWhole

\* What the server knows of its session with the client.
LEMMA ServerSide ==
    ASSUME TurnsInv
    PROVE  /\ Us \in Client
           /\ phase \in [Client -> {"unborn", "open", "gone"}]
           /\ wr \in [Client -> BOOLEAN]
<1>. QED  BY ConversationAssumption
          DEF TurnsInv, TypesInv, ConversationTypeOK, TypeOK, SessionsType

\* The server accepts the client, and has the turn.
LEMMA AcceptedTurn ==
    ASSUME TurnsInv, Accepted
    PROVE  InTurn' /\ ConversationWhole'
<1>1. /\ ourPhase[Us] = "unborn" /\ Our!Opened(Us, "none", FALSE)
      /\ UNCHANGED <<msgNo, toServer, toClient, sent, closed, cut>>
  BY DEF Accepted, Our!Opened, streams, history
<1>2. /\ ourPhase \in [{Us} -> {"unborn", "open", "gone"}]
      /\ ourWr \in [{Us} -> BOOLEAN]
  BY DEF TurnsInv, TypesInv, ConversationTypeOK, Our!SessionsType
<1>3. ourPhase'[Us] = "open" /\ ~ourWr'[Us]
  BY <1>1, <1>2 DEF Our!Opened, Our!LeaveOpen
<1>4. ConversationWhole'
  BY <1>1 DEF TurnsInv, ConversationWhole
<1>5. CASE cut
  BY <1>1, <1>4, <1>5 DEF InTurn
<1>6. CASE ~cut
  <2>1. msgNo = 0 /\ sent = <<>> /\ toServer = 0 /\ toClient = 0
    BY <1>1, <1>6 DEF TurnsInv, InTurn, NotYet
  <2>2. OneMessage' /\ SentAll' /\ SentButOne' /\ NotYet'
    BY <1>1, <1>3, <2>1, WrittenIs, ConversationAssumption
    DEF OneMessage, SentAll, SentButOne, NotYet
  <2>. QED  BY <1>4, <2>2 DEF InTurn
<1>. QED  BY <1>5, <1>6

\* The server receives the client's message: it has the turn then.
LEMMA ServerReceivesTurn ==
    ASSUME TurnsInv, ServerReceives
    PROVE  InTurn' /\ ConversationWhole'
<1>1. PICK n \in 1..toServer :
         Piece(toServer, n) /\ toServer' = toServer - n
  BY DEF ServerReceives
<1>2. cut' = (cut \/ n # Size \/ toServer # Size)
  BY <1>1 DEF Piece
<1>3. UNCHANGED <<ourPhase, ourPending, ourWr, msgNo, toClient, sent, closed>>
  BY DEF ServerReceives, ours
<1>4. CASE cut'
  BY <1>4 DEF InTurn, ConversationWhole
<1>5. CASE ~cut'
  <2>1. ~cut /\ n = Size /\ toServer = Size
    BY <1>2, <1>5
  <2>2. ConversationWhole'
    BY <1>3, <2>1 DEF TurnsInv, ConversationWhole
  <2>3. CASE ourPhase[Us] = "gone"
    BY <1>3, <2>2, <2>3 DEF InTurn
  <2>4. CASE ourPhase[Us] # "gone"
    <3>1. OneMessage /\ SentAll /\ NotYet
      BY <2>1, <2>4 DEF TurnsInv, InTurn
    <3>2. ~ourWr[Us] /\ toClient = 0 /\ sent = Written(msgNo)
      BY <2>1, <3>1, ConversationAssumption DEF OneMessage, SentAll
    <3>3. toServer' = 0 /\ Size # 0
      BY <1>1, <2>1, ConversationAssumption
    <3>4. ourPhase[Us] # "unborn"
      BY <2>1, <3>1, <3>3 DEF NotYet
    <3>5. OneMessage' /\ SentAll' /\ SentButOne' /\ NotYet'
      BY <1>3, <3>2, <3>3, <3>4 DEF OneMessage, SentAll, SentButOne, NotYet
    <3>. QED  BY <2>2, <3>5 DEF InTurn
  <2>. QED  BY <2>3, <2>4
<1>. QED  BY <1>4, <1>5

\* The server sends its answer, which is on its way then.
LEMMA ServerSendsTurn ==
    ASSUME TurnsInv, ServerSends
    PROVE  InTurn' /\ ConversationWhole'
<1>1. /\ wr[Us] /\ MessageSent(Us)
      /\ UNCHANGED <<ourPhase, ourPending, ourWr, msgNo, toServer, sent, closed,
                     cut>>
  BY DEF ServerSends, MessageSent, Sent, ours, history
<1>2. ~wr'[Us]
  <2>1. Sent(Us, "none", TooMany)
    BY <1>1 DEF MessageSent
  <2>2. wr' = [wr EXCEPT ![Us] = ~TooMany /\ FALSE]
    BY <2>1 DEF Sent, LeaveOpen
  <2>. QED  BY <2>2, ServerSide
<1>3. ConversationWhole'
  BY <1>1 DEF TurnsInv, ConversationWhole
<1>4. CASE cut \/ ourPhase[Us] = "gone"
  BY <1>1, <1>3, <1>4 DEF InTurn
<1>5. CASE ~cut /\ ourPhase[Us] # "gone"
  <2>1. OneMessage /\ SentAll /\ NotYet
    BY <1>5 DEF TurnsInv, InTurn
  <2>2. toServer = 0 /\ toClient = 0 /\ ~ourWr[Us] /\ sent = Written(msgNo)
    BY <1>1, <2>1 DEF OneMessage, SentAll
  <2>3. toClient' = Size /\ Size # 0
    BY <1>5, <2>2, ConversationAssumption DEF ServerSends
  <2>4. ourPhase[Us] # "unborn"
    BY <1>1, <2>1 DEF NotYet
  <2>5. OneMessage' /\ SentAll' /\ SentButOne' /\ NotYet'
    BY <1>1, <1>2, <2>2, <2>3, <2>4 DEF OneMessage, SentAll, SentButOne, NotYet
  <2>. QED  BY <1>3, <2>5 DEF InTurn
<1>. QED  BY <1>4, <1>5

\* The server sees that the client has gone.
LEMMA ServerEndsTurn ==
    ASSUME TurnsInv, ServerEnds
    PROVE  InTurn' /\ ConversationWhole'
<1>1. ourPhase[Us] = "gone" /\ UNCHANGED conversation
  BY DEF ServerEnds
<1>. QED
  BY <1>1 DEF conversation, ours, streams, history, TurnsInv, InTurn,
              ConversationWhole

\* Another client does something: whose turn it is stays as it is.
LEMMA OthersTurn ==
    ASSUME TurnsInv, wr'[Us] = wr[Us], UNCHANGED conversation
    PROVE  InTurn' /\ ConversationWhole'
<1>1. UNCHANGED <<ourPhase, ourPending, ourWr, msgNo, toServer, toClient, sent,
                  closed, cut>>
  BY DEF conversation, ours, streams, history
<1>2. (OneMessage /\ SentAll /\ SentButOne /\ NotYet)
        => (OneMessage /\ SentAll /\ SentButOne /\ NotYet)'
  BY <1>1 DEF OneMessage, SentAll, SentButOne, NotYet
<1>. QED  BY <1>1, <1>2 DEF TurnsInv, InTurn, ConversationWhole

\* Another client's callback touches its own session.
LEMMA OthersAside ==
    ASSUME TurnsInv, NEW c \in Client \ {Us}, AnyClient(c)
    PROVE  wr'[Us] = wr[Us]
<1>1. CASE Connected(c)
  BY <1>1, ServerSide DEF Connected, Opened, LeaveOpen
<1>2. CASE Echo(c)
  BY <1>2, ServerSide DEF Echo, Received, LeaveOpen
<1>3. CASE MessageSent(c)
  BY <1>3, ServerSide DEF MessageSent, Sent, LeaveOpen
<1>4. CASE Disconnected(c)
  BY <1>4, ServerSide DEF Disconnected, Ended, LeaveOpen
<1>. QED  BY <1>1, <1>2, <1>3, <1>4 DEF AnyClient

\* Every step keeps the turns.
LEMMA TurnsStep ==
    ASSUME TurnsInv, [ConversationNext]_<<server, conversation>>
    PROVE  TurnsInv'
<1>1. TypesInv'
  BY TypesStep DEF TurnsInv
<1>2. CASE UNCHANGED <<server, conversation>>
  <2>1. wr' = wr /\ UNCHANGED conversation
    BY <1>2 DEF server
  <2>. QED  BY <1>1, <2>1, OthersTurn DEF TurnsInv
<1>3. CASE ConversationStep
  <2>1. InTurn' /\ ConversationWhole'
    BY <1>3, AcceptedTurn, ClientReceivesTurn, ClientSendsTurn, ClientEndsTurn,
       ServerReceivesTurn, ServerSendsTurn, ServerEndsTurn DEF ConversationStep
  <2>. QED  BY <1>1, <2>1 DEF TurnsInv
<1>4. CASE \E c \in Client \ {Us} : AnyClient(c) /\ UNCHANGED conversation
  <2>1. wr'[Us] = wr[Us] /\ UNCHANGED conversation
    BY <1>4, OthersAside
  <2>. QED  BY <1>1, <2>1, OthersTurn DEF TurnsInv
<1>. QED  BY <1>2, <1>3, <1>4 DEF ConversationNext

\* As long as each message is received whole and alone, the client closes only
\* after the server has answered all three of its messages: however many other
\* clients there are, and though the server may close the client before.
THEOREM WholeConversation == ConversationSpec => []ConversationWhole
<1>1. TurnsInv => ConversationWhole
  BY DEF TurnsInv
<1>. QED  BY <1>1, TurnsInit, TurnsStep, PTL DEF ConversationSpec

=============================================================================
