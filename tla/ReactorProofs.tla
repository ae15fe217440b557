--------------------------- MODULE ReactorProofs ---------------------------
(***************************************************************************)
(* Proofs about module Reactor, for any number of acceptors, connectors,    *)
(* connections and descriptors.                                             *)
(*                                                                          *)
(* The inductive invariant ReactorInv relates the three places that know of *)
(* a descriptor: the object that stores its number, the kernel's table, and *)
(* libevent's list of events.                                               *)
(***************************************************************************)
EXTENDS Reactor, WellFoundedInduction, TLAPS

\* The object has a descriptor and is not about to give it up.
Uses(o) ==
    IF o \in Acceptor
    THEN state[o] \in {"listening", "failed"} /\ fd[o] # NoFd
    ELSE Live(o)

\* Behind the number an object stores is what it opened itself.
OwnFiles ==
    /\ \A o \in Owner : Uses(o) => fd[o] \in Fd /\ file[fd[o]] = o
    /\ \A a \in Acceptor : /\ state[a] = "absent" => fd[a] = NoFd
                           /\ state[a] = "listening" => fd[a] # NoFd

\* And whatever is open belongs to such an object, or is a known leak.
FilesOwned ==
    \A f \in Fd, o \in Owner : file[f] = o =>
        \/ Uses(o) /\ fd[o] = f
        \/ o \in lost

LostEnded == \A c \in lost : phase[c] \in {"closing", "gone"}

\* Who a connection that is not open yet belongs to.
Services ==
    \A c \in Conn :
        /\ phase[c] = "waiting" => /\ service[c] \in Acceptor
                                   /\ state[service[c]] = "listening"
        /\ phase[c] \in {"connecting", "timedout"} => service[c] \in Connector

\* A connection is in the middle of its end only while its callback runs.
CurrentPhase ==
    /\ control = "handler" => /\ current \in Conn
                              /\ phase[current] \in {"open", "timedout"}
    /\ control = "cleanup" => current \in Conn /\ phase[current] = "closing"
    /\ control = "undefined" => current \in Conn /\ phase[current] # "gone"
    /\ control \in {"main", "loop", "done"} => current = Nobody
    /\ control = "done" => added = {}

OneEnds ==
    \A c \in Conn :
        /\ phase[c] = "closing" =>
              current = c /\ control \in {"cleanup", "undefined"}
        /\ phase[c] = "timedout" =>
              current = c /\ control \in {"handler", "undefined"}

\* libevent holds no event of an object that does not exist (any more).
EventsHeld ==
    \A e \in added :
        IF e[1] \in Acceptor
        THEN state[e[1]] = "listening"
        ELSE phase[e[1]] \in {"connecting", "open", "closing"}

\* And it holds one of each that waits for something.
EventsKept ==
    /\ \A a \in Acceptor : state[a] = "listening" => <<a, "r">> \in added
    /\ \A c \in Conn :
          /\ phase[c] = "connecting" => <<c, "r">> \in added
          /\ phase[c] = "open" /\ current # c =>
                \E d \in ReadWrite : <<c, d>> \in added
    /\ control = "handler" /\ phase[current] = "open" /\ event \in ReadWrite =>
          <<current, event>> \in added

\* The number of a session that is closing is in use again only where a handler
\* opened a descriptor within its sessionClosed.
Reused ==
    \A c \in Conn, o \in Owner :
        phase[c] = "closing" /\ o # c /\ Uses(o) /\ fd[o] = fd[c] =>
            o \in reopened

Watched ==
    \A o \in Owner, d \in ReadWrite :
        <<o, d>> \in added /\ Uses(o) /\ o \notin reopened =>
            d \in watched[fd[o]]

ReactorInv ==
    /\ TypeOK /\ OwnFiles /\ FilesOwned /\ LostEnded /\ Services
    /\ CurrentPhase /\ OneEnds /\ EventsHeld /\ EventsKept /\ Reused /\ Watched

-----------------------------------------------------------------------------
(***************************************************************************)
(* The descriptor table.                                                    *)
(***************************************************************************)
\* A nonempty set of descriptors has a lowest one.
LEMMA LowestFree ==
    ASSUME FreeFds # {}
    PROVE  Lowest \in FreeFds
  <1>1. FreeFds \subseteq Nat
    BY ReactorAssumption DEF FreeFds, Fd
  <1>2. PICK f \in FreeFds : \A g \in FreeFds : ~ <<g, f>> \in OpToRel(<, Nat)
    BY <1>1, NatLessThanWellFounded, WFMin
  <1>3. \A g \in FreeFds : ~ g < f
    BY <1>1, <1>2 DEF OpToRel
  <1>4. \A g \in FreeFds : f <= g
    BY <1>1, <1>3
  <1> QED
    BY <1>4 DEF Lowest

\* Opens gives a number that nothing was open behind.
LEMMA OpensFree ==
    ASSUME TypeOK, NEW o \in Owner, Opens(o)
    PROVE  /\ Lowest \in Fd /\ file[Lowest] = Free
           /\ file' = [file EXCEPT ![Lowest] = o]
           /\ fd' = [fd EXCEPT ![o] = Lowest]
           /\ file' \in [Fd -> Owner \cup {Free}]
           /\ fd' \in [Owner -> Fd \cup {NoFd}]
           /\ reopened \subseteq reopened' /\ reopened' \subseteq reopened \cup {o}
           /\ control = "cleanup" /\ fd[current] = Lowest => o \in reopened'
  <1>1. Lowest \in FreeFds
    BY LowestFree DEF Opens
  <1>2. Lowest \in Fd /\ file[Lowest] = Free
    BY <1>1 DEF FreeFds
  <1>3. file' = [file EXCEPT ![Lowest] = o] /\ fd' = [fd EXCEPT ![o] = Lowest]
    BY DEF Opens
  <1>4. reopened' = IF control = "cleanup" /\ fd[current] = Lowest
                    THEN reopened \cup {o} ELSE reopened
    BY DEF Opens
  <1>5. file \in [Fd -> Owner \cup {Free}] /\ fd \in [Owner -> Fd \cup {NoFd}]
    BY DEF TypeOK
  <1>6. file' \in [Fd -> Owner \cup {Free}] /\ fd' \in [Owner -> Fd \cup {NoFd}]
    BY <1>2, <1>3, <1>5
  <1> QED
    BY <1>2, <1>3, <1>4, <1>6

\* Closing a number leaves the rest of the table alone.
LEMMA ClosedTable ==
    ASSUME TypeOK, NEW n
    PROVE  /\ Closed(n) \in [Fd -> Owner \cup {Free}]
           /\ \A f \in Fd : Closed(n)[f] = IF f = n THEN Free ELSE file[f]
  BY DEF TypeOK, Closed

\* Numbers: NoFd is none of the table's.
LEMMA NoFdNotFd == NoFd \notin Fd
  BY ReactorAssumption DEF NoFd, Fd

-----------------------------------------------------------------------------
(***************************************************************************)
(* The events.                                                              *)
(***************************************************************************)
LEMMA EventsTyped ==
    ASSUME TypeOK, NEW events, events \subseteq Owner \X ReadWrite,
           EventsBecome(events)
    PROVE  /\ added' = events
           /\ added' \subseteq Owner \X ReadWrite
           /\ watched' \in [Fd -> SUBSET ReadWrite]
  <1>1. added' = events
    BY DEF EventsBecome
  <1>2. watched \in [Fd -> SUBSET ReadWrite]
    BY DEF TypeOK
  <1>4. \A f \in Fd : Asked(events, fd', f) \in SUBSET ReadWrite
    BY DEF Asked
  <1>5. watched' \in [Fd -> SUBSET ReadWrite]
    BY <1>2, <1>4 DEF EventsBecome
  <1> QED
    BY <1>1, <1>5

\* A condition that is asked for is watched, if it was watched in case that it
\* was asked for before.
LEMMA AskedIsWatched ==
    ASSUME NEW events, EventsBecome(events),
           NEW o \in Owner, NEW d \in ReadWrite, <<o, d>> \in events,
           NEW f \in Fd, fd'[o] = f, file'[f] # Free,
           \A p \in Owner : <<p, d>> \in added /\ fd[p] = f => d \in watched[f]
    PROVE  d \in watched'[f]
  <1>1. d \in Asked(events, fd', f)
    BY DEF Asked
  <1>2. watched'[f] = IF Asked(events, fd', f) = Asked(added, fd, f)
                      THEN watched[f] ELSE Asked(events, fd', f)
    BY DEF EventsBecome
  <1>3. CASE Asked(events, fd', f) = Asked(added, fd, f)
    <2>1. d \in Asked(added, fd, f)
      BY <1>1, <1>3
    <2>2. PICK p \in Owner : <<p, d>> \in added /\ fd[p] = f
      BY <2>1 DEF Asked
    <2> QED
      BY <1>2, <1>3, <2>2
  <1>4. CASE Asked(events, fd', f) # Asked(added, fd, f)
    BY <1>1, <1>2, <1>4
  <1> QED
    BY <1>3, <1>4

\* Two users of one number: the second was opened within the sessionClosed of
\* the first.
LEMMA OldIsWatched ==
    ASSUME ReactorInv, NEW o \in Owner, NEW d \in ReadWrite,
           Uses(o), o \notin reopened, NEW p \in Owner,
           <<p, d>> \in added, fd[p] = fd[o]
    PROVE  d \in watched[fd[o]]
  <1>1. CASE p = o
    BY <1>1 DEF ReactorInv, Watched
  <1>2. CASE p # o /\ Uses(p)
    <2>1. file[fd[p]] = p /\ file[fd[o]] = o
      BY <1>2 DEF ReactorInv, OwnFiles
    <2> QED
      BY <1>2, <2>1
  <1>3. CASE p # o /\ ~ Uses(p)
    <2>1. IF p \in Acceptor THEN state[p] = "listening"
                            ELSE phase[p] \in {"connecting", "open", "closing"}
      BY DEF ReactorInv, EventsHeld
    <2>2. p \notin Acceptor
      BY <1>3, <2>1 DEF ReactorInv, OwnFiles, Uses
    <2>3. p \in Conn /\ phase[p] = "closing"
      BY <1>3, <2>1, <2>2 DEF Uses, Live, Owner
    <2> QED
      BY <1>3, <2>3 DEF ReactorInv, Reused
  <1> QED
    BY <1>1, <1>2, <1>3

\* No event is left on a number that is free, but on that of a session whose
\* sessionClosed runs.
LEMMA FreeIsNotAsked ==
    ASSUME ReactorInv, NEW d, NEW p \in Owner, <<p, d>> \in added,
           NEW f \in Fd, file[f] = Free, fd[p] = f,
           control # "undefined"
    PROVE  control = "cleanup" /\ fd[current] = f
  <1>1. ~ Uses(p)
    <2>1. SUFFICES ASSUME Uses(p) PROVE FALSE
      OBVIOUS
    <2>2. file[fd[p]] = p
      BY <2>1 DEF ReactorInv, OwnFiles
    <2> QED
      BY <2>2, ReactorAssumption DEF Owner
  <1>2. IF p \in Acceptor THEN state[p] = "listening"
                          ELSE phase[p] \in {"connecting", "open", "closing"}
    BY DEF ReactorInv, EventsHeld
  <1>3. p \notin Acceptor
    BY <1>1, <1>2 DEF ReactorInv, OwnFiles, Uses
  <1>4. p \in Conn /\ phase[p] = "closing"
    BY <1>1, <1>2, <1>3 DEF Uses, Live, Owner
  <1> QED
    BY <1>4 DEF ReactorInv, OneEnds

\* What a step has to show for Watched: each object that has an event has the
\* number it had, or one that was free.
LEMMA WatchedStep ==
    ASSUME ReactorInv, NEW events, EventsBecome(events),
           control # "undefined", OwnFiles',
           \A o \in Owner, d \in ReadWrite :
              <<o, d>> \in events /\ Uses(o)' /\ o \notin reopened' =>
                 \/ Uses(o) /\ o \notin reopened /\ fd'[o] = fd[o]
                 \/ /\ fd'[o] \in Fd /\ file[fd'[o]] = Free
                    /\ ~ (control = "cleanup" /\ fd[current] = fd'[o])
    PROVE  Watched'
  <1> SUFFICES ASSUME NEW o \in Owner, NEW d \in ReadWrite,
                      <<o, d>> \in added', Uses(o)', o \notin reopened'
               PROVE  d \in watched'[fd'[o]]
    BY DEF Watched
  <1> DEFINE f == fd'[o]
  <1>1. <<o, d>> \in events
    BY DEF EventsBecome
  <1>2. f \in Fd /\ file'[f] = o
    BY DEF OwnFiles
  <1>3. file'[f] # Free
    BY <1>2, ReactorAssumption DEF Owner
  <1>4. ASSUME NEW p \in Owner, <<p, d>> \in added, fd[p] = f
        PROVE  d \in watched[f]
    <2>1. CASE Uses(o) /\ o \notin reopened /\ f = fd[o]
      BY <1>4, <2>1, OldIsWatched
    <2>2. CASE file[f] = Free /\ ~ (control = "cleanup" /\ fd[current] = f)
      BY <1>2, <1>4, <2>2, FreeIsNotAsked
    <2> QED
      BY <1>1, <2>1, <2>2
  <1> HIDE DEF f
  <1>5. fd'[o] = f
    BY DEF f
  <1>6. d \in watched'[f]
    BY <1>1, <1>2, <1>3, <1>4, <1>5, AskedIsWatched
  <1> QED
    BY <1>5, <1>6

-----------------------------------------------------------------------------
(***************************************************************************)
(* The invariant holds initially, and every step preserves it.              *)
(***************************************************************************)
LEMMA ReactorInit == Init => ReactorInv
  <1> SUFFICES ASSUME Init PROVE ReactorInv
    OBVIOUS
  <1>1. \A o \in Owner : ~ Uses(o)
    BY DEF Init, Uses, Live, Service, Owner
  <1>2. TypeOK
    BY DEF Init, TypeOK, Service
  <1>3. OwnFiles /\ FilesOwned /\ LostEnded /\ Reused /\ Watched
    BY <1>1, ReactorAssumption
       DEF Init, OwnFiles, FilesOwned, LostEnded, Reused, Watched, Owner, Service
  <1>4. Services /\ CurrentPhase /\ OneEnds
    BY DEF Init, Services, CurrentPhase, OneEnds
  <1>5. EventsHeld /\ EventsKept
    BY DEF Init, EventsHeld, EventsKept, Service
  <1> QED
    BY <1>2, <1>3, <1>4, <1>5 DEF ReactorInv

\* A step that leaves these variables alone keeps the invariant.
LEMMA SameStateKeepsInv ==
    ASSUME ReactorInv,
           UNCHANGED <<control, current, event, state, phase, service, fd,
                       answered, file, watched, added, lost, reopened>>
    PROVE  ReactorInv'
  <1> USE DEF ReactorInv
  <1>1. TypeOK'
    BY DEF TypeOK
  <1>2. OwnFiles' /\ FilesOwned'
    BY DEF OwnFiles, FilesOwned, Uses, Live
  <1>3. LostEnded' /\ Services'
    BY DEF LostEnded, Services
  <1>4. CurrentPhase' /\ OneEnds'
    BY DEF CurrentPhase, OneEnds
  <1>5. EventsHeld' /\ EventsKept'
    BY DEF EventsHeld, EventsKept
  <1>6. Reused'
    BY DEF Reused, Uses, Live
  <1>7. Watched'
    BY DEF Watched, Uses, Live
  <1> QED
    BY <1>1, <1>2, <1>3, <1>4, <1>5, <1>6, <1>7

\* An acceptor listens.
LEMMA ListenStep ==
    ASSUME ReactorInv, NEW a \in Acceptor, Listen(a)
    PROVE  ReactorInv'
  <1> USE DEF ReactorInv
  <1>1. /\ control \in {"main", "handler", "cleanup"}
        /\ state[a] = "absent" /\ a \in Service /\ a \in Owner
    BY DEF Listen, ApplicationRuns, IsNext, Absent, Service, Owner
  <1>2. UNCHANGED <<control, current, event, phase, service, answered, lost>>
    BY DEF Listen, running
  <1>3. PICK r \in {"failed", "listening"} :
           state' = [state EXCEPT ![a] = r]
    BY DEF Listen, ListenFails, ListenSucceeds
  <1>4. \/ Opens(a)
        \/ UNCHANGED <<file, fd, reopened>> /\ ListenFails(a)
    BY DEF Listen
  <1>5. \/ r = "listening" /\ Opens(a) /\ EventsBecome(added \cup {<<a, "r">>})
        \/ r = "failed" /\ UNCHANGED <<added, watched>>
    BY <1>1, <1>3 DEF Listen, ListenFails, ListenSucceeds, TypeOK
  <1>6. \A x \in Service : state'[x] = IF x = a THEN r ELSE state[x]
    BY <1>1, <1>3 DEF TypeOK
  <1>7. \A o \in Owner : o # a => fd'[o] = fd[o] /\ Uses(o)' = Uses(o)
    BY <1>1, <1>2, <1>4, <1>6, OpensFree DEF Uses, Live, Service, Owner, TypeOK
  <1>8. \/ /\ fd'[a] \in Fd /\ file[fd'[a]] = Free
           /\ file' = [file EXCEPT ![fd'[a]] = a]
        \/ fd'[a] = NoFd /\ file' = file /\ r = "failed"
    BY <1>1, <1>3, <1>4, OpensFree DEF TypeOK, OwnFiles, ListenFails
  <1>types. TypeOK'
    <2>1. state' \in [Service -> {"absent", "listening", "failed", "alive",
                                  "deleted"}]
      BY <1>1, <1>3 DEF TypeOK
    <2>2. /\ fd' \in [Owner -> Fd \cup {NoFd}]
          /\ file' \in [Fd -> Owner \cup {Free}] /\ reopened' \subseteq Owner
      BY <1>1, <1>4, OpensFree DEF TypeOK
    <2>3. added \cup {<<a, "r">>} \subseteq Owner \X ReadWrite
      BY <1>1 DEF TypeOK, ReadWrite
    <2>4. /\ added' \subseteq Owner \X ReadWrite
          /\ watched' \in [Fd -> SUBSET ReadWrite]
      BY <1>5, <2>3, EventsTyped DEF TypeOK
    <2>5. \A c \in Conn : fd'[c] = fd[c]
      BY <1>7, ReactorAssumption DEF Owner
    <2> QED
      BY <1>2, <2>1, <2>2, <2>4, <2>5 DEF TypeOK
  <1>own. OwnFiles'
    <2>1. \A o \in Owner : o # a /\ Uses(o) =>
             fd[o] \in Fd /\ file[fd[o]] = o /\ file'[fd[o]] = o
      BY <1>8, ReactorAssumption DEF OwnFiles, TypeOK, Owner
    <2>2. \A o \in Owner : o # a /\ Uses(o)' => fd'[o] \in Fd /\ file'[fd'[o]] = o
      BY <1>7, <2>1
    <2>3. Uses(a)' => fd'[a] \in Fd /\ file'[fd'[a]] = a
      BY <1>8 DEF Uses, TypeOK
    <2>4. \A b \in Acceptor : /\ state'[b] = "absent" => fd'[b] = NoFd
                              /\ state'[b] = "listening" => fd'[b] # NoFd
      BY <1>1, <1>6, <1>7, <1>8, NoFdNotFd DEF OwnFiles, Service, Owner
    <2> QED
      BY <2>2, <2>3, <2>4 DEF OwnFiles
  <1>owned. FilesOwned'
    BY <1>1, <1>2, <1>6, <1>7, <1>8, NoFdNotFd
       DEF FilesOwned, OwnFiles, TypeOK, Uses, Service
  <1>lost. LostEnded' /\ Services'
    BY <1>1, <1>2, <1>6 DEF LostEnded, Services, Service
  <1>cur. CurrentPhase' /\ OneEnds'
    BY <1>1, <1>2 DEF CurrentPhase, OneEnds
  <1>noevent. \A d : <<a, d>> \notin added
    BY <1>1 DEF EventsHeld
  <1>held. EventsHeld'
    <2>1. \A e \in added : IF e[1] \in Acceptor
                           THEN state'[e[1]] = "listening"
                           ELSE phase[e[1]] \in {"connecting", "open", "closing"}
      BY <1>1, <1>6 DEF EventsHeld, Service
    <2>2. \A e \in added' :
             e \in added \/ (e = <<a, "r">> /\ r = "listening")
      <3>1. CASE r = "listening"
        BY <1>5, <3>1 DEF EventsBecome
      <3>2. CASE added' = added
        BY <3>2
      <3> QED
        BY <1>5, <3>1, <3>2
    <2>3. r = "listening" => state'[a] = "listening"
      BY <1>1, <1>6
    <2> QED
      BY <1>2, <2>1, <2>2, <2>3 DEF EventsHeld
  <1>kept. EventsKept'
    <2>1. added \subseteq added' /\ (r = "listening" => <<a, "r">> \in added')
      BY <1>5 DEF EventsBecome
    <2> QED
      BY <1>1, <1>2, <1>6, <2>1 DEF EventsKept, Service
  <1>reused. Reused'
    <2>1. \A c \in Conn : fd'[c] = fd[c] /\ phase'[c] = phase[c]
      BY <1>2, <1>7, ReactorAssumption DEF Owner
    <2>2. reopened \subseteq reopened'
      BY <1>1, <1>4, OpensFree
    <2>3. ASSUME NEW c \in Conn, phase[c] = "closing", Uses(a)', fd'[a] = fd[c]
          PROVE  a \in reopened'
      <3>1. current = c /\ control = "cleanup"
        BY <1>1, <2>3 DEF OneEnds
      <3>2. fd'[a] # NoFd
        BY <2>3 DEF Uses
      <3> QED
        BY <1>1, <1>4, <2>3, <3>1, <3>2, OpensFree DEF TypeOK, OwnFiles
    <2> QED
      BY <1>7, <2>1, <2>2, <2>3 DEF Reused
  <1>watched. Watched'
    <2>1. CASE r = "listening"
      <3>1. Opens(a) /\ EventsBecome(added \cup {<<a, "r">>})
        BY <1>5, <2>1
      <3>2. a \notin reopened' => ~ (control = "cleanup" /\ fd[current] = fd'[a])
        BY <1>1, <3>1, OpensFree DEF TypeOK
      <3>3. fd'[a] \in Fd /\ file[fd'[a]] = Free
        BY <1>8, <2>1
      <3>4. reopened \subseteq reopened'
        BY <1>1, <3>1, OpensFree
      <3> QED
        BY <1>1, <1>7, <1>own, <3>1, <3>2, <3>3, <3>4, WatchedStep
    <2>2. CASE r = "failed"
      <3>1. UNCHANGED <<added, watched>>
        BY <1>5, <2>2
      <3>2. reopened \subseteq reopened'
        BY <1>1, <1>4, OpensFree
      <3> QED
        BY <1>7, <1>noevent, <3>1, <3>2 DEF Watched
    <2> QED
      BY <2>1, <2>2
  <1> QED
    BY <1>types, <1>own, <1>owned, <1>lost, <1>cur, <1>held, <1>kept,
       <1>reused, <1>watched

\* An acceptor is deleted, with its listening socket.
LEMMA DeleteAcceptorStep ==
    ASSUME ReactorInv, NEW a \in Acceptor, DeleteAcceptor(a)
    PROVE  ReactorInv'
  <1> USE DEF ReactorInv
  <1>1. /\ control \in {"main", "handler", "cleanup"}
        /\ state[a] \in {"listening", "failed"} /\ a \in Service /\ a \in Owner
    BY DEF DeleteAcceptor, ApplicationRuns, Service, Owner
  <1>2. UNCHANGED <<control, current, event, service, answered, lost>>
    BY DEF DeleteAcceptor, running
  <1>3. \A x \in Service : state'[x] = IF x = a THEN "deleted" ELSE state[x]
    BY <1>1 DEF DeleteAcceptor, TypeOK
  <1>4. \A c \in Conn : phase'[c] = IF phase[c] = "waiting" /\ service[c] = a
                                    THEN "gone" ELSE phase[c]
    BY DEF DeleteAcceptor
  <1>5. \A f \in Fd : file'[f] = IF f = fd[a] THEN Free ELSE file[f]
    BY ClosedTable DEF DeleteAcceptor
  <1>6. \A o \in Owner : fd'[o] = IF o = a THEN NoFd ELSE fd[o]
    BY <1>1 DEF DeleteAcceptor, Forgets, TypeOK
  <1>7. reopened' = reopened \ {a}
    BY DEF DeleteAcceptor, Forgets
  <1>8. EventsBecome(added \ EventsOf(a)) /\ added' = added \ EventsOf(a)
    BY DEF DeleteAcceptor, EventDeleted, EventsBecome
  <1>9. \A o \in Owner : o # a => Uses(o)' = Uses(o)
    <2>1. \A b \in Acceptor : b # a => Uses(b)' = Uses(b)
      BY <1>3, <1>6 DEF Uses, Owner, Service
    <2>2. \A c \in Conn : Live(c)' = Live(c)
      BY <1>4 DEF Live
    <2> QED
      BY <2>1, <2>2 DEF Uses, Owner
  <1>10. ~ Uses(a)'
    BY <1>1, <1>3 DEF Uses
  <1>11. \A o \in Owner : o # a /\ Uses(o) => fd[o] # fd[a]
    BY <1>1, NoFdNotFd DEF OwnFiles, Uses
  <1>types. TypeOK'
    <2>1. state' \in [Service -> {"absent", "listening", "failed", "alive",
                                  "deleted"}]
      BY <1>1 DEF DeleteAcceptor, TypeOK
    <2>2. phase' \in [Conn -> {"unborn", "waiting", "connecting", "timedout",
                               "open", "closing", "gone"}]
      BY DEF DeleteAcceptor, TypeOK
    <2>3. fd' \in [Owner -> Fd \cup {NoFd}] /\ reopened' \subseteq Owner
      BY DEF DeleteAcceptor, Forgets, TypeOK
    <2>4. file' \in [Fd -> Owner \cup {Free}]
      BY ClosedTable DEF DeleteAcceptor
    <2>5. added \ EventsOf(a) \subseteq Owner \X ReadWrite
      BY DEF TypeOK
    <2>6. /\ added' \subseteq Owner \X ReadWrite
          /\ watched' \in [Fd -> SUBSET ReadWrite]
      BY <1>8, <2>5, EventsTyped
    <2>7. \A c \in Conn : fd'[c] = fd[c] /\ (phase'[c] = "open" => phase[c] = "open")
      BY <1>4, <1>6, ReactorAssumption DEF Owner
    <2> QED
      BY <1>2, <2>1, <2>2, <2>3, <2>4, <2>6, <2>7 DEF TypeOK
  <1>own. OwnFiles'
    <2>1. \A o \in Owner : Uses(o)' => fd'[o] \in Fd /\ file'[fd'[o]] = o
      BY <1>5, <1>6, <1>9, <1>10, <1>11 DEF OwnFiles
    <2>2. \A b \in Acceptor : /\ state'[b] = "absent" => fd'[b] = NoFd
                              /\ state'[b] = "listening" => fd'[b] # NoFd
      BY <1>3, <1>6 DEF OwnFiles, Service, Owner
    <2> QED
      BY <2>1, <2>2 DEF OwnFiles
  <1>owned. FilesOwned'
    <2> SUFFICES ASSUME NEW f \in Fd, NEW o \in Owner, file'[f] = o
                 PROVE  (Uses(o)' /\ fd'[o] = f) \/ o \in lost'
      BY DEF FilesOwned
    <2>1. f # fd[a] /\ file[f] = o
      BY <1>5, ReactorAssumption DEF Owner
    <2>2. CASE o \in lost
      BY <1>2, <2>2
    <2>3. CASE Uses(o) /\ fd[o] = f
      BY <1>6, <1>9, <2>1, <2>3
    <2> QED
      BY <2>1, <2>2, <2>3 DEF FilesOwned
  <1>lost. LostEnded' /\ Services'
    BY <1>2, <1>3, <1>4 DEF LostEnded, Services, Service, TypeOK
  <1>cur. CurrentPhase' /\ OneEnds'
    BY <1>1, <1>2, <1>4 DEF CurrentPhase, OneEnds
  <1>held. EventsHeld'
    <2>1. \A e \in added' : e[1] \in Owner /\ e[1] # a /\ e \in added
      BY <1>8 DEF EventsOf, TypeOK, Owner
    <2> QED
      BY <1>3, <1>4, <2>1 DEF EventsHeld, Service, Owner
  <1>kept. EventsKept'
    <2>1. \A x, d : x # a /\ <<x, d>> \in added => <<x, d>> \in added'
      BY <1>8 DEF EventsOf
    <2>2. \A c \in Conn : c # a
      BY ReactorAssumption
    <2>3. \A b \in Acceptor : state'[b] = "listening" => <<b, "r">> \in added'
      BY <1>3, <2>1 DEF EventsKept, Service
    <2>4. ASSUME NEW c \in Conn
          PROVE  /\ phase'[c] = "connecting" => <<c, "r">> \in added'
                 /\ phase'[c] = "open" /\ current' # c =>
                       \E d \in ReadWrite : <<c, d>> \in added'
      BY <1>2, <1>4, <2>1, <2>2 DEF EventsKept
    <2>5. /\ control' = "handler" /\ phase'[current'] = "open"
          /\ event' \in ReadWrite
          => <<current', event'>> \in added'
      BY <1>2, <1>4, <2>1, <2>2 DEF EventsKept, CurrentPhase
    <2> QED
      BY <2>3, <2>4, <2>5 DEF EventsKept
  <1>reused. Reused'
    <2>1. \A c \in Conn : /\ fd'[c] = fd[c]
                          /\ phase'[c] = "closing" => phase[c] = "closing"
      BY <1>4, <1>6, ReactorAssumption DEF Owner
    <2> QED
      BY <1>6, <1>7, <1>9, <1>10, <2>1 DEF Reused
  <1>watched. Watched'
    BY <1>1, <1>6, <1>7, <1>8, <1>9, <1>10, <1>own, WatchedStep
  <1> QED
    BY <1>types, <1>own, <1>owned, <1>lost, <1>cur, <1>held, <1>kept,
       <1>reused, <1>watched

\* A connector dials.
LEMMA ConnectStep ==
    ASSUME ReactorInv, NEW k \in Connector, NEW c \in Conn, Connect(k, c)
    PROVE  ReactorInv'
  <1> USE DEF ReactorInv
  <1>1. /\ control \in {"main", "handler", "cleanup"}
        /\ phase[c] = "unborn" /\ c \in Owner /\ c \notin Acceptor
        /\ k \in Service
    BY ReactorAssumption
       DEF Connect, ApplicationRuns, IsNext, Unborn, Owner, Service
  <1>2. UNCHANGED <<control, current, event, state, answered>>
    BY DEF Connect, running
  <1>3. CASE NoDescriptor
    <2>1. UNCHANGED <<phase, service, fd, file, watched, added, lost, reopened>>
      BY <1>3 DEF NoDescriptor, kernel
    <2> QED
      BY <1>2, <2>1, SameStateKeepsInv
  <1>4. CASE Opens(c) /\ service' = [service EXCEPT ![c] = k]
             /\ (Attempt(c) \/ FailsAtOnce(c))
    <2>1. PICK r \in {"connecting", "gone"} :
             /\ phase' = [phase EXCEPT ![c] = r]
             /\ \/ r = "connecting" /\ Attempt(c)
                \/ r = "gone" /\ FailsAtOnce(c)
      BY <1>4 DEF Attempt, FailsAtOnce
    <2>2. \A b \in Conn : /\ phase'[b] = IF b = c THEN r ELSE phase[b]
                          /\ service'[b] = IF b = c THEN k ELSE service[b]
      BY <1>4, <2>1 DEF TypeOK
    <2>3. \/ /\ r = "connecting" /\ EventsBecome(added \cup EventsOf(c))
             /\ lost' = lost
          \/ r = "gone" /\ UNCHANGED <<added, watched>> /\ lost' = lost \cup {c}
      BY <2>1 DEF Attempt, FailsAtOnce
    <2>4. /\ fd'[c] \in Fd /\ file[fd'[c]] = Free
          /\ file' = [file EXCEPT ![fd'[c]] = c]
          /\ fd' = [fd EXCEPT ![c] = fd'[c]]
          /\ reopened \subseteq reopened' /\ reopened' \subseteq Owner
          /\ control = "cleanup" /\ fd[current] = fd'[c] => c \in reopened'
      BY <1>1, <1>4, OpensFree DEF TypeOK
    <2>5. \A o \in Owner : o # c => fd'[o] = fd[o] /\ Uses(o)' = Uses(o)
      BY <1>2, <2>2, <2>4 DEF Uses, Live, Owner, TypeOK
    <2>6. \A f \in Fd : file'[f] = IF f = fd'[c] THEN c ELSE file[f]
      BY <2>4 DEF TypeOK
    <2>7. Uses(c)' = (r = "connecting")
      BY <1>1, <2>1, <2>2 DEF Uses, Live
    <2>noevent. \A d : <<c, d>> \notin added
      BY <1>1 DEF EventsHeld
    <2>types. TypeOK'
      <3>1. phase' \in [Conn -> {"unborn", "waiting", "connecting", "timedout",
                                 "open", "closing", "gone"}]
        BY <2>1 DEF TypeOK
      <3>2. service' \in [Conn -> Service \cup {Nobody}]
        BY <1>1, <1>4 DEF TypeOK
      <3>3. /\ fd' \in [Owner -> Fd \cup {NoFd}]
            /\ file' \in [Fd -> Owner \cup {Free}]
        BY <1>1, <1>4, OpensFree
      <3>4. added \cup EventsOf(c) \subseteq Owner \X ReadWrite
        BY <1>1 DEF TypeOK, EventsOf
      <3>5. /\ added' \subseteq Owner \X ReadWrite
            /\ watched' \in [Fd -> SUBSET ReadWrite] /\ lost' \subseteq Conn
        BY <2>3, <3>4, EventsTyped DEF TypeOK
      <3>6. ASSUME NEW b \in Conn, phase'[b] = "open", service'[b] \in Acceptor
            PROVE  fd'[b] \in 0..FdSetSize
        <4>1. b # c
          BY <2>2, <3>6
        <4> QED
          BY <2>2, <2>5, <3>6, <4>1 DEF TypeOK, Owner
      <3> QED
        BY <1>2, <2>4, <3>1, <3>2, <3>3, <3>5, <3>6 DEF TypeOK
    <2>own. OwnFiles'
      <3>1. \A o \in Owner : o # c /\ Uses(o) =>
               fd[o] \in Fd /\ file[fd[o]] = o /\ file'[fd[o]] = o
        BY <2>4, <2>6, ReactorAssumption DEF OwnFiles, Owner
      <3>2. \A o \in Owner : Uses(o)' => fd'[o] \in Fd /\ file'[fd'[o]] = o
        BY <2>4, <2>5, <2>6, <3>1
      <3>3. \A b \in Acceptor : fd'[b] = fd[b]
        BY <1>1, <2>5 DEF Owner
      <3> QED
        BY <1>2, <3>2, <3>3 DEF OwnFiles
    <2>owned. FilesOwned'
      <3> SUFFICES ASSUME NEW f \in Fd, NEW o \in Owner, file'[f] = o
                   PROVE  (Uses(o)' /\ fd'[o] = f) \/ o \in lost'
        BY DEF FilesOwned
      <3>1. CASE f = fd'[c]
        BY <2>3, <2>6, <2>7, <3>1
      <3>2. CASE f # fd'[c]
        <4>1. file[f] = o
          BY <2>6, <3>2
        <4>2. CASE o \in lost
          BY <2>3, <4>2
        <4>3. CASE Uses(o) /\ fd[o] = f
          <5>1. o # c
            BY <1>1, <4>3 DEF Uses, Live
          <5> QED
            BY <2>5, <4>3, <5>1
        <4> QED
          BY <4>1, <4>2, <4>3 DEF FilesOwned
      <3> QED
        BY <3>1, <3>2
    <2>lost. LostEnded' /\ Services'
      BY <1>1, <1>2, <2>2, <2>3 DEF LostEnded, Services, TypeOK
    <2>cur. CurrentPhase' /\ OneEnds'
      BY <1>1, <1>2, <2>2 DEF CurrentPhase, OneEnds
    <2>added. \A e \in added' : e \in added \/ (e[1] = c /\ r = "connecting")
      BY <2>3 DEF EventsBecome, EventsOf
    <2>held. EventsHeld'
      BY <1>1, <1>2, <2>2, <2>added DEF EventsHeld, TypeOK, Owner
    <2>kept. EventsKept'
      <3>1. added \subseteq added' /\ (r = "connecting" => <<c, "r">> \in added')
        BY <2>3 DEF EventsBecome, EventsOf, ReadWrite
      <3>2. \A b \in Conn :
               /\ phase'[b] = "connecting" => <<b, "r">> \in added'
               /\ phase'[b] = "open" /\ current' # b =>
                     \E d \in ReadWrite : <<b, d>> \in added'
        BY <1>2, <2>2, <3>1 DEF EventsKept
      <3>3. /\ control' = "handler" /\ phase'[current'] = "open"
            /\ event' \in ReadWrite
            => <<current', event'>> \in added'
        BY <1>2, <2>2, <3>1 DEF EventsKept, CurrentPhase
      <3> QED
        BY <1>2, <3>1, <3>2, <3>3 DEF EventsKept
    <2>reused. Reused'
      <3>1. \A b \in Conn : phase'[b] = "closing" =>
               /\ phase[b] = "closing" /\ b # c /\ fd'[b] = fd[b]
               /\ current = b /\ control = "cleanup"
        BY <1>1, <2>2, <2>5 DEF OneEnds, Owner
      <3> QED
        BY <2>4, <2>5, <3>1 DEF Reused
    <2>watched. Watched'
      <3>1. CASE r = "connecting"
        BY <1>1, <2>3, <2>4, <2>5, <2>own, <3>1, WatchedStep
      <3>2. CASE r = "gone"
        BY <2>3, <2>4, <2>5, <2>7, <3>2 DEF Watched
      <3> QED
        BY <3>1, <3>2
    <2> QED
      BY <2>types, <2>own, <2>owned, <2>lost, <2>cur, <2>held, <2>kept,
         <2>reused, <2>watched
  <1> QED
    BY <1>3, <1>4 DEF Connect

\* A connector is deleted, with the dial it still had.
LEMMA DeleteConnectorStep ==
    ASSUME ReactorInv, NEW k \in Connector, DeleteConnector(k)
    PROVE  ReactorInv'
  <1>1. UNCHANGED <<control, current, event, phase, service, fd, answered, file,
                    watched, added, lost, reopened>>
    BY DEF DeleteConnector, running, kernel
  <1>2. \A a \in Acceptor : state'[a] = state[a]
    BY ReactorAssumption DEF DeleteConnector, ReactorInv, TypeOK, Service
  <1>3. TypeOK'
    BY <1>1 DEF DeleteConnector, ReactorInv, TypeOK
  <1>4. \A o \in Owner : Uses(o)' = Uses(o)
    BY <1>1, <1>2 DEF Uses, Live
  <1>5. OwnFiles' /\ Reused' /\ Watched'
    BY <1>1, <1>2, <1>4 DEF ReactorInv, OwnFiles, Reused, Watched
  <1>6. FilesOwned'
    BY <1>1, <1>4 DEF ReactorInv, FilesOwned, TypeOK
  <1>7. LostEnded' /\ Services' /\ CurrentPhase' /\ OneEnds'
    BY <1>1, <1>2 DEF ReactorInv, LostEnded, Services, CurrentPhase, OneEnds
  <1>8. EventsHeld' /\ EventsKept'
    BY <1>1, <1>2 DEF ReactorInv, EventsHeld, EventsKept
  <1> QED
    BY <1>3, <1>5, <1>6, <1>7, <1>8 DEF ReactorInv

\* A step that leaves the objects and their descriptors as they are.
LEMMA SameObjects ==
    ASSUME ReactorInv, \A o \in Owner : Uses(o)' = Uses(o),
           UNCHANGED <<state, fd, file, lost, reopened>>
    PROVE  OwnFiles' /\ FilesOwned'
  <1>1. OwnFiles'
    BY DEF ReactorInv, OwnFiles
  <1>2. FilesOwned'
    BY DEF ReactorInv, FilesOwned
  <1> QED
    BY <1>1, <1>2

\* Between two callbacks no connection is in the middle of its end.
LEMMA NobodyEnds ==
    ASSUME ReactorInv, control \in {"main", "loop", "done"}
    PROVE  /\ current = Nobody
           /\ \A c \in Conn : phase[c] \notin {"closing", "timedout"}
           /\ \A c \in Conn : current # c
  <1>1. current = Nobody
    BY DEF ReactorInv, CurrentPhase
  <1>2. \A c \in Conn : current # c
    BY <1>1, ReactorAssumption
  <1> QED
    BY <1>1, <1>2 DEF ReactorInv, OneEnds

\* dispatch returns what the kernel reported, in some order.
LEMMA DispatchStep ==
    ASSUME ReactorInv, Dispatch \/ DispatchReturns
    PROVE  ReactorInv'
  <1> USE DEF ReactorInv
  <1>1. /\ control \in {"main", "loop"} /\ control' \in {"loop", "done"}
        /\ control' = "done" => added = {}
    BY DEF Dispatch, DispatchReturns
  <1>2. UNCHANGED <<current, event, state, phase, service, fd, answered, file,
                    watched, added, lost, reopened>>
    BY DEF Dispatch, DispatchReturns, objects, kernel, history
  <1>3. TypeOK'
    BY <1>1, <1>2 DEF TypeOK
  <1>4. \A o \in Owner : Uses(o)' = Uses(o)
    BY <1>2 DEF Uses, Live
  <1>5. OwnFiles' /\ FilesOwned'
    BY <1>2, <1>4, SameObjects
  <1>6. LostEnded' /\ Services' /\ EventsHeld'
    BY <1>2 DEF LostEnded, Services, EventsHeld
  <1>7. CurrentPhase' /\ OneEnds'
    BY <1>1, <1>2, NobodyEnds DEF CurrentPhase, OneEnds
  <1>8. EventsKept'
    BY <1>1, <1>2 DEF EventsKept
  <1>9. Reused' /\ Watched'
    BY <1>2, <1>4 DEF Reused, Watched
  <1> QED
    BY <1>3, <1>5, <1>6, <1>7, <1>8, <1>9

\* The kernel answers a connection attempt.
LEMMA AnswerStep ==
    ASSUME ReactorInv, NEW c \in Conn, Answer(c)
    PROVE  ReactorInv'
  <1> USE DEF ReactorInv
  <1>1. UNCHANGED <<control, current, event, state, phase, service, fd, file,
                    watched, added, lost, reopened>>
    BY DEF Answer, running, kernel, history
  <1>2. TypeOK'
    BY <1>1 DEF Answer, TypeOK
  <1>3. \A o \in Owner : Uses(o)' = Uses(o)
    BY <1>1 DEF Uses, Live
  <1>4. OwnFiles' /\ FilesOwned'
    BY <1>1, <1>3, SameObjects
  <1>5. LostEnded' /\ Services' /\ EventsHeld'
    BY <1>1 DEF LostEnded, Services, EventsHeld
  <1>6. CurrentPhase' /\ OneEnds' /\ EventsKept'
    BY <1>1 DEF CurrentPhase, OneEnds, EventsKept
  <1>7. Reused' /\ Watched'
    BY <1>1, <1>3 DEF Reused, Watched
  <1> QED
    BY <1>2, <1>4, <1>5, <1>6, <1>7

\* A dial is answered: a session is opened, or its descriptor is closed.
LEMMA DialStep ==
    ASSUME ReactorInv, NEW a \in Acceptor, NEW c \in Conn, Dial(a, c),
           control # "undefined"
    PROVE  ReactorInv'
  <1> USE DEF ReactorInv
  <1>1. UNCHANGED <<control, current, event, state, fd, answered, file, watched,
                    added, lost, reopened>>
    BY DEF Dial, running, kernel, history
  <1>2. /\ phase[c] = "unborn" /\ state[a] = "listening" /\ a \in Service
        /\ phase' = [phase EXCEPT ![c] = "waiting"]
        /\ service' = [service EXCEPT ![c] = a]
    BY DEF Dial, IsNext, Unborn, Service
  <1>3. \A b \in Conn : /\ phase'[b] = IF b = c THEN "waiting" ELSE phase[b]
                        /\ service'[b] = IF b = c THEN a ELSE service[b]
    BY <1>2 DEF TypeOK
  <1>4. TypeOK'
    <2>1. phase' \in [Conn -> {"unborn", "waiting", "connecting", "timedout",
                               "open", "closing", "gone"}]
      BY <1>2 DEF TypeOK
    <2>2. service' \in [Conn -> Service \cup {Nobody}]
      BY <1>2 DEF TypeOK
    <2>3. \A b \in Conn : phase'[b] = "open" /\ service'[b] \in Acceptor
                             => fd'[b] \in 0..FdSetSize
      BY <1>1, <1>3 DEF TypeOK
    <2> QED
      BY <1>1, <2>1, <2>2, <2>3 DEF TypeOK
  <1>5. \A b \in Conn : Live(b)' = Live(b)
    BY <1>2, <1>3 DEF Live
  <1>6. \A o \in Owner : Uses(o)' = Uses(o)
    BY <1>1, <1>5 DEF Uses, Owner
  <1>7. OwnFiles' /\ FilesOwned'
    BY <1>1, <1>6, SameObjects
  <1>8. LostEnded' /\ Services'
    BY <1>1, <1>2, <1>3 DEF LostEnded, Services, TypeOK
  <1>9. CurrentPhase' /\ OneEnds'
    BY <1>1, <1>2, <1>3 DEF CurrentPhase, OneEnds
  <1>10. EventsHeld'
    BY <1>1, <1>2, <1>3 DEF EventsHeld, TypeOK, Owner
  <1>11. EventsKept'
    <2>1. \A b \in Conn :
             phase'[b] \in {"connecting", "open"} => phase'[b] = phase[b]
      BY <1>3
    <2>2. control = "handler" => phase'[current] = phase[current]
      BY <1>2, <1>3 DEF CurrentPhase
    <2> QED
      BY <1>1, <2>1, <2>2 DEF EventsKept
  <1>12. Reused' /\ Watched'
    BY <1>1, <1>2, <1>3, <1>6 DEF Reused, Watched
  <1> QED
    BY <1>4, <1>7, <1>8, <1>9, <1>10, <1>11, <1>12

\* A callback of an open session begins; it touches neither the descriptors nor
\* the events.
LEMMA CallbackStep ==
    ASSUME ReactorInv, NEW c \in Conn, NEW d \in ReadWrite, Callback(c, d)
    PROVE  ReactorInv'
  <1> USE DEF ReactorInv
  <1>1. /\ control = "loop" /\ <<c, d>> \in added /\ phase[c] # "connecting"
        /\ control' = IF state[service[c]] = "deleted" \/ phase[c] = "gone"
                      THEN "undefined" ELSE "handler"
        /\ current' = c /\ event' = d
    BY DEF Callback, Ready, Runs
  <1>2. UNCHANGED <<state, phase, service, fd, answered, file, watched, added,
                    lost, reopened>>
    BY DEF Callback, objects, kernel, history
  <1>3. phase[c] = "open"
    BY <1>1, NobodyEnds, ReactorAssumption DEF EventsHeld
  <1>4. TypeOK'
    BY <1>1, <1>2 DEF TypeOK
  <1>5. \A o \in Owner : Uses(o)' = Uses(o)
    BY <1>2 DEF Uses, Live
  <1>6. OwnFiles' /\ FilesOwned'
    BY <1>2, <1>5, SameObjects
  <1>7. LostEnded' /\ Services' /\ EventsHeld'
    BY <1>2 DEF LostEnded, Services, EventsHeld
  <1>8. CurrentPhase' /\ OneEnds'
    BY <1>1, <1>2, <1>3, NobodyEnds DEF CurrentPhase, OneEnds
  <1>9. EventsKept'
    <2>1. \A b \in Conn : current # b
      BY <1>1, NobodyEnds
    <2>2. <<current', event'>> \in added'
      BY <1>1, <1>2
    <2> QED
      BY <1>2, <2>1, <2>2 DEF EventsKept
  <1>10. Reused' /\ Watched'
    BY <1>2, <1>5 DEF Reused, Watched
  <1> QED
    BY <1>4, <1>6, <1>7, <1>8, <1>9, <1>10

\* doAccept, when its descriptor is too high for the event loop.
LEMMA TurnedAwayStep ==
    ASSUME ReactorInv, NEW a \in Acceptor, NEW c \in Conn, Accept(a, c),
           TooHigh(Lowest)
    PROVE  ReactorInv'
  <1> USE DEF ReactorInv
  <1>1. control = "loop" /\ phase[c] = "waiting"
    BY DEF Accept
  <1>2. /\ UNCHANGED <<control, current, event, state, service, fd, answered,
                       file, lost, reopened>>
        /\ phase' = [phase EXCEPT ![c] = "gone"]
    BY DEF Accept, running
  <1>3. EventsBecome(added) /\ added' = added
    BY DEF Accept, ListenerKept, EventsBecome
  <1>4. \A b \in Conn : phase'[b] = IF b = c THEN "gone" ELSE phase[b]
    BY <1>2 DEF TypeOK
  <1>5. \A b \in Conn : Live(b)' = Live(b)
    BY <1>1, <1>4 DEF Live
  <1>6. \A o \in Owner : Uses(o)' = Uses(o)
    BY <1>2, <1>5 DEF Uses, Owner
  <1>7. TypeOK'
    <2>1. phase' \in [Conn -> {"unborn", "waiting", "connecting", "timedout",
                               "open", "closing", "gone"}]
      BY <1>2 DEF TypeOK
    <2>2. watched' \in [Fd -> SUBSET ReadWrite]
      BY <1>3, EventsTyped DEF TypeOK
    <2>3. \A b \in Conn : phase'[b] = "open" => phase[b] = "open"
      BY <1>4
    <2> QED
      BY <1>2, <1>3, <2>1, <2>2, <2>3 DEF TypeOK
  <1>8. OwnFiles' /\ FilesOwned'
    BY <1>2, <1>6, SameObjects
  <1>9. LostEnded' /\ Services'
    BY <1>2, <1>4 DEF LostEnded, Services, TypeOK
  <1>10. CurrentPhase' /\ OneEnds'
    BY <1>1, <1>2, <1>4 DEF CurrentPhase, OneEnds
  <1>11. EventsHeld'
    BY <1>1, <1>2, <1>3, <1>4 DEF EventsHeld, TypeOK, Owner
  <1>12. EventsKept'
    BY <1>1, <1>2, <1>3, <1>4 DEF EventsKept
  <1>13. Reused'
    BY <1>2, <1>4, <1>6 DEF Reused
  <1>14. Watched'
    BY <1>1, <1>2, <1>3, <1>6, <1>8, WatchedStep
  <1> QED
    BY <1>7, <1>8, <1>9, <1>10, <1>11, <1>12, <1>13, <1>14

\* doAccept, when it opens a session.
LEMMA AcceptStep ==
    ASSUME ReactorInv, NEW a \in Acceptor, NEW c \in Conn, Accept(a, c),
           ~ TooHigh(Lowest)
    PROVE  ReactorInv'
  <1> USE DEF ReactorInv
  <1>1. /\ control = "loop" /\ phase[c] = "waiting" /\ service[c] = a
        /\ <<a, "r">> \in added /\ c \in Owner /\ c \notin Acceptor
    BY ReactorAssumption DEF Accept, Ready, Owner
  <1>2. state[a] = "listening"
    BY <1>1 DEF EventsHeld
  <1>3. /\ UNCHANGED <<state, service, answered, lost>>
        /\ phase' = [phase EXCEPT ![c] = "open"]
        /\ control' = "handler" /\ current' = c /\ event' = "none"
    BY <1>1, <1>2 DEF Accept, Runs
  <1>4. Opens(c)
    BY DEF Accept
  <1>5. EventsBecome(added) /\ added' = added
    BY DEF Accept, ListenerKept, EventsBecome
  <1>6. \A b \in Conn : phase'[b] = IF b = c THEN "open" ELSE phase[b]
    BY <1>3 DEF TypeOK
  <1>7. /\ fd'[c] \in Fd /\ file[fd'[c]] = Free
        /\ file' = [file EXCEPT ![fd'[c]] = c]
        /\ fd'[c] = Lowest /\ fd' = [fd EXCEPT ![c] = fd'[c]]
        /\ reopened' = reopened
    <2>1. /\ Lowest \in Fd /\ file[Lowest] = Free
          /\ file' = [file EXCEPT ![Lowest] = c]
          /\ fd' = [fd EXCEPT ![c] = Lowest]
      BY <1>1, <1>4, OpensFree
    <2>2. fd'[c] = Lowest
      BY <1>1, <2>1 DEF TypeOK
    <2>3. reopened' = reopened
      BY <1>1, <1>4 DEF Opens
    <2> QED
      BY <2>1, <2>2, <2>3
  <1>8. \A f \in Fd : file'[f] = IF f = fd'[c] THEN c ELSE file[f]
    BY <1>7 DEF TypeOK
  <1>9. \A o \in Owner : o # c => fd'[o] = fd[o] /\ Uses(o)' = Uses(o)
    <2>1. \A o \in Owner : o # c => fd'[o] = fd[o]
      BY <1>7 DEF TypeOK
    <2>2. \A b \in Conn : b # c => Live(b)' = Live(b)
      BY <1>6 DEF Live
    <2> QED
      BY <1>3, <2>1, <2>2 DEF Uses, Owner
  <1>10. Uses(c)' /\ ~ Uses(c)
    BY <1>1, <1>6 DEF Uses, Live
  <1>types. TypeOK'
    <2>1. phase' \in [Conn -> {"unborn", "waiting", "connecting", "timedout",
                               "open", "closing", "gone"}]
      BY <1>3 DEF TypeOK
    <2>2. /\ fd' \in [Owner -> Fd \cup {NoFd}]
          /\ file' \in [Fd -> Owner \cup {Free}]
      BY <1>1, <1>4, OpensFree
    <2>3. watched' \in [Fd -> SUBSET ReadWrite]
      BY <1>5, EventsTyped DEF TypeOK
    <2>4. fd'[c] \in 0..FdSetSize
      BY <1>7, ReactorAssumption DEF TooHigh, Fd
    <2>5. \A b \in Conn : phase'[b] = "open" /\ service'[b] \in Acceptor
                             => fd'[b] \in 0..FdSetSize
      BY <1>3, <1>6, <1>9, <2>4 DEF TypeOK, Owner
    <2> QED
      BY <1>3, <1>5, <1>7, <2>1, <2>2, <2>3, <2>5 DEF TypeOK
  <1>own. OwnFiles'
    <2>1. \A o \in Owner : o # c /\ Uses(o) =>
             fd[o] \in Fd /\ file[fd[o]] = o /\ file'[fd[o]] = o
      BY <1>7, <1>8, ReactorAssumption DEF OwnFiles, Owner
    <2>2. \A o \in Owner : Uses(o)' => fd'[o] \in Fd /\ file'[fd'[o]] = o
      BY <1>7, <1>8, <1>9, <2>1
    <2>3. \A b \in Acceptor : fd'[b] = fd[b]
      BY <1>1, <1>9 DEF Owner
    <2> QED
      BY <1>3, <2>2, <2>3 DEF OwnFiles
  <1>owned. FilesOwned'
    BY <1>3, <1>8, <1>9, <1>10 DEF FilesOwned
  <1>lost. LostEnded' /\ Services'
    BY <1>1, <1>3, <1>6 DEF LostEnded, Services, TypeOK
  <1>cur. CurrentPhase' /\ OneEnds'
    BY <1>1, <1>3, <1>6, NobodyEnds DEF CurrentPhase, OneEnds
  <1>held. EventsHeld'
    BY <1>3, <1>5, <1>6 DEF EventsHeld, TypeOK, Owner
  <1>kept. EventsKept'
    <2>1. event' \notin ReadWrite
      BY <1>3 DEF ReadWrite
    <2>2. \A b \in Conn : current # b
      BY <1>1, NobodyEnds
    <2> QED
      BY <1>3, <1>5, <1>6, <2>1, <2>2 DEF EventsKept
  <1>reused. Reused'
    BY <1>1, <1>3, <1>6, NobodyEnds DEF Reused
  <1>watched. Watched'
    BY <1>1, <1>5, <1>7, <1>9, <1>own, WatchedStep
  <1> QED
    BY <1>types, <1>own, <1>owned, <1>lost, <1>cur, <1>held, <1>kept,
       <1>reused, <1>watched

\* doConnect, in whatever way the attempt is decided: its event is used up, and
\* the connection still has its descriptor.
LEMMA DecidedStep ==
    ASSUME ReactorInv, NEW c \in Conn, Connected(c) \/ TimedOut(c)
    PROVE  ReactorInv'
  <1> USE DEF ReactorInv
  <1>1. /\ control = "loop" /\ phase[c] = "connecting"
        /\ control' \in {"handler", "undefined"}
        /\ current' = c /\ event' = "none" /\ c \in Owner
    BY DEF Connected, TimedOut, Runs, Owner
  <1>2. /\ UNCHANGED <<state, service, fd, file, lost, reopened>>
        /\ answered' = answered \ {c}
    BY DEF Connected, TimedOut, history
  <1>3. PICK r \in {"open", "timedout"} : phase' = [phase EXCEPT ![c] = r]
    BY DEF Connected, TimedOut
  <1>4. EventsBecome(added \ EventsOf(c)) /\ added' = added \ EventsOf(c)
    BY DEF Connected, TimedOut, EventsBecome
  <1>5. \A b \in Conn : phase'[b] = IF b = c THEN r ELSE phase[b]
    BY <1>3 DEF TypeOK
  <1>6. \A b \in Conn : Live(b)' = Live(b)
    BY <1>1, <1>5 DEF Live
  <1>7. \A o \in Owner : Uses(o)' = Uses(o)
    BY <1>2, <1>6 DEF Uses, Owner
  <1>8. \A x, d : x # c /\ <<x, d>> \in added => <<x, d>> \in added'
    BY <1>4 DEF EventsOf
  <1>9. service[c] \notin Acceptor
    BY <1>1, ReactorAssumption DEF Services
  <1>types. TypeOK'
    <2>1. phase' \in [Conn -> {"unborn", "waiting", "connecting", "timedout",
                               "open", "closing", "gone"}]
      BY <1>3 DEF TypeOK
    <2>2. added \ EventsOf(c) \subseteq Owner \X ReadWrite
      BY DEF TypeOK
    <2>3. /\ added' \subseteq Owner \X ReadWrite
          /\ watched' \in [Fd -> SUBSET ReadWrite]
      BY <1>4, <2>2, EventsTyped
    <2>4. \A b \in Conn : phase'[b] = "open" /\ service'[b] \in Acceptor
                             => fd'[b] \in 0..FdSetSize
      BY <1>2, <1>5, <1>9 DEF TypeOK
    <2> QED
      BY <1>1, <1>2, <2>1, <2>3, <2>4 DEF TypeOK
  <1>own. OwnFiles' /\ FilesOwned'
    BY <1>2, <1>7, SameObjects
  <1>lost. LostEnded' /\ Services'
    BY <1>1, <1>2, <1>5 DEF LostEnded, Services, TypeOK
  <1>cur. CurrentPhase' /\ OneEnds'
    BY <1>1, <1>3, <1>5, NobodyEnds DEF CurrentPhase, OneEnds
  <1>held. EventsHeld'
    <2>1. \A e \in added' : e[1] \in Owner /\ e[1] # c /\ e \in added
      BY <1>4 DEF EventsOf, TypeOK, Owner
    <2> QED
      BY <1>2, <1>5, <2>1 DEF EventsHeld, Owner
  <1>kept. EventsKept'
    <2>1. \A b \in Acceptor : state'[b] = "listening" => <<b, "r">> \in added'
      BY <1>2, <1>8, ReactorAssumption DEF EventsKept
    <2>2. ASSUME NEW b \in Conn
          PROVE  /\ phase'[b] = "connecting" => <<b, "r">> \in added'
                 /\ phase'[b] = "open" /\ current' # b =>
                       \E d \in ReadWrite : <<b, d>> \in added'
      BY <1>1, <1>5, <1>8, NobodyEnds DEF EventsKept
    <2>3. event' \notin ReadWrite
      BY <1>1 DEF ReadWrite
    <2> QED
      BY <2>1, <2>2, <2>3 DEF EventsKept
  <1>reused. Reused'
    BY <1>1, <1>2, <1>5, <1>7, NobodyEnds DEF Reused
  <1>watched. Watched'
    BY <1>1, <1>2, <1>4, <1>7, <1>own, WatchedStep
  <1> QED
    BY <1>types, <1>own, <1>lost, <1>cur, <1>held, <1>kept, <1>reused,
       <1>watched

-----------------------------------------------------------------------------
(***************************************************************************)
(* The ends of callbacks.                                                   *)
(***************************************************************************)
\* The connection of the callback gives up its descriptor; nobody else's is
\* closed.  Whether its number stays with it does not matter to the others.
LEMMA OthersKeepFiles ==
    ASSUME ReactorInv, NEW c \in Conn, Uses(c), ~ Uses(c)', UNCHANGED lost,
           file' = Closed(fd[c]),
           \A o \in Owner : o # c => fd'[o] = fd[o] /\ Uses(o)' = Uses(o),
           \A a \in Acceptor : state'[a] = state[a]
    PROVE  OwnFiles' /\ FilesOwned'
  <1> USE DEF ReactorInv
  <1>1. c \in Owner /\ c \notin Acceptor
    BY ReactorAssumption DEF Owner
  <1>2. \A f \in Fd : file'[f] = IF f = fd[c] THEN Free ELSE file[f]
    BY ClosedTable
  <1>3. file[fd[c]] = c
    BY <1>1 DEF OwnFiles
  <1>4. \A o \in Owner : o # c /\ Uses(o) =>
           fd[o] \in Fd /\ file[fd[o]] = o /\ fd[o] # fd[c]
    BY <1>3 DEF OwnFiles
  <1>5. \A o \in Owner : Uses(o)' => fd'[o] \in Fd /\ file'[fd'[o]] = o
    BY <1>2, <1>4
  <1>6. \A a \in Acceptor : fd'[a] = fd[a]
    BY <1>1 DEF Owner
  <1>7. OwnFiles'
    BY <1>5, <1>6 DEF OwnFiles
  <1>8. ASSUME NEW f \in Fd, NEW o \in Owner, file'[f] = o
        PROVE  (Uses(o)' /\ fd'[o] = f) \/ o \in lost'
    <2>1. f # fd[c] /\ file[f] = o
      BY <1>2, <1>8, ReactorAssumption DEF Owner
    <2>2. (Uses(o) /\ fd[o] = f) \/ o \in lost
      BY <2>1 DEF FilesOwned
    <2> QED
      BY <2>1, <2>2
  <1> QED
    BY <1>7, <1>8 DEF FilesOwned

\* The wait ends without an event.
LEMMA TimeoutReturnsStep ==
    ASSUME ReactorInv, TimeoutReturns
    PROVE  ReactorInv'
  <1> USE DEF ReactorInv
  <1>c. PICK c \in Conn : c = current
    BY DEF TimeoutReturns, CurrentPhase
  <1>1. /\ control = "handler" /\ c \in Conn /\ phase[c] = "timedout"
        /\ control' = "loop" /\ current' = Nobody /\ event' = "none"
        /\ c \in Owner
    BY <1>c DEF TimeoutReturns, Returns, Owner
  <1>2. /\ UNCHANGED <<state, service, answered, lost>>
        /\ phase' = [phase EXCEPT ![c] = "gone"]
        /\ file' = Closed(fd[c])
        /\ fd' = [fd EXCEPT ![c] = NoFd] /\ reopened' = reopened \ {c}
    BY <1>c DEF TimeoutReturns, Forgets
  <1>3. EventsBecome(added) /\ added' = added
    BY DEF TimeoutReturns, EventsBecome
  <1>4. \A b \in Conn : phase'[b] = IF b = c THEN "gone" ELSE phase[b]
    BY <1>2 DEF TypeOK
  <1>5. \A o \in Owner : o # c => fd'[o] = fd[o] /\ Uses(o)' = Uses(o)
    <2>1. \A o \in Owner : o # c => fd'[o] = fd[o]
      BY <1>2 DEF TypeOK
    <2>2. \A b \in Conn : b # c => Live(b)' = Live(b)
      BY <1>4 DEF Live
    <2> QED
      BY <1>2, <2>1, <2>2 DEF Uses, Owner
  <1>6. Uses(c) /\ ~ Uses(c)'
    BY <1>1, <1>4, ReactorAssumption DEF Uses, Live
  <1>types. TypeOK'
    <2>1. phase' \in [Conn -> {"unborn", "waiting", "connecting", "timedout",
                               "open", "closing", "gone"}]
      BY <1>2 DEF TypeOK
    <2>2. fd' \in [Owner -> Fd \cup {NoFd}] /\ reopened' \subseteq Owner
      BY <1>2 DEF TypeOK
    <2>3. file' \in [Fd -> Owner \cup {Free}]
      BY <1>2, ClosedTable
    <2>4. watched' \in [Fd -> SUBSET ReadWrite]
      BY <1>3, EventsTyped DEF TypeOK
    <2>5. \A b \in Conn : phase'[b] = "open" /\ service'[b] \in Acceptor
                             => fd'[b] \in 0..FdSetSize
      BY <1>2, <1>4, <1>5 DEF TypeOK, Owner
    <2> QED
      BY <1>1, <1>2, <1>3, <2>1, <2>2, <2>3, <2>4, <2>5 DEF TypeOK
  <1>own. OwnFiles' /\ FilesOwned'
    <2>1. c \in Conn
      BY <1>1
    <2> QED
      BY <1>2, <1>5, <1>6, <2>1, OthersKeepFiles
  <1>lost. LostEnded' /\ Services'
    BY <1>2, <1>4 DEF LostEnded, Services, TypeOK
  <1>cur. CurrentPhase' /\ OneEnds'
    BY <1>1, <1>4, <1>c DEF CurrentPhase, OneEnds
  <1>held. EventsHeld'
    BY <1>1, <1>2, <1>3, <1>4 DEF EventsHeld, TypeOK, Owner
  <1>kept. EventsKept'
    BY <1>1, <1>2, <1>3, <1>4, <1>c DEF EventsKept
  <1>reused. Reused'
    BY <1>1, <1>4, <1>c DEF Reused, OneEnds
  <1>watched. Watched'
    BY <1>1, <1>2, <1>3, <1>5, <1>6, <1>own, WatchedStep
  <1> QED
    BY <1>types, <1>own, <1>lost, <1>cur, <1>held, <1>kept, <1>reused,
       <1>watched

\* The session of the callback goes on, and watches what it asks for.
LEMMA GoesOnStep ==
    ASSUME ReactorInv, GoesOn
    PROVE  ReactorInv'
  <1> USE DEF ReactorInv
  <1>1. /\ control = "handler" /\ current \in Conn /\ phase[current] = "open"
        /\ control' = "loop" /\ current' = Nobody /\ event' = "none"
        /\ current \in Owner /\ current \notin Acceptor
    BY ReactorAssumption DEF GoesOn, Returns, CurrentPhase, Owner
  <1>2. UNCHANGED <<state, phase, service, fd, answered, file, lost, reopened>>
    BY DEF GoesOn, history
  <1>3. PICK events \in GoesOnWith : EventsBecome(events)
    BY DEF GoesOn
  <1>4. event \in {"none", "r", "w"}
    BY DEF TypeOK, ReadWrite
  <1>5. /\ \A e \in events : e \in added \/ e \in EventsOf(current)
        /\ \A e \in added : e \in events \/ e = <<current, "w">>
        /\ \E d \in ReadWrite : <<current, d>> \in events
    <2>1. CASE event = "none"
      <3>1. GoesOnWith = {added \cup e : e \in StartsWith}
        BY <2>1 DEF GoesOnWith
      <3>2. PICK d \in ReadWrite : events = added \cup {<<current, d>>}
        BY <3>1, <1>3 DEF StartsWith
      <3> QED
        BY <3>2 DEF EventsOf
    <2>2. CASE event = "r"
      <3>1. events \in {added, added \cup {<<current, "w">>}}
        BY <1>3, <2>2 DEF GoesOnWith
      <3>2. <<current, "r">> \in added
        BY <1>1, <2>2 DEF EventsKept, ReadWrite
      <3> QED
        BY <3>1, <3>2 DEF EventsOf, ReadWrite
    <2>3. CASE event = "w"
      <3>1. events \in {added, (added \ {<<current, "w">>})
                                  \cup {<<current, "r">>}}
        BY <1>3, <2>3 DEF GoesOnWith
      <3>2. CASE events = added
        <4>1. <<current, "w">> \in added
          BY <1>1, <2>3 DEF EventsKept, ReadWrite
        <4> QED
          BY <3>2, <4>1 DEF ReadWrite
      <3>3. CASE events = (added \ {<<current, "w">>}) \cup {<<current, "r">>}
        BY <3>3 DEF EventsOf, ReadWrite
      <3> QED
        BY <3>1, <3>2, <3>3
    <2> QED
      BY <1>4, <2>1, <2>2, <2>3
  <1>6. added' = events
    BY <1>3 DEF EventsBecome
  <1>7. \A o \in Owner : Uses(o)' = Uses(o)
    BY <1>2 DEF Uses, Live
  <1>types. TypeOK'
    <2>1. events \subseteq Owner \X ReadWrite
      BY <1>1, <1>5 DEF TypeOK, EventsOf
    <2>2. /\ added' \subseteq Owner \X ReadWrite
          /\ watched' \in [Fd -> SUBSET ReadWrite]
      BY <1>3, <2>1, EventsTyped
    <2> QED
      BY <1>1, <1>2, <2>2 DEF TypeOK
  <1>own. OwnFiles' /\ FilesOwned'
    BY <1>2, <1>7, SameObjects
  <1>lost. LostEnded' /\ Services'
    BY <1>2 DEF LostEnded, Services
  <1>cur. CurrentPhase' /\ OneEnds'
    BY <1>1, <1>2 DEF CurrentPhase, OneEnds
  <1>held. EventsHeld'
    BY <1>1, <1>2, <1>5, <1>6 DEF EventsHeld, EventsOf
  <1>kept. EventsKept'
    <2>1. \A x, d : x # current /\ <<x, d>> \in added => <<x, d>> \in events
      BY <1>5
    <2> QED
      BY <1>1, <1>2, <1>5, <1>6, <2>1 DEF EventsKept
  <1>reused. Reused'
    BY <1>2, <1>7 DEF Reused
  <1>watched. Watched'
    <2>1. \A o \in Owner, d \in ReadWrite :
             <<o, d>> \in events /\ Uses(o)' /\ o \notin reopened' =>
                Uses(o) /\ o \notin reopened /\ fd'[o] = fd[o]
      BY <1>2, <1>7
    <2> QED
      BY <1>1, <1>3, <1>own, <2>1, WatchedStep
  <1> QED
    BY <1>types, <1>own, <1>lost, <1>cur, <1>held, <1>kept, <1>reused,
       <1>watched

\* The session of the callback ends in it.
LEMMA EndsStep ==
    ASSUME ReactorInv, Ends
    PROVE  ReactorInv'
  <1> USE DEF ReactorInv
  <1>c. PICK c \in Conn : c = current
    BY DEF Ends, CurrentPhase
  <1>1. /\ control = "handler" /\ c \in Conn /\ phase[c] = "open"
        /\ control' \in {"cleanup", "undefined"}
        /\ c \in Owner /\ c \notin Acceptor
    BY <1>c, ReactorAssumption DEF Ends, Owner
  <1>2. /\ UNCHANGED <<current, event, state, service, fd, answered, lost,
                       reopened>>
        /\ phase' = [phase EXCEPT ![c] = "closing"]
        /\ file' = Closed(fd[c])
    BY <1>c DEF Ends, ClosedNow, history
  <1>3. PICK events : /\ EventsBecome(events) /\ events \subseteq added
                      /\ \A e \in added : e \in events \/ e[1] = c
    BY <1>c DEF Ends
  <1>4. added' = events
    BY <1>3 DEF EventsBecome
  <1>5. \A b \in Conn : phase'[b] = IF b = c THEN "closing" ELSE phase[b]
    BY <1>2 DEF TypeOK
  <1>6. \A o \in Owner : o # c => fd'[o] = fd[o] /\ Uses(o)' = Uses(o)
    <2>1. \A b \in Conn : b # c => Live(b)' = Live(b)
      BY <1>5 DEF Live
    <2> QED
      BY <1>2, <2>1 DEF Uses, Owner
  <1>7. Uses(c) /\ ~ Uses(c)'
    BY <1>1, <1>5 DEF Uses, Live
  <1>types. TypeOK'
    <2>1. phase' \in [Conn -> {"unborn", "waiting", "connecting", "timedout",
                               "open", "closing", "gone"}]
      BY <1>2 DEF TypeOK
    <2>2. file' \in [Fd -> Owner \cup {Free}]
      BY <1>2, ClosedTable
    <2>3. events \subseteq Owner \X ReadWrite
      BY <1>3 DEF TypeOK
    <2>4. /\ added' \subseteq Owner \X ReadWrite
          /\ watched' \in [Fd -> SUBSET ReadWrite]
      BY <1>3, <2>3, EventsTyped
    <2>5. \A b \in Conn : phase'[b] = "open" => phase[b] = "open"
      BY <1>5
    <2> QED
      BY <1>1, <1>2, <2>1, <2>2, <2>4, <2>5 DEF TypeOK
  <1>own. OwnFiles' /\ FilesOwned'
    <2>1. c \in Conn
      BY <1>1
    <2> QED
      BY <1>2, <1>6, <1>7, <2>1, OthersKeepFiles
  <1>lost. LostEnded' /\ Services'
    BY <1>1, <1>2, <1>5 DEF LostEnded, Services, TypeOK
  <1>cur. CurrentPhase' /\ OneEnds'
    BY <1>1, <1>2, <1>5, <1>c DEF CurrentPhase, OneEnds
  <1>held. EventsHeld'
    BY <1>1, <1>2, <1>3, <1>4, <1>5 DEF EventsHeld, TypeOK, Owner
  <1>kept. EventsKept'
    <2>1. \A x, d : x # c /\ <<x, d>> \in added => <<x, d>> \in added'
      BY <1>3, <1>4
    <2> QED
      BY <1>1, <1>2, <1>5, <1>c, <2>1 DEF EventsKept
  <1>reused. Reused'
    <2>1. ASSUME NEW b \in Conn, NEW o \in Owner, phase'[b] = "closing",
                 o # b, Uses(o)', fd'[o] = fd'[b]
          PROVE  FALSE
      <3>1. b = c
        BY <1>1, <1>5, <1>c, <2>1 DEF OneEnds
      <3>2. Uses(o) /\ fd[o] = fd[c]
        BY <1>2, <1>6, <2>1, <3>1
      <3> QED
        BY <1>1, <1>7, <2>1, <3>1, <3>2 DEF OwnFiles
    <2> QED
      BY <2>1 DEF Reused
  <1>watched. Watched'
    BY <1>1, <1>2, <1>3, <1>6, <1>7, <1>own, WatchedStep
  <1> QED
    BY <1>types, <1>own, <1>lost, <1>cur, <1>held, <1>kept, <1>reused,
       <1>watched

\* The stream that a session writes ends.
LEMMA StreamEndsStep ==
    ASSUME ReactorInv, NEW c \in Conn, StreamEnds(c)
    PROVE  ReactorInv'
  <1> USE DEF ReactorInv
  <1>1. /\ control = "loop" /\ phase[c] = "open"
        /\ control' \in {"cleanup", "undefined"}
        /\ current' = c /\ event' = "r"
        /\ c \in Owner /\ c \notin Acceptor
    BY ReactorAssumption DEF StreamEnds, Runs, Owner
  <1>2. /\ UNCHANGED <<state, service, fd, answered, file, watched, added,
                       reopened>>
        /\ phase' = [phase EXCEPT ![c] = "closing"] /\ lost' = lost \cup {c}
    BY DEF StreamEnds, kernel
  <1>3. \A b \in Conn : phase'[b] = IF b = c THEN "closing" ELSE phase[b]
    BY <1>2 DEF TypeOK
  <1>4. \A o \in Owner : o # c => Uses(o)' = Uses(o)
    <2>1. \A b \in Conn : b # c => Live(b)' = Live(b)
      BY <1>3 DEF Live
    <2> QED
      BY <1>2, <2>1 DEF Uses, Owner
  <1>5. Uses(c) /\ ~ Uses(c)'
    BY <1>1, <1>3 DEF Uses, Live
  <1>types. TypeOK'
    <2>1. phase' \in [Conn -> {"unborn", "waiting", "connecting", "timedout",
                               "open", "closing", "gone"}]
      BY <1>2 DEF TypeOK
    <2>2. \A b \in Conn : phase'[b] = "open" => phase[b] = "open"
      BY <1>3
    <2> QED
      BY <1>1, <1>2, <2>1, <2>2 DEF TypeOK, ReadWrite
  <1>own. OwnFiles' /\ FilesOwned'
    <2>1. OwnFiles'
      BY <1>2, <1>4, <1>5 DEF OwnFiles
    <2>2. FilesOwned'
      BY <1>2, <1>4 DEF FilesOwned
    <2> QED
      BY <2>1, <2>2
  <1>lost. LostEnded' /\ Services'
    BY <1>2, <1>3 DEF LostEnded, Services, TypeOK
  <1>cur. CurrentPhase' /\ OneEnds'
    BY <1>1, <1>3, NobodyEnds DEF CurrentPhase, OneEnds
  <1>held. EventsHeld'
    BY <1>1, <1>2, <1>3 DEF EventsHeld, TypeOK, Owner
  <1>kept. EventsKept'
    BY <1>1, <1>2, <1>3, NobodyEnds DEF EventsKept
  <1>reused. Reused'
    <2>1. ASSUME NEW b \in Conn, NEW o \in Owner, phase'[b] = "closing",
                 o # b, Uses(o)', fd'[o] = fd'[b]
          PROVE  FALSE
      <3>1. b = c
        BY <1>1, <1>3, <2>1, NobodyEnds
      <3>2. Uses(o) /\ fd[o] = fd[c]
        BY <1>2, <1>4, <2>1, <3>1
      <3> QED
        BY <1>1, <1>5, <2>1, <3>1, <3>2 DEF OwnFiles
    <2> QED
      BY <2>1 DEF Reused
  <1>watched. Watched'
    BY <1>2, <1>4, <1>5 DEF Watched
  <1> QED
    BY <1>types, <1>own, <1>lost, <1>cur, <1>held, <1>kept, <1>reused,
       <1>watched

\* The session that has ended is deleted.
LEMMA DeletedStep ==
    ASSUME ReactorInv, Deleted
    PROVE  ReactorInv'
  <1> USE DEF ReactorInv
  <1>c. PICK c \in Conn : c = current
    BY DEF Deleted, CurrentPhase
  <1>1. /\ control = "cleanup" /\ c \in Conn /\ phase[c] = "closing"
        /\ control' = "loop" /\ current' = Nobody /\ event' = "none"
        /\ c \in Owner /\ c \notin Acceptor
    BY <1>c, ReactorAssumption
       DEF Deleted, Returns, CurrentPhase, Owner
  <1>2. /\ UNCHANGED <<state, service, answered, file, lost>>
        /\ phase' = [phase EXCEPT ![c] = "gone"]
        /\ fd' = [fd EXCEPT ![c] = NoFd] /\ reopened' = reopened \ {c}
    BY <1>c DEF Deleted, FilesAfterDelete, Forgets
  <1>3. EventsBecome(added \ EventsOf(c)) /\ added' = added \ EventsOf(c)
    BY <1>c DEF Deleted, EventsFreed, EventsBecome
  <1>4. \A b \in Conn : phase'[b] = IF b = c THEN "gone" ELSE phase[b]
    BY <1>2 DEF TypeOK
  <1>5. \A o \in Owner : o # c => fd'[o] = fd[o] /\ Uses(o)' = Uses(o)
    <2>1. \A o \in Owner : o # c => fd'[o] = fd[o]
      BY <1>2 DEF TypeOK
    <2>2. \A b \in Conn : b # c => Live(b)' = Live(b)
      BY <1>4 DEF Live
    <2> QED
      BY <1>2, <2>1, <2>2 DEF Uses, Owner
  <1>6. ~ Uses(c) /\ ~ Uses(c)'
    BY <1>1, <1>4 DEF Uses, Live
  <1>types. TypeOK'
    <2>1. phase' \in [Conn -> {"unborn", "waiting", "connecting", "timedout",
                               "open", "closing", "gone"}]
      BY <1>2 DEF TypeOK
    <2>2. fd' \in [Owner -> Fd \cup {NoFd}] /\ reopened' \subseteq Owner
      BY <1>2 DEF TypeOK
    <2>3. added \ EventsOf(c) \subseteq Owner \X ReadWrite
      BY DEF TypeOK
    <2>4. /\ added' \subseteq Owner \X ReadWrite
          /\ watched' \in [Fd -> SUBSET ReadWrite]
      BY <1>3, <2>3, EventsTyped
    <2>5. \A b \in Conn : phase'[b] = "open" /\ service'[b] \in Acceptor
                             => fd'[b] \in 0..FdSetSize
      BY <1>2, <1>4, <1>5 DEF TypeOK, Owner
    <2> QED
      BY <1>1, <1>2, <2>1, <2>2, <2>4, <2>5 DEF TypeOK
  <1>own. OwnFiles'
    <2>1. \A o \in Owner : Uses(o)' => fd'[o] \in Fd /\ file'[fd'[o]] = o
      BY <1>2, <1>5, <1>6 DEF OwnFiles
    <2>2. \A a \in Acceptor : fd'[a] = fd[a]
      BY <1>1, <1>5 DEF Owner
    <2> QED
      BY <1>2, <2>1, <2>2 DEF OwnFiles
  <1>owned. FilesOwned'
    BY <1>2, <1>5, <1>6 DEF FilesOwned
  <1>lost. LostEnded' /\ Services'
    BY <1>2, <1>4 DEF LostEnded, Services, TypeOK
  <1>cur. CurrentPhase' /\ OneEnds'
    BY <1>1, <1>4, <1>c DEF CurrentPhase, OneEnds
  <1>held. EventsHeld'
    <2>1. \A e \in added' : e[1] \in Owner /\ e[1] # c /\ e \in added
      BY <1>3 DEF EventsOf, TypeOK, Owner
    <2> QED
      BY <1>2, <1>4, <2>1 DEF EventsHeld, Owner
  <1>kept. EventsKept'
    <2>1. \A x, d : x # c /\ <<x, d>> \in added => <<x, d>> \in added'
      BY <1>3 DEF EventsOf
    <2>2. \A a \in Acceptor : state'[a] = "listening" => <<a, "r">> \in added'
      BY <1>1, <1>2, <2>1 DEF EventsKept
    <2>3. ASSUME NEW b \in Conn
          PROVE  /\ phase'[b] = "connecting" => <<b, "r">> \in added'
                 /\ phase'[b] = "open" =>
                       \E d \in ReadWrite : <<b, d>> \in added'
      BY <1>4, <1>c, <2>1 DEF EventsKept
    <2> QED
      BY <1>1, <2>2, <2>3 DEF EventsKept
  <1>reused. Reused'
    BY <1>1, <1>4, <1>c DEF Reused, OneEnds
  <1>watched. Watched'
    BY <1>1, <1>2, <1>3, <1>5, <1>6, <1>own, WatchedStep
  <1> QED
    BY <1>types, <1>own, <1>owned, <1>lost, <1>cur, <1>held, <1>kept,
       <1>reused, <1>watched

-----------------------------------------------------------------------------
\* Every step keeps the invariant.
LEMMA ReactorStep ==
    ASSUME ReactorInv, [Next]_vars
    PROVE  ReactorInv'
  <1>1. CASE UNCHANGED vars
    <2>1. UNCHANGED <<control, current, event, state, phase, service, fd,
                      answered, file, watched, added, lost, reopened>>
      BY <1>1 DEF vars, running, objects, kernel, history
    <2> QED
      BY <2>1, SameStateKeepsInv
  <1>2. CASE Application
    BY <1>2, ListenStep, DeleteAcceptorStep, ConnectStep, DeleteConnectorStep
       DEF Application
  <1>3. CASE Dispatch \/ DispatchReturns
    BY <1>3, DispatchStep
  <1>4. CASE Return
    BY <1>4, TimeoutReturnsStep, GoesOnStep, EndsStep, DeletedStep DEF Return
  <1>5. CASE Network
    BY <1>5, AnswerStep, DialStep DEF Network
  <1>6. ASSUME NEW c \in Conn, Connected(c) \/ TimedOut(c)
        PROVE  ReactorInv'
    BY <1>6, DecidedStep
  <1>7. ASSUME NEW c \in Conn, StreamEnds(c)
        PROVE  ReactorInv'
    BY <1>7, StreamEndsStep
  <1>8. ASSUME NEW c \in Conn, NEW a \in Acceptor, Accept(a, c)
        PROVE  ReactorInv'
    BY <1>8, TurnedAwayStep, AcceptStep
  <1>9. ASSUME NEW c \in Conn, NEW d \in ReadWrite, Callback(c, d)
        PROVE  ReactorInv'
    BY <1>9, CallbackStep
  <1> QED
    BY <1>1, <1>2, <1>3, <1>4, <1>5, <1>6, <1>7, <1>8, <1>9 DEF Next

\* The inductive invariant holds in every reachable state.
LEMMA ReactorCorrect == Spec => []ReactorInv
  <1>1. Init => ReactorInv
    BY ReactorInit
  <1>2. ReactorInv /\ [Next]_vars => ReactorInv'
    BY ReactorStep
  <1> QED
    BY <1>1, <1>2, PTL DEF Spec

-----------------------------------------------------------------------------
(***************************************************************************)
(* What follows for the properties of module Reactor.                       *)
(***************************************************************************)
\* The types of the variables; the descriptor of an accepted session is one the
\* event loop can watch.
THEOREM ReactorTypesCorrect == Spec => []TypeOK
  <1>1. ReactorInv => TypeOK
    BY DEF ReactorInv
  <1> QED
    BY <1>1, ReactorCorrect, PTL

\* Whatever handlers open and close in the middle of a callback, a connection
\* that is alive and an acceptor that listens have their own socket behind the
\* number they store.
THEOREM OwnDescriptorAlways == Spec => []OwnDescriptor
  <1>1. ASSUME ReactorInv
        PROVE  OwnDescriptor
    <2>1. \A c \in Conn : Live(c) => Uses(c) /\ c \in Owner
      BY ReactorAssumption DEF Uses, Owner
    <2>2. \A a \in Acceptor : state[a] = "listening" => Uses(a) /\ a \in Owner
      BY <1>1 DEF ReactorInv, OwnFiles, Uses, Owner
    <2> QED
      BY <1>1, <2>1, <2>2 DEF ReactorInv, OwnFiles, OwnDescriptor
  <1> QED
    BY <1>1, ReactorCorrect, PTL

\* No other way out of a connection or an acceptor leaves a descriptor open.
THEOREM NoOtherLeak == Spec => []OnlyKnownLeaks
  <1>1. ASSUME ReactorInv
        PROVE  OnlyKnownLeaks
    <2> SUFFICES ASSUME NEW f \in Fd, file[f] # Free
                 PROVE  IF file[f] \in Conn
                        THEN phase[file[f]] = "gone" => file[f] \in lost
                        ELSE state[file[f]] # "deleted"
      BY DEF OnlyKnownLeaks
    <2>1. PICK o \in Owner : file[f] = o
      BY <1>1 DEF ReactorInv, TypeOK
    <2>2. Uses(o) \/ o \in lost
      BY <1>1, <2>1 DEF ReactorInv, FilesOwned
    <2>3. CASE o \in Conn
      <3>1. phase[o] = "gone" => ~ Uses(o)
        BY <2>3, ReactorAssumption DEF Uses, Live
      <3> QED
        BY <2>1, <2>2, <2>3, <3>1
    <2>4. CASE o \notin Conn
      <3>1. o \in Acceptor /\ o \notin lost
        BY <1>1, <2>4 DEF Owner, ReactorInv, TypeOK
      <3>2. state[o] # "deleted"
        BY <2>2, <3>1 DEF Uses
      <3> QED
        BY <2>1, <2>4, <3>2
    <2> QED
      BY <2>3, <2>4
  <1> QED
    BY <1>1, ReactorCorrect, PTL

\* While the loop waits, libevent's events are those of existing objects, and a
\* callback that finds its service deleted still has its connection.
THEOREM CallbackArgumentsAlwaysExist == Spec => []CallbackArgumentsExist
  <1>1. ASSUME ReactorInv
        PROVE  CallbackArgumentsExist
    <2>1. ASSUME control = "loop", NEW e \in added
          PROVE  IF e[1] \in Acceptor
                 THEN state[e[1]] = "listening"
                 ELSE phase[e[1]] \in {"connecting", "open"}
      <3>1. e[1] \in Owner
        BY <1>1 DEF ReactorInv, TypeOK
      <3> QED
        BY <1>1, <2>1, <3>1, NobodyEnds DEF ReactorInv, EventsHeld, Owner
    <2>2. control = "undefined" => phase[current] # "gone"
      BY <1>1 DEF ReactorInv, CurrentPhase
    <2> QED
      BY <2>1, <2>2 DEF CallbackArgumentsExist
  <1> QED
    BY <1>1, ReactorCorrect, PTL

\* What the loop waits for the kernel watches, but for a descriptor that took
\* over the number of a session within its sessionClosed.
THEOREM EventsAlwaysWatched == Spec => []EventsWatched
  <1>1. ASSUME ReactorInv
        PROVE  EventsWatched
    <2> SUFFICES ASSUME control = "loop", NEW e \in added, e[1] \notin reopened
                 PROVE  fd[e[1]] \in Fd /\ e[2] \in watched[fd[e[1]]]
      BY DEF EventsWatched
    <2>1. e[1] \in Owner /\ e[2] \in ReadWrite /\ <<e[1], e[2]>> \in added
      BY <1>1 DEF ReactorInv, TypeOK
    <2>2. IF e[1] \in Acceptor THEN state[e[1]] = "listening"
                               ELSE phase[e[1]] \in {"connecting", "open"}
      BY <1>1, <2>1, NobodyEnds DEF ReactorInv, EventsHeld, Owner
    <2>3. Uses(e[1])
      BY <1>1, <2>2 DEF Uses, Live, ReactorInv, OwnFiles
    <2> QED
      BY <1>1, <2>1, <2>3 DEF ReactorInv, OwnFiles, Watched
  <1> QED
    BY <1>1, ReactorCorrect, PTL

\* dispatch() does not return while a connection is open, waits or is being
\* made, nor while an acceptor listens.
THEOREM DispatchReturnsLastAlways == Spec => []DispatchReturnsLast
  <1>1. ASSUME ReactorInv
        PROVE  DispatchReturnsLast
    <2> SUFFICES ASSUME control = "done"
                 PROVE  /\ \A c \in Conn : phase[c] \in {"unborn", "gone"}
                        /\ \A a \in Acceptor : state[a] # "listening"
      BY DEF DispatchReturnsLast
    <2>1. added = {}
      BY <1>1 DEF ReactorInv, CurrentPhase
    <2>2. \A a \in Acceptor : state[a] # "listening"
      BY <1>1, <2>1 DEF ReactorInv, EventsKept
    <2>3. \A c \in Conn : phase[c] # "waiting"
      BY <1>1, <2>2 DEF ReactorInv, Services
    <2>4. \A c \in Conn : phase[c] \notin {"connecting", "open"}
      BY <1>1, <2>1, NobodyEnds DEF ReactorInv, EventsKept
    <2>5. \A c \in Conn : phase[c] \notin {"closing", "timedout"}
      BY <1>1, NobodyEnds
    <2> QED
      BY <1>1, <2>2, <2>3, <2>4, <2>5 DEF ReactorInv, TypeOK
  <1> QED
    BY <1>1, ReactorCorrect, PTL

=============================================================================
