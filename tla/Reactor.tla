------------------------------ MODULE Reactor ------------------------------
(***************************************************************************)
(* A process that uses the library: its event loop, its acceptors and       *)
(* connectors, all its connections, and the descriptor table they share.    *)
(*                                                                          *)
(* The bytes are left to module Session.  What is modelled here is who owns *)
(* which descriptor and which events libevent holds, in the steps in which   *)
(* the application's code may run in the middle of a callback: a handler     *)
(* method, and the sessionClosed that comes after close(fd) and before the  *)
(* session is deleted.  In both the application may listen, connect, and    *)
(* delete acceptors and connectors.                                         *)
(***************************************************************************)
EXTENDS Naturals

CONSTANTS Acceptor,     \* the acceptors and the connections there ever are,
          Conn,         \* numbered in the order in which they come about
          Connector,
          MaxFd,        \* the highest descriptor the process can have
          FdSetSize,    \* FD_SETSIZE
          Nobody, Free

ASSUME ReactorAssumption ==
    /\ MaxFd \in Nat /\ FdSetSize \in Nat
    /\ Acceptor \subseteq Nat /\ Conn \subseteq Nat /\ Acceptor \cap Conn = {}
    /\ Acceptor \cap Connector = {}
    /\ Nobody \notin Acceptor \cup Connector \cup Conn
    /\ Free \notin Acceptor \cup Conn

Service == Acceptor \cup Connector
Owner == Acceptor \cup Conn
Fd == 0..MaxFd
NoFd == MaxFd + 1               \* -1
ReadWrite == {"r", "w"}         \* EV_READ, EV_WRITE

VARIABLES
    control,    \* "main", "loop", "handler", "cleanup", "done", "undefined"
    current,    \* the connection whose callback runs
    event,      \* the event it runs for; "none": doAccept or doConnect
    state,      \* of a service: "absent", "listening", "failed", "alive",
                \* "deleted"
    phase,      \* of a connection: "unborn", "waiting", "connecting",
                \* "timedout", "open", "closing", "gone"
    service,    \* the service of a connection, _service
    fd,         \* the descriptor of an acceptor or a connection
    answered,   \* connections whose connect() is decided, well or not
    file,       \* the kernel: who opened what is open behind a descriptor
    watched,    \* the kernel: the conditions epoll watches
    added,      \* libevent: the events that are added
    \* History.
    lost,       \* connections whose descriptor nobody closes any more
    reopened    \* owners that got, within sessionClosed, the number of the
                \* session that is closing

running == <<control, current, event>>
objects == <<state, phase, service, fd, answered>>
kernel  == <<file, watched, added>>
history == <<lost, reopened>>
vars    == <<running, objects, kernel, history>>

-----------------------------------------------------------------------------
(***************************************************************************)
(* The kernel and libevent.                                                 *)
(***************************************************************************)
FreeFds == {f \in Fd : file[f] = Free}
Lowest == CHOOSE f \in FreeFds : \A g \in FreeFds : f <= g

\* o gets the lowest free descriptor.
Opens(o) ==
    /\ FreeFds # {}
    /\ file' = [file EXCEPT ![Lowest] = o]
    /\ fd' = [fd EXCEPT ![o] = Lowest]
    /\ reopened' = IF control = "cleanup" /\ fd[current] = Lowest
                   THEN reopened \cup {o} ELSE reopened

\* close(fd) closes whatever has that number.
Closed(n) == [f \in Fd |-> IF f = n THEN Free ELSE file[f]]

Asked(events, at, f) ==
    {d \in ReadWrite : \E o \in Owner : <<o, d>> \in events /\ at[o] = f}

\* event_add and event_del: libevent counts the events of a descriptor number
\* and tells epoll only when a condition is asked for first or no longer; and
\* epoll itself forgets a descriptor that is closed.
EventsBecome(events) ==
    /\ added' = events
    /\ watched' = [f \in Fd |->
          IF file'[f] = Free THEN {}
          ELSE IF Asked(events, fd', f) = Asked(added, fd, f) THEN watched[f]
          ELSE Asked(events, fd', f)]

\* The object that had descriptor fd[o] exists no longer.
Forgets(o) ==
    /\ fd' = [fd EXCEPT ![o] = NoFd]
    /\ reopened' = reopened \ {o}

EventsOf(o) == {o} \X ReadWrite
Ready(o, d) == <<o, d>> \in added /\ d \in watched[fd[o]]

\* The next one of those that do not exist yet.
IsNext(o, unborn) == o \in unborn /\ \A p \in unborn : o <= p
Unborn == {c \in Conn : phase[c] = "unborn"}
Absent == {a \in Acceptor : state[a] = "absent"}

-----------------------------------------------------------------------------
(***************************************************************************)
(* The application: what main and the handlers may call.                    *)
(***************************************************************************)
ApplicationRuns == control \in {"main", "handler", "cleanup"}

Live(c) == phase[c] \in {"connecting", "open", "timedout"}

\* new Acceptor and listen().
ListenFails(a) ==
    /\ state' = [state EXCEPT ![a] = "failed"]
    /\ UNCHANGED <<added, watched>>
ListenSucceeds(a) ==
    /\ state' = [state EXCEPT ![a] = "listening"]
    /\ EventsBecome(added \cup {<<a, "r">>})

Listen(a) ==
    /\ ApplicationRuns /\ IsNext(a, Absent)
    /\ \/ Opens(a) /\ (ListenFails(a) \/ ListenSucceeds(a))
       \/ FreeFds = {} /\ ListenFails(a) /\ UNCHANGED <<file, fd, reopened>>
    /\ UNCHANGED <<running, phase, service, answered, lost>>

\* ~Acceptor; the connections that wait to be accepted are refused.
EventKept(a) == added
EventDeleted(a) == added \ EventsOf(a)

DeleteAcceptor(a) ==
    /\ ApplicationRuns /\ state[a] \in {"listening", "failed"}
    /\ state' = [state EXCEPT ![a] = "deleted"]
    /\ phase' = [c \in Conn |-> IF phase[c] = "waiting" /\ service[c] = a
                                THEN "gone" ELSE phase[c]]
    /\ file' = Closed(fd[a])
    /\ Forgets(a)
    /\ EventsBecome(EventDeleted(a))
    /\ UNCHANGED <<running, service, answered, lost>>

\* connect(): decided later, or failing at once with its descriptor left open.
Attempt(c) ==
    /\ phase' = [phase EXCEPT ![c] = "connecting"]
    /\ EventsBecome(added \cup EventsOf(c))
    /\ UNCHANGED lost
FailsAtOnce(c) ==
    /\ phase' = [phase EXCEPT ![c] = "gone"]
    /\ lost' = lost \cup {c}
    /\ UNCHANGED <<added, watched>>

NoDescriptor ==
    /\ FreeFds = {}
    /\ UNCHANGED <<phase, service, fd, kernel, lost, reopened>>

Connect(k, c) ==
    /\ ApplicationRuns /\ state[k] = "alive" /\ IsNext(c, Unborn)
    /\ \/ /\ Opens(c)
          /\ service' = [service EXCEPT ![c] = k]
          /\ Attempt(c) \/ FailsAtOnce(c)
       \/ NoDescriptor
    /\ UNCHANGED <<running, state, answered>>

\* ~Connector
DeleteConnector(k) ==
    /\ ApplicationRuns /\ state[k] = "alive"
    /\ state' = [state EXCEPT ![k] = "deleted"]
    /\ UNCHANGED <<running, phase, service, fd, answered, kernel,
                   lost, reopened>>

Application ==
    \/ \E a \in Acceptor : Listen(a) \/ DeleteAcceptor(a)
    \/ \E k \in Connector : DeleteConnector(k) \/ \E c \in Conn : Connect(k, c)

-----------------------------------------------------------------------------
(***************************************************************************)
(* The event loop.                                                          *)
(***************************************************************************)
Dispatch ==
    /\ control = "main"
    /\ control' = "loop"
    /\ UNCHANGED <<current, event, objects, kernel, history>>

DispatchReturns ==
    /\ control = "loop" /\ added = {}
    /\ control' = "done"
    /\ UNCHANGED <<current, event, objects, kernel, history>>

\* A callback runs for event d of connection c, and calls c's handler by way of
\* its service x; what has been deleted cannot be used.
Runs(c, d, x, next) ==
    /\ control = "loop"
    /\ control' = IF state[x] = "deleted" \/ phase[c] = "gone"
                  THEN "undefined" ELSE next
    /\ current' = c /\ event' = d

\* Back to the loop, when the callback returns.
Returns == control' = "loop" /\ current' = Nobody /\ event' = "none"

\* doAccept; when it gets no descriptor it does nothing.
TooHighByOne(f) == f > FdSetSize + 1
TooHigh(f) == f > FdSetSize

ListenerNotPersistent == {e \in added : e[1] \notin Acceptor}
ListenerKept == added

Accept(a, c) ==
    /\ control = "loop" /\ Ready(a, "r")
    /\ phase[c] = "waiting" /\ service[c] = a
    /\ FreeFds # {}
    /\ IF TooHigh(Lowest)
       THEN /\ phase' = [phase EXCEPT ![c] = "gone"]
            /\ UNCHANGED <<running, fd, file, reopened>>
       ELSE /\ phase' = [phase EXCEPT ![c] = "open"]
            /\ Opens(c)
            /\ Runs(c, "none", a, "handler")
    /\ EventsBecome(ListenerKept)
    /\ UNCHANGED <<state, service, answered, lost>>

\* doConnect; its event is not persistent.
Connected(c) ==
    /\ phase[c] = "connecting" /\ c \in answered
    /\ \E d \in ReadWrite : Ready(c, d)
    /\ Runs(c, "none", service[c], "handler")
    /\ phase' = [phase EXCEPT ![c] = "open"]
    /\ answered' = answered \ {c}
    /\ UNCHANGED <<fd, file>>
    /\ EventsBecome(added \ EventsOf(c))
    /\ UNCHANGED <<state, service, history>>

\* doConnect for EV_TIMEOUT alone: errorCaught, then close(fd) without
\* sessionClosed.  The answer may come before the callback runs.
NoTimeout == FALSE
Timeout == TRUE

TimedOut(c) ==
    /\ Timeout
    /\ phase[c] = "connecting"
    /\ Runs(c, "none", service[c], "handler")
    /\ phase' = [phase EXCEPT ![c] = "timedout"]
    /\ answered' = answered \ {c}
    /\ UNCHANGED <<fd, file>>
    /\ EventsBecome(added \ EventsOf(c))
    /\ UNCHANGED <<state, service, history>>

TimeoutReturns ==
    /\ control = "handler" /\ phase[current] = "timedout"
    /\ Returns
    /\ phase' = [phase EXCEPT ![current] = "gone"]
    /\ file' = Closed(fd[current])
    /\ Forgets(current)
    /\ EventsBecome(added)
    /\ UNCHANGED <<state, service, answered, lost>>

\* doRead and doWrite call a handler method.
Callback(c, d) ==
    /\ phase[c] # "connecting" /\ Ready(c, d)
    /\ Runs(c, d, service[c], "handler")
    /\ UNCHANGED <<objects, kernel, history>>

\* The handler method returns and the session goes on: the events it has then.
StartsWith == {{<<current, d>>} : d \in ReadWrite}
GoesOnWithout ==
    CASE event = "none" -> {added \cup e : e \in StartsWith}
      [] event = "r"    -> {added, added \cup {<<current, "w">>}}
      [] event = "w"    -> {added, added \ {<<current, "w">>}}
GoesOnWith ==
    CASE event = "none" -> {added \cup e : e \in StartsWith}
      [] event = "r"    -> {added, added \cup {<<current, "w">>}}
      [] event = "w"    -> {added, (added \ {<<current, "w">>})
                                      \cup {<<current, "r">>}}

GoesOn ==
    /\ control = "handler" /\ phase[current] = "open"
    /\ Returns
    /\ UNCHANGED <<fd, file>>
    /\ \E events \in GoesOnWith : EventsBecome(events)
    /\ UNCHANGED <<state, phase, service, answered, history>>

\* The session was closed, or recv() or send() failed: close(fd), and the
\* event of this callback is deleted, but not where recv() failed.  A handler
\* whose service was deleted meanwhile may still exist, or not.
NotClosed == file
ClosedNow == Closed(fd[current])

Ends ==
    /\ control = "handler" /\ phase[current] = "open"
    /\ control' \in (IF state[service[current]] = "deleted"
                     THEN {"cleanup", "undefined"} ELSE {"cleanup"})
    /\ phase' = [phase EXCEPT ![current] = "closing"]
    /\ file' = ClosedNow
    /\ UNCHANGED fd
    /\ \/ EventsBecome(added \ {<<current, event>>})
       \/ event = "r" /\ EventsBecome(added)
    /\ UNCHANGED <<current, event, state, service, answered, history>>

\* doRead with result == 0: sessionClosed without close(fd).
StreamEnds(c) ==
    /\ phase[c] = "open" /\ Ready(c, "r")
    /\ Runs(c, "r", service[c], "cleanup")
    /\ phase' = [phase EXCEPT ![c] = "closing"]
    /\ lost' = lost \cup {c}
    /\ UNCHANGED <<state, service, fd, answered, kernel, reopened>>

\* sessionClosed returns: delete session, which frees its events.
EventsNotFreed == added
EventsFreed == added \ EventsOf(current)

ClosedAgain == Closed(fd[current])
FilesAfterDelete == file

Deleted ==
    /\ control = "cleanup"
    /\ Returns
    /\ phase' = [phase EXCEPT ![current] = "gone"]
    /\ file' = FilesAfterDelete
    /\ Forgets(current)
    /\ EventsBecome(EventsFreed)
    /\ UNCHANGED <<state, service, answered, lost>>

Return == TimeoutReturns \/ GoesOn \/ Ends \/ Deleted

-----------------------------------------------------------------------------
(***************************************************************************)
(* The network.                                                             *)
(***************************************************************************)
\* A client connects to an acceptor: the connection waits in its backlog.
Dial(a, c) ==
    /\ IsNext(c, Unborn) /\ state[a] = "listening"
    /\ phase' = [phase EXCEPT ![c] = "waiting"]
    /\ service' = [service EXCEPT ![c] = a]
    /\ UNCHANGED <<running, state, fd, answered, kernel, history>>

\* A connect() is accepted or refused by the other side.
Answer(c) ==
    /\ phase[c] = "connecting"
    /\ answered' = answered \cup {c}
    /\ UNCHANGED <<running, state, phase, service, fd, kernel, history>>

Network ==
    /\ control # "undefined"
    /\ \E c \in Conn : Answer(c) \/ \E a \in Acceptor : Dial(a, c)

-----------------------------------------------------------------------------
Init ==
    /\ control = "main" /\ current = Nobody /\ event = "none"
    /\ state = [x \in Service |-> IF x \in Acceptor THEN "absent" ELSE "alive"]
    /\ phase = [c \in Conn |-> "unborn"]
    /\ service = [c \in Conn |-> Nobody]
    /\ fd = [o \in Owner |-> NoFd]
    /\ answered = {}
    /\ file = [f \in Fd |-> Free]
    /\ watched = [f \in Fd |-> {}]
    /\ added = {}
    /\ lost = {} /\ reopened = {}

Next ==
    \/ Application \/ Dispatch \/ DispatchReturns \/ Return \/ Network
    \/ \E c \in Conn :
          \/ Connected(c) \/ TimedOut(c) \/ StreamEnds(c)
          \/ \E a \in Acceptor : Accept(a, c)
          \/ \E d \in ReadWrite : Callback(c, d)

Spec == Init /\ [][Next]_vars

\* main runs to dispatch() and application code returns.  In each pass of its
\* loop libevent runs the callbacks of ready descriptors and of timers that
\* have run out.
FairSpec ==
    /\ Spec
    /\ WF_vars(Dispatch) /\ WF_vars(Return)
    /\ \A c \in Conn :
          /\ SF_vars(Connected(c) \/ TimedOut(c))
          /\ SF_vars(\E a \in Acceptor : Accept(a, c))

-----------------------------------------------------------------------------
TypeOK ==
    /\ control \in {"main", "loop", "handler", "cleanup", "done", "undefined"}
    /\ current \in Conn \cup {Nobody} /\ event \in ReadWrite \cup {"none"}
    /\ state \in [Service -> {"absent", "listening", "failed", "alive",
                              "deleted"}]
    /\ phase \in [Conn -> {"unborn", "waiting", "connecting", "timedout",
                           "open", "closing", "gone"}]
    /\ service \in [Conn -> Service \cup {Nobody}]
    /\ fd \in [Owner -> Fd \cup {NoFd}]
    /\ \A c \in Conn : phase[c] = "open" /\ service[c] \in Acceptor
                        => fd[c] \in 0..FdSetSize
    /\ answered \subseteq Conn
    /\ file \in [Fd -> Owner \cup {Free}]
    /\ watched \in [Fd -> SUBSET ReadWrite]
    /\ added \subseteq Owner \X ReadWrite
    /\ lost \subseteq Conn /\ reopened \subseteq Owner

\* Whoever still uses a descriptor has its own socket behind it, however often
\* the number is given away again and whatever handlers do in between.
OwnDescriptor ==
    /\ \A c \in Conn : Live(c) => file[fd[c]] = c
    /\ \A a \in Acceptor : state[a] = "listening" => file[fd[a]] = a

\* No way a connection or a service ends leaves its descriptor open but two:
\* result == 0 in doRead, and a connect() that fails at once.
OnlyKnownLeaks ==
    \A f \in Fd :
       file[f] # Free =>
          IF file[f] \in Conn THEN phase[file[f]] = "gone" => file[f] \in lost
                              ELSE state[file[f]] # "deleted"

\* What libevent waits for the kernel watches, so nobody waits for ever: also
\* where numbers are reused.  The exception is a descriptor that a handler opens
\* within sessionClosed and that gets the number of the session whose events are
\* not yet freed.
EventsWatched ==
    control = "loop" =>
       \A e \in added :
          \/ e[1] \in reopened
          \/ fd[e[1]] \in Fd /\ e[2] \in watched[fd[e[1]]]

\* dispatch() returns only when nothing is left that could be served.
DispatchReturnsLast ==
    control = "done" =>
       /\ \A c \in Conn : phase[c] \in {"unborn", "gone"}
       /\ \A a \in Acceptor : state[a] # "listening"

\* libevent holds no event of an object that has been deleted, so a callback
\* never gets a dangling argument; it may find its service deleted only where
\* the application deletes one that still has connections.
CallbackArgumentsExist ==
    /\ control = "loop" =>
          \A e \in added :
             IF e[1] \in Acceptor THEN state[e[1]] = "listening"
                                  ELSE phase[e[1]] \in {"connecting", "open"}
    /\ control = "undefined" => phase[current] # "gone"

\* Every connect() that did not fail at once is decided, by an answer or by the
\* timeout.
AttemptDecided ==
    \A c \in Conn :
       phase[c] = "connecting" ~> phase[c] # "connecting" \/ control = "undefined"

\* A client that waits is accepted or turned away, unless the descriptor table
\* is full or the listener is such an exception.
WaitingIsServed ==
    \A c \in Conn :
       phase[c] = "waiting" ~>
          \/ phase[c] # "waiting" \/ FreeFds = {}
          \/ service[c] \in reopened \/ control = "undefined"

=============================================================================
