# A TLA+ model of Nwg

Nwg is a small C++ network library: an event loop (libevent), acceptors and
connectors that create sessions, sessions whose bytes a codec turns into
messages, and a handler the application writes. `src/src` holds the library,
`src/examples` an echo server and client, three HTTP servers and an FTP server.

This directory models the library from two sides. Module `Session` has one
session byte by byte: the callbacks in `nwg_evcb.cc` with the `Session`,
`MessageBuffer` and codec they work on. Module `Reactor` has the process: its
event loop, acceptors, connectors and connections over one descriptor table.
Models of the example servers are built on an abstraction of `Session` that is
proved sound. TLC checks the modules on small instances; TLAPS proves their
safety properties, and what implements what, for all.

The program has one thread. What is hard is that a session's life is cut into
callbacks, that bytes, ends of stream and resets arrive between any two system
calls, and that each callback picks up what an earlier one left in the buffers
and counters of the session.

## 1. Inventory

| Component | State it keeps | Operations | What can go wrong |
|---|---|---|---|
| EVCB callbacks (`nwg_evcb.cc`) | local `result` only | `doAccept`, `doConnect`, `doRead`, `doWrite` | four exits each; every exit has to add or delete the right events, close the descriptor once and call the handler in order |
| `Session` | `_writeObject`, `_lastWriteObject`, read and write buffer, `nRead`, `nWritten`, `stillReading`, `_closed`, `readEvent`, `writeEvent`, variables | `write`, `close`, `resetWrite`, accessors, `put`/`get` of variables | state that outlives the callback that set it |
| `MessageBuffer` | bytes, position, limit | `put` (inserts), `read`, `flip`, `jump`, `rewind`, `reset`, `readUntil` | position and limit leaving the vector; old bytes becoming visible |
| `ProtocolCodec` | none (basic codec) | `transformUp`, `transformDown` | `transformDown` may run twice on one message; it must find the same bytes |
| `Handler` | the application's | `sessionOpened`, `sessionClosed`, `messageReceived`, `messageSent`, `errorCaught` | relies on the order of the calls |
| `Service`, `Acceptor`, `Connector` | buffer sizes, codec, handler, listening event; connect event, timeout | `listen`, `connect` | destroyed while sessions live; a second `connect` on the same object; connect timeouts |
| `EventLoop` | `event_base` | `dispatch` | which ready callback runs next |
| Echo server and client | the global `numClient`; the client's `msgNo` | handler methods | a counter shared by all sessions; pieces of messages taken for messages |
| HTTP servers | v2: the stream being sent; v3: a codec | handler methods | a response spread over many `messageSent` calls |
| FTP server | control session, data acceptor, data handler | the eleven commands | a handler shared by data sessions, an acceptor deleted under them |

How they interact: `EventLoop::dispatch` runs one callback at a time. `doAccept`
and `doConnect` create a `Session` and call `sessionOpened`. `doRead` fills the
read buffer, calls `transformUp` and `messageReceived`; `doWrite` calls
`transformDown`, sends, and calls `messageSent`. The handler answers only by
setting fields of the session (`write()` and `close()`), which the callback acts
on after the handler has returned.

What makes each correct:

- callbacks and session: a session waits for an event as long as it lives and
  no longer; its descriptor is closed once; a close asked for by the handler
  happens; a written message is scheduled, sent whole and reported once; input
  is delivered complete and in order;
- buffer and codec: position and limit stay inside the vector; transforming
  twice gives the same bytes;
- handler: its methods are called in the promised order;
- servers: counters match the open sessions, streams are closed however a
  session ends, a response is as long as announced.

`PROJECT.json` lists the hazards line by line, with the properties that are
about them.

## 2. Modules

| Module | Models |
|---|---|
| `MessageBuffer` | the buffer's operations the library uses, as operators on records `[bs, position, limit]` |
| `BasicProtocolCodec` | `transformUp`, `transformDown` |
| `Session` | one session: callbacks, handler, kernel socket, peer |
| `HandlerContract` | abstract: the order of the handler's calls |
| `OutputStream` | abstract: what `session.write()` promises when the peer waits for each response |
| `Sessions` | abstract: any number of sessions, one step per handler callback, messages as values |
| `SessionProperties` | properties of `Session`, and its refinement of the three above |
| `Reactor` | a process: event loop, acceptors, connectors, connections, descriptors, libevent's events |
| `EchoServer` | `examples/echoserver.cc`, on `Sessions` |
| `EchoConversation` | `EchoServer` with `examples/echoclient.cc` as one of its clients |
| `HttpStream` | `examples/httpserverv2.cc`, on `Sessions` |
| `HttpCodec` | `examples/httpserverv3.cc` with its codec, on `Sessions` and `MessageBuffer` |
| `HttpServers`, `MCHttpServers` | a session of either HTTP server; requests to check it with |
| `FtpServer` | `examples/ftpserver.cc`, on `Sessions` |
| `MessageBufferProofs` | what the operators of a buffer and of the basic codec return |
| `SessionTypeProofs`, `SessionControlProofs`, `SessionStreamProofs` | proofs about a session: types; events, descriptor, calls, reports; its input and its output |
| `EchoServerProofs`, `FtpServerProofs`, `HttpServersProofs`, `ReactorProofs` | proofs about these modules |

    HandlerContract   OutputStream   Sessions <--- EchoServer, FtpServer,
           ^               ^            ^          HttpStream <-+
           +---------------+------------+          HttpCodec  <-+ HttpServers
                        | implements                   |
                     Session --> BasicProtocolCodec    |
                        |                |             |
                        +--------> MessageBuffer <-----+

    EchoConversation --> EchoServer
    Reactor     (the same callbacks, seen from the descriptor table)

### Session and the code

A system call is where the environment may interfere, so a step is the code from
one `recv()` or `send()` to the next; nothing else in a callback can be
interrupted.

| Action | Code |
|---|---|
| `Open` | `doAccept` and `doConnect` from `new Session` to the end |
| `ReadStart` | `doRead` is called |
| `Recv` | one `recv()` that returns bytes, `put`, `nRead +=` |
| `ReadClosed` | the exit for `result == 0` |
| `ReadFailed` | the exit for an error other than EAGAIN |
| `MessageReceived` | the rest of `doRead`: `flip`, `transformUp`, `resetWrite`, `messageReceived`, then close or `event_add` |
| `WriteStart` | `doWrite` is called; `transformDown` unless a message is partly written |
| `Send`, `WouldBlock`, `SendFailed`, `Killed` | the four outcomes of `send()` (bytes taken, EAGAIN, an error, SIGPIPE) |
| `WriteUnknown` | the exit with `NWG_EUNKNOWN` |
| `MessageSent` | the rest of `doWrite` |
| `PeerSend`, `PeerFin`, `PeerReset`, `PeerDrain` | the other end of the connection |

Three details of the code are kept exactly, because properties depend on them.
`put` inserts at the position and the read buffer is never reset, so old bytes
pile up behind the limit. `result` starts at 0 and `nRead` survives a `doRead`
that filled `readBuffSize`. And `nWritten` outlives the callback, while
`resetWrite()`, which `doRead` calls as well, empties the write buffer.

Data is abstract: the bytes the peer sends are numbered, and so are the bytes of
all messages the handler writes, so that order, loss and repetition show. The
handler is any handler: in each callback it may write a message of any length or
none, and may close. `calls`, `wire`, `ends`, `delivered`, `reported` and
`fdCloses` are history, read by properties only (`ends` also numbers messages).

With `HalfDuplex = TRUE` peer and handler take turns: the peer sends a request
smaller than `readBuffSize`, waits until it has read the whole response, and
only then sends again. That is how the FTP control connection and a plain HTTP
client behave, and it is the condition under which output is a reliable stream.

### Reactor and the code

`Reactor` leaves out the bytes and keeps who owns which descriptor and which
events libevent and epoll hold. The application's code runs in `main`, in a
handler method, and in the `sessionClosed` that comes after `close(fd)` and
before `delete session`; at each of these points it may listen, connect, and
delete acceptors and connectors, so a callback is cut into steps there.

| Action | Code |
|---|---|
| `Listen`, `DeleteAcceptor` | `Acceptor::listen` with its failures, `~Acceptor` |
| `Connect`, `DeleteConnector` | `Connector::connect`: decided later, failed at once, or no descriptor; `~Connector` |
| `Dispatch`, `DispatchReturns` | `EventLoop::dispatch`, which returns when no event is added |
| `Accept` | `doAccept` up to `sessionOpened`, or the exit for a descriptor above `FD_SETSIZE` |
| `Connected`, `TimedOut`, `TimeoutReturns` | `doConnect` up to the handler; its timeout |
| `Callback`, `GoesOn` | `doRead` or `doWrite` up to a handler method; its return, with the events added then |
| `Ends`, `StreamEnds`, `Deleted` | the exits: `close(fd)`, then `sessionClosed`; the exit for `result == 0`, which closes nothing; `delete session` |
| `Dial`, `Answer` | a client connects; an attempt is accepted or refused |

`Opens` gives out the lowest free number, as the kernel does. `EventsBecome` is
libevent with epoll: it counts the events of a descriptor number and tells epoll
only when a condition is asked for first or no longer, while epoll forgets a
descriptor that is closed. A number that a handler gets back within
`sessionClosed` therefore joins the events of the session that is going, and is
never watched; `reopened` holds the owners this has happened to, the exception
in `EventsWatched` and `WaitingIsServed`. `Runs` yields control `"undefined"`
where a callback would use what has been deleted: a session whose service the
application deleted. `lost` holds the connections whose descriptor nobody closes
any more.

### Sessions and the servers

`Sessions` has `Opened`, `Received`, `Sent` and `Ended`: what a callback does to
the write objects and events of a session, given what the handler writes and
whether it closes. It is proved to be what `Session` does (section 4), so a
handler can be modelled against it with several sessions, and without the bytes.

`EchoServer` has one action per handler method; `MessageSent` includes the
`sessionClosed` that follows when the session is closed in it.

`EchoConversation` puts the echo client on the other end of one of the server's
sessions. Its own session is a second instance of `Sessions`; `toServer` and
`toClient` are the bytes on their way. A receiver takes any number of the bytes
there are, so that a message comes in pieces or two come at once, and both sides
take each piece for a message, as the code does: the client then writes its next
message in place of one that still waits, the server drops an echo that waits.
`cut` records that this has happened. A message is sent whole; how a partly sent
one goes on is the matter of `Session`.

`HttpStream` is one session of the second HTTP server. `FileRequested` and
`PageWritten` are the branches of `messageReceived` (a listing, "not found" and
"bad request" do the same to the state), and `Thrown` is the exception of a
filesystem call in it, which nobody catches. The size of a file goes from
`tellg()` to an `int`, which is announced, and on to a `size_t`, which `nwritten`
is compared with: `ToInt` and `ToSizeT`, with `IntBound` for 2^31 and `SizeBound`
for 2^64. A stream that could not be opened has the size -1 (`Unopened`).
`NextChunk` and `AllSent` are the branches of `messageSent`, and `FileResized` is
another process that truncates or extends the file meanwhile.

`HttpCodec` is one session of the third HTTP server. Its codec calls
`sreadUntil('\n')`, which leaves the read buffer's position behind the first
line, and the next `doRead` inserts there. So the request is a sequence of bytes
that comes in pieces of any size, and the read buffer is the real one of
`MessageBuffer`; `transformUp` and the pattern match are `TransformUp`,
`AfterTransformUp` and `Matches`. `HttpServers` is a session of one server or
the other, by `version`. The first HTTP server writes one message per request
and closes in `messageSent`, which is a handler `Session` allows anyway.

`FtpServer` is one control connection with the data connections it opens in
turn. `Login`, `Pasv`, `Cwd`, `Other`, `Transfer`, `UsePasvFirst` and `Quit` are
the branches of the control handler's `messageReceived`; `DataOpened`, `DataSent`
and `DataFailed` are the methods of the data handler, whose fields `_command`,
`_currentPath` and `closeNow` are shared by all data connections. The client is
an orderly one (`MaySend`, `Dial`): it waits for each reply, opens a data
connection after PASV and before the command for it, and waits for its end. A
command may still reach the server before the data connection is accepted. A
data connection fails only while it has bytes to send, for the server never
reads from one and an empty message is not sent.

PASV replies 227 also when its acceptor fails to listen (`acceptor` becomes
`"failed"`); the client cannot connect then.

RETR does not tell the data handler the client's directory: after CWD the server
takes the file from the directory of the last LIST. `unlisted` records the
connections asked for a file of a directory that was not listed since the client
changed to it.

`messageSent` of a data connection may throw while it carries out a command:
`directory_iterator` and `file_size` for LIST, and for RETR of a file that cannot
be opened `content.reserve(-1)`. Files can be removed, and permissions changed, at
any time, so the model lets any command throw (`Terminated`). The process ends
then; `thrown` keeps what it was about to send and on which connection.

## 3. Runs

| Run | Instance | Shows |
|---|---|---|
| `session_duplex` | `ReadBuffSize` 2, `SendRoom` 2, 3 bytes in, 3 messages of 0..2 bytes; 132,912 states | everything that holds whatever the peer does |
| `session_halfduplex` | `ReadBuffSize` 4, 3 bytes in, 3 messages of 0..3 bytes | output is a stream of whole messages; each is reported or the session ends |
| `session_fd_leak` | as duplex, 2 messages | violated: the exit for `result == 0` leaks the descriptor |
| `session_stale_count` | as duplex, 2 messages | violated: `nRead` left over ends a session whose peer is still sending |
| `session_sent_unsent` | as duplex, 2 messages | violated: a message that was dropped is reported as sent |
| `echo_limit` | the echo client, 2 other clients, limit 1, messages of 2 bytes; 454,596 states | the counter, who may be closed, the limit is restored; client and server never wait for each other for ever, unless the user types nothing |
| `echo_welcome` | 2 clients, limit 1 | violated: a client that was welcomed is closed for the one over the limit |
| `reactor` | 2 acceptors, 1 connector, 2 connections, descriptors 0..2, `FD_SETSIZE` 1; 90,928 states | whoever uses a descriptor owns it, no unknown leak, libevent and epoll agree, callbacks get what exists, attempts and waiting clients are served |
| `http_one_request` | v2: `IntBound` 6, `SizeBound` 32, files of 0..6, 9, 12, 13 and 15 bytes or none, chunks of 2, one read; v3: four requests in pieces; 3,952 states | response length, end of the response, no stream left open; the answer is to the first line |
| `ftp_transfers` | 3 data connections, 2 directories; 559,817 states | each data connection carries what was asked for, then closes |
| `ftp_lost_transfer` | the same with 2 data connections | violated: a transfer reported complete never takes place |
| `http_header` | `IntBound` 4, files of 0..3 bytes or none, two reads | violated: chunks go out without their header |

Why the bounds are enough. A `readBuffSize` of 2 with 3 bytes arriving gives
reads that are empty, partial, exactly full and in need of a second `doRead`.
`SendRoom` 2 with messages of 0, 1 and 2 bytes gives sends that are whole, cut
and blocked, and a message of no bytes. Three messages are needed for one
written, one dropped and one reported. In the half duplex run `readBuffSize`
exceeds all input, which is the condition under which its properties are stated.
Three data connections show what one leaves behind for the next, and that one
for the third; two directories are enough for the directory of the last LIST and
the client's to differ.
Three descriptors for two acceptors and two connections make the table run full,
every number be given out again, and one number lie above an `FD_SETSIZE` of 1
while another equals it. Two acceptors let one be deleted while the other takes
its number; two connections let one be opened in the `sessionClosed` of the
other. Requests of a line that matches or not, ended by `\r\n` or `\n`, with a
second line, are cut at every byte, also where a piece reaches a `READBUFFSIZE`
of 5.
Three clients over a limit of one leave two to be closed while one stays; what
`EvictsOnlyExcess` and `ClientsCounted` say is proved for all numbers. Messages of
two bytes can be cut once, and a piece of one joined to the next. Files of
0..5 bytes with chunks of 2 give no chunk, one short, one full and several with
and without a remainder. With an `int` of -6..5 the sizes 6 and 9 become
negative, as those from 2 to 4 GiB do, and 12, 13 and 15 become 0, 1 and 3, as
those above 4 GiB do: less than a chunk or more, of a file that has more.

Refinements checked as properties: `CallsInOrder` (HandlerContract),
`OutputIsStream` (OutputStream), `CallbackByCallback` (Sessions).

`CHECK_DEADLOCK FALSE` is set throughout: a session that is gone, or a peer that
has used up its bound, leaves nothing to do. That a live session is never stuck
is `EventsOfLiveSession` and the liveness properties.

### Fairness

- `WF(Open)`: the accept or connect event is pending and `dispatch` runs it.
- `SF(ReadStart)`, `SF(WriteStart)`: both events are level-triggered and
  persistent (`EV_PERSIST`); libevent asks for ready descriptors in each pass of
  its loop and runs every callback it has activated. Weak fairness would not do:
  one callback disables the other while it runs.
- `WF(InCallback)`: a callback that runs goes on; the sockets are non-blocking.
- `WF(PeerDrain)`, in `session_halfduplex` only (`FairSpec`; `session_duplex` has
  `LoopFairSpec`, without it): the peer reads what it is sent. The library has no
  timeout, so `SentOrEnded` cannot hold for a peer that never reads.
- `EchoServer`, `HttpServers` and `FtpServer` assume weak fairness of
  `messageSent`, which is the above seen callback by callback: `writeEvent` stays
  added until it runs (`FtpServer`: or the exception ends the process).
  `FtpServer` also assumes that a data connection that waits is accepted, and
  `EchoConversation` that the echo client and its server receive what was sent
  to them and see that the other has closed.
- `Reactor`: `WF(Dispatch)` and `WF(Return)`, because `main` runs to
  `dispatch()` and the application's code returns. For each connection
  `SF(Connected \/ TimedOut)`, for the timer runs out if no answer comes, and
  `SF(Accept)`, for a listening socket with a waiting client stays ready; strong,
  because any other callback disables them while it runs.

No fairness is assumed of the peer's sending, closing or resetting, of clients
connecting or leaving, of a file being resized, or of any call of the
application's.

`FinEndsSession` is about a session that has `readEvent` added, and then it holds
for every handler and every peer: nothing takes `readEvent` away again while the
session lives. It says nothing of a session that waits with `writeEvent` alone. A
peer that does not read, or a handler that writes a message in each `messageSent`
(the FTP server's data handler), keeps a session there, and the end of the peer's
stream is not noticed. The model has the first, and the second for `MaxMessages`
messages; that bound is no part of the argument.

### What the violated runs say

1. `doRead` deletes the session on `result == 0` without `close(fd)`; all other
   exits close it.
2. `nRead` is reset only when `recv()` fails. After a `doRead` that ended because
   `readBuffSize` was reached, the next one skips its loop and takes the initial
   `result` of 0 for the end of the stream.
3. `readEvent` stays added while a message waits for `doWrite`. If data comes
   first, `resetWrite()` drops the message, and `doWrite` then reports it to
   `messageSent`.
4. The echo server tests a global counter in `messageSent` and closes whichever
   client has just been sent something.
5. In the second HTTP server a request that comes in two pieces replaces the
   header that waits by an error page, while the file is sent all the same.
6. The FTP server's data connections share `closeNow`. One that fails leaves it
   set; the next one is closed at once and its command forgotten, after the
   client has been told "226 Transfer complete."

## 4. Proofs

Every safety property that a run checks is proved for every value of the
constants that the assumptions allow: `SessionAssumption` (positive sizes,
natural bounds), `EchoAssumption` (a limit in Nat, finitely many clients) with
`ConversationAssumption`, `FtpAssumption` (the control connection is no data
connection, the root is a directory), `HttpAssumption` (natural sizes, a
positive chunk, a `size_t` wider than an `int`), `CodecAssumption` (requests of
at least one byte) and `ReactorAssumption` (kinds of objects have different
names). The bounds `MaxIn`, `MaxMessages` and
`MaxLen` may be arbitrarily large, and so may the sets of sessions, connections
and descriptors.

Five theorems have a hypothesis of their own. `UnknownErrorUnreached`,
`SessionKeepsPromise` and `SentIsTransmitted` assume `HalfDuplex`: a peer that
sends while a message waits lets `resetWrite()` drop it (runs
`session_sent_unsent` and `session_duplex`, whose `MessagesWhole` needs no such
hypothesis). `OneRequestClosesStreams` and `OneRequestFullLength` assume
`MaxReads = 1`: the client sends one request, in one piece. With a second read
both fail, for it replaces `state.is` while the first stream is in use (run
`http_header` shows what the client sees of it).

| Theorem | Property | Inductive invariant |
|---|---|---|
| `TypeCorrect` | `TypeOK` | `TypeInv`: also that a written object is flipped and that the write buffer's position lies between `nWritten` and the limit; without that a read of what remains could leave the vector |
| `EventsOnlyOfLiveSession` | `EventsOfLiveSession` | `EventsInv`: a running callback has its event added |
| `DescriptorClosedOnce` | `FdClosedOnce` | `DescriptorInv`: nothing closed, no error reported, before the session is gone |
| `CloseHonoured` | `CloseIsHonoured` | itself, with `DescriptorInv` |
| `NoNullMessageSent` | `NoNullMessage` | itself, with `EventsInv` |
| `WriteIsScheduled` | `WriteScheduled` | itself, with `EventsInv` |
| `ReportsInOrder` | `ReportedOnce` | `ReportInv`: the message that waits, or the last one while `writeEvent` is added, is newer than all reported |
| `HandlerCallsInOrder` | `CallsInOrder` | `CallsInv`: what has been called, by where the session is |
| `InputDelivered` | `InputInOrder` | `ReadInv`: what lies in the read buffer before its position is exactly what `recv()` returned since the last delivery |
| `WholeMessagesSent` | `MessagesWhole` | `OutInv`: see below |
| `UnknownErrorUnreached`, `SessionKeepsPromise` | `NoUnknownError`, `OutputIsStream` | `OutInv` and `HalfInv`: see below |
| `SentIsTransmitted` | `SentMeansTransmitted`, violated without `HalfDuplex` | the same, with `ReportInv` |
| `SessionImplementsSessions` | `CallbackByCallback` | `NumberedInv`: message numbers within the bound, with `EventsInv` |
| `CounterIsRight`, `OnlyExcessEvicted`, and both `...InConversation` | `ClientsCounted`, `EvictsOnlyExcess` | `CountInv`: the counter is the cardinality of the open sessions |
| `ConversationTypesCorrect`, `WholeConversation` | `ConversationTypeOK`, `ConversationWhole` | `TypesInv` and `TurnsInv`: see below |
| `ReactorTypesCorrect`, `OwnDescriptorAlways`, `NoOtherLeak`, `CallbackArgumentsAlwaysExist`, `EventsAlwaysWatched`, `DispatchReturnsLastAlways` | `TypeOK`, `OwnDescriptor`, `OnlyKnownLeaks`, `CallbackArgumentsExist`, `EventsWatched`, `DispatchReturnsLast` | `ReactorInv`: see below |
| `FtpTypesCorrect`, `NothingBeforeLogin`, `CarriesWhatIsAsked`, `CloseNowInUse` | `TypeOK`, `LoginFirst`, `CarriesWhatWasAsked`, `CloseNowHasItsConnection` | `FtpInv`: see below |
| `ServersTypesCorrect`, `FirstLineAnswered` | `ServersTypeOK`, `AnswersFirstLine` | `EitherInv`: see below |
| `OneRequestClosesStreams`, `OneRequestFullLength` | `StreamsClosed`, `ContentLength` | `ServersInv`: see below |

`OutInv` follows a message through its copies. The write object is the newest
message, byte by byte what the handler wrote (`CurrentInv`); the write buffer is
empty or holds the same bytes and stands behind what was sent, or after an
EAGAIN at its end (`BufferInv`); and the last byte sent is the last one of a
message when `nWritten` is 0, else the one `nWritten` counts up to, unless the
buffer has been emptied meanwhile (`WireInv`). This exception is why a message
that `doRead` drops half sent is never followed by the middle of another:
`nWritten` is then above the limit 0, and `doWrite` fails or reports but does not
send.

`HalfInv` is the argument that nothing is dropped when the peer waits.
Between two messages everything written is sent and reported and `writeEvent` is
not added (`BetweenInv`). During a message (`DuringInv`) it is the session's turn
until the last byte of a response is out, all the peer's bytes are read while
`readEvent` is added, and a `doRead` that runs all the same was woken by the end
of the stream, with `result` 0: it cannot reach `messageReceived`. So no
`resetWrite()` comes before `messageSent`, `nWritten` counts bytes of the
message in the write buffer, and each step of `Session` is a `Write`,
`Transmit` or `Report` of `OutputStream`, or a stutter.

`ReactorInv` relates the three places that know of a descriptor: the object that
stores its number, the kernel's table and libevent's events. A number in use
leads to a socket of the object's own (`OwnFiles`), and every open socket to such
an object or to a known leak (`FilesOwned`): this is what `close(fd)` by number
rests on when numbers are given out again within a callback. libevent holds
events of existing objects only (`EventsHeld`), and one of each that waits
(`EventsKept`), save the connection whose callback runs. A number can be in use
twice only while its session is closing, by an object in `reopened` (`Reused`),
and but for those what libevent holds epoll watches (`Watched`). Only one
connection is in the middle of its end, the current one (`OneEnds`).

`TurnsInv` says that as long as nothing was cut or joined one message is on its
way at any time: waiting at the client, between the two, or waiting at the
server (`OneMessage`), and what was sent is what `msgNo` says, or one less while
the client's message waits (`SentAll`, `SentButOne`). `TypesInv` adds that the
client has a message while its `writeEvent` is added. The theorems about the counter
carry over because each step of the conversation is one of `EchoServer` or
leaves it alone (`ConversationIsServer`).

`FtpInv` says how the shared fields belong to one connection at a time. There is
one unfinished data connection at most (`OneAtATime`); a command that was not
yet carried out has such a connection, which asked for it (`CommandInv`); a
connection with content to send has `closeNow` set and the handler's own command
and path as its content (`ContentInv`). A `messageSent` with `closeNow` set
therefore comes from the connection it is meant for, the point at which a failed
connection breaks the argument: hence the condition `failed = {}`. `ListedInv`
says that after a LIST the handler's path is the client's. By `CommandInv` and
`OneAtATime` an exception, too, comes from the connection that asked for what
could not be sent.

`EitherInv` has a part for each server. For the third one, `LineInv` says that
what precedes the read buffer's position, where the next `put` inserts, is all
that has arrived, or the first line with its line feed; `AnswerInv` that the
answer which waits was given to that line. For the second one, `Numbered` says
that a header that waits belongs to a request, and the conversions keep their
ranges whatever the size of the file.

`ServersInv` accounts for every byte of a file whose size is an `int` and that
nobody resizes (`Exact`): the size is what was announced (`SizeInv`), what was sent
and the chunk that waits add up to `nwritten` (`SentInv`), and `nwritten` and what
is left of the file to `length` (`FileInv`). So `nwritten` meets `length` exactly,
whatever the size of a chunk. That the stream is open exactly while an open
session has `readAndWriteFile` set (`StreamInv`) needs none of this.

`PutInserts`, `TransformDownMoves` and `ReadUntilStops` are the facts about
`MessageBuffer` and the codec that these rest on. `SessionTypeProofs` has one
lemma per action; the other modules treat alike the actions that do not touch
their invariant. TLC checked each inductive invariant, on the instances of the
runs, before it was proved.

Only model-checked: liveness (`CallbackReturns`, `FinEndsSession`,
`SentOrEnded`, `LimitRestored`, `ResponseEnds`, `TransferCompletes`,
`ConversationEnds`, `AttemptDecided`, `WaitingIsServed`). It rests on fairness, hence
on ENABLED, which is out of the prover's reach. That the six violated properties
fail is shown by TLC's counterexamples.

## 5. What is not modelled, and the plan

Not modelled: the Windows branches, vendored dependencies, logging, the setup of
sockets and of libevent. Within what is modelled:

- `Session`: variables; calls of `write` or `close` on a session from outside its
  own callbacks; a handler that uses the session's buffers itself.
- `MessageBuffer`: `rewind` and `forward`, which nothing calls, `operator[]` and
  `bsRef`.
- `Acceptor`: a second `listen()` on the same object.
- Echo server: the message count that it puts into its answers.
- HTTP servers: a file that is truncated to exactly what was read of it and then
  extended again. `ContentLength` is about files whose size is an `int` and that
  nobody resizes, `ResponseEnds` about announced lengths that are not negative
  and files that nobody truncates; otherwise the code sends more or less than it
  announces, or empty messages for ever, and the model does so too.
- FTP server: command lines that are empty or lack an argument; several control
  connections; clients that send commands or quit during a transfer.

Next, in this order:

1. Disorderly FTP clients: what a command does that arrives during a transfer,
   and QUIT with a data connection open, which deletes its `_service`.
2. Several requests to the second HTTP server: under which condition on the
   client `StreamsClosed` and `ContentLength` hold for more than one.
3. That the echo and HTTP servers, seen without their own variables, implement
   `Sessions`, so that what is proved of `Session` carries over to them. For the
   FTP server it would take a `Sessions` with an end of the process, for
   `Terminated` ends all sessions in one step.
