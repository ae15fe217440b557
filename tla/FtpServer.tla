----------------------------- MODULE FtpServer -----------------------------
(***************************************************************************)
(* The FTP server (examples/ftpserver.cc): one control connection, and the  *)
(* data connections it opens one after another.  All data connections share *)
(* one handler, with its _command, _currentPath and closeNow.               *)
(*                                                                          *)
(* The client is an orderly one: it waits for the reply to each command,    *)
(* opens a data connection after PASV, sends LIST or RETR for it, and then  *)
(* waits for the end of that connection.                                    *)
(***************************************************************************)
CONSTANTS Control,      \* the control connection
          Data,         \* the data connections
          Directory,    \* paths of directories
          Root          \* the one the server starts in

ASSUME FtpAssumption == Control \notin Data /\ Root \in Directory

VARIABLES
    phase, pending, last, rd, wr,       \* the sessions
    \* State, of the control connection.
    loggedIn, quit, pasvMode, lastCommand, relativePath,
    acceptor,       \* dataHandlerAcceptor: "none", "listening", "failed" (to
                    \* listen) or "deleted"
    \* FtpDataHandler, of all data connections.
    command, currentPath, closeNow,
    \* The client: the data connections it has opened, and what it asked for.
    dialled, wanted,
    terminated,     \* the server has ended with an exception
    \* History: what was sent on the data connections, what the server was about
    \* to send on one when the exception was thrown, those that failed, those
    \* with a RETR of what was not listed, and whether the client has listed its
    \* directory since it changed to it.
    carried, thrown, failed, unlisted, listed

NoCommand == ""
Nothing == <<"none", Root>>
Empty == <<"empty", Root>>
Reply(text) == <<text, Root>>
Transfers == {"LIST", "RETR"}

INSTANCE Sessions WITH
    SessionId <- {Control} \cup Data,
    Msg <- (Transfers \cup {"empty", "220", "530", "331", "230", "550", "227",
                            "250", "425", "150 226", "221", "other"})
           \X Directory,
    NoMessage <- Nothing

sessions == <<phase, pending, last, rd, wr>>
state    == <<loggedIn, quit, pasvMode, lastCommand, relativePath, acceptor>>
handler  == <<command, currentPath, closeNow>>
client   == <<dialled, wanted>>
sent     == <<carried, thrown, failed>>
asked    == <<unlisted, listed>>
history  == <<sent, asked, terminated>>
vars     == <<sessions, state, handler, client, history>>

-----------------------------------------------------------------------------
(***************************************************************************)
(* The client.                                                              *)
(***************************************************************************)
Finished(d) == phase[d] = "gone"
AllFinished == \A d \in dialled : Finished(d)

\* The connection that waits for a command, if there is one.
Waiting == {d \in dialled : ~Finished(d) /\ wanted[d] = Nothing}

\* The client has the reply to its last command, and no transfer goes on.
MaySend ==
    /\ phase[Control] = "open" /\ ~wr[Control]
    /\ \A d \in dialled : Finished(d) \/ wanted[d] = Nothing

\* Nobody can connect where nobody listens.
Dial(d) ==
    /\ MaySend /\ AllFinished /\ ~quit
    /\ pasvMode /\ acceptor = "listening" /\ d \notin dialled
    /\ dialled' = dialled \cup {d}
    /\ UNCHANGED <<sessions, state, handler, wanted, history>>

-----------------------------------------------------------------------------
(***************************************************************************)
(* FtpCommandHandler::messageReceived: a command, and its reply.            *)
(***************************************************************************)
Receive(text) ==
    /\ MaySend
    /\ Received(Control, Reply(text), FALSE, FALSE)
    /\ UNCHANGED <<sent, terminated>>

NobodyRefused == TRUE
LoggedIn == loggedIn

\* USER, PASS, or another command before the login.
Login ==
    /\ ~loggedIn
    /\ \/ /\ lastCommand = "USER"
          /\ \/ Receive("230") /\ loggedIn' = TRUE          \* PASS
             \/ Receive("550") /\ UNCHANGED loggedIn
          /\ UNCHANGED lastCommand
       \/ /\ lastCommand # "USER"
          /\ \/ Receive("331") /\ lastCommand' = "USER"     \* USER
             \/ Receive("530") /\ UNCHANGED lastCommand
          /\ UNCHANGED loggedIn
    /\ UNCHANGED <<quit, pasvMode, relativePath, acceptor, handler, client,
                   asked>>

\* The acceptor of the first PASV listens, unless bind() or listen() fails: 227
\* is the reply all the same.
Pasv ==
    /\ LoggedIn /\ AllFinished
    /\ Receive("227")
    /\ pasvMode' = TRUE
    /\ acceptor' \in IF acceptor = "none" THEN {"listening", "failed"}
                                           ELSE {acceptor}
    /\ UNCHANGED <<loggedIn, quit, lastCommand, relativePath, handler, client,
                   asked>>

Cwd ==
    /\ LoggedIn
    /\ Receive("250")
    /\ relativePath' \in Directory
    /\ listed' = (listed /\ relativePath' = relativePath)
    /\ UNCHANGED <<loggedIn, quit, pasvMode, lastCommand, acceptor, handler,
                   client, unlisted>>

\* TYPE, SYST, PWD, and unknown commands.
Other ==
    /\ LoggedIn
    /\ Receive("other")
    /\ UNCHANGED <<state, handler, client, asked>>

\* LIST also tells the data handler the directory, RETR does not.
PathForgotten(c) == currentPath
PathFor(c) == IF c = "LIST" THEN relativePath ELSE currentPath

Transfer(c) ==
    /\ LoggedIn /\ pasvMode
    /\ Receive("150 226")
    /\ command' = c
    /\ currentPath' = PathFor(c)
    /\ lastCommand' = c
    /\ pasvMode' = FALSE
    /\ \E d \in Waiting :
          /\ wanted' = [wanted EXCEPT ![d] = <<c, relativePath>>]
          /\ unlisted' = IF c = "RETR" /\ ~listed THEN unlisted \cup {d}
                                                  ELSE unlisted
    /\ listed' = (listed \/ c = "LIST")
    /\ UNCHANGED <<loggedIn, quit, relativePath, acceptor, closeNow, dialled>>

UsePasvFirst ==
    /\ LoggedIn /\ ~pasvMode
    /\ Receive("425")
    /\ UNCHANGED <<state, handler, client, asked>>

Quit ==
    /\ AllFinished
    /\ Receive("221")
    /\ quit' = TRUE
    /\ UNCHANGED <<loggedIn, pasvMode, lastCommand, relativePath, acceptor,
                   handler, client, asked>>

Command ==
    \/ Login \/ Pasv \/ Cwd \/ Other \/ UsePasvFirst \/ Quit
    \/ \E c \in Transfers : Transfer(c)

-----------------------------------------------------------------------------
(***************************************************************************)
(* The other methods of FtpCommandHandler.                                  *)
(***************************************************************************)
Welcome ==
    /\ Opened(Control, Reply("220"), FALSE)
    /\ UNCHANGED <<state, handler, client, history>>

\* messageSent: after QUIT the session is closed and its acceptor deleted.
ReplySent ==
    /\ Sent(Control, Nothing, quit)
    /\ acceptor' = IF quit /\ acceptor # "none" THEN "deleted" ELSE acceptor
    /\ UNCHANGED <<loggedIn, quit, pasvMode, lastCommand, relativePath, handler,
                   client, history>>

\* The client leaves without QUIT: the acceptor stays.
Left ==
    /\ Ended(Control)
    /\ UNCHANGED <<state, handler, client, history>>

-----------------------------------------------------------------------------
(***************************************************************************)
(* FtpDataHandler.  Its messageReceived does nothing; it is never called,   *)
(* for readEvent is not added while there is a message to write.            *)
(***************************************************************************)
DataOpened(d) ==
    /\ d \in dialled /\ acceptor = "listening"
    /\ Opened(d, Empty, FALSE)
    /\ UNCHANGED <<state, handler, client, history>>

\* messageSent: a connection that has sent its content is closed; otherwise the
\* content the command asks for is sent, or nothing as long as there is none.
CommandKept == command
CommandNow == IF closeNow THEN NoCommand ELSE command

NoMessageToWrite == Nothing
MessageToWrite == Empty

DataSent(d) ==
    /\ Sent(d, IF CommandNow = NoCommand THEN MessageToWrite
                                         ELSE <<CommandNow, currentPath>>,
            closeNow)
    /\ command' = CommandNow
    /\ closeNow' = (CommandNow # NoCommand)
    /\ carried' = IF pending[d] = Empty THEN carried
                  ELSE [carried EXCEPT ![d] = pending[d]]
    /\ UNCHANGED <<state, currentPath, client, thrown, failed, asked,
                   terminated>>

\* messageSent with a command throws: LIST for a directory that cannot be read
\* or an entry without a size, RETR for a file that cannot be opened, whose
\* tellg() is -1, at content.reserve().  Nobody catches it: the process ends
\* with all its sessions.
Terminated(d) ==
    /\ phase[d] = "open" /\ wr[d]
    /\ CommandNow # NoCommand
    /\ phase' = [s \in DOMAIN phase |-> "gone"]
    /\ rd' = [s \in DOMAIN rd |-> FALSE]
    /\ wr' = [s \in DOMAIN wr |-> FALSE]
    /\ terminated' = TRUE
    /\ thrown' = [thrown EXCEPT ![d] = <<CommandNow, currentPath>>]
    /\ UNCHANGED <<pending, last, state, handler, client, carried, failed,
                   asked>>

\* send() fails, which takes a message that is not empty; sessionClosed does
\* nothing.
DataFailed(d) ==
    /\ pending[d] # Empty
    /\ Ended(d)
    /\ failed' = failed \cup {d}
    /\ UNCHANGED <<state, handler, client, carried, thrown, asked, terminated>>

-----------------------------------------------------------------------------
Init ==
    /\ SessionsInit
    /\ loggedIn = FALSE /\ quit = FALSE /\ pasvMode = FALSE
    /\ lastCommand = NoCommand /\ relativePath = Root /\ acceptor = "none"
    /\ command = NoCommand /\ currentPath = Root /\ closeNow = FALSE
    /\ dialled = {}
    /\ wanted = [d \in Data |-> Nothing]
    /\ carried = [d \in Data |-> Nothing] /\ thrown = [d \in Data |-> Nothing]
    /\ failed = {} /\ unlisted = {} /\ listed = FALSE /\ terminated = FALSE

Next ==
    \/ Command \/ Welcome \/ ReplySent \/ Left
    \/ \E d \in Data : Dial(d) \/ DataOpened(d) \/ DataSent(d)
                      \/ DataFailed(d) \/ Terminated(d)

Spec == Init /\ [][Next]_vars

\* A connection that waits is accepted, and a client that reads what it is sent
\* has every message sent.
FairSpec ==
    /\ Spec
    /\ \A d \in Data : /\ WF_vars(DataOpened(d))
                     /\ WF_vars(DataSent(d) \/ Terminated(d))

-----------------------------------------------------------------------------
\* The types; and data connections are never read from.
TypeOK ==
    /\ SessionsType
    /\ loggedIn \in BOOLEAN /\ quit \in BOOLEAN /\ pasvMode \in BOOLEAN
    /\ lastCommand \in Transfers \cup {NoCommand, "USER"}
    /\ relativePath \in Directory /\ currentPath \in Directory
    /\ acceptor \in {"none", "listening", "failed", "deleted"}
    /\ command \in Transfers \cup {NoCommand} /\ closeNow \in BOOLEAN
    /\ dialled \subseteq Data
    /\ wanted \in [Data -> {Nothing} \cup (Transfers \X Directory)]
    /\ carried \in [Data -> {Nothing} \cup (Transfers \X Directory)]
    /\ thrown \in [Data -> {Nothing} \cup (Transfers \X Directory)]
    /\ failed \subseteq dialled /\ unlisted \subseteq dialled
    /\ listed \in BOOLEAN /\ terminated \in BOOLEAN
    /\ \A d \in Data : ~rd[d]

\* "530 You must login": nothing is sent on a data connection before the login.
LoginFirst == \A d \in Data : carried[d] # Nothing => loggedIn

\* What connection d was asked for is x: the command at any rate, and the
\* directory too, unless d was asked for a file of one that was not listed.
AskedFor(d, x) ==
    /\ x[1] = wanted[d][1]
    /\ d \notin unlisted => x = wanted[d]

\* What a data connection carries is what was asked for on it, a file of the
\* client's directory only if the client has listed it; what ends the server, if
\* anything does, was asked for on the connection it ends on; and as long as no
\* data connection has failed and the server goes on, it closes none before that
\* has carried what was asked for.
CarriesWhatWasAsked ==
    \A d \in Data :
       /\ carried[d] # Nothing => AskedFor(d, carried[d])
       /\ thrown[d] # Nothing => AskedFor(d, thrown[d])
       /\ Finished(d) => carried[d] # Nothing \/ failed # {} \/ terminated

\* closeNow, which all data connections share, is set only while there is the
\* one connection it is meant for: open, with its content still to be sent.
\* Only a connection that fails leaves it set for the next one.
CloseNowHasItsConnection ==
    closeNow /\ failed = {} =>
       \E d \in Data :
          phase[d] = "open" /\ pending[d] = <<command, currentPath>>

\* What was reported as transferred is transferred in the end, unless a data
\* connection has failed or the server has ended.
TransferCompletes ==
    \A d \in Data :
       wanted[d] # Nothing ~> carried[d] # Nothing \/ failed # {} \/ terminated

\* "226 Transfer complete.": what was reported as transferred on a connection
\* is transferred in the end, unless that connection itself has failed or the
\* server has ended.
ReportedIsTransferred ==
    \A d \in Data :
       wanted[d] # Nothing ~> carried[d] # Nothing \/ d \in failed \/ terminated

=============================================================================
