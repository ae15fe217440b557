--------------------------- MODULE FtpServerProofs ---------------------------
(***************************************************************************)
(* Proofs about the FTP server, for any number of data connections and any  *)
(* directories: nothing is sent before the login, a data connection carries *)
(* what was asked for on it, and closeNow is set for a connection only.     *)
(***************************************************************************)
EXTENDS FtpServer, TLAPS

\* The inductive invariant, next to the types.

\* A data connection that was not dialled has done nothing.
DialledFirst ==
    \A d \in Data : phase[d] = "open" => d \in dialled

\* There is one unfinished data connection at most.
OneAtATime ==
    \A d, e \in dialled : ~Finished(d) /\ ~Finished(e) => d = e

\* Connection d was asked for the content that command and path stand for.
IsFor(d) ==
    /\ wanted[d] # Nothing /\ wanted[d][1] = command
    /\ d \notin unlisted => wanted[d] = <<command, currentPath>>

\* A command that was not yet carried out has its connection.
CommandInv ==
    command # NoCommand /\ ~closeNow /\ ~terminated =>
       \E d \in dialled : ~Finished(d) /\ IsFor(d)

\* A connection with content to send has its command, and closeNow set.
ContentInv ==
    \A d \in Data :
       phase[d] = "open" /\ pending[d] # Empty =>
          /\ closeNow /\ command # NoCommand
          /\ pending[d] = <<command, currentPath>>
          /\ IsFor(d)

ListedInv == listed => currentPath = relativePath

\* A process that has ended has no sessions.
EndInv == terminated => \A s \in {Control} \cup Data : phase[s] = "gone"

LoginInv == LoginFirst /\ (command # NoCommand => loggedIn)

DataInv ==
    /\ DialledFirst /\ OneAtATime
    /\ CommandInv /\ ContentInv /\ ListedInv /\ EndInv
    /\ LoginInv /\ CarriesWhatWasAsked /\ CloseNowHasItsConnection

FtpInv == TypeOK /\ DataInv

-----------------------------------------------------------------------------
Ids == {Control} \cup Data
Phase == [Ids -> {"unborn", "open", "gone"}]
Pending == [Ids -> Messages]
Content == {Nothing} \cup (Transfers \X Directory)

\* The types, as far as the steps need them.
LEMMA Types ==
    ASSUME TypeOK
    PROVE  /\ phase \in Phase /\ pending \in Pending
           /\ dialled \subseteq Data /\ Control \notin Data
           /\ wanted \in [Data -> Content] /\ carried \in [Data -> Content]
           /\ thrown \in [Data -> Content]
           /\ command \in Transfers \cup {NoCommand} /\ closeNow \in BOOLEAN
           /\ currentPath \in Directory /\ relativePath \in Directory
<1>. QED  BY FtpAssumption DEF TypeOK, SessionsType, Ids, Phase, Pending,
                              Content

\* A step that leaves the data connections and their handler alone.
LEMMA Aside ==
    ASSUME TypeOK, DataInv, ~terminated, ~terminated',
           \A d \in Data : phase'[d] = phase[d] /\ pending'[d] = pending[d],
           UNCHANGED <<command, currentPath, closeNow>>,
           UNCHANGED <<dialled, wanted, carried, thrown, failed, unlisted>>,
           loggedIn => loggedIn',
           listed' => listed /\ relativePath' = relativePath
    PROVE  DataInv'
<1>1. dialled \subseteq Data
  BY DEF TypeOK
<1>2. DialledFirst' /\ OneAtATime'
  BY <1>1 DEF DataInv, DialledFirst, OneAtATime, Finished
<1>3. CommandInv'
  BY <1>1 DEF DataInv, CommandInv, IsFor, Finished
<1>4. ContentInv'
  BY DEF DataInv, ContentInv, IsFor
<1>5. ListedInv' /\ EndInv'
  BY DEF DataInv, ListedInv, EndInv
<1>6. LoginInv'
  BY DEF DataInv, LoginInv, LoginFirst
<1>7. CarriesWhatWasAsked'
  BY DEF DataInv, CarriesWhatWasAsked, AskedFor, Finished
<1>8. CloseNowHasItsConnection'
  BY DEF DataInv, CloseNowHasItsConnection
<1>. QED  BY <1>2, <1>3, <1>4, <1>5, <1>6, <1>7, <1>8 DEF DataInv

\* A callback of the control connection.
LEMMA OfControl ==
    ASSUME TypeOK, DataInv, phase[Control] # "gone",
           NEW p, phase' = [phase EXCEPT ![Control] = p],
           NEW m, pending' = [pending EXCEPT ![Control] = m]
    PROVE  /\ ~terminated
           /\ \A d \in Data : phase'[d] = phase[d] /\ pending'[d] = pending[d]
<1>1. ~terminated
  BY DEF DataInv, EndInv
<1>. QED  BY <1>1, Types DEF Phase, Pending, Ids

-----------------------------------------------------------------------------
(***************************************************************************)
(* The commands.                                                            *)
(***************************************************************************)
\* A reply to a command touches no data connection.
LEMMA ReplyStep ==
    ASSUME TypeOK, DataInv, NEW text, Receive(text)
    PROVE  /\ ~terminated /\ ~terminated'
           /\ carried' = carried /\ thrown' = thrown /\ failed' = failed
           /\ \A d \in Data : phase'[d] = phase[d] /\ pending'[d] = pending[d]
           /\ \A d \in dialled : Finished(d) \/ wanted[d] = Nothing
<1>1. /\ phase[Control] = "open"
      /\ phase' = [phase EXCEPT ![Control] = "open"]
      /\ pending' = [pending EXCEPT ![Control] = Reply(text)]
      /\ UNCHANGED <<carried, thrown, failed, terminated>>
  BY DEF Receive, Received, LeaveOpen, sent
<1>2. \A d \in dialled : Finished(d) \/ wanted[d] = Nothing
  BY DEF Receive, MaySend
<1>. QED  BY <1>1, <1>2, OfControl

\* USER and PASS.
LEMMA LoginStep == ASSUME TypeOK, DataInv, Login PROVE DataInv'
<1>1. \E text : Receive(text)
  BY DEF Login
<1>2. UNCHANGED <<command, currentPath, closeNow, dialled, wanted, unlisted,
                  listed, relativePath>>
  BY DEF Login, handler, client, asked
<1>3. loggedIn => loggedIn'
  BY DEF Login
<1>. QED  BY <1>1, <1>2, <1>3, ReplyStep, Aside

\* PASV, TYPE, SYST, PWD, QUIT, and LIST or RETR without PASV.
LEMMA PlainStep ==
    ASSUME TypeOK, DataInv, Pasv \/ Other \/ UsePasvFirst \/ Quit
    PROVE  DataInv'
<1>1. \E text : Receive(text)
  BY DEF Pasv, Other, UsePasvFirst, Quit
<1>2. UNCHANGED <<command, currentPath, closeNow, dialled, wanted, unlisted,
                  listed, relativePath, loggedIn>>
  BY DEF Pasv, Other, UsePasvFirst, Quit, handler, client, asked, state
<1>. QED  BY <1>1, <1>2, ReplyStep, Aside

\* CWD.
LEMMA CwdStep == ASSUME TypeOK, DataInv, Cwd PROVE DataInv'
<1>1. Receive("250")
  BY DEF Cwd
<1>2. /\ UNCHANGED <<command, currentPath, closeNow, dialled, wanted, unlisted,
                     loggedIn>>
      /\ listed' => listed /\ relativePath' = relativePath
  BY DEF Cwd, handler, client
<1>. QED  BY <1>1, <1>2, ReplyStep, Aside

\* LIST and RETR: the one connection that waits is asked for the content that
\* command and path now stand for.
LEMMA TransferStep ==
    ASSUME TypeOK, DataInv, NEW c \in Transfers, Transfer(c)
    PROVE  DataInv'
<1>1. Receive("150 226")
  BY DEF Transfer
<1>2. /\ loggedIn /\ loggedIn' = loggedIn /\ relativePath' = relativePath
      /\ command' = c /\ currentPath' = PathFor(c)
      /\ closeNow' = closeNow /\ dialled' = dialled
      /\ listed' = (listed \/ c = "LIST")
  BY DEF Transfer, LoggedIn
<1>3. PICK d \in Waiting :
         /\ wanted' = [wanted EXCEPT ![d] = <<c, relativePath>>]
         /\ unlisted' = IF c = "RETR" /\ ~listed THEN unlisted \cup {d}
                                                 ELSE unlisted
  BY DEF Transfer
<1>4. d \in dialled /\ d \in Data /\ ~Finished(d) /\ wanted[d] = Nothing
  BY DEF Waiting, TypeOK
<1>5. /\ ~terminated /\ ~terminated'
      /\ carried' = carried /\ thrown' = thrown /\ failed' = failed
      /\ \A e \in Data : phase'[e] = phase[e] /\ pending'[e] = pending[e]
      /\ \A e \in dialled : Finished(e) \/ wanted[e] = Nothing
  BY <1>1, ReplyStep
<1>6. wanted'[d] = <<c, relativePath>> /\ wanted'[d] # Nothing
  BY <1>3, <1>4, Types DEF Nothing, Transfers
<1>7. \A e \in Data : e # d => wanted'[e] = wanted[e]
  BY <1>3, Types
<1>8. d \notin unlisted' => currentPath' = relativePath
  <2>1. CASE c = "LIST"
    BY <1>2, <2>1 DEF PathFor
  <2>2. CASE c = "RETR" /\ listed
    BY <1>2, <2>2 DEF PathFor, DataInv, ListedInv
  <2>. QED  BY <1>3, <2>1, <2>2 DEF Transfers
<1>9. \A e \in Data : ~(phase[e] = "open" /\ pending[e] # Empty)
  <2>. SUFFICES ASSUME NEW e \in Data, phase[e] = "open", pending[e] # Empty
                PROVE  FALSE
    OBVIOUS
  <2>1. e \in dialled /\ ~Finished(e)
    BY DEF DataInv, DialledFirst, Finished
  <2>2. wanted[e] # Nothing
    BY DEF DataInv, ContentInv, IsFor
  <2>. QED  BY <2>1, <2>2, <1>5
<1>10. DialledFirst' /\ OneAtATime'
  BY <1>2, <1>5, Types DEF DataInv, DialledFirst, OneAtATime, Finished
<1>11. CommandInv'
  <2>1. ~Finished(d)'
    BY <1>4, <1>5 DEF Finished
  <2>2. IsFor(d)'
    BY <1>2, <1>6, <1>8 DEF IsFor, Nothing
  <2>. QED  BY <2>1, <2>2, <1>2, <1>4 DEF CommandInv
<1>12. ContentInv'
  BY <1>5, <1>9 DEF ContentInv, Empty
<1>13. ListedInv'
  <2>1. CASE c = "LIST"
    BY <1>2, <2>1 DEF PathFor, ListedInv
  <2>2. CASE c = "RETR"
    BY <1>2, <2>2 DEF PathFor, DataInv, ListedInv
  <2>. QED  BY <2>1, <2>2 DEF Transfers
<1>14. EndInv' /\ LoginInv'
  BY <1>2, <1>5 DEF EndInv, DataInv, LoginInv, LoginFirst
<1>15. CarriesWhatWasAsked'
  <2>1. carried[d] = Nothing /\ thrown[d] = Nothing
    <3>1. carried[d] \in Content /\ thrown[d] \in Content
      BY <1>4, Types
    <3>2. \A x \in Content : x[1] = wanted[d][1] => x = Nothing
      BY <1>4 DEF Nothing, Content, Transfers
    <3>. QED  BY <1>4, <3>1, <3>2 DEF DataInv, CarriesWhatWasAsked, AskedFor
  <2>2. \A e \in Data : e # d => (e \in unlisted' <=> e \in unlisted)
    BY <1>3
  <2>. QED  BY <1>5, <1>7, <2>1, <2>2
               DEF DataInv, CarriesWhatWasAsked, AskedFor, Finished
<1>16. CloseNowHasItsConnection'
  <2>1. command # "empty"
    BY Types DEF Transfers, NoCommand
  <2>2. <<command, currentPath>> # Empty
    BY <2>1 DEF Empty
  <2>3. ~(closeNow /\ failed = {})
    BY <1>9, <2>2 DEF DataInv, CloseNowHasItsConnection
  <2>. QED  BY <1>2, <1>5, <2>3 DEF CloseNowHasItsConnection
<1>. QED  BY <1>10, <1>11, <1>12, <1>13, <1>14, <1>15,
         <1>16 DEF DataInv

-----------------------------------------------------------------------------
(***************************************************************************)
(* The other steps of the control connection, and of the client.            *)
(***************************************************************************)
\* The welcome, the end of a reply, and the end of the connection.
LEMMA ControlStep ==
    ASSUME TypeOK, DataInv, Welcome \/ ReplySent \/ Left
    PROVE  DataInv'
<1>1. /\ phase[Control] # "gone"
      /\ \E p : phase' = [phase EXCEPT ![Control] = p]
  BY DEF Welcome, ReplySent, Left, Opened, Sent, Ended, LeaveOpen
<1>2. \A d \in Data : pending'[d] = pending[d]
  BY Types DEF Welcome, ReplySent, Left, Opened, Sent, Ended, Pending, Ids
<1>3. \A d \in Data : phase'[d] = phase[d]
  BY <1>1, Types DEF Phase, Ids
<1>4. ~terminated
  BY <1>1 DEF DataInv, EndInv
<1>5. UNCHANGED <<command, currentPath, closeNow, dialled, wanted, unlisted,
                  listed, relativePath, loggedIn, carried, thrown, failed,
                  terminated>>
  BY DEF Welcome, ReplySent, Left, handler, client, asked, state, history, sent
<1>. QED  BY <1>2, <1>3, <1>4, <1>5, Aside

\* The client opens a data connection: the one before it has finished.
LEMMA DialStep ==
    ASSUME TypeOK, DataInv, NEW d \in Data, Dial(d)
    PROVE  DataInv'
<1>1. /\ phase[Control] = "open" /\ AllFinished
      /\ dialled' = dialled \cup {d}
      /\ UNCHANGED <<phase, pending, command, currentPath, closeNow, wanted,
                     unlisted, listed, relativePath, loggedIn, carried, thrown,
                     failed, terminated>>
  BY DEF Dial, MaySend, handler, asked, state, history, sent, sessions
<1>2. DialledFirst' /\ OneAtATime'
  BY <1>1 DEF DataInv, DialledFirst, OneAtATime, AllFinished, Finished
<1>3. CommandInv'
  BY <1>1 DEF DataInv, CommandInv, IsFor, Finished
<1>4. ContentInv' /\ ListedInv' /\ EndInv'
  BY <1>1 DEF DataInv, ContentInv, ListedInv, EndInv, IsFor
<1>5. LoginInv' /\ CarriesWhatWasAsked' /\ CloseNowHasItsConnection'
  BY <1>1 DEF DataInv, LoginInv, LoginFirst, CarriesWhatWasAsked, AskedFor,
              Finished, CloseNowHasItsConnection
<1>. QED  BY <1>2, <1>3, <1>4, <1>5 DEF DataInv

-----------------------------------------------------------------------------
(***************************************************************************)
(* The data connections.                                                    *)
(***************************************************************************)
\* A step of a data connection that is open, or opens, leaves the others alone.
LEMMA OneConnection ==
    ASSUME TypeOK, DataInv, NEW d \in Data, phase[d] # "gone",
           NEW p, phase' = [phase EXCEPT ![d] = p],
           NEW m, pending' = [pending EXCEPT ![d] = m]
    PROVE  /\ ~terminated
           /\ phase'[d] = p /\ pending'[d] = m
           /\ \A e \in Data : e # d =>
                 phase'[e] = phase[e] /\ pending'[e] = pending[e]
<1>1. ~terminated
  BY DEF DataInv, EndInv
<1>. QED  BY <1>1, Types DEF Phase, Pending, Ids

\* An open data connection is the only one that has not finished.
LEMMA TheOnlyOne ==
    ASSUME TypeOK, DataInv, NEW d \in Data, phase[d] = "open",
           NEW e \in dialled, ~Finished(e)
    PROVE  e = d
BY DEF DataInv, DialledFirst, OneAtATime, Finished

\* sessionOpened: nothing is asked of the handler yet.
LEMMA DataOpenedStep ==
    ASSUME TypeOK, DataInv, NEW d \in Data, DataOpened(d)
    PROVE  DataInv'
<1>1. /\ d \in dialled /\ phase[d] = "unborn"
      /\ phase' = [phase EXCEPT ![d] = "open"]
      /\ pending' = [pending EXCEPT ![d] = Empty]
      /\ UNCHANGED <<command, currentPath, closeNow, dialled, wanted, unlisted,
                     listed, relativePath, loggedIn, carried, thrown, failed,
                     terminated>>
  BY DEF DataOpened, Opened, LeaveOpen, state, handler, client, history, sent,
         asked
<1>2. /\ ~terminated
      /\ phase'[d] = "open" /\ pending'[d] = Empty
      /\ \A e \in Data : e # d =>
            phase'[e] = phase[e] /\ pending'[e] = pending[e]
  BY <1>1, OneConnection
<1>3. \A e \in Data : Finished(e)' <=> Finished(e)
  BY <1>1, <1>2 DEF Finished
<1>4. DialledFirst' /\ OneAtATime'
  BY <1>1, <1>2, <1>3, Types DEF DataInv, DialledFirst, OneAtATime
<1>5. CommandInv'
  BY <1>1, <1>3, Types DEF DataInv, CommandInv, IsFor
<1>6. ContentInv'
  BY <1>1, <1>2 DEF DataInv, ContentInv, IsFor, Empty
<1>7. ListedInv' /\ EndInv' /\ LoginInv'
  BY <1>1, <1>2 DEF DataInv, ListedInv, EndInv, LoginInv, LoginFirst
<1>8. CarriesWhatWasAsked'
  BY <1>1, <1>3 DEF DataInv, CarriesWhatWasAsked, AskedFor
<1>9. CloseNowHasItsConnection'
  BY <1>1, <1>2 DEF DataInv, CloseNowHasItsConnection
<1>. QED  BY <1>4, <1>5, <1>6, <1>7, <1>8, <1>9 DEF DataInv

\* messageSent, seen from the other data connections: there are none.
LEMMA DataSentAlone ==
    ASSUME TypeOK, DataInv, NEW d \in Data, DataSent(d)
    PROVE  /\ phase[d] = "open" /\ d \in dialled /\ ~terminated
           /\ phase'[d] = IF closeNow THEN "gone" ELSE "open"
           /\ pending'[d] = IF CommandNow = NoCommand THEN Empty
                            ELSE <<CommandNow, currentPath>>
           /\ \A e \in Data : e # d =>
                 /\ phase'[e] = phase[e] /\ pending'[e] = pending[e]
                 /\ carried'[e] = carried[e] /\ phase[e] # "open"
           /\ carried'[d] = IF pending[d] = Empty THEN carried[d]
                            ELSE pending[d]
           /\ UNCHANGED <<currentPath, dialled, wanted, unlisted, listed,
                          relativePath, loggedIn, thrown, failed,
                          terminated>>
           /\ command' = CommandNow /\ closeNow' = (CommandNow # NoCommand)
<1>1. /\ phase[d] = "open"
      /\ phase' = [phase EXCEPT ![d] = IF closeNow THEN "gone" ELSE "open"]
      /\ pending' = [pending EXCEPT ![d] =
                       IF CommandNow = NoCommand THEN Empty
                       ELSE <<CommandNow, currentPath>>]
      /\ carried' = IF pending[d] = Empty THEN carried
                    ELSE [carried EXCEPT ![d] = pending[d]]
      /\ UNCHANGED <<currentPath, dialled, wanted, unlisted, listed,
                     relativePath, loggedIn, thrown, failed,
                     terminated>>
      /\ command' = CommandNow /\ closeNow' = (CommandNow # NoCommand)
  BY DEF DataSent, Sent, LeaveOpen, MessageToWrite, state, client, asked
<1>2. /\ ~terminated
      /\ phase'[d] = IF closeNow THEN "gone" ELSE "open"
      /\ pending'[d] = IF CommandNow = NoCommand THEN Empty
                       ELSE <<CommandNow, currentPath>>
      /\ \A e \in Data : e # d =>
            phase'[e] = phase[e] /\ pending'[e] = pending[e]
  <2> DEFINE p == IF closeNow THEN "gone" ELSE "open"
             m == IF CommandNow = NoCommand THEN Empty
                  ELSE <<CommandNow, currentPath>>
  <2>1. /\ phase[d] # "gone"
        /\ phase' = [phase EXCEPT ![d] = p]
        /\ pending' = [pending EXCEPT ![d] = m]
    BY <1>1
  <2> HIDE DEF p, m
  <2>2. /\ ~terminated /\ phase'[d] = p /\ pending'[d] = m
        /\ \A e \in Data : e # d =>
              phase'[e] = phase[e] /\ pending'[e] = pending[e]
    BY <2>1, OneConnection
  <2>. QED  BY <2>2 DEF p, m
<1>3. d \in dialled
  BY <1>1 DEF DataInv, DialledFirst
<1>4. \A e \in Data : e # d => phase[e] # "open"
  BY <1>1, <1>3 DEF DataInv, DialledFirst, OneAtATime, Finished
<1>5. /\ carried'[d] = IF pending[d] = Empty THEN carried[d] ELSE pending[d]
      /\ \A e \in Data : e # d => carried'[e] = carried[e]
  BY <1>1, Types
<1>. QED  BY <1>1, <1>2, <1>3, <1>4, <1>5

\* messageSent with closeNow: this connection has sent its content, for there is
\* no other that closeNow could be meant for.
LEMMA ContentSentStep ==
    ASSUME TypeOK, DataInv, NEW d \in Data, DataSent(d), closeNow
    PROVE  DataInv'
<1>1. /\ phase[d] = "open" /\ d \in dialled /\ ~terminated
      /\ phase'[d] = "gone"
      /\ \A e \in Data : e # d =>
            /\ phase'[e] = phase[e] /\ phase[e] # "open"
            /\ carried'[e] = carried[e]
      /\ carried'[d] = IF pending[d] = Empty THEN carried[d] ELSE pending[d]
      /\ UNCHANGED <<currentPath, dialled, wanted, unlisted, listed,
                     relativePath, loggedIn, thrown, failed,
                     terminated>>
      /\ command' = NoCommand /\ ~closeNow'
  BY DataSentAlone DEF CommandNow
<1>2. \A e \in Data : phase'[e] # "open"
  BY <1>1
<1>3. DialledFirst' /\ CommandInv' /\ ContentInv' /\ CloseNowHasItsConnection'
  BY <1>1, <1>2 DEF DialledFirst, CommandInv, ContentInv,
                    CloseNowHasItsConnection
<1>4. OneAtATime'
  BY <1>1, Types DEF DataInv, OneAtATime, Finished
<1>5. ListedInv' /\ EndInv'
  BY <1>1 DEF DataInv, ListedInv, EndInv
<1>6. pending[d] # Empty => /\ loggedIn /\ IsFor(d)
                            /\ pending[d] = <<command, currentPath>>
  BY <1>1 DEF DataInv, ContentInv, LoginInv
<1>7. LoginInv'
  BY <1>1, <1>6 DEF DataInv, LoginInv, LoginFirst
<1>8. failed = {} => pending[d] # Empty
  <2>1. command # "empty"
    BY Types DEF Transfers, NoCommand
  <2>2. <<command, currentPath>> # Empty
    BY <2>1 DEF Empty
  <2>. QED  BY <1>1, <2>2 DEF DataInv, CloseNowHasItsConnection
<1>9. CarriesWhatWasAsked'
  <2>1. CASE pending[d] # Empty
    <3>1. /\ wanted[d][1] = command
          /\ d \notin unlisted => wanted[d] = <<command, currentPath>>
      BY <1>6, <2>1 DEF IsFor
    <3>2. command # "none"
      BY Types DEF Transfers, NoCommand
    <3>3. /\ carried'[d] = <<command, currentPath>> /\ carried'[d] # Nothing
          /\ carried'[d][1] = command
      BY <1>1, <1>6, <2>1, <3>2 DEF Nothing
    <3>. QED  BY <1>1, <3>1, <3>3
                 DEF DataInv, CarriesWhatWasAsked, AskedFor, Finished
  <2>2. CASE pending[d] = Empty
    BY <1>1, <1>8, <2>2 DEF DataInv, CarriesWhatWasAsked, AskedFor, Finished
  <2>. QED  BY <2>1, <2>2
<1>. QED  BY <1>3, <1>4, <1>5, <1>7, <1>9 DEF DataInv

\* messageSent without closeNow: the content of the command, if there is one,
\* becomes the next message of the connection it was given for.
LEMMA ContentWrittenStep ==
    ASSUME TypeOK, DataInv, NEW d \in Data, DataSent(d), ~closeNow
    PROVE  DataInv'
<1>1. /\ phase[d] = "open" /\ d \in dialled /\ ~terminated
      /\ phase'[d] = "open"
      /\ pending'[d] = IF command = NoCommand THEN Empty
                       ELSE <<command, currentPath>>
      /\ \A e \in Data : e # d =>
            /\ phase'[e] = phase[e] /\ pending'[e] = pending[e]
            /\ carried'[e] = carried[e] /\ phase[e] # "open"
      /\ carried'[d] = IF pending[d] = Empty THEN carried[d] ELSE pending[d]
      /\ UNCHANGED <<currentPath, dialled, wanted, unlisted, listed,
                     relativePath, loggedIn, thrown, failed,
                     terminated>>
      /\ command' = command /\ closeNow' = (command # NoCommand)
  BY DataSentAlone DEF CommandNow
<1>2. pending[d] = Empty
  BY <1>1 DEF DataInv, ContentInv
<1>3. \A e \in Data : phase'[e] = phase[e] /\ carried'[e] = carried[e]
  BY <1>1, <1>2
<1>4. DialledFirst' /\ OneAtATime' /\ ListedInv' /\ EndInv'
  BY <1>1, <1>3, Types DEF DataInv, DialledFirst, OneAtATime, Finished,
                           ListedInv, EndInv
<1>5. LoginInv' /\ CarriesWhatWasAsked'
  BY <1>1, <1>3 DEF DataInv, LoginInv, LoginFirst, CarriesWhatWasAsked,
                    AskedFor, Finished
<1>6. CommandInv'
  BY <1>1 DEF CommandInv
<1>7. command # NoCommand => IsFor(d)
  BY <1>1, TheOnlyOne DEF DataInv, CommandInv
<1>8. ContentInv'
  <2>. SUFFICES ASSUME NEW e \in Data, phase'[e] = "open", pending'[e] # Empty
                PROVE  /\ closeNow' /\ command' # NoCommand
                       /\ pending'[e] = <<command', currentPath'>>
                       /\ IsFor(e)'
    BY DEF ContentInv
  <2>1. e = d
    BY <1>1
  <2>2. command # NoCommand
    BY <1>1, <2>1
  <2>3. IsFor(d)'
    BY <1>1, <1>7, <2>2 DEF IsFor
  <2>. QED  BY <1>1, <2>1, <2>2, <2>3
<1>9. CloseNowHasItsConnection'
  BY <1>1 DEF CloseNowHasItsConnection
<1>. QED  BY <1>4, <1>5, <1>6, <1>8, <1>9 DEF DataInv

\* send() fails: from here on closeNow may be set for nobody.
LEMMA DataFailedStep ==
    ASSUME TypeOK, DataInv, NEW d \in Data, DataFailed(d)
    PROVE  DataInv'
<1>1. /\ phase[d] = "open" /\ pending[d] # Empty
      /\ phase' = [phase EXCEPT ![d] = "gone"]
      /\ failed' = failed \cup {d}
      /\ UNCHANGED <<pending, command, currentPath, closeNow, dialled, wanted,
                     unlisted, listed, relativePath, loggedIn, carried, thrown,
                     terminated>>
  BY DEF DataFailed, Ended, LeaveOpen, state, handler, client, asked
<1>2. phase'[d] = "gone" /\ \A e \in Data : e # d => phase'[e] = phase[e]
  BY <1>1, Types DEF Phase, Ids
<1>3. closeNow /\ ~terminated
  BY <1>1 DEF DataInv, ContentInv, EndInv
<1>4. DialledFirst' /\ OneAtATime' /\ CommandInv'
  BY <1>1, <1>2, <1>3, Types DEF DataInv, DialledFirst, OneAtATime, Finished,
                                 CommandInv
<1>5. ContentInv'
  BY <1>1, <1>2 DEF DataInv, ContentInv, IsFor
<1>6. ListedInv' /\ EndInv' /\ LoginInv'
  BY <1>1, <1>3 DEF DataInv, ListedInv, EndInv, LoginInv, LoginFirst
<1>7. CarriesWhatWasAsked' /\ CloseNowHasItsConnection'
  BY <1>1 DEF DataInv, CarriesWhatWasAsked, AskedFor, CloseNowHasItsConnection
<1>. QED  BY <1>4, <1>5, <1>6, <1>7 DEF DataInv

\* The exception: what the server was about to send is what this connection,
\* the only one that has not finished, was asked for.
LEMMA TerminatedStep ==
    ASSUME TypeOK, DataInv, NEW d \in Data, Terminated(d)
    PROVE  DataInv'
<1>1. /\ phase[d] = "open" /\ terminated'
      /\ phase' = [s \in DOMAIN phase |-> "gone"]
      /\ UNCHANGED <<pending, command, currentPath, closeNow, dialled, wanted,
                     unlisted, listed, relativePath, loggedIn, carried, failed>>
      /\ ~closeNow /\ command # NoCommand
      /\ thrown' = [thrown EXCEPT ![d] = <<command, currentPath>>]
  BY DEF Terminated, CommandNow, NoCommand, state, handler, client, asked
<1>2. \A s \in Ids : phase'[s] = "gone"
  BY <1>1, Types DEF Phase
<1>3. DialledFirst' /\ OneAtATime' /\ CommandInv' /\ ContentInv'
  BY <1>1, <1>2, Types DEF DialledFirst, OneAtATime, Finished, CommandInv,
                           ContentInv, Ids
<1>4. ListedInv' /\ EndInv' /\ LoginInv'
  BY <1>1, <1>2 DEF DataInv, ListedInv, EndInv, LoginInv, LoginFirst, Ids
<1>5. IsFor(d)
  <2>1. ~terminated
    BY <1>1 DEF DataInv, EndInv
  <2>2. PICK e \in dialled : ~Finished(e) /\ IsFor(e)
    BY <1>1, <2>1 DEF DataInv, CommandInv
  <2>. QED  BY <1>1, <2>2, TheOnlyOne
<1>6. AskedFor(d, <<command, currentPath>>)
  BY <1>5 DEF IsFor, AskedFor
<1>7. /\ thrown'[d] = <<command, currentPath>>
      /\ \A e \in Data : e # d => thrown'[e] = thrown[e]
  BY <1>1, Types
<1>8. CarriesWhatWasAsked'
  <2>1. AskedFor(d, <<command, currentPath>>)'
    BY <1>1, <1>6 DEF AskedFor
  <2>2. \A e \in Data : e # d /\ thrown'[e] # Nothing => AskedFor(e, thrown[e])'
    BY <1>1, <1>7 DEF DataInv, CarriesWhatWasAsked, AskedFor
  <2>3. \A e \in Data : carried'[e] # Nothing => AskedFor(e, carried[e])'
    BY <1>1 DEF DataInv, CarriesWhatWasAsked, AskedFor
  <2>4. \A e \in Data : thrown'[e] # Nothing => AskedFor(e, thrown[e])'
    BY <1>1, <1>7, <2>1, <2>2 DEF AskedFor
  <2>. QED  BY <1>1, <2>3, <2>4 DEF CarriesWhatWasAsked
<1>9. CloseNowHasItsConnection'
  BY <1>1 DEF CloseNowHasItsConnection
<1>. QED  BY <1>3, <1>4, <1>8, <1>9 DEF DataInv

-----------------------------------------------------------------------------
(***************************************************************************)
(* The types.                                                               *)
(***************************************************************************)
\* The sessions' part of TypeOK; data connections are not read from.
SessionTypes ==
    /\ phase \in Phase /\ pending \in Pending /\ last \in Pending
    /\ rd \in [Ids -> BOOLEAN] /\ wr \in [Ids -> BOOLEAN]
    /\ \A d \in Data : ~rd[d]

\* What the callbacks do to a session keeps its types, if what it writes is a
\* message; and a data connection that always writes one is not read from.
LEMMA LeaveOpenTypes ==
    ASSUME SessionTypes, NEW s \in Ids, NEW close \in BOOLEAN,
           NEW r \in BOOLEAN, NEW w \in BOOLEAN, LeaveOpen(s, close, r, w),
           s = Control \/ close \/ ~r
    PROVE  /\ phase' \in Phase
           /\ rd' \in [Ids -> BOOLEAN] /\ wr' \in [Ids -> BOOLEAN]
           /\ \A d \in Data : ~rd'[d]
BY FtpAssumption DEF LeaveOpen, SessionTypes, Phase, Ids

\* The message a callback reports is one.
LEMMA ReportedTypes ==
    ASSUME SessionTypes, NEW s \in Ids
    PROVE  Reported(s) \in Messages
BY DEF Reported, SessionTypes, Pending

\* sessionOpened.
LEMMA OpenedTypes ==
    ASSUME SessionTypes, NEW s \in Ids, NEW out \in Messages,
           Opened(s, out, FALSE), s = Control \/ out # Nothing
    PROVE  SessionTypes'
<1>1. /\ phase' \in Phase
      /\ rd' \in [Ids -> BOOLEAN] /\ wr' \in [Ids -> BOOLEAN]
      /\ \A d \in Data : ~rd'[d]
  BY LeaveOpenTypes DEF Opened
<1>2. pending' \in Pending /\ last' \in Pending
  BY DEF Opened, SessionTypes, Pending
<1>. QED  BY <1>1, <1>2 DEF SessionTypes

\* messageReceived of the control connection.
LEMMA ReceivedTypes ==
    ASSUME SessionTypes, NEW out \in Messages,
           Received(Control, out, FALSE, FALSE)
    PROVE  SessionTypes'
<1>1. Control \in Ids
  BY DEF Ids
<1>2. rd[Control] \in BOOLEAN /\ wr[Control] \in BOOLEAN
  BY <1>1 DEF SessionTypes
<1>3. LeaveOpen(Control, FALSE, rd[Control],
                wr[Control] \/ (out # Nothing /\ ~FALSE))
  BY DEF Received
<1>4. /\ phase' \in Phase
      /\ rd' \in [Ids -> BOOLEAN] /\ wr' \in [Ids -> BOOLEAN]
      /\ \A d \in Data : ~rd'[d]
  BY <1>1, <1>2, <1>3, LeaveOpenTypes
<1>5. pending' \in Pending /\ last' \in Pending
  BY <1>1, ReportedTypes DEF Received, SessionTypes, Pending
<1>. QED  BY <1>4, <1>5 DEF SessionTypes

\* messageSent.
LEMMA SentTypes ==
    ASSUME SessionTypes, NEW s \in Ids, NEW out \in Messages,
           NEW close \in BOOLEAN, Sent(s, out, close),
           s = Control \/ out # Nothing
    PROVE  SessionTypes'
<1>1. rd[s] \in BOOLEAN /\ (s # Control => ~rd[s])
  BY DEF SessionTypes, Ids
<1>2. LeaveOpen(s, close, rd[s] \/ out = Nothing, out # Nothing)
  BY DEF Sent
<1>3. /\ phase' \in Phase
      /\ rd' \in [Ids -> BOOLEAN] /\ wr' \in [Ids -> BOOLEAN]
      /\ \A d \in Data : ~rd'[d]
  BY <1>1, <1>2, LeaveOpenTypes
<1>4. pending' \in Pending /\ last' \in Pending
  BY ReportedTypes DEF Sent, SessionTypes, Pending
<1>. QED  BY <1>3, <1>4 DEF SessionTypes

\* sessionClosed.
LEMMA EndedTypes ==
    ASSUME SessionTypes, NEW s \in Ids, Ended(s)
    PROVE  SessionTypes'
<1>1. /\ phase' \in Phase
      /\ rd' \in [Ids -> BOOLEAN] /\ wr' \in [Ids -> BOOLEAN]
      /\ \A d \in Data : ~rd'[d]
  BY LeaveOpenTypes DEF Ended
<1>. QED  BY <1>1 DEF Ended, SessionTypes

\* What the server writes is a message.
LEMMA Replies ==
    /\ \A text \in {"530", "331", "230", "550", "227", "250", "425",
                    "150 226", "221", "other", "220"} :
          Reply(text) \in Messages
    /\ Nothing \in Messages /\ Empty \in Messages /\ Empty # Nothing
    /\ \A c \in Transfers, dir \in Directory : <<c, dir>> \in Messages
BY FtpAssumption DEF Reply, Messages, Nothing, Empty, Transfers

\* The rest of TypeOK: the control connection, and the data connections.
StateTypes ==
    /\ loggedIn \in BOOLEAN /\ quit \in BOOLEAN /\ pasvMode \in BOOLEAN
    /\ lastCommand \in Transfers \cup {NoCommand, "USER"}
    /\ acceptor \in {"none", "listening", "failed", "deleted"}
    /\ relativePath \in Directory /\ listed \in BOOLEAN

DataTypes ==
    /\ currentPath \in Directory
    /\ command \in Transfers \cup {NoCommand} /\ closeNow \in BOOLEAN
    /\ dialled \subseteq Data
    /\ wanted \in [Data -> Content] /\ carried \in [Data -> Content]
    /\ thrown \in [Data -> Content]
    /\ failed \subseteq dialled /\ unlisted \subseteq dialled
    /\ terminated \in BOOLEAN

\* TypeOK is these three.
LEMMA TypeParts == TypeOK <=> SessionTypes /\ StateTypes /\ DataTypes
BY DEF TypeOK, SessionsType, SessionTypes, StateTypes, DataTypes, Phase,
       Pending, Ids, Content

\* And so after a step.
LEMMA TypePartsAfter ==
    ASSUME SessionTypes', StateTypes', DataTypes'
    PROVE  TypeOK'
BY DEF TypeOK, SessionsType, SessionTypes, StateTypes, DataTypes, Phase,
       Pending, Ids, Content

\* A command that touches no data connection.
LEMMA CommandTypes ==
    ASSUME TypeOK,
           Login \/ Pasv \/ Cwd \/ Other \/ UsePasvFirst \/ Quit
    PROVE  TypeOK'
<1>1. SessionTypes /\ StateTypes /\ DataTypes
  BY TypeParts
<1>2. SessionTypes'
  <2>1. \E text \in {"530", "331", "230", "550", "227", "250", "425", "221",
                     "other"} : Receive(text)
    BY DEF Login, Pasv, Cwd, Other, UsePasvFirst, Quit
  <2>. QED  BY <1>1, <2>1, Replies, ReceivedTypes DEF Receive
<1>3. StateTypes'
  <2>1. CASE Login
    BY <1>1, <2>1 DEF Login, StateTypes, asked
  <2>2. CASE Pasv \/ Cwd \/ Other \/ UsePasvFirst \/ Quit
    BY <1>1, <2>2 DEF Pasv, Cwd, Other, UsePasvFirst, Quit, StateTypes, state,
                      asked
  <2>. QED  BY <2>1, <2>2
<1>4. DataTypes'
  <2>1. UNCHANGED <<command, currentPath, closeNow, dialled, wanted, carried,
                    thrown, failed, terminated, unlisted>>
    BY DEF Login, Pasv, Cwd, Other, UsePasvFirst, Quit, Receive, handler,
           client, asked, sent
  <2>. QED  BY <1>1, <2>1 DEF DataTypes
<1>. QED  BY <1>2, <1>3, <1>4, TypePartsAfter

\* LIST and RETR keep the types: the connection asked is a dialled one.
LEMMA TransferTypes ==
    ASSUME TypeOK, NEW c \in Transfers, Transfer(c)
    PROVE  TypeOK'
<1>1. SessionTypes /\ StateTypes /\ DataTypes
  BY TypeParts
<1>2. SessionTypes'
  BY <1>1, Replies, ReceivedTypes DEF Transfer, Receive
<1>3. StateTypes'
  BY <1>1 DEF Transfer, StateTypes
<1>4. DataTypes'
  <2>1. PICK d \in Waiting :
           /\ wanted' = [wanted EXCEPT ![d] = <<c, relativePath>>]
           /\ unlisted' = IF c = "RETR" /\ ~listed THEN unlisted \cup {d}
                                                   ELSE unlisted
    BY DEF Transfer
  <2>2. d \in dialled /\ d \in Data
    BY <1>1 DEF Waiting, DataTypes
  <2>3. wanted' \in [Data -> Content] /\ unlisted' \subseteq dialled
    BY <1>1, <2>1, <2>2 DEF DataTypes, StateTypes, Content
  <2>4. /\ command' = c /\ currentPath' \in Directory
        /\ UNCHANGED <<closeNow, dialled, carried, thrown, failed, terminated>>
    BY <1>1 DEF Transfer, PathFor, Receive, sent, DataTypes, StateTypes
  <2>. QED  BY <1>1, <2>3, <2>4 DEF DataTypes
<1>. QED  BY <1>2, <1>3, <1>4, TypePartsAfter

\* So do the other callbacks of the control connection.
LEMMA ControlTypes ==
    ASSUME TypeOK, Welcome \/ ReplySent \/ Left
    PROVE  TypeOK'
<1>1. SessionTypes /\ StateTypes /\ DataTypes /\ Control \in Ids
  BY TypeParts DEF Ids
<1>2. SessionTypes'
  <2>1. CASE Welcome
    BY <1>1, <2>1, Replies, OpenedTypes DEF Welcome
  <2>2. CASE ReplySent
    BY <1>1, <2>2, Replies, SentTypes DEF ReplySent, StateTypes
  <2>3. CASE Left
    BY <1>1, <2>3, EndedTypes DEF Left
  <2>. QED  BY <2>1, <2>2, <2>3
<1>3. StateTypes'
  BY <1>1 DEF Welcome, ReplySent, Left, StateTypes, state, history, asked
<1>4. DataTypes'
  BY <1>1 DEF Welcome, ReplySent, Left, DataTypes, handler, client, history,
              sent, asked
<1>. QED  BY <1>2, <1>3, <1>4, TypePartsAfter

\* So does a client that opens a data connection.
LEMMA DialTypes ==
    ASSUME TypeOK, NEW d \in Data, Dial(d)
    PROVE  TypeOK'
<1>1. SessionTypes /\ StateTypes /\ DataTypes
  BY TypeParts
<1>2. SessionTypes' /\ StateTypes'
  BY <1>1 DEF Dial, SessionTypes, StateTypes, sessions, state, history, asked
<1>3. DataTypes'
  BY <1>1 DEF Dial, DataTypes, handler, history, sent, asked
<1>. QED  BY <1>2, <1>3, TypePartsAfter

\* And the callbacks of the data connections: what they carried is content.
LEMMA DataTypesKept ==
    ASSUME TypeOK, DataInv, NEW d \in Data,
           DataOpened(d) \/ DataSent(d) \/ DataFailed(d) \/ Terminated(d)
    PROVE  TypeOK'
<1>1. SessionTypes /\ StateTypes /\ DataTypes /\ d \in Ids /\ d # Control
  BY TypeParts, FtpAssumption DEF Ids
<1>2. StateTypes'
  BY <1>1 DEF DataOpened, DataSent, DataFailed, Terminated, StateTypes, state,
              history, asked
<1>3. CASE DataOpened(d)
  <2>1. SessionTypes'
    BY <1>1, <1>3, Replies, OpenedTypes DEF DataOpened
  <2>2. DataTypes'
    BY <1>1, <1>3 DEF DataOpened, DataTypes, handler, client, history, sent,
                      asked
  <2>. QED  BY <1>2, <2>1, <2>2, TypePartsAfter
<1>4. CASE DataSent(d)
  <2>1. PICK out \in Messages : Sent(d, out, closeNow) /\ out # Nothing
    <3>1. CommandNow \in Transfers \cup {NoCommand}
      BY <1>1 DEF CommandNow, DataTypes
    <3>2. CommandNow # NoCommand =>
             <<CommandNow, currentPath>> \in Messages \ {Nothing}
      BY <1>1, <3>1, Replies DEF DataTypes, Nothing, Transfers
    <3>. QED  BY <1>4, <3>2, Replies DEF DataSent, MessageToWrite
  <2>2. SessionTypes'
    BY <1>1, <2>1, SentTypes DEF DataTypes
  <2>3. carried' \in [Data -> Content]
    <3>1. carried' = IF pending[d] = Empty THEN carried
                     ELSE [carried EXCEPT ![d] = pending[d]]
      BY <1>4 DEF DataSent
    <3>2. phase[d] = "open"
      BY <1>4 DEF DataSent, Sent
    <3>3. pending[d] # Empty =>
             pending[d] = <<command, currentPath>> /\ command # NoCommand
      BY <3>2 DEF DataInv, ContentInv
    <3>4. pending[d] # Empty => pending[d] \in Content
      <4>1. command \in Transfers \cup {NoCommand} /\ currentPath \in Directory
        BY <1>1 DEF DataTypes
      <4>2. command # NoCommand => <<command, currentPath>> \in Content
        BY <4>1 DEF Content
      <4>. QED  BY <3>3, <4>2
    <3>. QED  BY <1>1, <3>1, <3>4 DEF DataTypes
  <2>4. /\ command' \in Transfers \cup {NoCommand} /\ closeNow' \in BOOLEAN
        /\ UNCHANGED <<currentPath, dialled, wanted, thrown, failed, unlisted,
                       terminated>>
    BY <1>1, <1>4 DEF DataSent, CommandNow, DataTypes, client, asked
  <2>. QED  BY <1>1, <1>2, <2>2, <2>3, <2>4, TypePartsAfter DEF DataTypes
<1>5. CASE DataFailed(d)
  <2>1. SessionTypes'
    BY <1>1, <1>5, EndedTypes DEF DataFailed
  <2>2. d \in dialled
    BY <1>5 DEF DataFailed, Ended, DataInv, DialledFirst
  <2>3. DataTypes'
    BY <1>1, <1>5, <2>2 DEF DataFailed, DataTypes, handler, client, asked
  <2>. QED  BY <1>2, <2>1, <2>3, TypePartsAfter
<1>6. CASE Terminated(d)
  <2>1. SessionTypes'
    BY <1>1, <1>6 DEF Terminated, SessionTypes, Phase, Ids
  <2>2. DataTypes'
    <3>1. CommandNow \in Transfers /\ currentPath \in Directory
      BY <1>1, <1>6 DEF Terminated, CommandNow, DataTypes, NoCommand
    <3>2. thrown' = [thrown EXCEPT ![d] = <<CommandNow, currentPath>>]
      BY <1>6 DEF Terminated
    <3>3. thrown' \in [Data -> Content]
      BY <1>1, <3>1, <3>2 DEF DataTypes, Content
    <3>. QED  BY <1>1, <1>6, <3>3 DEF Terminated, DataTypes, handler, client,
                                      asked
  <2>. QED  BY <1>2, <2>1, <2>2, TypePartsAfter
<1>. QED  BY <1>3, <1>4, <1>5, <1>6

-----------------------------------------------------------------------------
(***************************************************************************)
(* The invariant, and the theorems.                                         *)
(***************************************************************************)
\* The invariant holds at the start.
LEMMA FtpInvInit == Init => FtpInv
<1>. SUFFICES ASSUME Init PROVE FtpInv
  OBVIOUS
<1>1. TypeOK
  BY FtpAssumption, Replies
     DEF Init, SessionsInit, TypeOK, SessionsType, NoCommand
<1>2. DataInv
  BY FtpAssumption
     DEF Init, SessionsInit, DataInv, DialledFirst, OneAtATime, CommandInv,
         ContentInv, ListedInv, EndInv, LoginInv, LoginFirst,
         CarriesWhatWasAsked, CloseNowHasItsConnection, Finished
<1>. QED  BY <1>1, <1>2 DEF FtpInv

\* Every step keeps it.
LEMMA FtpInvStep == FtpInv /\ [Next]_vars => FtpInv'
<1>. SUFFICES ASSUME TypeOK, DataInv, [Next]_vars PROVE TypeOK' /\ DataInv'
  BY DEF FtpInv
<1>1. CASE Login
  BY <1>1, CommandTypes, LoginStep
<1>2. CASE Pasv \/ Other \/ UsePasvFirst \/ Quit
  BY <1>2, CommandTypes, PlainStep
<1>3. CASE Cwd
  BY <1>3, CommandTypes, CwdStep
<1>4. CASE \E c \in Transfers : Transfer(c)
  BY <1>4, TransferTypes, TransferStep
<1>5. CASE Welcome \/ ReplySent \/ Left
  BY <1>5, ControlTypes, ControlStep
<1>6. CASE \E d \in Data : Dial(d)
  BY <1>6, DialTypes, DialStep
<1>7. ASSUME NEW d \in Data, DataOpened(d)
      PROVE  TypeOK' /\ DataInv'
  BY <1>7, DataTypesKept, DataOpenedStep
<1>8. ASSUME NEW d \in Data, DataSent(d)
      PROVE  TypeOK' /\ DataInv'
  BY <1>8, DataTypesKept, ContentSentStep, ContentWrittenStep
<1>9. ASSUME NEW d \in Data, DataFailed(d)
      PROVE  TypeOK' /\ DataInv'
  BY <1>9, DataTypesKept, DataFailedStep
<1>10. ASSUME NEW d \in Data, Terminated(d)
       PROVE  TypeOK' /\ DataInv'
  BY <1>10, DataTypesKept, TerminatedStep
<1>11. CASE UNCHANGED vars
  <2>1. /\ UNCHANGED <<sessions, state, handler, dialled, wanted, sent, asked,
                       terminated>>
        /\ UNCHANGED <<loggedIn, relativePath, command, currentPath, closeNow>>
        /\ UNCHANGED <<carried, thrown, failed, unlisted, listed>>
    BY <1>11 DEF vars, client, history, state, handler, sent, asked
  <2>2. SessionTypes' /\ StateTypes' /\ DataTypes'
    BY <2>1, TypeParts DEF SessionTypes, StateTypes, DataTypes, sessions, state
  <2>3. DataInv'
    BY <2>1 DEF sessions, DataInv, DialledFirst, OneAtATime, CommandInv, IsFor,
                ContentInv, ListedInv, EndInv, LoginInv, LoginFirst,
                CarriesWhatWasAsked, AskedFor, CloseNowHasItsConnection,
                Finished
  <2>. QED  BY <2>2, <2>3, TypePartsAfter
<1>. QED  BY <1>1, <1>2, <1>3, <1>4, <1>5, <1>6, <1>7, <1>8, <1>9, <1>10,
             <1>11 DEF Next, Command

\* It holds in every state.
LEMMA FtpInvariant == Spec => []FtpInv
BY FtpInvInit, FtpInvStep, PTL DEF Spec

\* Types are kept, and no data connection is ever read from.
THEOREM FtpTypesCorrect == Spec => []TypeOK
<1>1. FtpInv => TypeOK
  BY DEF FtpInv
<1>. QED  BY <1>1, FtpInvariant, PTL

\* "530 You must login": before the login nothing is sent on a data connection.
THEOREM NothingBeforeLogin == Spec => []LoginFirst
<1>1. FtpInv => LoginFirst
  BY DEF FtpInv, DataInv, LoginInv
<1>. QED  BY <1>1, FtpInvariant, PTL

\* A data connection carries what was asked for on it, though all of them share
\* one handler; and if the server ends with an exception, then over what was
\* asked for on the connection it was about to answer.
THEOREM CarriesWhatIsAsked == Spec => []CarriesWhatWasAsked
<1>1. FtpInv => CarriesWhatWasAsked
  BY DEF FtpInv, DataInv
<1>. QED  BY <1>1, FtpInvariant, PTL

\* closeNow is set for an open connection, unless a connection has failed.
THEOREM CloseNowInUse == Spec => []CloseNowHasItsConnection
<1>1. FtpInv => CloseNowHasItsConnection
  BY DEF FtpInv, DataInv
<1>. QED  BY <1>1, FtpInvariant, PTL

=============================================================================
