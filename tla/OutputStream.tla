--------------------------- MODULE OutputStream ---------------------------
(***************************************************************************)
(* What session.write() promises an application whose peer waits for the    *)
(* response before it sends again: messages go out one at a time, whole, in *)
(* the order they were written, and each is reported once, after its last   *)
(* byte was accepted.  Message m consists of the bytes numbered from        *)
(* ends[m - 1] + 1 to ends[m].                                              *)
(***************************************************************************)
EXTENDS Naturals, Sequences

VARIABLES ends, wire, reported

streamVars == <<ends, wire, reported>>

Written == IF ends = <<>> THEN 0 ELSE ends[Len(ends)]

NothingOutstanding == Len(reported) = Len(ends)

\* The application writes a message, of no bytes or more.
NewMessage ==
    /\ Len(ends') = Len(ends) + 1
    /\ SubSeq(ends', 1, Len(ends)) = ends
    /\ ends'[Len(ends')] >= Written

Write ==
    /\ NothingOutstanding
    /\ NewMessage
    /\ UNCHANGED <<wire, reported>>

\* The next bytes of the outstanding message are accepted.
Transmit ==
    /\ Len(wire) < Written
    /\ \E k \in 1..(Written - Len(wire)) :
          wire' = wire \o [i \in 1..k |-> Len(wire) + i]
    /\ UNCHANGED <<ends, reported>>

\* The outstanding message is reported, and the application may write another.
Report ==
    /\ ~NothingOutstanding
    /\ Len(wire) = Written
    /\ reported' = Append(reported, Len(ends))
    /\ \/ UNCHANGED ends
       \/ NewMessage
    /\ UNCHANGED wire

Init == ends = <<>> /\ wire = <<>> /\ reported = <<>>

Next == Write \/ Transmit \/ Report

Spec == Init /\ [][Next]_streamVars

=============================================================================
