--------------------------- MODULE MCHttpServers ---------------------------
(***************************************************************************)
(* Requests for model checking HttpServers: a first line that matches the   *)
(* third server's pattern or does not, with or without a \r, then the line   *)
(* of a header.  13 is CR, 10 is LF.                                        *)
(***************************************************************************)
EXTENDS HttpServers

SomeLines == {<<1, 2>>}
SomeRequests ==
    {line \o end \o <<3, 10>> :
        line \in {<<1, 2>>, <<1, 3>>}, end \in {<<13, 10>>, <<10>>}}

=============================================================================
