--------------------------- MODULE MessageBuffer ---------------------------
(***************************************************************************)
(* The byte buffer every other part of the library hands around             *)
(* (src/nwg_messagebuffer.cc).  A buffer is a vector of bytes, a position   *)
(* where the next put or read happens, and a limit.  Positions count from   *)
(* 0 as in the code, sequence indices from 1, so the byte at position p is  *)
(* bs[p + 1].  The overloads of put and read that differ only in the type   *)
(* they convert (int, float, string) are one operator here; so are          *)
(* readUntil and sreadUntil.                                                *)
(***************************************************************************)
EXTENDS Integers, Sequences

Buffer == [bs : Seq(Nat), position : Nat, limit : Nat]

\* Every read and put happens inside the vector.
InBounds(b) == b.position <= Len(b.bs) /\ b.limit <= Len(b.bs)

At(b, p, l) == [bs |-> b.bs, position |-> p, limit |-> l]

EmptyBuffer == [bs |-> <<>>, position |-> 0, limit |-> 0]

\* put: the bytes are INSERTED at the position; what was there moves back.
PutAtEnd(b, s) ==
    [bs |-> b.bs \o s, position |-> b.position + Len(s), limit |-> b.limit]
Put(b, s) ==
    [bs       |-> SubSeq(b.bs, 1, b.position) \o s
                  \o SubSeq(b.bs, b.position + 1, Len(b.bs)),
     position |-> b.position + Len(s),
     limit    |-> b.limit]

Flip(b) == At(b, 0, b.position)

NoJump(b, n) == b
Jump(b, n) == At(b, n, b.limit)

Remaining(b) == b.limit - b.position

\* read(n): the bytes it returns, and the buffer it leaves behind.
Bytes(b, n) == SubSeq(b.bs, b.position + 1, b.position + n)

AfterReadOneTooMany(b, n) == At(b, b.position + n + 1, b.limit)
AfterRead(b, n) == At(b, b.position + n, b.limit)

\* readUntil(mark): it stops at the first mark, or at the limit, and what it
\* returns ends before the byte it stops at, whether or not that is the mark.
StopsAt(b, mark) ==
    CHOOSE p \in (b.position + 1)..Len(b.bs) :
       /\ b.bs[p] = mark \/ p >= b.limit
       /\ \A q \in (b.position + 1)..(p - 1) : b.bs[q] # mark /\ q < b.limit

BytesUntil(b, mark) == SubSeq(b.bs, b.position + 1, StopsAt(b, mark) - 1)

AfterPeek(b, mark) == b
AfterReadUntil(b, mark) == At(b, StopsAt(b, mark), b.limit)

=============================================================================
