------------------------- MODULE BasicProtocolCodec -------------------------
(***************************************************************************)
(* The codec a service uses unless it is given another one                  *)
(* (src/nwg_basicprotocolcodec.cc).                                         *)
(***************************************************************************)
EXTENDS MessageBuffer

\* transformUp: the handler gets a copy of the session's read buffer, bytes,
\* position and limit, and the read buffer itself is not touched.
TransformUp(in) == in

\* transformDown: out is emptied, filled with what is left to read of in, and
\* flipped; in is flipped too, so that a second call finds the same bytes.
TransformDownOut(in) == Flip(Put(EmptyBuffer, Bytes(in, Remaining(in))))

TransformDownIn(in) == Flip(AfterRead(in, Remaining(in)))

=============================================================================
