--------------------------- MODULE MCFtapeFormat ---------------------------
(* Tracks that fit into one buffer, into the ring, and that go round it    *)
(* with a last buffer that is full or not.                                 *)
EXTENDS FtapeFormat

MCLengths == {1, 6, 8, 11}
=============================================================================
