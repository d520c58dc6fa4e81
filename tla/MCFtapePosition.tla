-------------------------- MODULE MCFtapePosition --------------------------
(* Drives whose skips end short of where they should, or beyond, by more   *)
(* than the driver takes for granted.                                      *)
EXTENDS FtapePosition

MCLow == -2
MCForward == {0, 3}
MCReverse == {-1, 2}
=============================================================================
