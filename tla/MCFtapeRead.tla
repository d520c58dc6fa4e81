---------------------------- MODULE MCFtapeRead ----------------------------
(* Small tapes for the model checker.                                      *)
EXTENDS FtapeRead, TLC

(* A segment with a bad sector in the middle, one without any good sector, *)
(* and a good one.                                                         *)
MCSegments == 0 .. 2
MCBadSectors == 0 :> {1} @@ 1 :> Sectors @@ 2 :> {}
=============================================================================
