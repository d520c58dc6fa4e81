---------------------------- MODULE MCFtapeWrite ----------------------------
(* Small tapes for the model checker.                                      *)
EXTENDS FtapeWrite, TLC

(* A segment whose first sector is bad, one without any good sector, and  *)
(* good ones: enough of them for a gap in what is written and for the     *)
(* handler to find it with a buffer to spare.                              *)
MCLongTrack == 0 .. 3
MCBadSectors == [s \in MCLongTrack |-> CASE s = 0 -> {0} [] s = 1 -> Sectors [] OTHER -> {}]

(* A shorter tape on which every segment has good sectors.                 *)
MCSegments == 0 .. 2
MCUsableTape == 0 :> {1} @@ 1 :> {0} @@ 2 :> {}
=============================================================================
