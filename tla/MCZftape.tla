------------------------------ MODULE MCZftape -------------------------------
(***************************************************************************)
(* Instances of the tape device for TLC: a tape of three data segments     *)
(* behind the volume table, of two sectors each but for bad ones.          *)
(***************************************************************************)
EXTENDS ZftFiles

MCBad == [s \in Segments |-> IF s = 4 THEN 1 ELSE 0]
MCDevices == {[read_only |-> FALSE, no_rewind |-> TRUE],
              [read_only |-> FALSE, no_rewind |-> FALSE]}
MCCalls ==
    {"FSF", "BSF", "FSR", "BSR", "FSFM", "BSFM"} \X {1}
    \cup {<<"BSF", 2>>, <<"WEOF", 1>>, <<"WEOF", 2>>, <<"SEEK", 2>>}
    \cup {"EOM", "REW", "OFFL", "LOAD", "SETPART", "RESET", "NOP"} \X {0}
MCFewCalls == {<<"WEOF", 1>>, <<"EOM", 0>>, <<"REW", 0>>, <<"BSF", 1>>, <<"BSR", 1>>}
MCErase == {<<"ERASE", 0>>}
MCNoFaults == {<<>>}
MCOneFault == {<<"hard">>, <<"ok", "hard">>, <<"ok", "ok", "hard">>, <<"ok", "ok", "ok", "hard">>}
=============================================================================
