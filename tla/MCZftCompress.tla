---------------------------- MODULE MCZftCompress ----------------------------
(* Small compressed files for the model checker: five blocks of any of     *)
(* three sizes, segments all good or some with a bad sector, and none or   *)
(* one of them that cannot be read.                                        *)
EXTENDS ZftCompress

MCSizes == [1 .. 5 -> {1, 3, 8}]
MCKilos == {<<3>>, <<3, 2>>}
MCLost == {{}, {1}, {2}, {3}}
=============================================================================
