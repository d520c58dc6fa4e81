----------------------------- MODULE MCFdcSync -----------------------------
(* Three cylinders: home, and two a command can step to.                   *)
EXTENDS FdcSync

MCCylinders == 0 .. 2
=============================================================================
