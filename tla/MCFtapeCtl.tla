------------------------------ MODULE MCFtapeCtl -----------------------------
(* Drives and cartridges for model checking the drive control. *)
EXTENDS FtapeCtl

Cartridge(id, qic_std, formatted, write_protect) ==
    [id |-> id, qic_std |-> qic_std, formatted |-> formatted,
     write_protect |-> write_protect]

A == Cartridge("a", "qic80", TRUE, FALSE)
B == Cartridge("b", "qic40", TRUE, FALSE)

Modern == {"error", "config", "rom", "vendor", "tape_status"}

(* A Mountain drive; a Colorado that is asked for its signature; one with  *)
(* the DITTO MAX extensions; a drive nobody knows that answers little.     *)
Mountain == [vendor |-> "conner", wake_up |-> "mountain", flags |-> {},
             accepts |-> {500, 1000}, default |-> 500, answers |-> Modern, bare |-> {}, fits |-> {A, B}]
Colorado == [vendor |-> "cms", wake_up |-> "colorado", flags |-> {},
             accepts |-> {500, 1000}, default |-> 500, answers |-> Modern,
             bare |-> {}, fits |-> {A, B}]
DittoMax == [vendor |-> "ditto", wake_up |-> "colorado",
             flags |-> {"ditto_max", "cant_format"}, accepts |-> {500, 1000, 4000},
             default |-> 1000, answers |-> Modern \cup {"ext_config", "loader"},
             bare |-> {}, fits |-> {A}]
Nameless == [vendor |-> "unknown", wake_up |-> "motor", flags |-> {},
             accepts |-> {}, default |-> 500, answers |-> {"error"},
             bare |-> {"select", "deselect"}, fits |-> {B}]

MCKinds == {Colorado, DittoMax, Nameless}
MCMountain == {Mountain}
=============================================================================
