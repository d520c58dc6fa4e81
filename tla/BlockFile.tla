------------------------------ MODULE BlockFile ------------------------------
(***************************************************************************)
(* What a reader of a compressed file relies on: a sequence of blocks that *)
(* are read in order from a position that seeks choose.                    *)
(***************************************************************************)
EXTENDS Integers, Sequences

VARIABLES
    n,          \* the number of blocks
    hurt,       \* the tape cannot be read everywhere, or a signal comes
    at,         \* the number of blocks before the position
    got,        \* the blocks the last read returned
    seeking     \* the block that a seek is on its way to, or 0

vars == <<n, hurt, at, got, seeking>>

Init == at = 0 /\ got = <<>> /\ seeking = 0

Rewind == seeking = 0 /\ at' = 0 /\ got' = <<>> /\ UNCHANGED <<n, hurt, seeking>>

(* The next blocks, at least one unless the file is at its end. *)
Read ==
    /\ seeking = 0
    /\ at' \in at .. n /\ (at' > at \/ at = n)
    /\ got' = [k \in 1 .. at' - at |-> at + k]
    /\ UNCHANGED <<n, hurt, seeking>>

(* A read at the end of the file goes on to the next file. *)
Leave == seeking = 0 /\ at = n /\ at' = n + 1 /\ got' = <<>> /\ UNCHANGED <<n, hurt, seeking>>

(* A seek, on the way to its block. *)
Seek == seeking = 0 /\ seeking' \in 1 .. n /\ got' = <<>> /\ UNCHANGED <<n, hurt>>
Search == seeking # 0 /\ UNCHANGED <<n, hurt, got, seeking>>
Arrive == seeking # 0 /\ at' = seeking /\ seeking' = 0 /\ UNCHANGED <<n, hurt, got>>

(* Only on a tape that is hurt may a call fail: at is where it got to. *)
Fail == hurt /\ at' \in 0 .. n /\ got' = <<>> /\ seeking' = 0 /\ UNCHANGED <<n, hurt>>

Next == Rewind \/ Read \/ Leave \/ Seek \/ Search \/ Arrive \/ Fail

(* Nobody seeks for ever. *)
SeeksEnd == (seeking # 0) ~> (seeking = 0)

Spec == Init /\ [][Next]_vars /\ SeeksEnd
=============================================================================
