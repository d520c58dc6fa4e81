------------------------------ MODULE TapeFiles ------------------------------
(***************************************************************************)
(* What the tape device promises its callers.  The tape holds files, one   *)
(* behind the other, of which only the last can be written.  saved is what *)
(* the cartridge holds by itself: all that is left after a crash.          *)
(*                                                                         *)
(* A file is the sequence of the sectors <<file, number>> that its writer  *)
(* handed over.  A tape that is written anew from its begin has its old    *)
(* files overwritten before the volume table says so: anew is set between. *)
(***************************************************************************)
EXTENDS Integers, Sequences, SequencesExt

VARIABLES
    files,      \* the files that a caller can read
    open,       \* the last one is being written
    saved,      \* the files by the cartridge's own tables
    anew,       \* the cartridge's tables do not say yet that it is rewritten
    mounted     \* the driver holds the tables in memory

vars == <<files, open, saved, anew, mounted>>

(* All that was written for one file, in order. *)
InOrder(f) == \A k \in DOMAIN f : f[k] = <<f[1][1], k>>

Marks(n) == [i \in 1 .. n |-> <<>>]

(* The cartridge is left alone, but for what a rewritten tape overwrites. *)
NotSaved == (anew' \/ saved' = saved) /\ anew' = anew
SavedNow == saved' = files' /\ ~anew'

Init == files = <<>> /\ saved = <<>> /\ ~open /\ ~anew /\ ~mounted

(* The driver learns which files there are. *)
Mount == ~mounted /\ mounted' /\ UNCHANGED <<files, open, saved, anew>>

(* A new last file, or the first of a tape that is written anew. *)
Create ==
    /\ ~open /\ open' /\ mounted'
    /\ files' # <<>> /\ InOrder(Last(files'))
    /\ \/ Front(files') = files /\ NotSaved
       \/ Front(files') = <<>> /\ anew'

(* More for the last file. *)
Extend ==
    /\ open /\ open' /\ mounted'
    /\ Len(files') = Len(files) /\ Front(files') = Front(files)
    /\ IsPrefix(Last(files), Last(files')) /\ InOrder(Last(files'))
    /\ NotSaved

(* The last file ends, file marks are written behind it, or the tables are *)
(* saved.                                                                  *)
Finish ==
    /\ ~open' /\ mounted'
    /\ \/ \E n \in 0 .. Len(files') : files' = files \o Marks(n) /\ (NotSaved \/ SavedNow)
       \/ \E n \in 1 .. Len(files') : files' = Marks(n) /\ anew'

(* The driver forgets the tables: what was not saved is lost. *)
Unmount ==
    /\ mounted /\ ~mounted' /\ ~open' /\ ~anew'
    /\ files' = saved' /\ (anew \/ saved' \in {saved, files})

Next == Mount \/ Create \/ Extend \/ Finish \/ Unmount

Spec == Init /\ [][Next]_vars
=============================================================================
