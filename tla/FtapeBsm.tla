------------------------------- MODULE FtapeBsm ------------------------------
(***************************************************************************)
(* Reading the header segments (ftape-read.c) and the bad sector map they  *)
(* hold (ftape-bsm.c).                                                     *)
(*                                                                         *)
(* There are two copies of the header segment at the start of the tape;    *)
(* what is before, between and behind them is marked as deleted, as far as *)
(* it has bad sectors.  The bad sector map is an array of maps, or a list  *)
(* of sector numbers in ascending order that ends with 0, in which a       *)
(* number with the flag set stands for all the sectors of its segment.     *)
(* The place of the segment that was asked for last is remembered, and the *)
(* list is searched forwards or backwards from there.                      *)
(*                                                                         *)
(* The map is consulted by the process and, for the segments read ahead,   *)
(* by the interrupt handler, which may interrupt the process between any   *)
(* two of its steps (Overlap).                                             *)
(***************************************************************************)
EXTENDS FtapeHeader, Sequences, FiniteSets

CONSTANTS
    Boundary,       \* HEADER_SEGMENT_BOUNDARY, 68: where the search ends
    Tapes,          \* [fmt, geometry, last, bad, list, layout]: bad are the
                    \* bad sectors of every segment, list is the list of them
                    \* in the header, layout says where the copies of the
                    \* header are and whether they are "fine", "unreadable"
                    \* or "nonsense"
    LastSegment,    \* the last segment asked for
    Weak,           \* the sectors of a segment that may go bad
    Overlap,        \* TRUE: the handler interrupts a call
    MaxReads,       \* bound: how often header segments are read
    MaxPuts,        \* bound: sectors that go bad
    MaxFaults       \* bound: reads that fail for once

Sectors == 0 .. SectorsPerSegment - 1
Segments == 0 .. LastSegment
Flag == 8388608

(* An entry of the list has three bytes, of which one bit is the flag.     *)
ASSUME BsmAssumption ==
    /\ {Boundary, LastSegment, MaxReads, MaxPuts, MaxFaults} \subseteq Nat
    /\ Overlap \in BOOLEAN /\ Weak \subseteq Sectors
    /\ (LastSegment + 1) * SectorsPerSegment < Flag

(* The fields of a header are unsigned. *)
ASSUME TapesAssumption ==
    \A x \in Tapes : x.geometry \in Geometries /\ x.bad \in [Segments -> SUBSET Sectors]

(* The two copies of the header are before the boundary. *)
ASSUME LayoutAssumption ==
    \A x \in Tapes : /\ {x.layout.first, x.layout.second} \subseteq 0 .. Boundary - 1
                     /\ x.layout.first < x.layout.second
                     /\ x.layout.states \in
                            [{1, 2} -> {"fine", "unreadable", "nonsense"}]

-----------------------------------------------------------------------------
(* An entry of the list, where the list ends too *)
cvt2segment(sector) == ((sector % Flag) - 1) \div SectorsPerSegment
cvt2map(sector) == ((sector % Flag) - 1) % SectorsPerSegment
SegmentOf(list, i) == cvt2segment(list[i])
SectorNumber(segment, i) == 1 + segment * SectorsPerSegment + i

HasFlags(fmt) == fmt \in {"var", "big"}
HasList(fmt) == fmt \in {"var", "big", "1100ft"}

(* The entries of a segment *)
EntrySet(fmt, segment, map) ==
    IF HasFlags(fmt) /\ map = Sectors THEN {Flag + SectorNumber(segment, 0)}
    ELSE {SectorNumber(segment, i) : i \in map}

(* A list in ascending order, with these entries *)
Lists(fmt, list, maps) ==
    /\ list \in Seq(Nat)
    /\ \A i \in DOMAIN list : list[i] % Flag # 0
    /\ \A i, j \in DOMAIN list : i < j => list[i] % Flag < list[j] % Flag
    /\ \A s \in Segments :
          {list[i] : i \in {j \in DOMAIN list : SegmentOf(list, j) = s}}
          = EntrySet(fmt, s, maps[s])

ASSUME ListsAssumption ==
    \A x \in Tapes : HasList(x.fmt) => Lists(x.fmt, x.list, x.bad)

VARIABLES
    tape,           \* the cartridge in the drive, external
    hdr,            \* where ftape_read_header_segment() is
    used,           \* ftape->used_header_segment
    bsm,            \* bad_sector_map, bsm_hash_ptr, last_reference, map
    call,           \* where the process is in ftape_get_bad_sector_entry()
    ahead,          \* the segment the handler set up, and the map it got
    bad,            \* what the bad sector map should say
    puts, faults

vars == <<tape, hdr, used, bsm, call, ahead, bad, puts, faults>>

Extended == HasFlags(tape.fmt)
InList == HasList(tape.fmt)
IsFlagged(sector) == Extended /\ sector >= Flag

(* What is read at a segment: a usable copy, one that is unreadable or     *)
(* readable and nonsense, or the mark of deleted data                      *)
At(segment) ==
    IF segment = tape.layout.first THEN tape.layout.states[1]
    ELSE IF segment = tape.layout.second THEN tape.layout.states[2]
    ELSE IF segment < tape.layout.second THEN "deleted" ELSE "nonsense"

-----------------------------------------------------------------------------
(* The entries of a segment, in the order put_bad_sector_entry() writes    *)
(* them                                                                    *)
Ascending(S) ==
    [k \in 1 .. Cardinality(S) |-> CHOOSE n \in S : Cardinality({m \in S : m <= n}) = k]
Entries(segment, map) == Ascending(EntrySet(tape.fmt, segment, map))

(* The map that entries first .. last of the list stand for *)
Gather(list, first, last) == {cvt2map(list[i]) : i \in first .. last}
Found(ptr, map, count) == [ptr |-> ptr, map |-> map, count |-> count]

MinOf(S) == CHOOSE x \in S : \A y \in S : x <= y
MaxOf(S) == CHOOSE x \in S : \A y \in S : x >= y

(* forward_seek_entry() *)
forward_seek_entry(list, ptr, segment) ==
    LET p == MinOf({i \in ptr .. Len(list) : SegmentOf(list, i) >= segment}
                   \cup {Len(list) + 1})
        end == MaxOf({i \in p .. Len(list) : SegmentOf(list, i) = segment} \cup {p})
    IN  IF p > Len(list) \/ SegmentOf(list, p) # segment THEN Found(p, {}, 0)
        ELSE IF IsFlagged(list[p]) THEN Found(p, Sectors, SectorsPerSegment)
        ELSE Found(p, Gather(list, p, end), end - p + 1)

(* backwards_seek_entry() *)
(* Mutant: no adjustment for overshoot. *)
backwards_seek_entry_Overshoots(list, ptr, segment) ==
    LET p == MaxOf({i \in 1 .. ptr - 1 : SegmentOf(list, i) <= segment} \cup {1})
        start == MinOf({i \in 1 .. p : SegmentOf(list, i) = segment} \cup {p})
    IN  IF ptr <= 1 THEN Found(ptr, {}, 0)
        ELSE IF SegmentOf(list, p) # segment THEN Found(p, {}, 0)
        ELSE IF IsFlagged(list[p]) THEN Found(p, Sectors, SectorsPerSegment)
        ELSE Found(start, Gather(list, start, p), p - start + 1)
backwards_seek_entry(list, ptr, segment) ==
    LET p == MaxOf({i \in 1 .. ptr - 1 : SegmentOf(list, i) <= segment} \cup {1})
        start == MinOf({i \in 1 .. p : SegmentOf(list, i) = segment} \cup {p})
    IN  IF ptr <= 1 THEN Found(ptr, {}, 0)
        ELSE IF SegmentOf(list, p) > segment THEN Found(p, {}, 0)
        ELSE IF SegmentOf(list, p) < segment THEN Found(p + 1, {}, 0)
        ELSE IF IsFlagged(list[p]) THEN Found(p, Sectors, SectorsPerSegment)
        ELSE Found(start, Gather(list, start, p), p - start + 1)

(* The search of ftape_get_bad_sector_entry(): which way, once that is     *)
(* decided                                                                 *)
Way(segment) == IF segment > bsm.last THEN "forward"
                ELSE IF segment < bsm.last THEN "backward" ELSE "stay"
Sought(way, segment) ==
    CASE way = "forward" -> forward_seek_entry(bsm.list, bsm.ptr, segment)
      [] way = "backward" -> backwards_seek_entry(bsm.list, bsm.ptr, segment)
      [] way = "stay" -> Found(bsm.ptr, bsm.map, 0)

-----------------------------------------------------------------------------
(* ftape_init_bsm() and a drive without a cartridge that was read *)
Init ==
    /\ tape \in Tapes
    /\ hdr = [at |-> "idle", segment |-> 0, first_failed |-> FALSE, result |-> "none",
              reads |-> 0]
    /\ used = -1
    /\ bsm = [list |-> <<>>, array |-> <<>>, ptr |-> 0, last |-> -1, map |-> {}]
    /\ call = [at |-> "idle", segment |-> 0, way |-> "stay", got |-> {}]
    /\ ahead = [segment |-> -1, map |-> {}]
    /\ bad = tape.bad /\ puts = 0 /\ faults = 0

(* ftape_read_header_segment(), of the cartridge in the drive or of another *)
(* one that is put in.  Nothing is read ahead any more.  A drive that does *)
(* not answer, or does not stop later, ends the search.                    *)
ReadHeader ==
    /\ hdr.at = "idle" /\ call.at = "idle" /\ hdr.reads < MaxReads
    /\ \E start \in {[at |-> "search", result |-> "none", faults |-> 0],
                     [at |-> "idle", result |-> "drive", faults |-> 1]} :
        /\ start.faults <= MaxFaults /\ faults' = start.faults
        /\ hdr' = [at |-> start.at, segment |-> 0, first_failed |-> FALSE,
                   result |-> start.result, reads |-> hdr.reads + 1]
    /\ tape' \in (IF hdr.reads = 0 THEN {tape} ELSE Tapes)
    /\ used' = -1 /\ ahead' = [segment |-> -1, map |-> {}]
    /\ UNCHANGED <<bsm, call, bad, puts>>

(* The first copy that is not usable is followed by the backup. *)
(* Mutant: there is no backup. *)
TryBackup_Never(result) ==
    /\ hdr' = [hdr EXCEPT !.at = "idle", !.result = result]
    /\ UNCHANGED <<used, bsm, bad>>
TryBackup(result) ==
    /\ hdr' = IF hdr.first_failed THEN [hdr EXCEPT !.at = "idle", !.result = result]
              ELSE [hdr EXCEPT !.first_failed = TRUE, !.result = result,
                               !.segment = hdr.segment + 1]
    /\ UNCHANGED <<used, bsm, bad>>

(* ftape_extract_bad_sector_map(): last_reference and map stay. *)
ftape_extract_bad_sector_map ==
    /\ bad' = tape.bad
    /\ bsm' = IF InList THEN [bsm EXCEPT !.list = tape.list, !.ptr = 1]
              ELSE [bsm EXCEPT !.array = tape.bad, !.ptr = 0]

TryHeader ==
    /\ hdr.at = "search" /\ UNCHANGED <<tape, call, ahead, puts>>
    /\ LET fine == At(hdr.segment) = "fine" /\
                   Consistent(Decoded(tape.fmt, tape.geometry, tape.last)) IN
       \/ /\ hdr.segment = Boundary
          /\ hdr' = [hdr EXCEPT !.at = "idle"] /\ UNCHANGED <<used, bsm, bad, faults>>
       \/ /\ hdr.segment < Boundary /\ At(hdr.segment) = "deleted"
          /\ hdr' = [hdr EXCEPT !.segment = @ + 1, !.result = "ok"]
          /\ UNCHANGED <<used, bsm, bad, faults>>
       \/ /\ hdr.segment < Boundary /\ At(hdr.segment) # "deleted"
          /\ \/ /\ ~fine /\ TryBackup("eio") /\ UNCHANGED faults
             \/ /\ fine /\ faults < MaxFaults /\ faults' = faults + 1 /\ TryBackup("eio")
             \/ /\ At(hdr.segment) # "unreadable" /\ faults < MaxFaults
                /\ faults' = faults + 1 /\ UNCHANGED <<used, bsm, bad>>
                /\ hdr' = [hdr EXCEPT !.at = "idle", !.result = "drive"]
             \/ /\ fine /\ UNCHANGED faults
                /\ hdr' = [hdr EXCEPT !.at = "decoded", !.result = "ok"]
                /\ used' = hdr.segment /\ ftape_extract_bad_sector_map
Decode ==
    /\ hdr.at = "decoded" /\ hdr' = [hdr EXCEPT !.at = "idle"]
    /\ UNCHANGED <<tape, used, bsm, call, ahead, bad, puts, faults>>

-----------------------------------------------------------------------------
Ready == hdr.at = "idle" /\ used # -1
Asked(way, segment) == [call EXCEPT !.at = "asked", !.segment = segment, !.way = way]
Answered(segment, map) == [at |-> "answered", segment |-> segment, way |-> "stay", got |-> map]

(* ftape_get_bad_sector_entry(): compare, search, remember *)
Get(segment) ==
    /\ Ready /\ call.at = "idle"
    /\ call' = IF InList THEN Asked(Way(segment), segment)
               ELSE Answered(segment, bsm.array[segment])
    /\ UNCHANGED <<tape, hdr, used, bsm, ahead, bad, puts, faults>>
Search ==
    /\ call.at = "asked" /\ call' = [call EXCEPT !.at = "sought"]
    /\ LET f == Sought(call.way, call.segment)
       IN  bsm' = [bsm EXCEPT !.ptr = f.ptr, !.map = f.map]
    /\ UNCHANGED <<tape, hdr, used, ahead, bad, puts, faults>>
Remember ==
    /\ call.at = "sought" /\ call' = Answered(call.segment, bsm.map)
    /\ bsm' = [bsm EXCEPT !.last = call.segment]
    /\ UNCHANGED <<tape, hdr, used, ahead, bad, puts, faults>>
Return ==
    /\ call.at = "answered" /\ call' = [call EXCEPT !.at = "idle", !.got = {}]
    /\ UNCHANGED <<tape, hdr, used, bsm, ahead, bad, puts, faults>>

(* The process sets up the first segment it reads, before the handler      *)
(* runs; the handler sets up the segments that follow (get_next_buffer()   *)
(* in fdc-isr.c).                                                          *)
SetUp(segment) ==
    /\ LET f == Sought(Way(segment), segment) IN
       IF InList
       THEN /\ ahead' = [segment |-> segment, map |-> f.map]
            /\ bsm' = [bsm EXCEPT !.ptr = f.ptr, !.map = f.map, !.last = segment]
       ELSE ahead' = [segment |-> segment, map |-> bsm.array[segment]] /\ UNCHANGED bsm
    /\ UNCHANGED <<tape, hdr, used, call, bad, puts, faults>>

StartReading(segment) ==
    Ready /\ call.at = "idle" /\ ahead.segment = -1 /\ SetUp(segment)
HandlerSetsUp ==
    /\ Ready /\ ahead.segment \in 0 .. LastSegment - 1
    /\ Overlap \/ call.at \in {"idle", "answered"}
    /\ SetUp(ahead.segment + 1)

(* ftape_put_bad_sector_entry(): a sector went bad (hard error recovery);  *)
(* the tape does not run.                                                  *)
(* Mutant: the place remembered is not corrected. *)
Remembered_Stale(segment, map, ptr) ==
    [bsm EXCEPT !.last = segment, !.map = map]
Remembered(segment, map, ptr) ==
    [bsm EXCEPT !.last = segment, !.map = map, !.ptr = ptr]

(* The entries of a segment, count of them at ptr, make way for others. *)
Replaced(list, ptr, count, entries) ==
    SubSeq(list, 1, ptr - 1) \o entries \o SubSeq(list, ptr + count, Len(list))

Put(segment, sector) ==
    /\ Ready /\ call.at = "idle" /\ puts < MaxPuts
    /\ sector \notin bad[segment]
    /\ LET map == bad[segment] \cup {sector}
           f == forward_seek_entry(bsm.list, 1, segment)
           count == IF Extended /\ f.count = SectorsPerSegment THEN 1 ELSE f.count
           list == Replaced(bsm.list, f.ptr, count, Entries(segment, map))
       IN  /\ bad' = [bad EXCEPT ![segment] = map]
           /\ bsm' = IF InList
                     THEN [Remembered(segment, map, f.ptr) EXCEPT !.list = list]
                     ELSE [bsm EXCEPT !.last = segment, !.map = map,
                                      !.array = [@ EXCEPT ![segment] = map]]
    /\ puts' = puts + 1 /\ ahead' = [segment |-> -1, map |-> {}]
    /\ UNCHANGED <<tape, hdr, used, call, faults>>

Next ==
    \/ ReadHeader \/ TryHeader \/ Decode \/ Search \/ Remember \/ Return \/ HandlerSetsUp
    \/ \E s \in Segments : \/ Get(s) \/ StartReading(s)
                           \/ \E i \in Weak : Put(s, i)

Spec == Init /\ [][Next]_vars

-----------------------------------------------------------------------------
(* The state has the right shape: the place remembered is in the list. *)
BsmTypeOK ==
    /\ used \in -1 .. Boundary - 1
    /\ bsm.ptr \in 0 .. Len(bsm.list) + 1 /\ bsm.last \in -1 .. LastSegment
    /\ bsm.map \subseteq Sectors /\ call.got \subseteq Sectors
    /\ faults \in 0 .. MaxFaults /\ puts \in 0 .. MaxPuts

(* What the process or the handler is told about a segment is the bad      *)
(* sectors of that segment, in whatever order they ask and whatever went   *)
(* bad since.                                                              *)
MapsAreExact ==
    /\ call.at = "answered" => call.got = bad[call.segment]
    /\ ahead.segment # -1 => ahead.map = bad[ahead.segment]

(* The invariants stated in ftape_get_bad_sector_entry(): the place        *)
(* remembered is the first entry not before the segment asked for last,    *)
(* and the map remembered belongs to it.                                   *)
PlaceIsRight ==
    Ready /\ call.at = "idle" /\ InList =>
        /\ bsm.ptr = 1 + Cardinality({i \in DOMAIN bsm.list :
                                        SegmentOf(bsm.list, i) < bsm.last})
        /\ bsm.map = IF bsm.last = -1 THEN {} ELSE bad[bsm.last]

(* One usable copy of the header segment is enough, unless reading it      *)
(* fails as well or the drive does not obey, and when the search succeeds  *)
(* a header was decoded.                                                   *)
UsableCopies == {i \in {1, 2} : tape.layout.states[i] = "fine"}
OneCopyIsEnough ==
    hdr.at = "idle" /\ hdr.reads > 0 =>
        /\ hdr.result = "ok" => used # -1
        /\ Consistent(Decoded(tape.fmt, tape.geometry, tape.last))
           /\ Cardinality(UsableCopies) > faults => hdr.result \in {"ok", "drive"}

(* Every segment of a tape whose header was accepted can be addressed, and *)
(* its address tells it from the others (see AddressesFit).                *)
SegmentsHaveAddresses ==
    hdr.at = "decoded" => AddressesFit(Decoded(tape.fmt, tape.geometry, tape.last))
=============================================================================
