-------------------------------- MODULE ZftRw --------------------------------
(***************************************************************************)
(* Positions and sizes of the zftape layer (zftape-rw.c, zftape-inline.h). *)
(*                                                                         *)
(* The state of the layer is one record z, as struct zftape_info is in the *)
(* code.  A C function that changes it is an operator from records to      *)
(* records that leaves its result in z.res; the actions are in ZftCtl.     *)
(* Lengths are counted in sectors, which are also the blocks of the tape.  *)
(* A sector of data is the pair of the volume it was written for and its   *)
(* number in what the caller wrote.                                        *)
(***************************************************************************)
EXTENDS Integers, Sequences, FiniteSets, SequencesExt, FiniteSetsExt

CONSTANTS
    LastSegment,    \* ftape->last_data_segment
    Sectors,        \* data sectors of a segment without bad ones (29)
    BadSectors,     \* segment -> number of its bad sectors at first
    CacheReach,     \* how far the cached tape position is moved (10)
    MaxVolumes      \* ZFT_MAX_VOLUMES

FirstSegment == 2                   \* ftape->first_data_segment
Segments == FirstSegment .. LastSegment + 1

ASSUME TapeAssumption ==
    /\ LastSegment \in Nat /\ LastSegment > FirstSegment
    /\ Sectors \in Nat \ {0}
    /\ BadSectors \in [Segments -> 0 .. Sectors]
    /\ CacheReach \in Nat
    /\ MaxVolumes \in Nat \ {0}

Pad == <<0, 0>>                     \* a sector of zeroes

(* TRACE_CATCH: go on only if what was called before was successful. *)
Then(z, Op(_)) == IF z.res = "ok" THEN Op(z) ELSE z

Result(z, r) == [z EXCEPT !.res = r]

-----------------------------------------------------------------------------
(* zft_get_seg_sz(): the data sectors of a segment that are not bad. *)
zft_get_seg_sz(z, s) == Sectors - z.bad[s]

(* The sectors of the segments from a to b. *)
SizeOf(z, a, b) ==
    Cardinality({u \in (a .. b) \X (1 .. Sectors) : u[2] <= zft_get_seg_sz(z, u[1])})

(* zft_get_capacity(): recomputed, which also resets the cached position. *)
zft_get_capacity(z) ==
    LET size == SizeOf(z, FirstSegment, LastSegment)
    IN  [z EXCEPT !.capacity = size,
                  !.cache = [seg_pos |-> LastSegment + 1, tape_pos |-> size]]

(* The cached position, moved to segment s: from where it is, or from the  *)
(* begin or the end of the tape when these are nearer.                     *)
CachedPos(z, s) ==
    LET c == z.cache
        first == [seg_pos |-> FirstSegment, tape_pos |-> 0]
        last == [seg_pos |-> LastSegment + 1, tape_pos |-> z.capacity]
        back == c.seg_pos - s
        b == IF back > CacheReach /\ back > s - FirstSegment THEN first ELSE c
        ahead == s - b.seg_pos
        e == IF ahead > CacheReach /\ ahead > LastSegment - s THEN last ELSE b
    IN  [seg_pos |-> s,
         tape_pos |-> e.tape_pos + SizeOf(z, e.seg_pos, s - 1)
                                 - SizeOf(z, s, e.seg_pos - 1)]

OnTape(s) == s \in FirstSegment .. LastSegment

(* zft_calc_tape_pos(): its value, and what it leaves in the cache. *)
TapePos(z, s) ==
    IF s > LastSegment THEN z.capacity
    ELSE IF s < FirstSegment THEN 0 ELSE CachedPos(z, s).tape_pos

MoveCache(z, s) == IF OnTape(s) THEN [z EXCEPT !.cache = CachedPos(z, s)] ELSE z

(* The position at the begin of segment s, as the code sets it. *)
PositionAt(z, s) ==
    [MoveCache(z, s) EXCEPT
        !.pos = [seg_pos |-> s, seg_byte_pos |-> 0, volume_pos |-> 0,
                 tape_pos |-> TapePos(z, s)]]

(* zft_calc_seg_byte_coord(): the segment, and the offset in it, of a tape *)
(* position.                                                               *)
SegByteCoord(z, p) ==
    LET past(t) == SizeOf(z, FirstSegment, t)
        reaching == {t \in FirstSegment .. LastSegment : past(t) >= p}
        s == Min(reaching)
    IN  IF p = 0 THEN [seg_pos |-> FirstSegment, seg_byte_pos |-> 0]
        ELSE IF reaching = {} THEN [seg_pos |-> LastSegment + 1, seg_byte_pos |-> 0]
        ELSE IF past(s) = p THEN [seg_pos |-> s + 1, seg_byte_pos |-> 0]
        ELSE [seg_pos |-> s, seg_byte_pos |-> p - past(s - 1)]

-----------------------------------------------------------------------------
(* Volumes.  The list of the code has a dummy at either end. *)
HeadVolume == [start_seg |-> 0, end_seg |-> FirstSegment, size |-> 0,
               open |-> FALSE, new_volume |-> FALSE, gen |-> 0]
Eom(z) == [start_seg |-> z.eom_start, end_seg |-> LastSegment + 1, size |-> 0,
           open |-> FALSE, new_volume |-> FALSE, gen |-> 0]
Volume(z, i) == IF i = 0 THEN HeadVolume
                ELSE IF i > Len(z.vtbl) THEN Eom(z) ELSE z.vtbl[i]
FirstVolume(z) == Volume(z, 1)
LastVolume(z) == Volume(z, Len(z.vtbl))

(* zft_volume_by_segpos(): the number of the volume that holds segment s. *)
zft_volume_by_segpos(z, s) ==
    IF s < FirstVolume(z).start_seg THEN 1
    ELSE Min({i \in 1 .. Len(z.vtbl) : s <= z.vtbl[i].end_seg} \cup {Len(z.vtbl) + 1})

(* zft_tape_at_lbot(): at the logical begin of the tape. *)
zft_tape_at_lbot(z) ==
    \/ ~z.header_read
    \/ ~z.vtbl_read
    \/ z.pos.seg_pos <= FirstVolume(z).start_seg /\ z.pos.volume_pos = 0

(* zft_tape_at_eod(): behind all data, or still writing it. *)
zft_tape_at_eod(z) == z.pos.seg_pos >= z.eom_start \/ LastVolume(z).open

(* Mutant: the begin of the next volume will do.                           *)
zft_position_before_eof_Stay(z, v) == z

(* zft_position_before_eof(): not at the begin of the next volume, but at  *)
(* the end of this one.                                                    *)
zft_position_before_eof(z, v) ==
    IF z.pos.seg_pos = v.end_seg + 1 /\ z.pos.seg_byte_pos = 0
    THEN [z EXCEPT !.pos.seg_pos = @ - 1,
                   !.pos.seg_byte_pos = zft_get_seg_sz(z, z.pos.seg_pos - 1)]
    ELSE z

(* zft_release_deblock_buffer() with zft_zap_read_buffers(). *)
zft_release_deblock_buffer(z) ==
    [z EXCEPT !.buf_len_rd = 0, !.deblock_segment = -1, !.deblock = <<>>]

(* zft_reset_position(): to the first volume, once the table is known. *)
(* Nothing that was not flushed is kept.                               *)
zft_reset_position(z) ==
    LET there == IF z.vtbl_read THEN PositionAt(z, FirstVolume(z).start_seg)
                 ELSE [z EXCEPT !.pos = [seg_pos |-> -1, seg_byte_pos |-> 0,
                                         volume_pos |-> 0, tape_pos |-> 0]]
    IN  [zft_release_deblock_buffer(there) EXCEPT
            !.just_before_eof = FALSE, !.io_state = "idle",
            !.hard_errors = <<>>, !.need_flush = FALSE]
=============================================================================
