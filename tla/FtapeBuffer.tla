---------------------------- MODULE FtapeBuffer ----------------------------
(***************************************************************************)
(* The segment buffer of the ftape low level driver (buffer_struct) and    *)
(* the functions that move it through one segment: the set up of a         *)
(* segment, the search for the next cluster of good sectors, the account   *)
(* of a transfer that succeeded or failed, and the point a retry resumes   *)
(* from.  Everything here is a function from a buffer to a buffer; the     *)
(* interleaving of interrupt handler and process is in FdcIsr and in the   *)
(* modules that extend it.                                                 *)
(*                                                                         *)
(* A bit map of the code (SectorMap) is the set of the sector numbers      *)
(* whose bits are set.  bad_sector_map, which the code shifts right as the *)
(* sectors go by, keeps its sectors' absolute numbers: the bits that have  *)
(* been shifted out are the ones below sector_offset, which no function    *)
(* looks at any more.  The flags of a buffer are 0 or 1, as in the code.   *)
(***************************************************************************)
EXTENDS Integers, FiniteSets

CONSTANTS SectorsPerSegment,  \* FT_SECTORS_PER_SEGMENT, 32 in the code
          Segments,           \* the segment ids of the tape
          SegmentsPerTrack,   \* ftape->segments_per_track
          BadSectors,         \* the bad sector map of every segment
          SoftRetries,        \* the module parameter ft_soft_retries
          IgnoreEccErr        \* the module parameter ft_ignore_ecc_err

Sectors == 0 .. (SectorsPerSegment - 1)

ASSUME SectorsAssumption == SectorsPerSegment \in Nat /\ SectorsPerSegment >= 2

(* Only the last segment of a track has no successor.                      *)
ASSUME SegmentsAssumption ==
    /\ Segments \subseteq Nat
    /\ SegmentsPerTrack \in Nat \ {0}
    /\ \A s \in Segments : s + 1 \in Segments \/ (s + 1) % SegmentsPerTrack = 0

ASSUME BadSectorsAssumption == BadSectors \in [Segments -> SUBSET Sectors]

ASSUME ParametersAssumption == SoftRetries \in Nat /\ IgnoreEccErr \in BOOLEAN

BufferStates == {"waiting", "reading", "writing", "deleting", "done", "error"}

(* The six ways a transfer fails that decode_irq_cause() can tell apart.   *)
(* The handlers treat the first five alike.                                *)
MediumErrors == {"id_am", "id_crc", "data_am", "data_crc", "no_data"}
Errors == MediumErrors \cup {"overrun"}

SectorMaps == SUBSET Sectors
BlockMaps  == SUBSET Nat
Offsets    == 0 .. SectorsPerSegment
Flags      == {0, 1}

(***************************************************************************)
(* moved and stray are no fields of the code.  moved holds the data blocks *)
(* of the buffer that the current segment's transfer really moved between  *)
(* tape and memory, and is what the properties compare the error maps      *)
(* with; stray is 1 once a retry has been set up in a buffer that held     *)
(* another segment, whose error maps and skip it took over.  ptr is        *)
(* dma_address plus data_offset sectors throughout and bytes is counted in *)
(* sectors.                                                                *)
(***************************************************************************)
Buffer ==
    [ status         : BufferStates,
      segment_id     : Segments,
      sector_offset  : Nat,
      remaining      : Nat,
      sector_count   : Nat,
      data_offset    : Nat,
      bad_sector_map : SectorMaps,
      soft_error_map : SectorMaps,
      hard_error_map : SectorMaps,
      retry          : Int,
      skip           : Offsets,
      short_start    : Flags,
      next_segment   : Nat,
      deleted        : Flags,
      bytes          : Nat,
      moved          : BlockMaps,
      stray          : Flags ]

NewBuffer(seg) ==
    [ status |-> "waiting", segment_id |-> seg, sector_offset |-> 0,
      remaining |-> 0, sector_count |-> 0, data_offset |-> 0,
      bad_sector_map |-> {}, soft_error_map |-> {}, hard_error_map |-> {},
      retry |-> 0, skip |-> 0, short_start |-> 0, next_segment |-> 0,
      deleted |-> 0, bytes |-> 0, moved |-> {}, stray |-> 0 ]

(* How many good sectors of seg precede sector s: the data block s goes to *)
Block(seg, s) == Cardinality((0 .. (s - 1)) \ BadSectors[seg])

Blocks(seg) == { Block(seg, s) : s \in Sectors \ BadSectors[seg] }

(* bad_sector_map == FAKE_SEGMENT.  The code compares the shifted map, so  *)
(* that the comparison can hold only while nothing has been shifted out.   *)
IsFake(b) == b.sector_offset = 0 /\ b.bad_sector_map = Sectors \ {0}

-----------------------------------------------------------------------------
(* Set up of a segment                                                      *)

(* The bad sectors before the offset are taken out of offset_mask one bit  *)
(* each, and the mask that is left is also what soft_error_map is cut to.  *)
setup_segment(b, seg, offset, retrying) ==
    LET mask == Block(seg, offset) IN
    [ b EXCEPT
        !.segment_id     = seg,
        !.sector_offset  = offset,
        !.remaining      = SectorsPerSegment - offset,
        !.data_offset    = mask,
        !.deleted        = 0,
        !.soft_error_map = IF retrying = 1 THEN @ \cap (0 .. (mask - 1)) ELSE {},
        !.hard_error_map = IF retrying = 1 THEN @ ELSE {},
        !.bad_sector_map = IF offset = 0 /\ BadSectors[seg] = Sectors
                           THEN Sectors \ {0}
                           ELSE BadSectors[seg],
        !.next_segment   = seg + 1,
        !.moved          = IF b.segment_id = seg THEN @ ELSE {},
        !.stray          = IF retrying = 0 THEN 0
                           ELSE IF b.segment_id = seg THEN @ ELSE 1 ]

(* The retry of the segment that was set up last.  mayskip is the caller's *)
(* skip argument, lastskipped the segment the fast fail was last used for. *)
FastFail(b, seg, lastskipped) ==
    /\ IgnoreEccErr
    /\ b.skip > 1 /\ b.skip < SectorsPerSegment - 1
    /\ lastskipped # seg

(* Mutant: the errors of the earlier tries are forgotten.                  *)
setup_retry_Forget(b, seg, mayskip, lastskipped) ==
    setup_segment([b EXCEPT !.retry = @ + 1,
                            !.short_start = IF b.skip > 0 THEN @ ELSE 0],
                  seg, IF mayskip = 1 THEN b.skip ELSE 0, 0)

setup_retry(b, seg, mayskip, lastskipped) ==
    LET skip == IF mayskip = 1 /\ FastFail(b, seg, lastskipped)
                THEN SectorsPerSegment - 1 ELSE b.skip
    IN  setup_segment([b EXCEPT !.retry = @ + 1,
                                !.skip = skip,
                                !.short_start = IF skip > 0 THEN @ ELSE 0],
                      seg, IF mayskip = 1 THEN skip ELSE 0, 1)

setup_fresh(b, seg) ==
    setup_segment([b EXCEPT !.retry = 0, !.skip = 0, !.short_start = 0],
                  seg, 0, 0)

(* The first sector of lo..hi that is in S, or hi if none is.              *)
FirstIn(S, lo, hi) ==
    CHOOSE s \in lo .. hi : /\ s = hi \/ s \in S
                            /\ \A t \in lo .. hi : t < s => t \notin S

ftape_calc_next_cluster(b) ==
    LET end   == b.sector_offset + b.remaining
        first == FirstIn(Sectors \ b.bad_sector_map, b.sector_offset, end)
        last  == FirstIn(b.bad_sector_map, first, end)
    IN  [ b EXCEPT !.sector_offset = first,
                   !.remaining     = end - first,
                   !.sector_count  = last - first ]

-----------------------------------------------------------------------------
(* The account of a transfer                                                *)

Advance(b, n) ==
    [ b EXCEPT !.sector_count  = n,
               !.sector_offset = @ + n,
               !.data_offset   = @ + n,
               !.remaining     = @ - n,
               !.moved         = @ \cup (b.data_offset .. (b.data_offset + n - 1)) ]

skip_bad_sector(b) ==
    IF b.remaining > 0
    THEN [b EXCEPT !.sector_offset = @ + 1, !.data_offset = @ + 1,
                   !.remaining = @ - 1]
    ELSE [b EXCEPT !.sector_offset = @ + 1]

update_error_maps(b, sector) ==
    CASE sector >= SectorsPerSegment -> b
      [] sector < SectorsPerSegment /\ b.retry < SoftRetries ->
            [b EXCEPT !.soft_error_map = @ \cup {sector}]
      [] OTHER ->
            [b EXCEPT !.hard_error_map = @ \cup {sector},
                      !.soft_error_map = @ \ (b.hard_error_map \cup {sector}),
                      !.retry = -1]

(* An overrun is not counted as a retry, any other error asks for a short  *)
(* start.                                                                  *)
CountError(b, cause) ==
    IF cause # "overrun" THEN [b EXCEPT !.short_start = 1]
    ELSE IF b.retry > 0 THEN [b EXCEPT !.retry = @ - 1, !.short_start = 0]
    ELSE b

(* determine_progress() after an error at the sector that follows the      *)
(* transferred ones; an error reported after the whole cluster is charged  *)
(* to its last sector.                                                     *)
FailedProgress(b, cause, transferred) ==
    LET n == IF transferred = b.sector_count THEN transferred - 1 ELSE transferred
        c == skip_bad_sector(CountError(Advance(b, n), cause))
    IN  update_error_maps(c, c.sector_offset - 1)

determine_progress(b, cause, transferred) ==
    IF cause = "no_error" THEN Advance(b, transferred)
                          ELSE FailedProgress(b, cause, transferred)

(* Mutant: a retry resumes where the transfer stopped.                     *)
find_resume_point_Here(b) ==
    IF b.sector_offset < SectorsPerSegment THEN b.sector_offset ELSE 0

find_resume_point(b) ==
    LET before == 0 .. (b.sector_offset - 1)
        soft   == b.soft_error_map \cap before
        hard   == b.hard_error_map \cap before
    IN  CASE b.sector_offset < 1 \/ b.sector_offset > SectorsPerSegment -> 0
          [] b.sector_offset \in 1 .. SectorsPerSegment /\ soft # {} ->
                CHOOSE s \in soft : \A t \in soft : s <= t
          [] b.sector_offset \in 1 .. SectorsPerSegment /\ soft = {} /\ hard # {} ->
                1 + CHOOSE s \in hard : \A t \in hard : t <= s
          [] OTHER -> b.sector_offset - 1

(* Deleted data, as in the header segments: the rest of the segment is     *)
(* given up and flagged, and the next one is read whatever was asked for.  *)
deleted_data(b) ==
    [ b EXCEPT !.deleted        = 1,
               !.remaining      = 0,
               !.soft_error_map = @ \cup {s \in Sectors : s >= b.sector_offset},
               !.next_segment   = b.segment_id + 1 ]

(* The error maps count sectors, the ECC code counts data blocks.          *)
convert_sector_map(b) ==
    { Block(b.segment_id, s) :
        s \in (b.soft_error_map \cup b.hard_error_map) \ BadSectors[b.segment_id] }

fdc_zap_buffer(b) ==
    [b EXCEPT !.status = "waiting", !.bytes = 0, !.skip = 0, !.retry = 0]

=============================================================================
