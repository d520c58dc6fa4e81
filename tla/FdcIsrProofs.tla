---------------------------- MODULE FdcIsrProofs ----------------------------
(***************************************************************************)
(* The functions on buffers and the interrupt handler that calls them, for *)
(* any number of buffers, every segment size, bad sector map and value of  *)
(* the module parameters, and any faults.                                  *)
(*                                                                         *)
(* The first two parts say what the functions of FtapeBuffer return: types,*)
(* status and segment, then the blocks of a segment and what the error     *)
(* maps say of them.  What follows cites these lemmas and does not look    *)
(* into the functions again.                                               *)
(*                                                                         *)
(* The last part is what one run of the interrupt handler does: it keeps   *)
(* the types, it leaves the buffer of the transfer it starts in HEAD, and  *)
(* it does not touch a full buffer.                                        *)
(***************************************************************************)
EXTENDS FdcIsr, TLAPS, FiniteSetTheorems, WellFoundedInduction

(* A non-empty set of natural numbers has a least element.                 *)
LEMMA NatMinimum ==
    ASSUME NEW T \in SUBSET Nat, T # {}
    PROVE  \E x \in T : \A y \in T : x <= y
<1> DEFINE R == {p \in Nat \X Nat : p[1] < p[2]}
<1>1. R = OpToRel(<, Nat)
  BY DEF OpToRel
<1>2. IsWellFoundedOn(R, Nat)
  BY <1>1, NatLessThanWellFounded
<1> HIDE DEF R
<1>3. \E x \in T : \A y \in T : ~ (<<y, x>> \in R)
  BY <1>2, WFMin
<1>4. \A x, y \in Nat : ~ (<<y, x>> \in R) => x <= y
  BY DEF R
<1>5. QED
  BY <1>3, <1>4

(* A non-empty set of sectors has a greatest element.                      *)
LEMMA SectorMaximum ==
    ASSUME NEW T \in SUBSET Sectors, T # {}
    PROVE  \E x \in T : \A y \in T : y <= x
<1> DEFINE D == { SectorsPerSegment - t : t \in T }
<1>1. D \in SUBSET Nat /\ D # {}
  BY SectorsAssumption DEF Sectors
<1>2. PICK d \in D : \A e \in D : d <= e
  BY <1>1, NatMinimum
<1>3. PICK x \in T : d = SectorsPerSegment - x
  BY <1>2
<1>4. \A y \in T : SectorsPerSegment - x <= SectorsPerSegment - y
  BY <1>2, <1>3
<1>5. \A y \in T : y <= x
  BY <1>4, SectorsAssumption DEF Sectors
<1>6. QED
  BY <1>5

(* FirstIn() finds its sector: it lies in the range, and nothing of S      *)
(* precedes it there.                                                      *)
LEMMA FirstInType ==
    ASSUME NEW S, NEW lo \in Nat, NEW hi \in Nat, lo <= hi
    PROVE  /\ FirstIn(S, lo, hi) \in lo .. hi
           /\ FirstIn(S, lo, hi) = hi \/ FirstIn(S, lo, hi) \in S
           /\ \A t \in lo .. hi : t < FirstIn(S, lo, hi) => t \notin S
<1> DEFINE C == { s \in lo .. hi : s = hi \/ s \in S }
<1>1. C \in SUBSET Nat /\ hi \in C
  OBVIOUS
<1>2. PICK x \in C : \A y \in C : x <= y
  BY <1>1, NatMinimum
<1>3. /\ x \in lo .. hi
      /\ x = hi \/ x \in S
      /\ \A t \in lo .. hi : t < x => t \notin S
  BY <1>2
<1>4. QED
  BY <1>3 DEF FirstIn

(* A number of data blocks is a natural number.                            *)
LEMMA BlockType ==
    ASSUME NEW seg, NEW s \in Nat
    PROVE  Block(seg, s) \in Nat
<1>1. IsFiniteSet(0 .. (s - 1))
  BY FS_Interval
<1>2. IsFiniteSet((0 .. (s - 1)) \ BadSectors[seg])
  BY <1>1, FS_Difference
<1>3. QED
  BY <1>2, FS_CardinalityType DEF Block

-----------------------------------------------------------------------------
(* The type of the buffers                                                  *)

(* The values the functions below put into a buffer.                       *)
LEMMA FieldTypes ==
    /\ 0 \in Nat /\ 0 \in Int /\ 0 \in Flags /\ 1 \in Flags /\ 0 \in Offsets
    /\ SectorsPerSegment \in Nat /\ SectorsPerSegment - 1 \in Offsets
    /\ {} \in SectorMaps /\ {} \in BlockMaps
    /\ Offsets \subseteq Nat
    /\ \A o \in Offsets : SectorsPerSegment - o \in Nat
    /\ \A seg \in Segments : seg \in Nat /\ seg + 1 \in Nat
    /\ \A m \in SectorMaps : \A S : m \cap S \in SectorMaps /\ m \ S \in SectorMaps
<1>1. SectorsPerSegment \in Nat /\ SectorsPerSegment >= 2
  BY SectorsAssumption
<1>2. \A seg \in Segments : seg \in Nat /\ seg + 1 \in Nat
  BY SegmentsAssumption
<1>3. QED
  BY <1>1, <1>2 DEF Flags, Offsets, SectorMaps, BlockMaps

(* setup_segment() sets up a buffer for a segment, from any sector on; the *)
(* next segment is the following one.                                      *)
LEMMA SetupSegmentType ==
    ASSUME NEW b \in Buffer, NEW seg \in Segments,
           NEW offset \in Offsets, NEW retrying
    PROVE  /\ setup_segment(b, seg, offset, retrying) \in Buffer
           /\ setup_segment(b, seg, offset, retrying).next_segment = seg + 1
           /\ setup_segment(b, seg, offset, retrying).segment_id = seg
           /\ setup_segment(b, seg, offset, retrying).status = b.status
<1> DEFINE mask == Block(seg, offset)
           soft == IF retrying = 1 THEN b.soft_error_map \cap (0 .. (mask - 1)) ELSE {}
           hard == IF retrying = 1 THEN b.hard_error_map ELSE {}
           bad  == IF offset = 0 /\ BadSectors[seg] = Sectors
                   THEN Sectors \ {0} ELSE BadSectors[seg]
           move == IF b.segment_id = seg THEN b.moved ELSE {}
           lost == IF retrying = 0 THEN 0
                   ELSE IF b.segment_id = seg THEN b.stray ELSE 1
           left == SectorsPerSegment - offset
           succ == seg + 1
<1>1. mask \in Nat
  BY BlockType, FieldTypes
<1>2. left \in Nat /\ offset \in Nat /\ succ \in Nat /\ 0 \in Flags
  BY FieldTypes
<1>3. bad \in SectorMaps
  BY BadSectorsAssumption DEF SectorMaps
<1>4. b.soft_error_map \in SectorMaps /\ b.hard_error_map \in SectorMaps
      /\ b.moved \in BlockMaps /\ b.stray \in Flags
  BY DEF Buffer
<1>5. /\ soft \in SectorMaps /\ hard \in SectorMaps /\ move \in BlockMaps
      /\ lost \in Flags
  BY <1>4, FieldTypes DEF Flags
<1>6. setup_segment(b, seg, offset, retrying) =
        [b EXCEPT !.segment_id = seg, !.sector_offset = offset, !.remaining = left,
                  !.data_offset = mask, !.deleted = 0, !.soft_error_map = soft,
                  !.hard_error_map = hard, !.bad_sector_map = bad,
                  !.next_segment = succ, !.moved = move, !.stray = lost]
  BY DEF setup_segment
<1> HIDE DEF mask, soft, hard, bad, move, lost, left, succ
<1> DEFINE c == [b EXCEPT !.segment_id = seg, !.sector_offset = offset,
                          !.remaining = left, !.data_offset = mask, !.deleted = 0]
           d == [c EXCEPT !.soft_error_map = soft, !.hard_error_map = hard,
                          !.bad_sector_map = bad, !.next_segment = succ, !.moved = move,
                          !.stray = lost]
<1>7. setup_segment(b, seg, offset, retrying) \in Buffer
  <2>1. c \in Buffer
    BY <1>1, <1>2 DEF Buffer
  <2>2. setup_segment(b, seg, offset, retrying) = d
    BY <1>6 DEF Buffer
  <2> HIDE DEF c
  <2>3. d \in Buffer
    BY <2>1, <1>2, <1>3, <1>5 DEF Buffer
  <2>4. QED
    BY <2>2, <2>3
<1>8. /\ setup_segment(b, seg, offset, retrying).next_segment = succ
      /\ setup_segment(b, seg, offset, retrying).segment_id = seg
      /\ setup_segment(b, seg, offset, retrying).status = b.status
  BY <1>6 DEF Buffer
<1>9. QED
  BY <1>7, <1>8 DEF succ

(* The same for a retry, whether it resumes in the middle of the segment   *)
(* or at its begin.                                                        *)
LEMMA SetupRetryType ==
    ASSUME NEW b \in Buffer, NEW seg \in Segments, NEW mayskip, NEW lastskipped
    PROVE  /\ setup_retry(b, seg, mayskip, lastskipped) \in Buffer
           /\ setup_retry(b, seg, mayskip, lastskipped).next_segment = seg + 1
           /\ setup_retry(b, seg, mayskip, lastskipped).segment_id = seg
           /\ setup_retry(b, seg, mayskip, lastskipped).status = b.status
<1> DEFINE skip == IF mayskip = 1 /\ FastFail(b, seg, lastskipped)
                   THEN SectorsPerSegment - 1 ELSE b.skip
           retry  == b.retry + 1
           start  == IF skip > 0 THEN b.short_start ELSE 0
           c      == [b EXCEPT !.retry = retry, !.skip = skip, !.short_start = start]
           offset == IF mayskip = 1 THEN skip ELSE 0
<1>1. skip \in Offsets
  BY FieldTypes DEF Buffer
<1>2. retry \in Int /\ start \in Flags
  BY FieldTypes DEF Buffer
<1>3. offset \in Offsets
  BY <1>1, FieldTypes
<1>4. setup_retry(b, seg, mayskip, lastskipped) = setup_segment(c, seg, offset, 1)
  BY DEF setup_retry
<1> HIDE DEF skip, retry, start
<1>5. c \in Buffer /\ c.status = b.status
  BY <1>1, <1>2 DEF Buffer
<1> HIDE DEF c, offset
<1>6. QED
  BY <1>3, <1>4, <1>5, SetupSegmentType

(* The same for the first attempt.                                         *)
LEMMA SetupFreshType ==
    ASSUME NEW b \in Buffer, NEW seg \in Segments
    PROVE  /\ setup_fresh(b, seg) \in Buffer
           /\ setup_fresh(b, seg).next_segment = seg + 1
           /\ setup_fresh(b, seg).segment_id = seg
           /\ setup_fresh(b, seg).status = b.status
<1> DEFINE c == [b EXCEPT !.retry = 0, !.skip = 0, !.short_start = 0]
<1>1. c \in Buffer /\ c.status = b.status
  BY FieldTypes DEF Buffer
<1>2. setup_fresh(b, seg) = setup_segment(c, seg, 0, 0)
  BY DEF setup_fresh
<1> HIDE DEF c
<1>3. QED
  BY <1>1, <1>2, FieldTypes, SetupSegmentType

(* The next cluster lies within what remains of the segment.               *)
LEMMA CalcNextClusterType ==
    ASSUME NEW b \in Buffer
    PROVE  /\ ftape_calc_next_cluster(b) \in Buffer
           /\ ftape_calc_next_cluster(b).sector_count
                  <= ftape_calc_next_cluster(b).remaining
           /\ ftape_calc_next_cluster(b).status = b.status
           /\ ftape_calc_next_cluster(b).next_segment = b.next_segment
           /\ ftape_calc_next_cluster(b).segment_id = b.segment_id
<1> DEFINE end   == b.sector_offset + b.remaining
           first == FirstIn(Sectors \ b.bad_sector_map, b.sector_offset, end)
           last  == FirstIn(b.bad_sector_map, first, end)
<1>1. b.sector_offset \in Nat /\ end \in Nat /\ b.sector_offset <= end
  BY DEF Buffer
<1>2. first \in b.sector_offset .. end
  BY <1>1, FirstInType
<1> HIDE DEF end
<1>3. first \in Nat /\ first <= end
  BY <1>1, <1>2
<1> HIDE DEF first
<1>4. last \in first .. end
  BY <1>1, <1>3, FirstInType
<1>5. last - first \in Nat /\ end - first \in Nat /\ last - first <= end - first
  BY <1>1, <1>3, <1>4
<1>6. ftape_calc_next_cluster(b) =
        [b EXCEPT !.sector_offset = first, !.remaining = end - first,
                  !.sector_count = last - first]
  BY DEF ftape_calc_next_cluster, first, end
<1> HIDE DEF last
<1>7. QED
  BY <1>3, <1>5, <1>6 DEF Buffer

(* The account of a transfer leaves a buffer where it is: it belongs to    *)
(* the same segment, is followed by the same one and keeps its status.     *)
Same(c, b) == /\ c.status = b.status
              /\ c.segment_id = b.segment_id
              /\ c.next_segment = b.next_segment

(* Advance() over sectors that remain.                                     *)
LEMMA AdvanceType ==
    ASSUME NEW b \in Buffer, NEW n \in Nat, n <= b.remaining
    PROVE  /\ Advance(b, n) \in Buffer
           /\ Same(Advance(b, n), b)
           /\ Advance(b, n).remaining = b.remaining - n
<1> DEFINE offset == b.sector_offset + n
           data   == b.data_offset + n
           left   == b.remaining - n
           move   == b.moved \cup (b.data_offset .. (b.data_offset + n - 1))
<1>1. offset \in Nat /\ data \in Nat /\ left \in Nat
  BY DEF Buffer
<1>2. move \in BlockMaps
  BY DEF Buffer, BlockMaps
<1>3. Advance(b, n) = [b EXCEPT !.sector_count = n, !.sector_offset = offset,
                                !.data_offset = data, !.remaining = left,
                                !.moved = move]
  BY DEF Advance
<1> HIDE DEF offset, data, left, move
<1>4. Advance(b, n) \in Buffer /\ Same(Advance(b, n), b)
  BY <1>1, <1>2, <1>3 DEF Buffer, Same
<1>5. Advance(b, n).remaining = left
  BY <1>3 DEF Buffer
<1>6. QED
  BY <1>4, <1>5 DEF left

(* skip_bad_sector() always passes one sector.                             *)
LEMMA SkipBadSectorType ==
    ASSUME NEW b \in Buffer
    PROVE  /\ skip_bad_sector(b) \in Buffer
           /\ Same(skip_bad_sector(b), b)
           /\ skip_bad_sector(b).sector_offset - 1 \in Nat
<1> DEFINE offset == b.sector_offset + 1
           data   == b.data_offset + 1
           left   == b.remaining - 1
<1>1. offset \in Nat /\ data \in Nat /\ (b.remaining > 0 => left \in Nat)
      /\ offset - 1 \in Nat
  BY DEF Buffer
<1>2. skip_bad_sector(b) = IF b.remaining > 0
                           THEN [b EXCEPT !.sector_offset = offset,
                                          !.data_offset = data, !.remaining = left]
                           ELSE [b EXCEPT !.sector_offset = offset]
  BY DEF skip_bad_sector
<1> HIDE DEF offset, data, left
<1>3. CASE b.remaining > 0
  BY <1>1, <1>2, <1>3 DEF Buffer, Same
<1>4. CASE ~(b.remaining > 0)
  BY <1>1, <1>2, <1>4 DEF Buffer, Same
<1>5. QED
  BY <1>3, <1>4

(* update_error_maps() flags only sectors of the segment.                  *)
LEMMA UpdateErrorMapsType ==
    ASSUME NEW b \in Buffer, NEW sector \in Nat
    PROVE  /\ update_error_maps(b, sector) \in Buffer
           /\ Same(update_error_maps(b, sector), b)
<1> DEFINE soft == b.soft_error_map \cup {sector}
           hard == b.hard_error_map \cup {sector}
           rest == b.soft_error_map \ (b.hard_error_map \cup {sector})
           minus == -1
<1>1. CASE sector >= SectorsPerSegment
  <2>1. update_error_maps(b, sector) = b
    BY <1>1, FieldTypes DEF update_error_maps
  <2>2. QED
    BY <2>1 DEF Same
<1>2. CASE sector < SectorsPerSegment
  <2>1. sector \in Sectors
    BY <1>2, FieldTypes DEF Sectors
  <2>2. b.soft_error_map \in SectorMaps /\ b.hard_error_map \in SectorMaps
    BY DEF Buffer
  <2>3. soft \in SectorMaps /\ hard \in SectorMaps /\ rest \in SectorMaps
        /\ minus \in Int
    BY <2>1, <2>2 DEF SectorMaps
  <2>4. update_error_maps(b, sector) =
          IF b.retry < SoftRetries
          THEN [b EXCEPT !.soft_error_map = soft]
          ELSE [b EXCEPT !.hard_error_map = hard, !.soft_error_map = rest,
                         !.retry = minus]
    BY <1>2, FieldTypes DEF update_error_maps
  <2> HIDE DEF soft, hard, rest, minus
  <2>5. CASE b.retry < SoftRetries
    BY <2>3, <2>4, <2>5 DEF Buffer, Same
  <2>6. CASE ~(b.retry < SoftRetries)
    BY <2>3, <2>4, <2>6 DEF Buffer, Same
  <2>7. QED
    BY <2>5, <2>6
<1>3. QED
  BY <1>1, <1>2, FieldTypes

(* An overrun gives a retry back, another error asks for a short start.    *)
LEMMA CountErrorType ==
    ASSUME NEW b \in Buffer, NEW cause
    PROVE  /\ CountError(b, cause) \in Buffer
           /\ Same(CountError(b, cause), b)
           /\ CountError(b, cause).remaining = b.remaining
<1> DEFINE less == b.retry - 1
<1>1. less \in Int
  BY DEF Buffer
<1>2. CountError(b, cause) = IF cause # "overrun" THEN [b EXCEPT !.short_start = 1]
                             ELSE IF b.retry > 0
                             THEN [b EXCEPT !.retry = less, !.short_start = 0]
                             ELSE b
  BY DEF CountError
<1> HIDE DEF less
<1>3. CASE cause # "overrun"
  BY <1>2, <1>3, FieldTypes DEF Buffer, Same
<1>4. CASE cause = "overrun" /\ b.retry > 0
  BY <1>1, <1>2, <1>4, FieldTypes DEF Buffer, Same
<1>5. CASE cause = "overrun" /\ ~(b.retry > 0)
  BY <1>2, <1>5 DEF Same
<1>6. QED
  BY <1>3, <1>4, <1>5

(* determine_progress(), for what the controller can report: at most the   *)
(* sectors of the cluster, and an error only if there was one to transfer. *)
LEMMA DetermineProgressType ==
    ASSUME NEW b \in Buffer, b.sector_count <= b.remaining,
           NEW transferred \in 0 .. b.sector_count, NEW cause,
           cause # "no_error" => b.sector_count > 0
    PROVE  /\ determine_progress(b, cause, transferred) \in Buffer
           /\ Same(determine_progress(b, cause, transferred), b)
<1>1. b.sector_count \in Nat /\ b.remaining \in Nat
  BY DEF Buffer
<1>2. CASE cause = "no_error"
  <2>1. transferred \in Nat /\ transferred <= b.remaining
    BY <1>1
  <2>2. QED
    BY <1>2, <2>1, AdvanceType DEF determine_progress
<1>3. CASE cause # "no_error"
  <2> DEFINE n == IF transferred = b.sector_count THEN transferred - 1 ELSE transferred
             a == Advance(b, n)
             e == CountError(a, cause)
             c == skip_bad_sector(e)
  <2>1. n \in Nat /\ n <= b.remaining
    BY <1>1, <1>3
  <2>2. determine_progress(b, cause, transferred) =
          update_error_maps(c, c.sector_offset - 1)
    BY <1>3 DEF determine_progress, FailedProgress
  <2> HIDE DEF n
  <2>3. a \in Buffer /\ Same(a, b)
    BY <2>1, AdvanceType
  <2> HIDE DEF a
  <2>4. e \in Buffer /\ Same(e, a)
    BY <2>3, CountErrorType
  <2> HIDE DEF e
  <2>5. c \in Buffer /\ Same(c, e) /\ c.sector_offset - 1 \in Nat
    BY <2>4, SkipBadSectorType
  <2> HIDE DEF c
  <2>6. /\ update_error_maps(c, c.sector_offset - 1) \in Buffer
        /\ Same(update_error_maps(c, c.sector_offset - 1), c)
    BY <2>5, UpdateErrorMapsType
  <2>7. QED
    BY <2>2, <2>3, <2>4, <2>5, <2>6 DEF Same
<1>4. QED
  BY <1>2, <1>3

(* A retry resumes at a sector of the segment, or behind its last one.     *)
LEMMA FindResumePointType ==
    ASSUME NEW b \in Buffer
    PROVE  find_resume_point(b) \in Offsets
<1> DEFINE before == 0 .. (b.sector_offset - 1)
           soft   == b.soft_error_map \cap before
           hard   == b.hard_error_map \cap before
<1>1. soft \in SUBSET Sectors /\ hard \in SUBSET Sectors
  BY DEF Buffer, SectorMaps
<1>2. soft # {} => (CHOOSE s \in soft : \A t \in soft : s <= t) \in Sectors
  <2>1. soft \in SUBSET Nat
    BY <1>1, FieldTypes DEF Sectors
  <2> HIDE DEF soft
  <2>2. soft # {} => \E s \in soft : \A t \in soft : s <= t
    BY <2>1, NatMinimum
  <2>3. QED
    BY <1>1, <2>2
<1>3. hard # {} => (CHOOSE s \in hard : \A t \in hard : t <= s) \in Sectors
  <2> HIDE DEF hard
  <2>1. hard # {} => \E s \in hard : \A t \in hard : t <= s
    BY <1>1, SectorMaximum
  <2>2. QED
    BY <1>1, <2>1
<1>4. \A s \in Sectors : s \in Offsets /\ 1 + s \in Offsets
  BY FieldTypes DEF Sectors, Offsets
<1>5. b.sector_offset \in Nat
  BY DEF Buffer
<1>6. b.sector_offset \in 1 .. SectorsPerSegment => b.sector_offset - 1 \in Offsets
  BY <1>5, FieldTypes DEF Offsets
<1>7. b.sector_offset < 1 \/ b.sector_offset > SectorsPerSegment
      \/ b.sector_offset \in 1 .. SectorsPerSegment
  BY <1>5, FieldTypes
<1> HIDE DEF soft, hard
<1>8. QED
  BY <1>2, <1>3, <1>4, <1>6, <1>7, FieldTypes DEF find_resume_point, soft, hard

(* Deleted data leaves the segment to be followed by the next one.         *)
LEMMA DeletedDataType ==
    ASSUME NEW b \in Buffer
    PROVE  /\ deleted_data(b) \in Buffer
           /\ deleted_data(b).status = b.status
           /\ deleted_data(b).segment_id = b.segment_id
           /\ deleted_data(b).next_segment = b.segment_id + 1
<1> DEFINE soft == b.soft_error_map \cup {s \in Sectors : s >= b.sector_offset}
           succ == b.segment_id + 1
<1>1. soft \in SectorMaps /\ succ \in Nat
  BY FieldTypes DEF Buffer, SectorMaps
<1>2. deleted_data(b) = [b EXCEPT !.deleted = 1, !.remaining = 0,
                                  !.soft_error_map = soft, !.next_segment = succ]
  BY DEF deleted_data
<1> HIDE DEF soft, succ
<1>3. /\ deleted_data(b) \in Buffer
      /\ deleted_data(b).status = b.status
      /\ deleted_data(b).segment_id = b.segment_id
      /\ deleted_data(b).next_segment = succ
  BY <1>1, <1>2, FieldTypes DEF Buffer
<1>4. QED
  BY <1>3 DEF succ

-----------------------------------------------------------------------------
(* The data blocks of a segment                                             *)

(* Every good sector passed is one data block more.                        *)
LEMMA BlockOverGood ==
    ASSUME NEW seg, NEW s \in Nat, NEW n \in Nat,
           \A t \in s .. (s + n - 1) : t \notin BadSectors[seg]
    PROVE  Block(seg, s + n) = Block(seg, s) + n
<1> DEFINE A == (0 .. (s - 1)) \ BadSectors[seg]
           D == s .. (s + n - 1)
<1>1. IsFiniteSet(0 .. (s - 1)) /\ IsFiniteSet(D) /\ Cardinality(D) = n
  BY FS_Interval
<1>2. IsFiniteSet(A)
  BY <1>1, FS_Difference
<1>3. A \cap D = {} /\ (0 .. (s + n - 1)) \ BadSectors[seg] = A \cup D
  OBVIOUS
<1>4. Block(seg, s) = Cardinality(A) /\ Block(seg, s + n) = Cardinality(A \cup D)
  BY <1>3 DEF Block
<1> HIDE DEF A, D
<1>5. Cardinality(A \cup D) = Cardinality(A) + Cardinality(D) - Cardinality(A \cap D)
  BY <1>1, <1>2, FS_Union, Zenon
<1>6. Cardinality(A) \in Nat /\ Cardinality(A \cap D) = 0
  BY <1>2, <1>3, FS_CardinalityType, FS_EmptySet
<1>7. QED
  BY <1>1, <1>4, <1>5, <1>6

(* A bad sector passed is none.                                            *)
LEMMA BlockOverBad ==
    ASSUME NEW seg, NEW s \in Nat, NEW u \in Nat, s <= u,
           \A t \in s .. (u - 1) : t \in BadSectors[seg]
    PROVE  Block(seg, u) = Block(seg, s)
<1>1. (0 .. (u - 1)) \ BadSectors[seg] = (0 .. (s - 1)) \ BadSectors[seg]
  OBVIOUS
<1>2. QED
  BY <1>1 DEF Block

(* No two good sectors go to the same block.                               *)
LEMMA BlockOrder ==
    ASSUME NEW seg, NEW s \in Nat, NEW u \in Nat, s < u, s \notin BadSectors[seg]
    PROVE  Block(seg, s) < Block(seg, u)
<1> DEFINE A == (0 .. (s - 1)) \ BadSectors[seg]
           B == (0 .. (u - 1)) \ BadSectors[seg]
<1>1. IsFiniteSet(0 .. (u - 1))
  BY FS_Interval
<1>2. IsFiniteSet(B)
  BY <1>1, FS_Difference
<1>3. A \in SUBSET B /\ s \in B /\ s \notin A
  OBVIOUS
<1>4. Block(seg, s) = Cardinality(A) /\ Block(seg, u) = Cardinality(B)
  BY DEF Block
<1> HIDE DEF A, B
<1>5. Cardinality(A) <= Cardinality(B) /\ Cardinality(B) # Cardinality(A)
  BY <1>2, <1>3, FS_Subset
<1>6. Block(seg, s) \in Nat /\ Block(seg, u) \in Nat
  BY BlockType
<1>7. QED
  BY <1>4, <1>5, <1>6

(* A segment has as many data blocks as there are good sectors in it.      *)
LEMMA BlocksCount ==
    ASSUME NEW seg
    PROVE  /\ Cardinality(Blocks(seg)) = Block(seg, SectorsPerSegment)
           /\ Cardinality(Blocks(seg)) = Cardinality(Sectors \ BadSectors[seg])
<1> DEFINE G == Sectors \ BadSectors[seg]
           f == [s \in G |-> Block(seg, s)]
<1>1. IsFiniteSet(Sectors)
  BY SectorsAssumption, FS_Interval DEF Sectors
<1>2. IsFiniteSet(G)
  BY <1>1, FS_Difference
<1>3. f \in Surjection(G, Blocks(seg))
  BY DEF Surjection, Blocks
<1>4. f \in Injection(G, Blocks(seg))
  <2>1. G \subseteq Nat
    BY SectorsAssumption DEF Sectors
  <2>2. \A s, u \in G : s < u => Block(seg, s) < Block(seg, u)
    BY <2>1, BlockOrder
  <2>3. \A s \in G : Block(seg, s) \in Nat
    BY <2>1, BlockType
  <2>4. \A s, u \in G : Block(seg, s) = Block(seg, u) => s = u
    BY <2>1, <2>2, <2>3
  <2>5. f \in [G -> Blocks(seg)]
    BY DEF Blocks
  <2>6. QED
    BY <2>4, <2>5 DEF Injection, IsInjective
<1>5. Cardinality(Blocks(seg)) = Cardinality(G)
  BY <1>2, <1>3, <1>4, FS_Surjection
<1>6. Block(seg, SectorsPerSegment) = Cardinality(G)
  BY DEF Block, Sectors
<1>7. QED
  BY <1>5, <1>6

(* A segment without good sectors, or with the first one only, has no      *)
(* more than one block.                                                    *)
LEMMA FewBlocks ==
    ASSUME NEW seg, BadSectors[seg] \in {Sectors, Sectors \ {0}}
    PROVE  Cardinality(Blocks(seg)) <= 1
<1>1. Sectors \ BadSectors[seg] = {} \/ Sectors \ BadSectors[seg] = {0}
  BY SectorsAssumption DEF Sectors
<1>2. Cardinality({}) = 0 /\ Cardinality({0}) = 1
  BY FS_EmptySet, FS_Singleton
<1>3. QED
  BY <1>1, <1>2, BlocksCount

-----------------------------------------------------------------------------
(* What the error maps of a buffer say of the data in it                    *)

Good(b) == Sectors \ BadSectors[b.segment_id]
IsRead(b, s) == Block(b.segment_id, s) \in b.moved

(* A retry may resume at skip: what precedes it has been read or given up. *)
SkipOK(b) ==
    b.stray = 0 =>
        \A s \in Good(b) : s < b.skip => IsRead(b, s) \/ s \in b.hard_error_map

Known(b) == b.stray = 0 /\ BadSectors[b.segment_id] # Sectors

(* The transfer is where its counters say, and every good sector it has    *)
(* passed has been read or is flagged.                                     *)
OnCourse(b) ==
    Known(b) =>
        /\ b.bad_sector_map = BadSectors[b.segment_id]
        /\ b.sector_offset + b.remaining = SectorsPerSegment
        /\ b.data_offset = Block(b.segment_id, b.sector_offset)
        /\ \A s \in Good(b) : s < b.sector_offset =>
              IsRead(b, s) \/ s \in b.soft_error_map \/ s \in b.hard_error_map

(* The cluster consists of good sectors.                                   *)
InCluster(b) ==
    Known(b) => \A s \in b.sector_offset .. (b.sector_offset + b.sector_count - 1) :
                    s \notin BadSectors[b.segment_id]

(* c has been read as far as b, or further.                                *)
Further(c, b) ==
    /\ c.segment_id = b.segment_id /\ c.stray = b.stray /\ c.skip = b.skip
    /\ b.moved \subseteq c.moved
    /\ b.hard_error_map \subseteq c.hard_error_map

(* The two differ in nothing that matters here.                            *)
SameMaps(c, b) ==
    /\ c.segment_id = b.segment_id /\ c.stray = b.stray /\ c.skip = b.skip
    /\ c.sector_offset = b.sector_offset /\ c.remaining = b.remaining
    /\ c.sector_count = b.sector_count /\ c.data_offset = b.data_offset
    /\ c.bad_sector_map = b.bad_sector_map
    /\ c.soft_error_map = b.soft_error_map /\ c.hard_error_map = b.hard_error_map
    /\ c.moved = b.moved

(* Reading on does not disturb the point of resumption.                    *)
LEMMA FurtherSkip ==
    ASSUME NEW b, NEW c, SkipOK(b), Further(c, b)
    PROVE  SkipOK(c)
  BY DEF SkipOK, Further, Good, IsRead

(* Neither does what the maps do not depend on.                            *)
LEMMA SameMapsKeep ==
    ASSUME NEW b, NEW c, SameMaps(c, b)
    PROVE  /\ SkipOK(b) => SkipOK(c)
           /\ OnCourse(b) => OnCourse(c)
           /\ InCluster(b) => InCluster(c)
           /\ Known(c) => Known(b)
<1>1. SkipOK(b) => SkipOK(c)
  BY DEF SameMaps, SkipOK, Good, IsRead
<1>2. Known(c) => Known(b)
  BY DEF SameMaps, Known
<1>3. OnCourse(b) => OnCourse(c)
  BY <1>2 DEF SameMaps, OnCourse, Good, IsRead
<1>4. InCluster(b) => InCluster(c)
  BY <1>2 DEF SameMaps, InCluster
<1>5. QED
  BY <1>1, <1>2, <1>3, <1>4

(* The values setup_segment() puts into the fields.                        *)
LEMMA SetupSegmentFields ==
    ASSUME NEW b \in Buffer, NEW seg, NEW offset, NEW retrying,
           NEW c, c = setup_segment(b, seg, offset, retrying)
    PROVE  /\ c.segment_id = seg /\ c.sector_offset = offset
           /\ c.remaining = SectorsPerSegment - offset
           /\ c.data_offset = Block(seg, offset)
           /\ c.hard_error_map = IF retrying = 1 THEN b.hard_error_map ELSE {}
           /\ c.bad_sector_map = IF offset = 0 /\ BadSectors[seg] = Sectors
                                 THEN Sectors \ {0} ELSE BadSectors[seg]
           /\ c.skip = b.skip
           /\ c.moved = IF b.segment_id = seg THEN b.moved ELSE {}
           /\ c.stray = IF retrying = 0 THEN 0
                        ELSE IF b.segment_id = seg THEN b.stray ELSE 1
<1> DEFINE mask == Block(seg, offset)
           left == SectorsPerSegment - offset
           soft == IF retrying = 1 THEN b.soft_error_map \cap (0 .. (mask - 1)) ELSE {}
           hard == IF retrying = 1 THEN b.hard_error_map ELSE {}
           bad  == IF offset = 0 /\ BadSectors[seg] = Sectors
                   THEN Sectors \ {0} ELSE BadSectors[seg]
           succ == seg + 1
           move == IF b.segment_id = seg THEN b.moved ELSE {}
           lost == IF retrying = 0 THEN 0
                   ELSE IF b.segment_id = seg THEN b.stray ELSE 1
<1>1. c = [b EXCEPT !.segment_id = seg, !.sector_offset = offset, !.remaining = left,
                    !.data_offset = mask, !.deleted = 0, !.soft_error_map = soft,
                    !.hard_error_map = hard, !.bad_sector_map = bad,
                    !.next_segment = succ, !.moved = move, !.stray = lost]
  BY DEF setup_segment
<1> HIDE DEF mask, left, soft, hard, bad, succ, move, lost
<1>2. /\ c.segment_id = seg /\ c.sector_offset = offset /\ c.remaining = left
      /\ c.data_offset = mask /\ c.hard_error_map = hard /\ c.bad_sector_map = bad
      /\ c.skip = b.skip /\ c.moved = move /\ c.stray = lost
  BY <1>1 DEF Buffer
<1>3. QED
  BY <1>2 DEF mask, left, hard, bad, move, lost

(* A segment set up from its begin, or from a point of resumption of its   *)
(* own, is on course.                                                      *)
LEMMA SetupSegmentMaps ==
    ASSUME NEW b \in Buffer, NEW seg \in Segments, NEW offset \in Offsets,
           NEW retrying \in {0, 1}, NEW c, c = setup_segment(b, seg, offset, retrying),
           SkipOK(b), offset \in {0, b.skip},
           retrying = 0 => b.skip = 0
    PROVE  OnCourse(c) /\ SkipOK(c)
<1>1. /\ c.segment_id = seg /\ c.sector_offset = offset
      /\ c.remaining = SectorsPerSegment - offset
      /\ c.data_offset = Block(seg, offset)
      /\ c.hard_error_map = IF retrying = 1 THEN b.hard_error_map ELSE {}
      /\ c.bad_sector_map = IF offset = 0 /\ BadSectors[seg] = Sectors
                            THEN Sectors \ {0} ELSE BadSectors[seg]
      /\ c.skip = b.skip
      /\ c.moved = IF b.segment_id = seg THEN b.moved ELSE {}
      /\ c.stray = IF retrying = 0 THEN 0
                   ELSE IF b.segment_id = seg THEN b.stray ELSE 1
  BY SetupSegmentFields
<1>2. \A s \in Good(c) : s \in Nat
  BY SectorsAssumption DEF Good, Sectors
<1>3. SkipOK(c)
  <2>1. CASE retrying = 0
    BY <1>1, <1>2, <2>1 DEF SkipOK
  <2>2. CASE retrying = 1
    <3>1. SUFFICES ASSUME c.stray = 0, NEW s \in Good(c), s < c.skip
                   PROVE  IsRead(c, s) \/ s \in c.hard_error_map
      BY DEF SkipOK
    <3>2. b.segment_id = seg /\ b.stray = 0
      BY <1>1, <2>2, <3>1
    <3>3. IsRead(b, s) \/ s \in b.hard_error_map
      BY <1>1, <3>1, <3>2 DEF SkipOK, Good
    <3>4. QED
      BY <1>1, <2>2, <3>2, <3>3 DEF IsRead
  <2>3. QED
    BY <2>1, <2>2
<1>4. OnCourse(c)
  <2>1. SUFFICES ASSUME Known(c)
                 PROVE  /\ c.bad_sector_map = BadSectors[c.segment_id]
                        /\ c.sector_offset + c.remaining = SectorsPerSegment
                        /\ c.data_offset = Block(c.segment_id, c.sector_offset)
                        /\ \A s \in Good(c) : s < c.sector_offset =>
                              IsRead(c, s) \/ s \in c.hard_error_map
    BY DEF OnCourse
  <2>2. c.bad_sector_map = BadSectors[c.segment_id]
        /\ c.data_offset = Block(c.segment_id, c.sector_offset)
    BY <1>1, <2>1 DEF Known
  <2>3. c.sector_offset + c.remaining = SectorsPerSegment
    BY <1>1, SectorsAssumption DEF Offsets
  <2>4. \A s \in Good(c) : s < c.sector_offset => s < c.skip
    BY <1>1, <1>2
  <2>5. QED
    BY <1>3, <2>1, <2>2, <2>3, <2>4 DEF SkipOK, Known
<1>5. QED
  BY <1>3, <1>4

(* Neither branch of ftape_setup_new_segment() disturbs the maps, unless   *)
(* errors are to be ignored.                                               *)
LEMMA SetupMaps ==
    ASSUME ~IgnoreEccErr, NEW b \in Buffer, SkipOK(b), NEW seg \in Segments,
           NEW mayskip, NEW lastskipped,
           NEW c, c \in {setup_retry(b, seg, mayskip, lastskipped), setup_fresh(b, seg)}
    PROVE  OnCourse(c) /\ SkipOK(c)
<1>1. CASE c = setup_retry(b, seg, mayskip, lastskipped)
  <2> DEFINE retry  == b.retry + 1
             start  == IF b.skip > 0 THEN b.short_start ELSE 0
             d      == [b EXCEPT !.retry = retry, !.skip = b.skip, !.short_start = start]
             offset == IF mayskip = 1 THEN b.skip ELSE 0
  <2>1. ~FastFail(b, seg, lastskipped)
    BY DEF FastFail
  <2>2. c = setup_segment(d, seg, offset, 1)
    BY <1>1, <2>1 DEF setup_retry
  <2>3. retry \in Int /\ start \in Flags /\ b.skip \in Offsets
    BY FieldTypes DEF Buffer
  <2> HIDE DEF retry, start
  <2>4. d \in Buffer /\ SameMaps(d, b) /\ d.skip = b.skip
    BY <2>3 DEF Buffer, SameMaps
  <2> HIDE DEF d
  <2>5. SkipOK(d)
    BY <2>4, SameMapsKeep
  <2>6. offset \in Offsets /\ offset \in {0, d.skip}
    BY <2>3, <2>4, FieldTypes
  <2> HIDE DEF offset
  <2>7. QED
    BY <2>2, <2>4, <2>5, <2>6, SetupSegmentMaps
<1>2. CASE c = setup_fresh(b, seg)
  <2> DEFINE d == [b EXCEPT !.retry = 0, !.skip = 0, !.short_start = 0]
  <2>1. c = setup_segment(d, seg, 0, 0)
    BY <1>2 DEF setup_fresh
  <2>2. d \in Buffer /\ d.skip = 0
    BY FieldTypes DEF Buffer
  <2> HIDE DEF d
  <2>3. SkipOK(d)
    BY <2>2, SectorsAssumption DEF SkipOK, Good, Sectors
  <2>4. QED
    BY <2>1, <2>2, <2>3, FieldTypes, SetupSegmentMaps
<1>3. QED
  BY <1>1, <1>2

(* The search for the next cluster passes bad sectors only, and finds none *)
(* only at the end of the segment.                                         *)
LEMMA CalcNextClusterMaps ==
    ASSUME NEW b \in Buffer, OnCourse(b),
           NEW c, c = ftape_calc_next_cluster(b)
    PROVE  /\ OnCourse(c) /\ InCluster(c) /\ Further(c, b)
           /\ Known(c) /\ c.sector_count = 0 => c.remaining = 0
<1> DEFINE end   == b.sector_offset + b.remaining
           good  == Sectors \ b.bad_sector_map
           first == FirstIn(good, b.sector_offset, end)
           last  == FirstIn(b.bad_sector_map, first, end)
           left  == end - first
           count == last - first
<1>1. b.sector_offset \in Nat /\ end \in Nat /\ b.sector_offset <= end
  BY DEF Buffer
<1>2. c = [b EXCEPT !.sector_offset = first, !.remaining = left, !.sector_count = count]
  BY DEF ftape_calc_next_cluster
<1> HIDE DEF end, good
<1>3. /\ first \in b.sector_offset .. end
      /\ first = end \/ first \in good
      /\ \A t \in b.sector_offset .. end : t < first => t \notin good
  BY <1>1, FirstInType
<1> HIDE DEF first
<1>4. first \in Nat /\ first <= end
  BY <1>1, <1>3
<1>5. /\ last \in first .. end
      /\ last = end \/ last \in b.bad_sector_map
      /\ \A t \in first .. end : t < last => t \notin b.bad_sector_map
  BY <1>1, <1>4, FirstInType
<1> HIDE DEF last, left, count
<1>6. /\ c.sector_offset = first /\ c.remaining = left /\ c.sector_count = count
      /\ c.segment_id = b.segment_id /\ c.stray = b.stray /\ c.skip = b.skip
      /\ c.moved = b.moved /\ c.bad_sector_map = b.bad_sector_map
      /\ c.data_offset = b.data_offset
      /\ c.soft_error_map = b.soft_error_map /\ c.hard_error_map = b.hard_error_map
  BY <1>2 DEF Buffer
<1>7. Further(c, b)
  BY <1>6 DEF Further
<1>8. ASSUME Known(c)
      PROVE  /\ c.bad_sector_map = BadSectors[c.segment_id]
             /\ c.sector_offset + c.remaining = SectorsPerSegment
             /\ c.data_offset = Block(c.segment_id, c.sector_offset)
             /\ \A s \in Good(c) : s < c.sector_offset =>
                   IsRead(c, s) \/ s \in c.soft_error_map \/ s \in c.hard_error_map
             /\ \A s \in c.sector_offset .. (c.sector_offset + c.sector_count - 1) :
                   s \notin BadSectors[c.segment_id]
             /\ c.sector_count = 0 => c.remaining = 0
  <2>1. /\ b.bad_sector_map = BadSectors[b.segment_id] /\ end = SectorsPerSegment
        /\ b.data_offset = Block(b.segment_id, b.sector_offset)
        /\ \A s \in Good(b) : s < b.sector_offset =>
              IsRead(b, s) \/ s \in b.soft_error_map \/ s \in b.hard_error_map
    BY <1>6, <1>8 DEF OnCourse, Known, end
  <2>2. \A t \in b.sector_offset .. (first - 1) : t \in BadSectors[b.segment_id]
    BY <1>1, <1>3, <1>4, <2>1, SectorsAssumption DEF good, Sectors
  <2>3. Block(b.segment_id, first) = Block(b.segment_id, b.sector_offset)
    BY <1>1, <1>3, <1>4, <2>2, BlockOverBad
  <2>4. first + left = SectorsPerSegment
    BY <1>1, <1>4, <2>1 DEF left
  <2>5. \A s \in Good(b) : s < first => s < b.sector_offset
    BY <1>1, <1>4, <2>2, SectorsAssumption DEF Good, Sectors
  <2>6. \A s \in first .. (first + count - 1) : s \notin BadSectors[b.segment_id]
    BY <1>1, <1>4, <1>5, <2>1 DEF count
  <2>7. count = 0 => left = 0
    <3>1. SUFFICES ASSUME count = 0 PROVE first = end
      BY <1>1 DEF left
    <3>2. last = first
      BY <1>1, <1>4, <1>5, <3>1 DEF count
    <3>3. QED
      BY <1>3, <1>5, <3>2 DEF good
  <2>8. \A s \in Good(c) : s < c.sector_offset =>
           IsRead(c, s) \/ s \in c.soft_error_map \/ s \in c.hard_error_map
    BY <1>6, <2>1, <2>5 DEF Good, IsRead
  <2>9. QED
    BY <1>6, <2>1, <2>3, <2>4, <2>6, <2>7, <2>8
<1>9. QED
  BY <1>7, <1>8 DEF OnCourse, InCluster

(* Sectors of the cluster that have been transferred have been read.       *)
LEMMA AdvanceMaps ==
    ASSUME NEW b \in Buffer, OnCourse(b), InCluster(b), NEW n \in Nat,
           n <= b.sector_count, n <= b.remaining, NEW c, c = Advance(b, n)
    PROVE  /\ OnCourse(c) /\ Further(c, b)
           /\ c.sector_offset = b.sector_offset + n
           /\ c.remaining = b.remaining - n
<1> DEFINE offset == b.sector_offset + n
           data   == b.data_offset + n
           left   == b.remaining - n
           move   == b.moved \cup (b.data_offset .. (b.data_offset + n - 1))
<1>1. /\ b.sector_offset \in Nat /\ b.data_offset \in Nat /\ b.remaining \in Nat
      /\ b.sector_count \in Nat
  BY DEF Buffer
<1>2. c = [b EXCEPT !.sector_count = n, !.sector_offset = offset,
                    !.data_offset = data, !.remaining = left, !.moved = move]
  BY DEF Advance
<1> HIDE DEF offset, data, left, move
<1>3. /\ c.sector_offset = offset /\ c.remaining = left /\ c.data_offset = data
      /\ c.segment_id = b.segment_id /\ c.stray = b.stray /\ c.skip = b.skip
      /\ c.moved = move /\ c.bad_sector_map = b.bad_sector_map
      /\ c.soft_error_map = b.soft_error_map /\ c.hard_error_map = b.hard_error_map
  BY <1>2 DEF Buffer
<1>4. Further(c, b)
  BY <1>3 DEF Further, move
<1>5. ASSUME Known(c)
      PROVE  /\ c.bad_sector_map = BadSectors[c.segment_id]
             /\ c.sector_offset + c.remaining = SectorsPerSegment
             /\ c.data_offset = Block(c.segment_id, c.sector_offset)
             /\ \A s \in Good(c) : s < c.sector_offset =>
                   IsRead(c, s) \/ s \in c.soft_error_map \/ s \in c.hard_error_map
  <2>1. /\ b.bad_sector_map = BadSectors[b.segment_id]
        /\ b.sector_offset + b.remaining = SectorsPerSegment
        /\ b.data_offset = Block(b.segment_id, b.sector_offset)
        /\ \A s \in Good(b) : s < b.sector_offset =>
              IsRead(b, s) \/ s \in b.soft_error_map \/ s \in b.hard_error_map
        /\ \A s \in b.sector_offset .. (b.sector_offset + b.sector_count - 1) :
              s \notin BadSectors[b.segment_id]
    BY <1>3, <1>5 DEF OnCourse, InCluster, Known
  <2>2. ASSUME NEW m \in Nat, m <= n
        PROVE  Block(b.segment_id, b.sector_offset + m) = b.data_offset + m
    <3>1. \A s \in b.sector_offset .. (b.sector_offset + m - 1) :
             s \notin BadSectors[b.segment_id]
      BY <1>1, <2>1, <2>2
    <3>2. QED
      BY <1>1, <2>1, <3>1, BlockOverGood
  <2>3. data = Block(b.segment_id, offset)
    BY <2>2 DEF data, offset
  <2>4. offset + left = SectorsPerSegment
    BY <1>1, <2>1 DEF offset, left
  <2>5. ASSUME NEW s \in Good(c), s < offset
        PROVE  IsRead(c, s) \/ s \in c.soft_error_map \/ s \in c.hard_error_map
    <3>1. s \in Nat /\ s \in Good(b)
      BY <1>3, SectorsAssumption DEF Good, Sectors
    <3>2. CASE s < b.sector_offset
      BY <1>3, <2>1, <3>1, <3>2 DEF IsRead, move
    <3>3. CASE ~(s < b.sector_offset)
      <4> DEFINE m == s - b.sector_offset
      <4>1. m \in Nat /\ m < n /\ b.sector_offset + m = s
        BY <1>1, <2>5, <3>1, <3>3 DEF offset
      <4>2. Block(b.segment_id, s) = b.data_offset + m
        BY <1>1, <2>2, <4>1
      <4> HIDE DEF m
      <4>3. b.data_offset + m \in move
        BY <1>1, <4>1 DEF move
      <4>4. QED
        BY <1>3, <4>2, <4>3 DEF IsRead
    <3>4. QED
      BY <3>2, <3>3
  <2>6. QED
    BY <1>3, <2>1, <2>3, <2>4, <2>5
<1>6. QED
  BY <1>3, <1>4, <1>5 DEF OnCourse, offset, left

(* A sector of the segment is flagged, and no flag is lost.                *)
LEMMA UpdateErrorMapsFlags ==
    ASSUME NEW b \in Buffer, NEW sector \in Nat,
           NEW c, c = update_error_maps(b, sector)
    PROVE  /\ c.sector_offset = b.sector_offset /\ c.remaining = b.remaining
           /\ c.data_offset = b.data_offset /\ c.bad_sector_map = b.bad_sector_map
           /\ c.segment_id = b.segment_id /\ c.stray = b.stray /\ c.skip = b.skip
           /\ c.moved = b.moved
           /\ b.hard_error_map \subseteq c.hard_error_map
           /\ b.soft_error_map \subseteq c.soft_error_map \cup c.hard_error_map
           /\ sector \in Sectors => sector \in c.soft_error_map \cup c.hard_error_map
<1> DEFINE soft == b.soft_error_map \cup {sector}
           hard == b.hard_error_map \cup {sector}
           rest == b.soft_error_map \ (b.hard_error_map \cup {sector})
           minus == -1
<1>1. CASE sector >= SectorsPerSegment
  <2>1. c = b
    BY <1>1, FieldTypes DEF update_error_maps
  <2>2. sector \notin Sectors
    BY <1>1, FieldTypes DEF Sectors
  <2>3. QED
    BY <2>1, <2>2
<1>2. CASE sector < SectorsPerSegment
  <2>1. c = IF b.retry < SoftRetries
            THEN [b EXCEPT !.soft_error_map = soft]
            ELSE [b EXCEPT !.hard_error_map = hard, !.soft_error_map = rest,
                           !.retry = minus]
    BY <1>2, FieldTypes DEF update_error_maps
  <2> HIDE DEF soft, hard, rest, minus
  <2>2. /\ c.sector_offset = b.sector_offset /\ c.remaining = b.remaining
        /\ c.data_offset = b.data_offset /\ c.bad_sector_map = b.bad_sector_map
        /\ c.segment_id = b.segment_id /\ c.stray = b.stray /\ c.skip = b.skip
        /\ c.moved = b.moved
        /\ \/ c.soft_error_map = soft /\ c.hard_error_map = b.hard_error_map
           \/ c.soft_error_map = rest /\ c.hard_error_map = hard
    BY <2>1 DEF Buffer
  <2>3. QED
    BY <2>2 DEF soft, hard, rest
<1>3. QED
  BY <1>1, <1>2, FieldTypes

(* The sector an error is charged to is passed and flagged.                *)
LEMMA FailedSectorMaps ==
    ASSUME NEW b \in Buffer, OnCourse(b), b.remaining > 0,
           Known(b) => b.sector_offset \notin BadSectors[b.segment_id],
           NEW d, d = skip_bad_sector(b),
           NEW c, c = update_error_maps(d, d.sector_offset - 1)
    PROVE  OnCourse(c) /\ Further(c, b) /\ c.sector_offset = b.sector_offset + 1
<1> DEFINE offset == b.sector_offset + 1
           data   == b.data_offset + 1
           left   == b.remaining - 1
           sector == b.sector_offset
<1>1. /\ b.sector_offset \in Nat /\ b.data_offset \in Nat /\ b.remaining \in Nat
      /\ offset - 1 = sector /\ sector \in Nat
  BY DEF Buffer
<1>2. d = [b EXCEPT !.sector_offset = offset, !.data_offset = data, !.remaining = left]
  BY DEF skip_bad_sector
<1>3. d \in Buffer
  BY SkipBadSectorType
<1> HIDE DEF offset, data, left
<1>4. /\ d.sector_offset = offset /\ d.remaining = left /\ d.data_offset = data
      /\ d.segment_id = b.segment_id /\ d.stray = b.stray /\ d.skip = b.skip
      /\ d.moved = b.moved /\ d.bad_sector_map = b.bad_sector_map
      /\ d.soft_error_map = b.soft_error_map /\ d.hard_error_map = b.hard_error_map
  BY <1>2 DEF Buffer
<1>5. c = update_error_maps(d, sector)
  BY <1>1, <1>4
<1> HIDE DEF sector
<1>6. /\ c.sector_offset = offset /\ c.remaining = left /\ c.data_offset = data
      /\ c.segment_id = b.segment_id /\ c.stray = b.stray /\ c.skip = b.skip
      /\ c.moved = b.moved /\ c.bad_sector_map = b.bad_sector_map
      /\ b.hard_error_map \subseteq c.hard_error_map
      /\ b.soft_error_map \subseteq c.soft_error_map \cup c.hard_error_map
      /\ sector \in Sectors => sector \in c.soft_error_map \cup c.hard_error_map
  BY <1>1, <1>3, <1>4, <1>5, UpdateErrorMapsFlags
<1>7. Further(c, b)
  BY <1>6 DEF Further
<1>8. ASSUME Known(c)
      PROVE  /\ c.bad_sector_map = BadSectors[c.segment_id]
             /\ c.sector_offset + c.remaining = SectorsPerSegment
             /\ c.data_offset = Block(c.segment_id, c.sector_offset)
             /\ \A s \in Good(c) : s < c.sector_offset =>
                   IsRead(c, s) \/ s \in c.soft_error_map \/ s \in c.hard_error_map
  <2>1. /\ b.bad_sector_map = BadSectors[b.segment_id]
        /\ b.sector_offset + b.remaining = SectorsPerSegment
        /\ b.data_offset = Block(b.segment_id, b.sector_offset)
        /\ \A s \in Good(b) : s < b.sector_offset =>
              IsRead(b, s) \/ s \in b.soft_error_map \/ s \in b.hard_error_map
        /\ sector \notin BadSectors[b.segment_id]
    BY <1>6, <1>8 DEF OnCourse, Known, sector
  <2>2. Block(b.segment_id, offset) = data
    <3>1. ASSUME NEW m \in Nat, m = 1
          PROVE  Block(b.segment_id, sector + m) = Block(b.segment_id, sector) + m
      <4>1. \A s \in sector .. (sector + m - 1) : s \notin BadSectors[b.segment_id]
        BY <1>1, <2>1, <3>1
      <4>2. QED
        BY <1>1, <4>1, BlockOverGood
    <3>2. QED
      BY <2>1, <3>1 DEF offset, data, sector
  <2>3. offset + left = SectorsPerSegment
    BY <1>1, <2>1 DEF offset, left
  <2>4. ASSUME NEW s \in Good(c), s < offset
        PROVE  IsRead(c, s) \/ s \in c.soft_error_map \/ s \in c.hard_error_map
    <3>1. s \in Nat /\ s \in Good(b) /\ s \in Sectors
      BY <1>6, SectorsAssumption DEF Good, Sectors
    <3>2. s < b.sector_offset \/ s = sector
      BY <1>1, <2>4, <3>1 DEF offset, sector
    <3>3. CASE s < b.sector_offset
      <4>1. IsRead(b, s) \/ s \in b.soft_error_map \/ s \in b.hard_error_map
        BY <2>1, <3>1, <3>3
      <4>2. QED
        BY <1>6, <4>1 DEF IsRead
    <3>4. CASE s = sector
      BY <1>6, <3>1, <3>4
    <3>5. QED
      BY <3>2, <3>3, <3>4
  <2>5. QED
    BY <1>6, <2>1, <2>2, <2>3, <2>4
<1>9. QED
  BY <1>6, <1>7, <1>8 DEF OnCourse, offset

(* CountError() touches neither the maps nor the counters.                 *)
LEMMA CountErrorMaps ==
    ASSUME NEW b \in Buffer, NEW cause
    PROVE  SameMaps(CountError(b, cause), b)
<1> DEFINE less == b.retry - 1
<1>1. CountError(b, cause) \in {[b EXCEPT !.short_start = 1],
                                [b EXCEPT !.retry = less, !.short_start = 0], b}
  BY DEF CountError
<1> HIDE DEF less
<1>2. QED
  BY <1>1 DEF Buffer, SameMaps

(* The account of a transfer, whether it failed or not.                    *)
LEMMA ProgressMaps ==
    ASSUME NEW b \in Buffer, OnCourse(b), InCluster(b), b.sector_count <= b.remaining,
           NEW transferred \in 0 .. b.sector_count, NEW cause,
           cause # "no_error" => b.sector_count > 0,
           NEW c, c = determine_progress(b, cause, transferred)
    PROVE  OnCourse(c) /\ Further(c, b)
<1>1. b.sector_count \in Nat /\ b.remaining \in Nat /\ b.sector_offset \in Nat
  BY DEF Buffer
<1>2. CASE cause = "no_error"
  <2>1. transferred \in Nat /\ transferred <= b.remaining /\ transferred <= b.sector_count
    BY <1>1
  <2>2. c = Advance(b, transferred)
    BY <1>2 DEF determine_progress
  <2>3. QED
    BY <2>1, <2>2, AdvanceMaps
<1>3. CASE cause # "no_error"
  <2> DEFINE n == IF transferred = b.sector_count THEN transferred - 1 ELSE transferred
             a == Advance(b, n)
             e == CountError(a, cause)
             d == skip_bad_sector(e)
  <2>1. n \in Nat /\ n < b.sector_count /\ n <= b.sector_count /\ n <= b.remaining
        /\ n < b.remaining
    BY <1>1, <1>3
  <2>2. c = update_error_maps(d, d.sector_offset - 1)
    BY <1>3 DEF determine_progress, FailedProgress
  <2> HIDE DEF n
  <2>3. a \in Buffer /\ a.remaining = b.remaining - n
    BY <2>1, AdvanceType
  <2>4. OnCourse(a) /\ Further(a, b) /\ a.sector_offset = b.sector_offset + n
    BY <2>1, AdvanceMaps
  <2> HIDE DEF a
  <2>5. e \in Buffer /\ SameMaps(e, a)
    BY <2>3, CountErrorType, CountErrorMaps
  <2>6. OnCourse(e) /\ e.remaining > 0
    <3>1. OnCourse(e) /\ e.remaining = b.remaining - n
      BY <2>3, <2>4, <2>5, SameMapsKeep DEF SameMaps
    <3>2. QED
      BY <1>1, <2>1, <3>1
  <2>7. Known(e) => e.sector_offset \notin BadSectors[e.segment_id]
    <3>1. /\ e.segment_id = b.segment_id /\ e.stray = b.stray
          /\ e.sector_offset = b.sector_offset + n
      BY <2>4, <2>5 DEF SameMaps, Further
    <3>2. b.sector_offset + n \in
             b.sector_offset .. (b.sector_offset + b.sector_count - 1)
      BY <1>1, <2>1
    <3>3. QED
      BY <3>1, <3>2 DEF Known, InCluster
  <2> HIDE DEF e
  <2>8. OnCourse(c) /\ Further(c, e)
    BY <2>2, <2>5, <2>6, <2>7, FailedSectorMaps
  <2>9. Further(c, b)
    BY <2>4, <2>5, <2>8 DEF Further, SameMaps
  <2>10. QED
    BY <2>8, <2>9
<1>4. QED
  BY <1>2, <1>3

(* The point a retry resumes from: every good sector before it has been    *)
(* read or given up.                                                       *)
LEMMA ResumePointMaps ==
    ASSUME NEW b \in Buffer, OnCourse(b), NEW skip, skip = find_resume_point(b),
           NEW c, c = [b EXCEPT !.status = "error", !.skip = skip]
    PROVE  SkipOK(c)
<1> DEFINE before == 0 .. (b.sector_offset - 1)
           soft   == b.soft_error_map \cap before
           hard   == b.hard_error_map \cap before
<1>1. SUFFICES ASSUME b.stray = 0, NEW s \in Good(b), s < skip
               PROVE  IsRead(b, s) \/ s \in b.hard_error_map
  <2>1. c.stray = b.stray /\ c.segment_id = b.segment_id /\ c.skip = skip
        /\ c.moved = b.moved /\ c.hard_error_map = b.hard_error_map
    BY DEF Buffer
  <2>2. QED
    BY <1>1, <2>1 DEF SkipOK, Good, IsRead
<1>2. s \in Nat /\ s \in Sectors /\ b.sector_offset \in Nat
  BY SectorsAssumption DEF Good, Sectors, Buffer
<1>3. \A u \in Good(b) : u < b.sector_offset =>
         IsRead(b, u) \/ u \in b.soft_error_map \/ u \in b.hard_error_map
  BY <1>1 DEF OnCourse, Known, Good
<1>4. CASE b.sector_offset < 1 \/ b.sector_offset > SectorsPerSegment
  <2>1. skip = 0
    BY <1>2, <1>4, FieldTypes DEF find_resume_point
  <2>2. QED
    BY <1>1, <1>2, <2>1
<1>5. CASE b.sector_offset \in 1 .. SectorsPerSegment /\ soft # {}
  <2>1. skip = CHOOSE u \in soft : \A t \in soft : u <= t
    BY <1>2, <1>5, FieldTypes DEF find_resume_point
  <2>2. soft \in SUBSET Nat
    OBVIOUS
  <2> HIDE DEF soft
  <2>3. \E u \in soft : \A t \in soft : u <= t
    BY <1>5, <2>2, NatMinimum
  <2>4. skip \in soft /\ \A t \in soft : skip <= t
    BY <2>1, <2>3
  <2>5. s < b.sector_offset /\ s \notin soft
    BY <1>1, <1>2, <2>2, <2>4 DEF soft
  <2>6. s \notin b.soft_error_map
    BY <1>2, <2>5 DEF soft
  <2>7. QED
    BY <1>3, <2>5, <2>6
<1>6. CASE b.sector_offset \in 1 .. SectorsPerSegment /\ soft = {}
  <2>1. skip <= b.sector_offset
    <3>1. CASE hard # {}
      <4>1. skip = 1 + CHOOSE u \in hard : \A t \in hard : t <= u
        BY <1>2, <1>6, <3>1, FieldTypes DEF find_resume_point
      <4>2. hard \in SUBSET Sectors
        BY DEF Buffer, SectorMaps
      <4>3. \A u \in hard : u \in Nat /\ 1 + u <= b.sector_offset
        BY <1>2
      <4> HIDE DEF hard
      <4>4. \E u \in hard : \A t \in hard : t <= u
        BY <3>1, <4>2, SectorMaximum
      <4>5. (CHOOSE u \in hard : \A t \in hard : t <= u) \in hard
        BY <4>4
      <4>6. QED
        BY <4>1, <4>3, <4>5
    <3>2. CASE hard = {}
      <4>1. skip = b.sector_offset - 1
        BY <1>2, <1>6, <3>2, FieldTypes DEF find_resume_point
      <4>2. QED
        BY <1>2, <4>1
    <3>3. QED
      BY <3>1, <3>2
  <2>2. s < b.sector_offset
    <3>1. skip \in Nat
      BY FindResumePointType, FieldTypes
    <3>2. QED
      BY <1>1, <1>2, <2>1, <3>1
  <2>3. s \notin b.soft_error_map
    BY <1>2, <1>6, <2>2
  <2>4. QED
    BY <1>3, <2>2, <2>3
<1>7. QED
  BY <1>2, <1>4, <1>5, <1>6, FieldTypes

(* A segment of more than one block that has been passed to its end is     *)
(* complete, and what has not been read of it is flagged.                  *)
LEMMA CompleteMaps ==
    ASSUME NEW b \in Buffer, OnCourse(b), b.stray = 0,
           Cardinality(Blocks(b.segment_id)) > 1,
           Known(b) => b.remaining = 0
    PROVE  /\ b.data_offset = Cardinality(Blocks(b.segment_id))
           /\ Blocks(b.segment_id) \ b.moved \subseteq convert_sector_map(b)
<1>1. Cardinality(Blocks(b.segment_id)) \in Int
  <2>1. Block(b.segment_id, SectorsPerSegment) \in Nat
    BY SectorsAssumption, BlockType
  <2>2. Cardinality(Blocks(b.segment_id)) = Block(b.segment_id, SectorsPerSegment)
    BY BlocksCount
  <2>3. QED
    BY <2>1, <2>2
<1>2. Known(b)
  <2>1. Cardinality(Blocks(b.segment_id)) <= 1 =>
           ~ (Cardinality(Blocks(b.segment_id)) > 1)
    BY <1>1
  <2>2. QED
    BY <2>1, FewBlocks DEF Known
<1>3. /\ b.sector_offset + b.remaining = SectorsPerSegment /\ b.remaining = 0
      /\ b.data_offset = Block(b.segment_id, b.sector_offset)
      /\ \A s \in Good(b) : s < b.sector_offset =>
            IsRead(b, s) \/ s \in b.soft_error_map \/ s \in b.hard_error_map
  BY <1>2 DEF OnCourse
<1>4. b.sector_offset = SectorsPerSegment
  BY <1>3 DEF Buffer
<1>5. b.data_offset = Cardinality(Blocks(b.segment_id))
  BY <1>3, <1>4, BlocksCount
<1>6. ASSUME NEW x \in Blocks(b.segment_id), x \notin b.moved
      PROVE  x \in convert_sector_map(b)
  <2>1. PICK s \in Good(b) : x = Block(b.segment_id, s)
    BY DEF Blocks, Good
  <2>2. s < b.sector_offset
    BY <1>4, SectorsAssumption DEF Good, Sectors
  <2>3. s \in b.soft_error_map \cup b.hard_error_map
    BY <1>3, <1>6, <2>1, <2>2 DEF IsRead
  <2>4. QED
    BY <2>1, <2>3 DEF convert_sector_map, Good
<1>7. QED
  BY <1>5, <1>6


-----------------------------------------------------------------------------
(* The interrupt handler                                                    *)

(***************************************************************************)
(* What the handler needs of a transfer, whichever process started it: the *)
(* cluster lies within what remains of HEAD, and nobody has taken HEAD for *)
(* written or read meanwhile.  TransferInHead says in addition that HEAD   *)
(* is still marked as in transfer, which write_segment() may undo.         *)
(***************************************************************************)
TransferSound ==
    Transferring =>
        /\ HEAD.status # "done"
        /\ HEAD.sector_count <= HEAD.remaining
        /\ HEAD.next_segment \in {0, HEAD.segment_id + 1}
        /\ fdc_mode \in {"reading_data", "writing_data", "deleting"}

IsrInv == IsrTypeOK /\ TransferSound

(* What a run of the handler does to the ring.  HEAD stays, in transfer or *)
(* in error;                                                               *)
HeadStays ==
    /\ head' = head
    /\ \A i \in Ring : i # head => buffers'[i] = buffers[i]
    /\ buffers'[head].segment_id = HEAD.segment_id
    /\ buffers'[head].status \in {HEAD.status, "error"}
    /\ Transferring' => buffers'[head].status = HEAD.status

(* or it is finished or given up, and the runner stops;                    *)
HeadLeaves ==
    /\ head' = next(head)
    /\ \A i \in Ring : i # head => buffers'[i] = buffers[i]
    /\ buffers'[head].segment_id = HEAD.segment_id
    /\ buffers'[head].status \in {"done", "error"}
    /\ ~ Transferring'

(* or it is finished and the runner goes on to the next buffer, which was  *)
(* free, with the segment that follows on tape.                            *)
HeadGoesOn ==
    /\ head' = next(head) /\ next(head) # head
    /\ buffers[next(head)].status = "waiting"
    /\ IsWrite => buffers[next(head)].segment_id = HEAD.segment_id + 1
    /\ buffers'[next(head)].segment_id = HEAD.segment_id + 1
    /\ buffers'[next(head)].status \in {StatusAhead, "waiting"}
    /\ Transferring' => buffers'[next(head)].status = StatusAhead
    /\ buffers'[head].segment_id = HEAD.segment_id
    /\ buffers'[head].status = "done"
    /\ \A i \in Ring : i # head /\ i # next(head) => buffers'[i] = buffers[i]

(* The part of an action's result that the handler is answerable for.      *)
Handled ==
    /\ buffers' \in [Ring -> Buffer] /\ head' \in Ring
    /\ runner_status' \in RunnerStates
    /\ fdc_mode' \in Modes
    /\ busy' \in BOOLEAN /\ hide_interrupt' \in BOOLEAN
    /\ interrupt_seen' \in BOOLEAN /\ setup_error' \in BOOLEAN
    /\ stop_read_ahead' \in BOOLEAN
    /\ old_driver_state' \in DriverStates
    /\ old_segment_id' \in Segments \cup {None}
    /\ last_segment_skipped' \in Segments \cup {None}
    /\ TransferSound'
    /\ fdc_mode' \in {fdc_mode, "idle", "seeking"}
    /\ HeadStays \/ HeadLeaves \/ HeadGoesOn
    /\ \A i \in Ring : buffers[i].status = "done" => buffers'[i] = buffers[i]

(* The ring.                                                               *)
LEMMA NextInRing ==
    ASSUME NEW i \in Ring
    PROVE  next(i) \in Ring
  BY NrBuffersAssumption DEF next, Ring

(* i is one of the buffers from a up to, but not including, h.             *)
Between(a, i, h) ==
    \/ a <= i /\ i < h
    \/ h < a /\ (a <= i \/ i < h)

(* How the span from TAIL to HEAD changes when one of them moves on.       *)
LEMMA BetweenFacts ==
    ASSUME NEW a \in Ring, NEW h \in Ring, NEW i \in Ring
    PROVE  /\ a # h => Between(a, a, h)
           /\ ~ Between(a, i, a)
           /\ ~ Between(a, h, h)
           /\ next(h) # a => ~ Between(a, next(h), h)
           /\ next(h) # a => (Between(a, i, next(h)) <=> i = h \/ Between(a, i, h))
           /\ next(h) = a => (i = h \/ Between(a, i, h))
           /\ a # h => (Between(next(a), i, h) <=> Between(a, i, h) /\ i # a)
           /\ a = h => (Between(next(a), i, h) <=> i # a)
<1>1. \A j \in Ring : next(j) = IF j = NrBuffers - 1 THEN 0 ELSE j + 1
  BY NrBuffersAssumption DEF Ring, next
<1>2. QED
  BY <1>1, NrBuffersAssumption DEF Between, Ring

(* ftape_setup_new_segment(), on either branch.                            *)
LEMMA SetupNewSegmentType ==
    ASSUME NEW b \in Buffer, NEW seg \in Segments, NEW mayskip
    PROVE  /\ ftape_setup_new_segment(b, seg, mayskip) \in Buffer
           /\ ftape_setup_new_segment(b, seg, mayskip).next_segment = seg + 1
           /\ ftape_setup_new_segment(b, seg, mayskip).segment_id = seg
           /\ ftape_setup_new_segment(b, seg, mayskip).status = b.status
  BY SetupRetryType, SetupFreshType DEF ftape_setup_new_segment

(* What ftape_setup_new_segment() keeps in its static variables for the    *)
(* next call is a driver state and a segment.                              *)
LEMMA RememberSetupType ==
    ASSUME IsrTypeOK, NEW b, NEW seg \in Segments, NEW mayskip,
           RememberSetup(b, seg, mayskip)
    PROVE  /\ old_driver_state' \in DriverStates
           /\ old_segment_id' \in Segments \cup {None}
           /\ last_segment_skipped' \in Segments \cup {None}
  BY DEF IsrTypeOK, RememberSetup

-----------------------------------------------------------------------------

(* Every way the handler returns leaves flags that are flags; only Run()   *)
(* leaves a transfer under way, in the mode it was given.                  *)
LEMMA StopType ==
    ASSUME NEW mode \in Modes, Stop(mode)
    PROVE  /\ fdc_mode' \in Modes /\ busy' \in BOOLEAN
           /\ hide_interrupt' \in BOOLEAN /\ interrupt_seen' \in BOOLEAN
           /\ fdc_mode' = mode
           /\ ~Transferring'
  BY DEF Stop, Transferring

(* A handler that returns with another cluster under way.                  *)
LEMMA RunType ==
    ASSUME NEW mode \in Modes, Run(mode)
    PROVE  /\ fdc_mode' \in Modes /\ busy' \in BOOLEAN
           /\ hide_interrupt' \in BOOLEAN /\ interrupt_seen' \in BOOLEAN
           /\ setup_error' \in BOOLEAN
           /\ fdc_mode' = mode
  BY DEF Run

(* A handler that returns with the pausing seek under way, or failed to    *)
(* start it: no transfer in either case.                                   *)
LEMMA PauseType ==
    ASSUME IsrTypeOK, NEW late, pause_tape(late)
    PROVE  /\ fdc_mode' \in Modes /\ busy' \in BOOLEAN
           /\ hide_interrupt' \in BOOLEAN /\ interrupt_seen' \in BOOLEAN
           /\ fdc_mode' \in {fdc_mode, "seeking"}
           /\ ~Transferring'
  BY DEF IsrTypeOK, pause_tape, Transferring, Modes

(* SetHead() with a buffer, when HEAD is in transfer.                      *)
LEMMA SetHeadType ==
    ASSUME IsrInv, Transferring, NEW b \in Buffer, SetHead(b)
    PROVE  /\ buffers' \in [Ring -> Buffer]
           /\ buffers'[head] = b
           /\ \A i \in Ring : i # head => buffers'[i] = buffers[i]
           /\ \A i \in Ring : buffers[i].status = "done" => buffers'[i] = buffers[i]
  BY DEF IsrInv, IsrTypeOK, TransferSound, SetHead, HEAD

-----------------------------------------------------------------------------
(* The branches of continue_xfer() and retry_sector(), each for any buffer *)
(* b that HEAD may have become                                              *)

(* A buffer in an unexpected state is given up: only HEAD changes, and it  *)
(* was not full.                                                           *)
LEMMA GiveUpBufferStep ==
    ASSUME IsrInv, Transferring, NEW b \in Buffer, GiveUpBuffer(b),
           b.segment_id = HEAD.segment_id, setup_error' \in BOOLEAN
    PROVE  Handled
<1> DEFINE c == [b EXCEPT !.status = "error"]
<1>1. c \in Buffer /\ c.status = "error" /\ c.segment_id = HEAD.segment_id
  BY DEF Buffer, BufferStates
<1>2. SetHead(c) /\ head' = next(head) /\ Stop("idle") /\ runner_status' = "aborting"
      /\ stop_read_ahead' = StopNext(b) /\ UNCHANGED setup
  BY DEF GiveUpBuffer
<1> HIDE DEF c
<1>3. /\ buffers' \in [Ring -> Buffer] /\ buffers'[head] = c
      /\ \A i \in Ring : i # head => buffers'[i] = buffers[i]
      /\ \A i \in Ring : buffers[i].status = "done" => buffers'[i] = buffers[i]
  BY <1>1, <1>2, SetHeadType
<1>4. head' \in Ring
  BY <1>2, NextInRing DEF IsrInv, IsrTypeOK
<1>5. /\ fdc_mode' \in Modes /\ busy' \in BOOLEAN
      /\ hide_interrupt' \in BOOLEAN /\ interrupt_seen' \in BOOLEAN
      /\ fdc_mode' = "idle"
      /\ ~Transferring'
  BY <1>2, StopType DEF Modes
<1>6. /\ old_driver_state' \in DriverStates
      /\ old_segment_id' \in Segments \cup {None}
      /\ last_segment_skipped' \in Segments \cup {None}
      /\ stop_read_ahead' \in BOOLEAN
      /\ runner_status' \in RunnerStates
  BY <1>2 DEF IsrInv, IsrTypeOK, setup, StopNext, RunnerStates
<1>7. HeadLeaves
  BY <1>1, <1>2, <1>3, <1>5 DEF HeadLeaves
<1>8. QED
  BY <1>3, <1>4, <1>5, <1>6, <1>7 DEF Handled, TransferSound

(* The next cluster of the segment is transferred into the same buffer.    *)
LEMMA ContinueSegmentStep ==
    ASSUME IsrInv, Transferring, NEW b \in Buffer, NEW late,
           b.status = HEAD.status, b.segment_id = HEAD.segment_id,
           b.sector_count <= b.remaining,
           b.next_segment \in {0, b.segment_id + 1},
           ContinueSegment(b, late)
    PROVE  Handled
<1>1. CASE /\ late = "none" /\ SetHead(b) /\ Run(fdc_mode)
           /\ UNCHANGED <<head, runner_status, setup, stop_read_ahead>>
  <2>1. /\ buffers' \in [Ring -> Buffer] /\ buffers'[head] = b
        /\ \A i \in Ring : i # head => buffers'[i] = buffers[i]
        /\ \A i \in Ring : buffers[i].status = "done" => buffers'[i] = buffers[i]
    BY <1>1, SetHeadType
  <2>2. /\ fdc_mode' \in Modes /\ busy' \in BOOLEAN
        /\ hide_interrupt' \in BOOLEAN /\ interrupt_seen' \in BOOLEAN
        /\ setup_error' \in BOOLEAN /\ fdc_mode' = fdc_mode
    BY <1>1, RunType DEF IsrInv, IsrTypeOK
  <2>3. /\ old_driver_state' \in DriverStates
        /\ old_segment_id' \in Segments \cup {None}
        /\ last_segment_skipped' \in Segments \cup {None}
        /\ stop_read_ahead' \in BOOLEAN /\ runner_status' \in RunnerStates
        /\ head' \in Ring
    BY <1>1 DEF IsrInv, IsrTypeOK, setup
  <2>4. TransferSound'
    BY <1>1, <2>1, <2>2 DEF IsrInv, TransferSound, Transferring, HEAD
  <2>5. HeadStays
    BY <1>1, <2>1 DEF HeadStays
  <2>6. QED
    BY <2>1, <2>2, <2>3, <2>4, <2>5 DEF Handled
<1>2. CASE /\ late = "setup"
           /\ GiveUpBuffer([b EXCEPT !.bytes = b.data_offset])
           /\ setup_error' = TRUE
  <2>1. /\ [b EXCEPT !.bytes = b.data_offset] \in Buffer
        /\ [b EXCEPT !.bytes = b.data_offset].segment_id = HEAD.segment_id
    BY DEF Buffer
  <2>2. QED
    BY <1>2, <2>1, GiveUpBufferStep
<1>3. QED
  BY <1>1, <1>2 DEF ContinueSegment

(* retry_sector(): HEAD is left to the process with the status error, and  *)
(* the tape is paused.                                                     *)
LEMMA RetrySectorStep ==
    ASSUME IsrInv, Transferring, NEW b \in Buffer, NEW skip \in Offsets, NEW late,
           b.segment_id = HEAD.segment_id, retry_sector(b, skip, late)
    PROVE  Handled
<1> DEFINE c == [b EXCEPT !.status = "error", !.skip = skip]
<1>1. c \in Buffer /\ c.status = "error" /\ c.segment_id = HEAD.segment_id
  BY DEF Buffer, BufferStates
<1>2. /\ SetHead(c) /\ runner_status' = "aborting" /\ pause_tape(late)
      /\ UNCHANGED <<head, setup, setup_error, stop_read_ahead>>
  BY DEF retry_sector
<1> HIDE DEF c
<1>3. /\ buffers' \in [Ring -> Buffer] /\ buffers'[head] = c
      /\ \A i \in Ring : i # head => buffers'[i] = buffers[i]
      /\ \A i \in Ring : buffers[i].status = "done" => buffers'[i] = buffers[i]
  BY <1>1, <1>2, SetHeadType
<1>4. /\ fdc_mode' \in Modes /\ busy' \in BOOLEAN
      /\ hide_interrupt' \in BOOLEAN /\ interrupt_seen' \in BOOLEAN
      /\ fdc_mode' \in {fdc_mode, "seeking"}
      /\ ~Transferring'
  BY <1>2, PauseType DEF IsrInv
<1>5. /\ old_driver_state' \in DriverStates
      /\ old_segment_id' \in Segments \cup {None}
      /\ last_segment_skipped' \in Segments \cup {None}
      /\ stop_read_ahead' \in BOOLEAN /\ setup_error' \in BOOLEAN
      /\ runner_status' \in RunnerStates
      /\ head' \in Ring
  BY <1>2 DEF IsrInv, IsrTypeOK, setup, RunnerStates
<1>6. HeadStays
  BY <1>1, <1>2, <1>3, <1>4 DEF HeadStays
<1>7. QED
  BY <1>3, <1>4, <1>5, <1>6 DEF Handled, TransferSound

(* Into the next buffer: it is free, and what follows on tape exists.      *)
LEMMA StartAheadStep ==
    ASSUME IsrInv, Transferring, NEW b \in Buffer, NEW n \in Ring, NEW late,
           b.segment_id = HEAD.segment_id,
           b.next_segment \in Segments, b.next_segment = b.segment_id + 1,
           IsWrite => b.next_segment = buffers[n].segment_id,
           n = next(head), n # head, head' = n, buffers[n].status = "waiting",
           StartAhead(b, n, late)
    PROVE  Handled
<1> DEFINE ahead   == ftape_setup_new_segment(buffers[n], b.next_segment, 0)
           stopped == [ahead EXCEPT !.next_segment = IF StopNext(b) THEN 0 ELSE @]
           ready   == ftape_calc_next_cluster(stopped)
           st(s)   == [ready EXCEPT !.status = s]
           both(s) == buffers' = [buffers EXCEPT ![head] = FinishBuffer(b),
                                                 ![n] = st(s)]
<1>1. buffers[n] \in Buffer /\ head \in Ring /\ buffers \in [Ring -> Buffer]
      /\ fdc_mode \in Modes
  BY DEF IsrInv, IsrTypeOK
<1>2. /\ FinishBuffer(b) \in Buffer /\ FinishBuffer(b).status = "done"
      /\ FinishBuffer(b).segment_id = HEAD.segment_id
  BY DEF FinishBuffer, Buffer, BufferStates
<1>3. /\ ahead \in Buffer /\ ahead.next_segment = ahead.segment_id + 1
      /\ ahead.segment_id = HEAD.segment_id + 1
  BY <1>1, SetupNewSegmentType
<1>4. /\ RememberSetup(buffers[n], b.next_segment, 0)
      /\ stop_read_ahead' = FALSE
      /\ \/ /\ late = "none" /\ ready.sector_count > 0
            /\ both(StatusAhead)
            /\ Run(fdc_mode)
            /\ UNCHANGED runner_status
         \/ /\ late = IF ready.sector_count > 0 THEN "setup" ELSE "none"
            /\ both("waiting")
            /\ runner_status' = "aborting"
            /\ Stop("idle")
            /\ setup_error' = (late = "setup")
  BY DEF StartAhead
<1> HIDE DEF ahead
<1>5. /\ stopped \in Buffer /\ stopped.next_segment \in {0, stopped.segment_id + 1}
      /\ stopped.segment_id = HEAD.segment_id + 1
  BY <1>3, FieldTypes DEF Buffer
<1> HIDE DEF stopped
<1>6. ready \in Buffer /\ ready.next_segment \in {0, ready.segment_id + 1}
      /\ ready.sector_count <= ready.remaining
      /\ ready.segment_id = HEAD.segment_id + 1
  BY <1>5, CalcNextClusterType
<1> HIDE DEF ready
<1>7. \A s \in BufferStates :
         /\ st(s) \in Buffer /\ st(s).status = s
         /\ st(s).next_segment \in {0, st(s).segment_id + 1}
         /\ st(s).sector_count <= st(s).remaining
         /\ st(s).segment_id = HEAD.segment_id + 1
  BY <1>6 DEF Buffer
<1>8. /\ old_driver_state' \in DriverStates
      /\ old_segment_id' \in Segments \cup {None}
      /\ last_segment_skipped' \in Segments \cup {None}
  BY <1>4, RememberSetupType DEF IsrInv
<1> HIDE DEF st
<1>9. ASSUME NEW s \in BufferStates, both(s)
      PROVE  /\ buffers' \in [Ring -> Buffer] /\ buffers'[n] = st(s)
             /\ buffers'[head] = FinishBuffer(b)
             /\ \A i \in Ring : i # head /\ i # n => buffers'[i] = buffers[i]
             /\ \A i \in Ring : buffers[i].status = "done" => buffers'[i] = buffers[i]
  <2>1. st(s) \in Buffer
    BY <1>7
  <2>2. buffers[head].status # "done"
    BY DEF IsrInv, TransferSound, HEAD
  <2>3. QED
    BY <1>1, <1>2, <1>9, <2>1, <2>2
<1>10. CASE late = "none" /\ both(StatusAhead) /\ Run(fdc_mode) /\ UNCHANGED runner_status
  <2>1. StatusAhead \in {"reading", "writing", "deleting"}
    BY DEF StatusAhead, IsrInv, IsrTypeOK, DriverStates
  <2>2. StatusAhead \in BufferStates
    BY <2>1 DEF BufferStates
  <2>3. /\ fdc_mode' \in Modes /\ busy' \in BOOLEAN
        /\ hide_interrupt' \in BOOLEAN /\ interrupt_seen' \in BOOLEAN
        /\ setup_error' \in BOOLEAN /\ fdc_mode' = fdc_mode
    BY <1>1, <1>10, RunType
  <2>4. TransferSound'
    <3>1. /\ buffers'[n] = st(StatusAhead) /\ st(StatusAhead).status # "done"
          /\ st(StatusAhead).next_segment \in {0, st(StatusAhead).segment_id + 1}
          /\ st(StatusAhead).sector_count <= st(StatusAhead).remaining
      BY <1>7, <1>9, <1>10, <2>1, <2>2
    <3>2. QED
      BY <2>3, <3>1 DEF IsrInv, TransferSound, Transferring, HEAD
  <2>5. runner_status' \in RunnerStates
    BY <1>10 DEF IsrInv, IsrTypeOK
  <2>6. HeadGoesOn
    <3>1. /\ buffers'[n].status = StatusAhead
          /\ buffers'[n].segment_id = HEAD.segment_id + 1
          /\ buffers'[head] = FinishBuffer(b)
          /\ \A i \in Ring : i # head /\ i # n => buffers'[i] = buffers[i]
      BY <1>7, <1>9, <1>10, <2>2
    <3>2. QED
      BY <1>2, <3>1 DEF HeadGoesOn
  <2>7. QED
    BY <1>4, <1>8, <1>9, <1>10, <2>2, <2>3, <2>4, <2>5, <2>6 DEF Handled
<1>11. CASE /\ both("waiting") /\ runner_status' = "aborting" /\ Stop("idle")
            /\ setup_error' = (late = "setup")
  <2>1. "waiting" \in BufferStates /\ "idle" \in Modes /\ "aborting" \in RunnerStates
    BY DEF BufferStates, Modes, RunnerStates
  <2>2. /\ fdc_mode' \in Modes /\ busy' \in BOOLEAN
        /\ hide_interrupt' \in BOOLEAN /\ interrupt_seen' \in BOOLEAN
        /\ fdc_mode' = "idle"
        /\ ~Transferring'
    BY <1>11, <2>1, StopType
  <2>3. HeadGoesOn
    <3>1. /\ buffers'[n].status = "waiting"
          /\ buffers'[n].segment_id = HEAD.segment_id + 1
          /\ buffers'[head] = FinishBuffer(b)
          /\ \A i \in Ring : i # head /\ i # n => buffers'[i] = buffers[i]
      BY <1>7, <1>9, <1>11, <2>1
    <3>2. QED
      BY <1>2, <2>2, <3>1 DEF HeadGoesOn
  <2>4. QED
    BY <1>4, <1>8, <1>9, <1>11, <2>1, <2>2, <2>3 DEF Handled, TransferSound
<1>12. QED
  BY <1>4, <1>10, <1>11

(* A segment that is not the last of its track has a successor on tape.    *)
LEMMA SuccessorExists ==
    ASSUME NEW seg \in Segments, (seg + 1) % SegmentsPerTrack # 0
    PROVE  seg + 1 \in Segments
  BY SegmentsAssumption

(* The segment is complete: HEAD becomes full here, and the runner goes on *)
(* to a buffer that is free or stops.                                      *)
LEMMA FinishSegmentStep ==
    ASSUME IsrInv, Transferring, NEW b \in Buffer, NEW late,
           b.segment_id = HEAD.segment_id,
           b.next_segment \in {0, b.segment_id + 1},
           FinishSegment(b, late)
    PROVE  Handled
<1> DEFINE eot     == (b.segment_id + 1) % SegmentsPerTrack = 0
           pausing == ~eot /\ (b.next_segment = 0 \/ RingFull)
<1>1. head' = next(head) /\ next(head) \in Ring
  BY NextInRing DEF FinishSegment, IsrInv, IsrTypeOK
<1>2. CASE /\ ~eot /\ ~pausing /\ ~ Astray(b)
           /\ StartAhead(b, next(head), late)
  <2>1. b.next_segment = b.segment_id + 1 /\ next(head) # head
        /\ buffers[next(head)].status = "waiting"
    BY <1>2 DEF RingFull
  <2>2. b.segment_id \in Segments
    BY DEF Buffer
  <2>3. b.next_segment \in Segments
    BY <1>2, <2>1, <2>2, SuccessorExists
  <2>4. IsWrite => b.next_segment = buffers[next(head)].segment_id
    BY <1>2 DEF Astray
  <2>5. QED
    BY <1>1, <1>2, <2>1, <2>3, <2>4, StartAheadStep
<1>3. CASE /\ SetHead(FinishBuffer(b))
           /\ stop_read_ahead' = StopNext(b)
           /\ UNCHANGED <<setup, setup_error>>
           /\ \/ runner_status' = "logical_eot" /\ Stop("idle")
              \/ runner_status' = "idle" /\ pause_tape(late)
              \/ runner_status' = "aborting" /\ Stop("idle")
  <2>1. /\ FinishBuffer(b) \in Buffer /\ FinishBuffer(b).status = "done"
        /\ FinishBuffer(b).segment_id = HEAD.segment_id
    BY DEF FinishBuffer, Buffer, BufferStates
  <2>2. /\ buffers' \in [Ring -> Buffer] /\ buffers'[head] = FinishBuffer(b)
        /\ \A i \in Ring : i # head => buffers'[i] = buffers[i]
        /\ \A i \in Ring : buffers[i].status = "done" => buffers'[i] = buffers[i]
    BY <1>3, <2>1, SetHeadType
  <2>3. "idle" \in Modes /\ {"logical_eot", "idle", "aborting"} \subseteq RunnerStates
    BY DEF Modes, RunnerStates
  <2>4. /\ fdc_mode' \in Modes /\ busy' \in BOOLEAN
        /\ hide_interrupt' \in BOOLEAN /\ interrupt_seen' \in BOOLEAN
        /\ fdc_mode' \in {fdc_mode, "idle", "seeking"}
        /\ ~Transferring'
    BY <1>3, <2>3, StopType, PauseType DEF IsrInv
  <2>5. runner_status' \in RunnerStates
    BY <1>3, <2>3
  <2>6. /\ old_driver_state' \in DriverStates
        /\ old_segment_id' \in Segments \cup {None}
        /\ last_segment_skipped' \in Segments \cup {None}
        /\ stop_read_ahead' \in BOOLEAN /\ setup_error' \in BOOLEAN
    BY <1>3 DEF IsrInv, IsrTypeOK, setup, StopNext
  <2>7. HeadLeaves
    BY <1>1, <2>1, <2>2, <2>4 DEF HeadLeaves
  <2>8. QED
    BY <1>1, <2>2, <2>4, <2>5, <2>6, <2>7 DEF Handled, TransferSound
<1>4. QED
  BY <1>2, <1>3 DEF FinishSegment

(* continue_xfer() as a whole, by the three branches above.                *)
LEMMA ContinueXferStep ==
    ASSUME IsrInv, Transferring, NEW b \in Buffer, NEW skip, NEW late,
           b.status = HEAD.status, b.segment_id = HEAD.segment_id,
           b.next_segment \in {0, b.segment_id + 1},
           continue_xfer(b, skip, late)
    PROVE  Handled
<1> DEFINE c == IF b.remaining > 0 THEN ftape_calc_next_cluster(b) ELSE b
           unexpected == skip > 0 /\ UnexpectedState(b)
<1>1. /\ c \in Buffer
      /\ c.status = b.status
      /\ c.next_segment = b.next_segment
      /\ c.segment_id = b.segment_id
      /\ b.remaining > 0 => c.sector_count <= c.remaining
  BY CalcNextClusterType
<1>2. \/ GiveUpBuffer(b) /\ UNCHANGED setup_error
      \/ b.remaining > 0 /\ ContinueSegment(c, late)
      \/ FinishSegment(c, late)
  BY DEF continue_xfer
<1> HIDE DEF c
<1>3. CASE GiveUpBuffer(b) /\ UNCHANGED setup_error
  <2>1. setup_error' \in BOOLEAN
    BY <1>3 DEF IsrInv, IsrTypeOK
  <2>2. QED
    BY <1>3, <2>1, GiveUpBufferStep
<1>4. CASE b.remaining > 0 /\ ContinueSegment(c, late)
  <2>1. c.status = HEAD.status /\ c.segment_id = HEAD.segment_id
        /\ c.next_segment \in {0, c.segment_id + 1}
        /\ c.sector_count <= c.remaining
    BY <1>1, <1>4
  <2>2. QED
    BY <1>1, <1>4, <2>1, ContinueSegmentStep
<1>5. CASE FinishSegment(c, late)
  <2>1. c.segment_id = HEAD.segment_id /\ c.next_segment \in {0, c.segment_id + 1}
    BY <1>1
  <2>2. QED
    BY <1>1, <1>5, <2>1, FinishSegmentStep
<1>6. QED
  BY <1>2, <1>3, <1>4, <1>5

-----------------------------------------------------------------------------
(* handle_fdc_busy()                                                        *)

(* HEAD, when a transfer ends.                                             *)
LEMMA HeadInTransfer ==
    ASSUME IsrInv, Transferring
    PROVE  /\ HEAD \in Buffer /\ head \in Ring
           /\ HEAD.sector_count <= HEAD.remaining
           /\ HEAD.next_segment \in {0, HEAD.segment_id + 1}
  BY DEF IsrInv, IsrTypeOK, TransferSound, HEAD

(* The process had asked for an abort: the handler only acknowledges it.   *)
LEMMA AbortedTransferStep ==
    ASSUME IsrInv, Transferring, AbortedTransfer
    PROVE  Handled
<1>1. /\ runner_status' = "aborting" /\ Stop(fdc_mode)
      /\ UNCHANGED <<head, buffers, setup, setup_error, stop_read_ahead>>
  BY DEF AbortedTransfer
<1>2. /\ fdc_mode' \in Modes /\ busy' \in BOOLEAN
      /\ hide_interrupt' \in BOOLEAN /\ interrupt_seen' \in BOOLEAN
      /\ fdc_mode' = fdc_mode
      /\ ~Transferring'
  BY <1>1, StopType DEF IsrInv, IsrTypeOK
<1>3. /\ buffers' \in [Ring -> Buffer] /\ head' \in Ring
      /\ runner_status' \in RunnerStates
      /\ old_driver_state' \in DriverStates
      /\ old_segment_id' \in Segments \cup {None}
      /\ last_segment_skipped' \in Segments \cup {None}
      /\ stop_read_ahead' \in BOOLEAN /\ setup_error' \in BOOLEAN
  BY <1>1 DEF IsrInv, IsrTypeOK, setup, RunnerStates
<1>4. HeadStays
  BY <1>1, <1>2 DEF HeadStays, HEAD
<1>5. QED
  BY <1>1, <1>2, <1>3, <1>4 DEF Handled, TransferSound

(* A transfer that was only started to get an interrupt, its segment       *)
(* having no good sector: the handler goes on to the next segment.         *)
LEMMA FakeTransferStep ==
    ASSUME IsrInv, Transferring, NEW late, FakeTransfer(late)
    PROVE  Handled
<1> DEFINE b == [HEAD EXCEPT !.remaining = 0]
<1>1. b \in Buffer /\ b.status = HEAD.status /\ b.next_segment = HEAD.next_segment
      /\ b.segment_id = HEAD.segment_id
  BY HeadInTransfer, FieldTypes DEF Buffer
<1>2. continue_xfer(b, 1, late)
  BY DEF FakeTransfer
<1> HIDE DEF b
<1>3. b.next_segment \in {0, b.segment_id + 1}
  BY <1>1, HeadInTransfer
<1>4. QED
  BY <1>1, <1>2, <1>3, ContinueXferStep

(* The controller transferred something else than was asked for: HEAD is   *)
(* retried.                                                                *)
LEMMA MismatchedTransferStep ==
    ASSUME IsrInv, Transferring, NEW late, MismatchedTransfer(late)
    PROVE  Handled
<1> DEFINE b == [HEAD EXCEPT !.sector_count = 0]
<1>1. b \in Buffer /\ b.segment_id = HEAD.segment_id
  BY HeadInTransfer, FieldTypes DEF Buffer
<1>2. retry_sector(b, 0, late)
  BY DEF MismatchedTransfer
<1> HIDE DEF b
<1>3. QED
  BY <1>1, <1>2, FieldTypes, RetrySectorStep

(* A deleted-data mark is met while reading: the sectors before it are     *)
(* kept, the rest of the segment is left out.                              *)
LEMMA DeletedTransferStep ==
    ASSUME IsrInv, Transferring, NEW late, DeletedTransfer(late)
    PROVE  Handled
<1> DEFINE b == deleted_data(HEAD)
           skip == SectorsPerSegment - HEAD.sector_offset
<1>1. b \in Buffer /\ b.status = HEAD.status /\ b.segment_id = HEAD.segment_id
      /\ b.next_segment = b.segment_id + 1
  BY HeadInTransfer, DeletedDataType
<1>2. continue_xfer(b, skip, late)
  BY DEF DeletedTransfer
<1> HIDE DEF b, skip
<1>3. b.next_segment \in {0, b.segment_id + 1}
  BY <1>1, HeadInTransfer
<1>4. QED
  BY <1>1, <1>2, <1>3, ContinueXferStep

(* What the controller reports is within the cluster, and an error has a   *)
(* sector it happened at.                                                  *)
LEMMA ResultType ==
    ASSUME HEAD \in Buffer, NEW kind \in Kinds \ {"mismatch", "deleted"},
           NEW result \in Result(kind)
    PROVE  /\ result.transferred \in 0 .. HEAD.sector_count
           /\ result.cause # "no_error" => HEAD.sector_count > 0
<1>1. HEAD.sector_count \in Nat
  BY DEF Buffer
<1>2. kind \in {"no_error", "undecoded", "medium", "overrun"}
  BY DEF Kinds
<1>3. result.cause \in Causes[kind]
      /\ result.transferred \in
            (CASE kind \in {"no_error", "deleted", "mismatch"} -> {HEAD.sector_count}
               [] kind = "undecoded" \/ HEAD.sector_count = 0 ->
                     0 .. (HEAD.sector_count - 1)
               [] OTHER -> (0 .. (HEAD.sector_count - 1)) \cup {HEAD.sector_count})
  BY DEF Result
<1>4. CASE kind = "no_error"
  BY <1>1, <1>3, <1>4 DEF Causes
<1>5. CASE kind = "undecoded"
  BY <1>1, <1>3, <1>5 DEF Causes
<1>6. CASE kind \in {"medium", "overrun"}
  <2>1. result.transferred \in IF HEAD.sector_count = 0
                                THEN 0 .. (HEAD.sector_count - 1)
                                ELSE (0 .. (HEAD.sector_count - 1)) \cup {HEAD.sector_count}
    BY <1>3, <1>6
  <2>2. QED
    BY <1>1, <2>1
<1>7. QED
  BY <1>2, <1>4, <1>5, <1>6

(* HEAD after the account of the transfer.                                 *)
LEMMA ProgressInTransfer ==
    ASSUME IsrInv, Transferring, NEW kind \in Kinds \ {"mismatch", "deleted"},
           NEW result \in Result(kind),
           NEW b, b = determine_progress(HEAD, result.cause, result.transferred)
    PROVE  /\ b \in Buffer
           /\ b.status = HEAD.status /\ b.segment_id = HEAD.segment_id
           /\ b.next_segment \in {0, b.segment_id + 1}
<1>1. b \in Buffer /\ Same(b, HEAD)
  BY HeadInTransfer, ResultType, DetermineProgressType
<1>2. QED
  BY <1>1, HeadInTransfer DEF Same

(* A read ends, with or without an error.                                  *)
LEMMA ReadTransferStep ==
    ASSUME IsrInv, Transferring, NEW kind \in Kinds \ {"mismatch", "deleted"},
           NEW result \in Result(kind), NEW late, ReadTransfer(result, late)
    PROVE  Handled
<1>1. PICK b : /\ b = determine_progress(HEAD, result.cause, result.transferred)
               /\ \/ \E skip : continue_xfer(b, skip, late)
                  \/ retry_sector(b, find_resume_point(b), late)
  <2> DEFINE b == determine_progress(HEAD, result.cause, result.transferred)
             retry == HEAD.soft_error_map # {} \/ HEAD.hard_error_map # {}
             skip  == IF retry THEN find_resume_point(b) ELSE b.sector_offset
  <2>1. \/ continue_xfer(b, 0, late)
        \/ retry /\ retry_sector(b, skip, late)
        \/ continue_xfer(b, skip, late)
    BY DEF ReadTransfer
  <2>2. retry => skip = find_resume_point(b)
    OBVIOUS
  <2> HIDE DEF b, retry, skip
  <2>3. \/ \E k : continue_xfer(b, k, late)
        \/ retry_sector(b, find_resume_point(b), late)
    BY <2>1, <2>2
  <2>4. QED
    BY <2>3 DEF b
<1>2. /\ b \in Buffer
      /\ b.status = HEAD.status /\ b.segment_id = HEAD.segment_id
      /\ b.next_segment \in {0, b.segment_id + 1}
  BY <1>1, ProgressInTransfer
<1>3. CASE \E skip : continue_xfer(b, skip, late)
  BY <1>2, <1>3, ContinueXferStep
<1>4. CASE retry_sector(b, find_resume_point(b), late)
  BY <1>2, <1>4, FindResumePointType, RetrySectorStep
<1>5. QED
  BY <1>1, <1>3, <1>4

(* A write ends, with or without an error.                                 *)
LEMMA WriteTransferStep ==
    ASSUME IsrInv, Transferring, NEW kind \in Kinds \ {"mismatch", "deleted"},
           NEW result \in Result(kind), NEW late, WriteTransfer(result, late)
    PROVE  Handled
<1> DEFINE halted(b) == /\ SetHead(b) /\ Stop("idle")
                        /\ UNCHANGED <<head, runner_status, setup, setup_error,
                                       stop_read_ahead>>
<1>1. PICK b : /\ b = determine_progress(HEAD, result.cause, result.transferred)
               /\ \/ continue_xfer(b, 0, late)
                  \/ retry_sector(b, find_resume_point(b), late)
                  \/ halted(b)
  BY DEF WriteTransfer
<1>2. /\ b \in Buffer
      /\ b.status = HEAD.status /\ b.segment_id = HEAD.segment_id
      /\ b.next_segment \in {0, b.segment_id + 1}
  BY <1>1, ProgressInTransfer
<1>3. CASE continue_xfer(b, 0, late)
  BY <1>2, <1>3, ContinueXferStep
<1>4. CASE retry_sector(b, find_resume_point(b), late)
  BY <1>2, <1>4, FindResumePointType, RetrySectorStep
<1>5. CASE halted(b)
  <2>1. /\ buffers' \in [Ring -> Buffer] /\ buffers'[head] = b
        /\ \A i \in Ring : i # head => buffers'[i] = buffers[i]
        /\ \A i \in Ring : buffers[i].status = "done" => buffers'[i] = buffers[i]
    BY <1>2, <1>5, SetHeadType
  <2>2. /\ fdc_mode' \in Modes /\ busy' \in BOOLEAN
        /\ hide_interrupt' \in BOOLEAN /\ interrupt_seen' \in BOOLEAN
        /\ fdc_mode' = "idle"
        /\ ~Transferring'
    BY <1>5, StopType DEF Modes
  <2>3. /\ head' \in Ring
        /\ runner_status' \in RunnerStates
        /\ old_driver_state' \in DriverStates
        /\ old_segment_id' \in Segments \cup {None}
        /\ last_segment_skipped' \in Segments \cup {None}
        /\ stop_read_ahead' \in BOOLEAN /\ setup_error' \in BOOLEAN
    BY <1>5 DEF IsrInv, IsrTypeOK, setup
  <2>4. HeadStays
    BY <1>2, <1>5, <2>1, <2>2 DEF HeadStays
  <2>5. QED
    BY <2>1, <2>2, <2>3, <2>4 DEF Handled, TransferSound
<1>6. QED
  BY <1>1, <1>3, <1>4, <1>5

(* Every way a transfer can end, by the handlers of its outcomes.          *)
LEMMA TransferInterruptStep ==
    ASSUME IsrInv, TransferInterrupt
    PROVE  Handled /\ faults' \in Nat /\ UNCHANGED <<tail, driver_state>>
<1>1. Transferring /\ UNCHANGED <<tail, driver_state>>
  BY DEF TransferInterrupt, Transferring
<1>2. PICK kind \in Kinds, late \in Late :
         handle_fdc_busy(kind, late) /\ Charge(kind, late)
  BY DEF TransferInterrupt
<1>3. faults' \in Nat
  <2> DEFINE cost == (IF kind = "no_error" THEN 0 ELSE 1)
                     + (IF late = "none" THEN 0 ELSE 1)
  <2>1. cost \in Nat
    OBVIOUS
  <2>2. faults' = faults + cost
    BY <1>2 DEF Charge
  <2> HIDE DEF cost
  <2>3. QED
    BY <2>1, <2>2 DEF IsrInv, IsrTypeOK
<1>4. \/ AbortedTransfer
      \/ FakeTransfer(late)
      \/ MismatchedTransfer(late)
      \/ DeletedTransfer(late)
      \/ /\ kind \in Kinds \ {"mismatch", "deleted"}
         /\ \E result \in Result(kind) : \/ WriteTransfer(result, late)
                                         \/ ReadTransfer(result, late)
  BY <1>2 DEF handle_fdc_busy
<1>5. Handled
  BY <1>1, <1>4, AbortedTransferStep, FakeTransferStep, MismatchedTransferStep,
     DeletedTransferStep, ReadTransferStep, WriteTransferStep
<1>6. QED
  BY <1>1, <1>3, <1>5

(***************************************************************************)
(* One run of the interrupt handler, after any interrupt: the types and    *)
(* the buffer of the transfer are preserved, full buffers are kept.        *)
(***************************************************************************)
THEOREM HandlerStep ==
    ASSUME IsrInv, fdc_isr
    PROVE  /\ IsrInv' /\ UNCHANGED <<tail, driver_state>>
           /\ fdc_mode' \in {fdc_mode, "idle", "seeking"}
           /\ IF fdc_mode = "seeking"
              THEN UNCHANGED <<head, buffers>> /\ ~ Transferring'
              ELSE Transferring /\ (HeadStays \/ HeadLeaves \/ HeadGoesOn)
           /\ \A i \in Ring : buffers[i].status = "done" => buffers'[i] = buffers[i]
<1>1. CASE TransferInterrupt
  <2>1. Handled /\ faults' \in Nat /\ UNCHANGED <<tail, driver_state>>
    BY <1>1, TransferInterruptStep
  <2>2. QED
    BY <1>1, <2>1 DEF Handled, IsrInv, IsrTypeOK, TransferInterrupt, Transferring
<1>2. CASE SeekInterrupt
  <2>1. /\ Stop("idle") /\ UNCHANGED faults
        /\ UNCHANGED <<ring, setup, setup_error, runner_status, stop_read_ahead,
                       driver_state>>
    BY <1>2 DEF SeekInterrupt, NoFault
  <2>2. /\ fdc_mode' \in Modes /\ busy' \in BOOLEAN
        /\ hide_interrupt' \in BOOLEAN /\ interrupt_seen' \in BOOLEAN
        /\ ~Transferring'
    BY <2>1, StopType DEF Modes
  <2>3. QED
    BY <1>2, <2>1, <2>2, StopType
       DEF IsrInv, IsrTypeOK, TransferSound, ring, setup, SeekInterrupt, Modes
<1>3. QED
  BY <1>1, <1>2 DEF fdc_isr

-----------------------------------------------------------------------------
(* Steps that the processes of FtapeRead and FtapeWrite share               *)

(* A step with or without a fault counts it.                               *)
LEMMA FaultType ==
    ASSUME IsrTypeOK, NEW kind, Fault(kind)
    PROVE  faults' \in Nat
  BY DEF IsrTypeOK, Fault

(* A step that leaves ring and controller alone.                           *)
LEMMA IdleStep ==
    ASSUME IsrInv, runner_status' \in RunnerStates, faults' \in Nat,
           UNCHANGED <<ring, controller, setup, stop_read_ahead, driver_state>>
    PROVE  IsrInv'
  BY DEF IsrInv, IsrTypeOK, TransferSound, Transferring, HEAD, ring, controller, setup

(* The driver as it is enabled: free buffers, nothing in transfer.         *)
LEMMA IsrInitInv ==
    ASSUME IsrInit
    PROVE  IsrInv /\ \A i \in Ring : buffers[i].status = "waiting"
<1>1. PICK seg \in Segments : buffers = [i \in Ring |-> NewBuffer(seg)]
  BY DEF IsrInit
<1>2. NewBuffer(seg) \in Buffer /\ NewBuffer(seg).status = "waiting"
  <2>1. "waiting" \in BufferStates
    BY DEF BufferStates
  <2>2. QED
    BY <2>1, FieldTypes DEF NewBuffer, Buffer
<1>3. buffers \in [Ring -> Buffer] /\ \A i \in Ring : buffers[i].status = "waiting"
  BY <1>1, <1>2
<1>4. head \in Ring /\ tail \in Ring
  BY NrBuffersAssumption DEF IsrInit, Ring
<1>5. IsrTypeOK
  BY <1>3, <1>4 DEF IsrInit, IsrTypeOK, RunnerStates, Modes, DriverStates
<1>6. TransferSound
  BY DEF IsrInit, TransferSound, Transferring
<1>7. QED
  BY <1>3, <1>5, <1>6 DEF IsrInv

(* The controller is quiet afterwards: nothing is in transfer.             *)
LEMMA QuietType ==
    ASSUME ControllerQuiet
    PROVE  /\ fdc_mode' \in Modes /\ busy' \in BOOLEAN
           /\ hide_interrupt' \in BOOLEAN /\ interrupt_seen' \in BOOLEAN
           /\ fdc_mode' = "idle"
           /\ ~Transferring'
  BY DEF ControllerQuiet, Modes, Transferring

(* ftape_abort_operation() tells a running runner to abort.                *)
LEMMA AbortBeginType ==
    ASSUME IsrTypeOK, AbortBegin
    PROVE  runner_status' \in RunnerStates
  BY DEF IsrTypeOK, AbortBegin, RunnerStates

(* fdc_zap_buffers() makes buffers of buffers.                             *)
LEMMA ZapType ==
    ASSUME NEW b \in Buffer
    PROVE  fdc_zap_buffer(b) \in Buffer /\ fdc_zap_buffer(b).status = "waiting"
<1>1. "waiting" \in BufferStates
  BY DEF BufferStates
<1>2. QED
  BY <1>1, FieldTypes DEF fdc_zap_buffer, Buffer

(* The end of ftape_abort_operation(): the controller is quiet and the     *)
(* ring is zapped, so nothing is left that a transfer could hit.           *)
LEMMA AbortEndStep ==
    ASSUME IsrInv, AbortEnd, driver_state' \in DriverStates, faults' \in Nat
    PROVE  IsrInv'
<1>1. buffers' \in [Ring -> Buffer]
  BY ZapType DEF AbortEnd, fdc_zap_buffers, IsrInv, IsrTypeOK
<1>2. head' \in Ring /\ tail' \in Ring
  BY NrBuffersAssumption DEF AbortEnd, ftape_reset_buffer, Ring
<1>3. /\ fdc_mode' \in Modes /\ busy' \in BOOLEAN
      /\ hide_interrupt' \in BOOLEAN /\ interrupt_seen' \in BOOLEAN
      /\ ~Transferring'
  BY QuietType DEF AbortEnd
<1>4. /\ runner_status' \in RunnerStates
      /\ setup_error' \in BOOLEAN /\ stop_read_ahead' \in BOOLEAN
      /\ old_driver_state' \in DriverStates
      /\ old_segment_id' \in Segments \cup {None}
      /\ last_segment_skipped' \in Segments \cup {None}
  BY DEF AbortEnd, ftape_reset_buffer, IsrInv, IsrTypeOK, RunnerStates
<1>5. QED
  BY <1>1, <1>2, <1>3, <1>4 DEF IsrInv, IsrTypeOK, TransferSound

(* What ftape_start_tape() does to HEAD is its retry count alone.          *)
LEMMA StartTapeType ==
    ASSUME NEW b \in Buffer, NEW p \in StartTape(b)
    PROVE  /\ p \in Buffer
           /\ p.sector_count = b.sector_count /\ p.remaining = b.remaining
           /\ p.next_segment = b.next_segment /\ p.segment_id = b.segment_id
           /\ p.status = b.status
<1>1. p = b \/ p = [b EXCEPT !.retry = b.retry - 1]
  BY DEF StartTape
<1>2. b.retry - 1 \in Int
  BY DEF Buffer
<1>3. QED
  BY <1>1, <1>2 DEF Buffer

=============================================================================
