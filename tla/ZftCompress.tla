----------------------------- MODULE ZftCompress -----------------------------
(***************************************************************************)
(* Reading and seeking in the compressed files of earlier versions         *)
(* (zftape-compress.c), with the calls of zftape that do it.  A segment    *)
(* begins with the place of the first block that starts in it, behind the  *)
(* rest of a block of the segments before; there the offset of that block  *)
(* in the file is found, followed by the clusters, each with its length.   *)
(*                                                                         *)
(* The sizes of these fields and of the tape are scaled down: see the      *)
(* constants.  Blocks are numbered from 1; a byte of compressed data is    *)
(* <<block, number of the byte>>.                                          *)
(***************************************************************************)
EXTENDS Integers, Sequences, SequencesExt, FiniteSetsExt

CONSTANTS
    Kilo,           \* 1024 bytes
    SegKilos,       \* 29, the kilobytes of a segment
    CountSize,      \* 2, the bytes of a place or a length
    OffsetSize,     \* 4 or 8, the bytes of an offset in the file
    Reserve,        \* 18: no cluster starts with no more bytes than these left
    BlkSz,          \* the size of a block, in bytes
    SlowSeek,       \* 10, ZFT_SLOW_SEEK_THRESHOLD
    MaxTrials,      \* 10, ZFT_FAST_SEEK_MAX_TRIALS
    Backup,         \* 10, ZFT_FAST_SEEK_BACKUP
    Sizes,          \* what the blocks of a file are compressed to: a set of sequences
    Kilos,          \* the kilobytes of the segments, over and over: a set of sequences
    LostSegments,   \* the segments that cannot be read: a set of sets
    Requests,       \* the numbers of blocks that are read in one call
    Habits          \* see Careful

ASSUME CompressAssumption ==
    /\ {Kilo, SegKilos, CountSize, OffsetSize, BlkSz} \subseteq Nat \ {0}
    /\ SlowSeek \in Nat /\ {MaxTrials, Backup} \subseteq Nat \ {0}
    /\ Reserve > CountSize + OffsetSize
    /\ BlkSz % Kilo = 0
    /\ \A sizes \in Sizes : sizes # <<>> /\ Range(sizes) \subseteq 1 .. BlkSz
    /\ \A kilos \in Kilos : kilos # <<>> /\ Range(kilos) \subseteq 1 .. SegKilos

VARIABLE z

NoByte == <<0, 0>>
Result(x, r) == [x EXCEPT !.res = r]
Then(x, Op(_)) == IF x.res = "ok" THEN Op(x) ELSE x

(* Differences of unsigned lengths wrap around; Word stands for 2^32. *)
Word == 1000000
Left(sz, offset) == (sz - offset) % Word

-----------------------------------------------------------------------------
(* The files, as they were written. *)

(* The clusters from block b on, at place o of a segment of sz bytes. *)
RECURSIVE Clusters(_, _, _, _)
Clusters(sizes, sz, o, b) ==
    LET n == Min({sizes[b], sz - o - CountSize})
        end == o + CountSize + n
        more == n = sizes[b] /\ b < Len(sizes) /\ sz - end > Reserve
    IN  <<[at |-> o, count |-> n, block |-> b]>>
            \o IF more THEN Clusters(sizes, sz, end, b + 1) ELSE <<>>

(* A segment of sz bytes that begins with the bytes of block b from k on,  *)
(* or, if k is 1, with block b.                                            *)
Segment(sizes, sz, b, k) ==
    LET rest == IF k > 1 THEN sizes[b] - k + 1 ELSE 0
        whole == rest > sz - CountSize
        head == CountSize + Min({rest, sz - CountSize})
        next == IF k > 1 THEN b + 1 ELSE b
        starts == ~whole /\ next <= Len(sizes) /\ sz - head > Reserve
        clusters == IF starts THEN Clusters(sizes, sz, head + OffsetSize, next) ELSE <<>>
        byte(i) ==
            LET here == {c \in Range(clusters) :
                            i \in c.at + CountSize + 1 .. c.at + CountSize + c.count}
            IN  IF i \in CountSize + 1 .. head THEN <<b, k + i - CountSize - 1>>
                ELSE IF here = {} THEN NoByte
                ELSE LET c == CHOOSE c \in here : TRUE
                     IN  <<c.block, i - c.at - CountSize>>
        last == Last(clusters)
        after == IF whole THEN <<b, k + sz - CountSize>>
                 ELSE IF ~starts THEN <<next, 1>>
                 ELSE IF last.count = sizes[last.block] THEN <<last.block + 1, 1>>
                 ELSE <<last.block, last.count + 1>>
    IN  [size |-> sz, first |-> IF whole THEN 0 ELSE head, after |-> after,
         foffs |-> IF starts THEN (next - 1) * BlkSz ELSE 0,
         clusters |-> clusters, data |-> [i \in 1 .. sz |-> byte(i)]]

(* The segments from s on. *)
RECURSIVE Segments(_, _, _, _, _)
Segments(sizes, kilos, s, b, k) ==
    LET seg == Segment(sizes, Kilo * kilos[((s - 1) % Len(kilos)) + 1], b, k)
    IN  <<seg>> \o IF seg.after[1] > Len(sizes) THEN <<>>
                   ELSE Segments(sizes, kilos, s + 1, seg.after[1], seg.after[2])

Tape(x) == x.file.tape
EndSeg(x) == Len(Tape(x))                           \* volume->end_seg; start_seg is 1
Size(x) == Len(x.file.sizes) * BlkSz                \* volume->size

-----------------------------------------------------------------------------
(* The place in a segment.  z.buf is what was collected of a block: the    *)
(* cmpr_pos first bytes of zftc->buf.                                      *)
NoCseg == [count |-> 0, offset |-> 0, spans |-> FALSE, uncmpr |-> FALSE, foffs |-> 0]

(* zft_fetch_segment(), of which only the result matters here. *)
zft_fetch_segment(x, s) == IF s \in x.file.lost THEN Result(x, "EIO") ELSE x

(* get_cseg(): what a segment begins with. *)
get_cseg(x, seg) ==
    LET head == IF seg.first = 0
                THEN [x.cseg EXCEPT !.count = seg.size - CountSize, !.offset = seg.size,
                                    !.spans = TRUE]
                ELSE [x.cseg EXCEPT !.count = seg.first - CountSize, !.offset = seg.first,
                                    !.spans = FALSE]
        c == IF seg.size - head.offset > Reserve
             THEN [head EXCEPT !.foffs = seg.foffs, !.offset = @ + OffsetSize] ELSE head
        wrong == c.foffs > Size(x) \/ Len(x.buf) + c.count > BlkSz
    IN  [x EXCEPT !.cseg = c, !.res = IF wrong THEN "EIO" ELSE "ok"]

(* The cluster at a place; elsewhere there is no length to be read. *)
NoCluster == [at |-> 0, count |-> 0, block |-> 0]
ClusterAt(seg, o) == SelectInSeq(seg.clusters, LAMBDA c : c.at = o)
Cluster(seg, o) == IF ClusterAt(seg, o) = 0 THEN NoCluster ELSE seg.clusters[ClusterAt(seg, o)]

(* Mutant: a block that ends with the file is taken for one that goes on. *)
get_next_cluster_NoFinish(x, seg, finish) ==
    LET found == Cluster(seg, x.cseg.offset)
        o == x.cseg.offset + CountSize
    IN  [x EXCEPT !.cseg = [@ EXCEPT !.count = found.count, !.offset = o, !.foffs = 0,
                                     !.uncmpr = found.block > 0 /\ x.file.sizes[found.block] = BlkSz,
                                     !.spans = o + found.count >= seg.size]]

(* get_next_cluster() *)
get_next_cluster(x, seg, finish) ==
    LET c == x.cseg
        found == Cluster(seg, c.offset)
        o == c.offset + CountSize
        end == o + found.count
        next == [c EXCEPT !.count = IF end > seg.size THEN seg.size - o ELSE found.count,
                          !.uncmpr = found.block > 0 /\ x.file.sizes[found.block] = BlkSz,
                          !.offset = o, !.foffs = 0,
                          !.spans = end > seg.size \/ (end = seg.size /\ ~finish)]
        none == [c EXCEPT !.count = 0, !.spans = FALSE, !.foffs = 0]
    IN  [x EXCEPT !.cseg = IF Left(seg.size, c.offset) > Reserve \/ c.foffs # 0
                           THEN next ELSE none]

(* zft_uncompress(): a block comes out only of all its compressed data. *)
IsBlock(x, b) ==
    /\ x.buf = [k \in 1 .. x.file.sizes[b] |-> <<b, k>>]
    /\ x.cseg.uncmpr = (x.file.sizes[b] = BlkSz)
Uncompressed(x) == {b \in DOMAIN x.file.sizes : IsBlock(x, b)}

Copy(seg, o, n) == SubSeq(seg.data, o + 1, o + n)

-----------------------------------------------------------------------------
(* Reading.  x.todo is what is left of the request, x.cnt is *read_cnt.    *)

(* The loop of zftc_read() over the clusters of a segment. *)
RECURSIVE ReadClusters(_, _, _)
ReadClusters(x, seg, finish) ==
    LET blocks == Uncompressed(x)
        deliver == [x EXCEPT !.got = @ \o SetToSeq(blocks), !.todo = @ - 1, !.buf = <<>>]
        whole == IF x.buf = <<>> THEN x
                 ELSE IF blocks = {} THEN [x EXCEPT !.cnt = 0, !.res = "EIO"] ELSE deliver
        take(y) ==
            LET c == y.cseg
            IN  IF c.count = 0 THEN y
                ELSE ReadClusters([y EXCEPT !.buf = Copy(seg, c.offset, c.count),
                                            !.cseg.offset = @ + c.count,
                                            !.cnt = @ + c.count + CountSize], seg, finish)
        next(y) == IF y.todo = 0 THEN y ELSE take(get_next_cluster(y, seg, finish))
    IN  IF x.cseg.spans \/ x.todo = 0 THEN x ELSE Then(whole, next)

(* zftc_read() *)
zftc_read(x, seg) ==
    LET collect(y) == [y EXCEPT !.buf = @ \o Copy(seg, CountSize, y.cseg.count),
                                !.cnt = y.cseg.offset]
        begin == [x EXCEPT !.cnt = 0]
        enter == IF x.pos.seg_byte_pos = 0 THEN Then(get_cseg(begin, seg), collect) ELSE begin
        clusters(y) == ReadClusters(y, seg, x.pos.seg_pos = EndSeg(x))
        skip(y) == IF Left(seg.size, y.cseg.offset) > Reserve THEN y
                   ELSE [y EXCEPT !.cnt = @ + seg.size - y.cseg.offset]
    IN  Then(Then(enter, clusters), skip)

(* empty_deblock_buf() *)
empty_deblock_buf(x, seg) ==
    LET move(y) ==
            LET p == y.pos.seg_byte_pos + y.cnt
                result == (x.todo - y.todo) * BlkSz
            IN  [y EXCEPT !.pos =
                    [seg_pos |-> IF p >= seg.size THEN @.seg_pos + 1 ELSE @.seg_pos,
                     seg_byte_pos |-> IF p >= seg.size THEN 0 ELSE p,
                     volume_pos |-> @.volume_pos + result]]
    IN  Then(zftc_read(x, seg), move)

(* The loop of _zft_read(); one that gets nowhere goes on for ever. *)
RECURSIVE ReadSegments(_)
ReadSegments(x) ==
    LET seg == Tape(x)[x.pos.seg_pos]
        again(y) == IF y.todo = x.todo /\ y.pos = x.pos THEN Result(y, "hang")
                    ELSE ReadSegments(y)
    IN  IF x.todo <= 0 THEN x
        ELSE IF x.signal THEN Result(x, "EINTR")
        ELSE Then(Then(zft_fetch_segment(x, x.pos.seg_pos),
                       LAMBDA y : empty_deblock_buf(y, seg)), again)

zft_position_before_eof(x) ==
    IF x.pos.seg_pos = EndSeg(x) + 1 /\ x.pos.seg_byte_pos = 0
    THEN [x EXCEPT !.pos.seg_pos = @ - 1, !.pos.seg_byte_pos = Last(Tape(x)).size] ELSE x

(* zft_move_past_eof(): the compressor is reset, too. *)
zft_move_past_eof(x) ==
    [x EXCEPT !.pos = [seg_pos |-> @.seg_pos + 1, seg_byte_pos |-> 0, volume_pos |-> 0],
              !.cseg = NoCseg, !.buf = <<>>, !.just_before_eof = FALSE, !.reading = FALSE]

(* _zft_read(): the request is clipped at the end of the file. *)
_zft_read(x, n) ==
    LET remaining == IF x.reading THEN x.remaining ELSE (Size(x) - x.pos.volume_pos) \div BlkSz
        access == [x EXCEPT !.reading = TRUE, !.remaining = remaining - n,
                            !.todo = Min({n, remaining})]
        eof(y) == IF remaining > n THEN y
                  ELSE IF y.just_before_eof /\ y.got = <<>> THEN zft_move_past_eof(y)
                  ELSE zft_position_before_eof([y EXCEPT !.just_before_eof = TRUE])
    IN  Then(ReadSegments(access), eof)

-----------------------------------------------------------------------------
(* Seeking.  What is passed over is counted in kilobytes.                  *)
BlkKilos == BlkSz \div Kilo
VolumeKilos(x) == x.pos.volume_pos \div Kilo
Unread(n) == [k \in 1 .. n |-> NoByte]

(* The loop of seek_in_segment() over the clusters; x.todo is `remaining'. *)
RECURSIVE PassClusters(_, _, _)
PassClusters(x, seg, finish) ==
    LET whole == IF x.buf = <<>> THEN x ELSE [x EXCEPT !.todo = @ - BlkKilos, !.buf = <<>>]
        next == get_next_cluster(whole, seg, finish)
        taken == [next EXCEPT !.buf = Unread(next.cseg.count),
                              !.cseg.offset = @ + next.cseg.count]
        again(y) == IF y.signal THEN Result(y, "EINTR") ELSE PassClusters(y, seg, finish)
    IN  IF x.cseg.spans \/ x.todo <= 0 THEN x
        ELSE IF whole.todo <= 0 THEN again(whole)
        ELSE IF next.cseg.count = 0 THEN next ELSE again(taken)

(* seek_in_segment(), in segment s *)
seek_in_segment(x, s) ==
    LET seg == Tape(x)[s]
        collect(y) == [y EXCEPT !.buf = @ \o Unread(y.cseg.count)]
        enter == IF x.cseg.offset = 0 THEN Then(get_cseg(x, seg), collect) ELSE x
        pass(y) == PassClusters(y, seg, s = EndSeg(x))
        skip(y) == IF Left(seg.size, y.cseg.offset) > Reserve THEN y
                   ELSE [y EXCEPT !.cseg.offset = seg.size]
    IN  Then(Then(enter, pass), skip)

(* slow_seek_forward_until_error(), from segment s on. *)
RECURSIVE slow_seek_forward_until_error(_, _)
slow_seek_forward_until_error(x, s) ==
    LET move(y) ==
            LET full == s < EndSeg(x) /\ y.cseg.offset = Tape(x)[s].size
            IN  [y EXCEPT !.pos = [seg_pos |-> IF full THEN s + 1 ELSE s,
                                   seg_byte_pos |-> IF full THEN 0 ELSE y.cseg.offset,
                                   volume_pos |-> @.volume_pos + (x.todo - y.todo) * Kilo],
                          !.cseg.offset = IF full THEN 0 ELSE @]
        again(y) == IF y.signal THEN Result(y, "EINTR")
                    ELSE IF y.todo > 0 /\ s < EndSeg(x)
                    THEN slow_seek_forward_until_error(y, s + 1) ELSE y
        seek(y) == seek_in_segment(y, s)
    IN  Then(Then(Then(zft_fetch_segment(x, s), seek), move), again)

(* search_valid_segment(), from segment s to end_seg.  It looks at the     *)
(* segments with a place of its own, which becomes that of the driver.     *)
RECURSIVE search_valid_segment(_, _, _, _)
search_valid_segment(x, s, end_seg, max_foffs) ==
    LET y == get_cseg([x EXCEPT !.cseg = NoCseg, !.buf = <<>>], Tape(x)[s])
        valid == s \notin x.file.lost /\ y.res = "ok" /\ (y.cseg.foffs # 0 \/ s = 1)
    IN  IF s > end_seg THEN Result(x, "EIO")
        ELSE IF x.signal THEN Result(x, "EINTR")
        ELSE IF ~valid THEN search_valid_segment(x, s + 1, end_seg, max_foffs)
        ELSE IF y.cseg.foffs \div Kilo > max_foffs THEN Result(x, "EIO")
        ELSE [y EXCEPT !.pos = [seg_pos |-> s, seg_byte_pos |-> y.cseg.offset,
                                volume_pos |-> y.cseg.foffs]]

(* slow_seek_forward() *)
RECURSIVE slow_seek_forward(_)
slow_seek_forward(x) ==
    LET y == slow_seek_forward_until_error([x EXCEPT !.todo = x.dest - VolumeKilos(x)],
                                           x.pos.seg_pos)
        found == search_valid_segment(Result(y, "ok"), y.pos.seg_pos + 1, EndSeg(x), x.dest)
    IN  IF x.dest <= VolumeKilos(x) \/ y.res \in {"ok", "EINTR"} THEN y
        ELSE IF found.res # "ok" THEN Result(found, "EIO")
        ELSE slow_seek_forward(found)

(* compute_seg_pos(): how many segments to go, as far as the compression   *)
(* of what is left of the file tells.                                      *)
compute_seg_pos(x) ==
    LET distance == x.dest - VolumeKilos(x)
        raw_size == EndSeg(x) - x.pos.seg_pos + 1
        virt_size == (Size(x) \div Kilo - VolumeKilos(x) + SegKilos - 1) \div SegKilos
        factor == (128 * raw_size) \div virt_size
    IN  IF distance < 0 THEN - ((- distance) \div SegKilos)
        ELSE IF virt_size = 0 \/ raw_size = 0 THEN 0
        ELSE ((distance \div SegKilos) * factor) \div 128

(* The inner loop of zftc_seek(): further back each time. *)
RECURSIVE SearchBack(_, _, _, _)
SearchBack(x, new_seg, limit, max_foffs) ==
    LET y == search_valid_segment(x, new_seg, limit, max_foffs)
    IN  IF y.res \in {"ok", "EINTR"} \/ new_seg = 1 THEN y
        ELSE SearchBack(x, Max({1, new_seg - Backup}), new_seg, max_foffs)

(* fast_seek_trials, of which only whether it has reached its limit counts. *)
Tried(x) == Min({x.trials + 1, MaxTrials})

(* One round of zftc_seek(). *)
SeekForward(x) ==
    LET seg_dist == compute_seg_pos(x)
        new_seg == Min({x.pos.seg_pos + seg_dist, EndSeg(x)})
        slow == x.old_seg = new_seg \/ seg_dist <= SlowSeek \/ x.trials >= MaxTrials
    IN  IF slow THEN [slow_seek_forward(x) EXCEPT !.arrived = TRUE]
        ELSE SearchBack([x EXCEPT !.old_seg = new_seg, !.trials = Tried(x)],
                        new_seg, EndSeg(x), Size(x))

SeekBackward(x) ==
    LET seg_dist == compute_seg_pos(x)
        step == IF x.trials > 0 /\ seg_dist = 0 THEN 1 ELSE 0
        new_seg == Max({1, x.pos.seg_pos + seg_dist - step})
    IN  SearchBack([x EXCEPT !.trials = Tried(x)], new_seg, x.pos.seg_pos, x.pos.volume_pos)

-----------------------------------------------------------------------------
(* The calls.  What no later call looks at is cleared between them. *)
Idle(x) == [x EXCEPT !.pc = "idle", !.res = IF @ = "ok" THEN "ok" ELSE "error",
                     !.got = IF x.res = "ok" THEN @ ELSE <<>>,
                     !.todo = 0, !.cnt = 0, !.signal = FALSE, !.dest = 0,
                     !.old_seg = 0, !.trials = 0, !.arrived = FALSE, !.round = FALSE,
                     !.remaining = IF x.reading THEN @ ELSE 0]

Begin == [seg_pos |-> 1, seg_byte_pos |-> 0, volume_pos |-> 0]

(* What a careful caller leaves out: "squeezed", calls that end with the   *)
(* block before a cluster that starts, behind the offset, with no more     *)
(* than Reserve bytes left; "stale", seeks that begin slowly, as those to  *)
(* a near block do, when the compressor is not at the begin of a file or   *)
(* of a segment; "holes", far seeks to a block that ends where segments    *)
(* cannot be read or no block starts in them; "insist", reads after a call *)
(* that failed.                                                            *)
Careful(habit, careless) == careless => habit \in Habits
Squeezed(seg) == /\ seg.clusters # <<>>
                 /\ seg.size - seg.first - OffsetSize <= Reserve
Slips(b) == \E seg \in Range(Tape(z)) : Squeezed(seg) /\ seg.clusters[1].block = b + 1

Far(x) == compute_seg_pos(x) > SlowSeek
Stale(x) == ~Far(x) /\ (x.cseg.offset # 0 \/ x.buf # <<>>)

Places == {s \in 1 .. EndSeg(z) : s \notin z.file.lost /\ Tape(z)[s].clusters # <<>>}
Hides(b) ==
    LET behind == {s \in Places : Tape(z)[s].foffs > b * BlkSz}
    IN  behind # {} /\ Max({0} \cup (Places \ behind)) + 1 < Min(behind)

Insists == z.res # "ok"
InFile == z.pos.seg_pos <= EndSeg(z)

Signals(x) == IF x.signals THEN BOOLEAN ELSE {FALSE}

Init ==
    \E sizes \in Sizes, kilos \in Kilos, lost \in LostSegments, signals \in BOOLEAN :
      LET tape == Segments(sizes, kilos, 1, 1, 1) IN
        /\ z = [file |-> [sizes |-> sizes, lost |-> lost, tape |-> tape],
                signals |-> signals, signal |-> FALSE, pos |-> Begin,
                cseg |-> NoCseg, buf |-> <<>>, reading |-> FALSE, remaining |-> 0,
                just_before_eof |-> FALSE, got |-> <<>>, todo |-> 0, cnt |-> 0,
                dest |-> 0, old_seg |-> 0, trials |-> 0, arrived |-> FALSE, round |-> FALSE,
                res |-> "ok", pc |-> "idle"]

(* A rewind, MTBSF from behind the file, or a seek to block 0 or before:   *)
(* zft_reset_position() has zftc_close() clear the place.                  *)
Rewind ==
    /\ z.pc = "idle"
    /\ z' = Idle([z EXCEPT !.pos = Begin, !.cseg = NoCseg, !.buf = <<>>, !.reading = FALSE,
                           !.just_before_eof = FALSE, !.got = <<>>, !.res = "ok"])

Read ==
    /\ z.pc = "idle" /\ InFile /\ Careful("insist", Insists)
    /\ \E n \in Requests, signal \in Signals(z) :
        /\ Careful("squeezed", Slips(Min({z.pos.volume_pos \div BlkSz + n, Len(z.file.sizes)})))
        /\ z' = Idle(_zft_read([z EXCEPT !.res = "ok", !.got = <<>>, !.signal = signal], n))

(* seek_block(): to the begin of the file, and from there on; with block 0 *)
(* it rewinds, see there.                                                  *)
Seek ==
    /\ z.pc = "idle" /\ InFile
    /\ \E b \in DOMAIN z.file.sizes, signal \in Signals(z) :
        LET x == [z EXCEPT !.pc = "seek", !.dest = b * BlkKilos, !.signal = signal,
                           !.pos = Begin, !.reading = FALSE, !.remaining = 0,
                           !.got = <<>>, !.res = "ok"]
        IN  /\ Careful("squeezed", Slips(b)) /\ Careful("stale", Stale(x))
            /\ Careful("holes", Far(x) /\ Hides(b))
            /\ z' = x

(* zftc_seek() *)
SeekRound ==
    /\ z.pc = "seek" /\ z.res = "ok" /\ ~z.arrived /\ z.dest # VolumeKilos(z)
    /\ LET x == [z EXCEPT !.round = ~@]
       IN  z' = IF z.dest > VolumeKilos(z) THEN SeekForward(x) ELSE SeekBackward(x)

(* What seek_block_in_volume() does then. *)
SeekDone ==
    /\ z.pc = "seek" /\ (z.res # "ok" \/ z.arrived \/ z.dest = VolumeKilos(z))
    /\ LET eof == Size(z) = z.pos.volume_pos
           x == [z EXCEPT !.just_before_eof = eof,
                          !.res = IF @ = "ok" /\ z.dest # VolumeKilos(z) THEN "EINVAL" ELSE @]
       IN  z' = Idle(IF eof THEN zft_position_before_eof(x) ELSE x)

Next == Rewind \/ Read \/ Seek \/ SeekRound \/ SeekDone

(* A call that has begun goes on: weak fairness of the steps of a seek, of *)
(* which one is enabled as long as it has not ended.                       *)
Fairness == []<>(z.pc # "seek") \/ []<><<SeekRound \/ SeekDone>>_z

Spec == Init /\ [][Next]_z /\ Fairness

-----------------------------------------------------------------------------
Promise == INSTANCE BlockFile WITH
    n <- Len(z.file.sizes),
    hurt <- z.signals \/ z.file.lost # {},
    at <- IF InFile THEN z.pos.volume_pos \div BlkSz ELSE Len(z.file.sizes) + 1,
    got <- z.got,
    seeking <- z.dest \div BlkKilos

(* Compressed files keep the promise of BlockFile: reads return the blocks *)
(* in order, from where the last call left; a seek ends, at the block      *)
(* asked for; and calls fail only for a signal or for segments that cannot *)
(* be read.  This holds from any place that reads and seeks have left, but *)
(* only of the calls a careful caller makes: zftc_read() and zftc_seek()   *)
(* break it with any of the four habits (see Careful).                     *)
KeepsBlocks == Promise!Spec
=============================================================================
