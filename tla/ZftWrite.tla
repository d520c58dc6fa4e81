------------------------------ MODULE ZftWrite -------------------------------
(***************************************************************************)
(* Writing files (zftape-write.c): the deblock buffer, the buffers of the  *)
(* low level driver behind it, and the recovery from a sector that cannot  *)
(* be written, which moves everything not yet on tape one sector on.       *)
(*                                                                         *)
(* The low level driver, which FtapeWrite models with its interrupts, is   *)
(* here a queue of segments that the runner moves to the tape in order.    *)
(* faults is what the next segments written will meet: "ok", or "hard" for *)
(* a sector that stays unwritable.                                         *)
(***************************************************************************)
EXTENDS ZftVtbl

CONSTANT NrBuffers      \* fdc->nr_buffers

ASSUME BufferAssumption == NrBuffers \in Nat \ {0}

-----------------------------------------------------------------------------
(* The low level driver. *)

(* The interrupt handler has written the segment at HEAD, or failed to. *)
TransferHead(z) ==
    LET b == Head(z.queue)
        spared == (b.data = <<>> \/ z.faults = <<>>)
        fault == IF spared THEN "ok" ELSE Head(z.faults)
        next == IF spared THEN z ELSE [z EXCEPT !.faults = Tail(@)]
    IN  IF fault = "ok"
        THEN [next EXCEPT !.tape[b.seg] = b.data, !.queue = Tail(@),
                          !.running = Len(z.queue) > 1]
        ELSE [next EXCEPT !.head_error = TRUE, !.running = FALSE]

(* ftape_abort_operation(): what was not written is dropped. *)
ftape_abort_operation(z) ==
    [z EXCEPT !.writing = FALSE, !.queue = <<>>, !.head_error = FALSE, !.running = FALSE]

(* No buffer is left. *)
AllTaken(z) == Len(z.queue) = NrBuffers

(* ftape_write_segment(): the data of the deblock buffer gets a buffer;    *)
(* when all are taken, that of HEAD, once it is written.                   *)
ftape_write_segment(z, s) ==
    LET writing == IF z.writing THEN z
                   ELSE [ftape_abort_operation(z) EXCEPT !.writing = TRUE]
        wait(x) == IF AllTaken(x) /\ ~x.head_error THEN TransferHead(x) ELSE x
        start(x) == [x EXCEPT !.running = @ \/ (AllTaken(x) /\ ~x.head_error)]
        fill(x) == IF AllTaken(x) THEN Result(x, "EIO")
                   ELSE start([x EXCEPT
                            !.queue = Append(@, [seg |-> s, data |-> z.deblock]),
                            !.deblock = <<>>])
    IN  IF s > LastSegment THEN Result(z, "ENOSPC") ELSE fill(wait(writing))

(* ftape_loop_until_writes_done() *)
RECURSIVE ftape_loop_until_writes_done(_)
ftape_loop_until_writes_done(z) ==
    IF ~z.writing \/ z.queue = <<>> THEN [z EXCEPT !.writing = FALSE]
    ELSE IF z.head_error THEN Result(z, "EIO")
    ELSE ftape_loop_until_writes_done(TransferHead(z))

(* ftape_hard_error_recovery(): the failing sector is mapped as bad, and   *)
(* the data of HEAD and of the segments queued behind it moves on by one   *)
(* sector.  The result is the new state, and the sector that is left over. *)
ftape_hard_error_recovery(z) ==
    LET n == Len(z.queue)
        moves == {1} \cup {i \in 2 .. n : z.queue[i].data # <<>>}
        before(i) == Max({j \in moves : j < i})
        last(i) == Last(z.queue[i].data)
        shifted(i) == IF i = 1 THEN Front(z.queue[1].data)
                      ELSE IF i \in moves
                      THEN <<last(before(i))>> \o Front(z.queue[i].data)
                      ELSE <<>>
    IN  [z |-> [z EXCEPT !.bad[Head(z.queue).seg] = @ + 1,
                         !.queue = [i \in 1 .. n |-> [z.queue[i] EXCEPT !.data = shifted(i)]],
                         !.head_error = FALSE],
         scratch |-> last(Max(moves))]

-----------------------------------------------------------------------------
(* Hard errors: the sectors that were shifted out wait in hard_errors. *)

(* zft_zap_write_buffers() *)
zft_zap_write_buffers(z) == [z EXCEPT !.hard_errors = <<>>]

(* The deblock buffer with data put at the position in the segment. *)
Place(z, data) == SubSeq(z.deblock, 1, z.pos.seg_byte_pos) \o data

(* empty_hard_error_list(): to the deblock buffer, as far as the segment   *)
(* has room for them.                                                      *)
empty_hard_error_list(z, seg_sz) ==
    LET n == Min({Len(z.hard_errors), seg_sz - z.pos.seg_byte_pos})
    IN  IF n = 0 THEN z
        ELSE IF z.pos.tape_pos + 1 > z.capacity
        THEN Result(zft_zap_write_buffers(z), "ENOSPC")
        ELSE [z EXCEPT !.deblock = Place(z, SubSeq(z.hard_errors, 1, n)),
                       !.hard_errors = SubSeq(@, n + 1, Len(@)),
                       !.pos.seg_byte_pos = @ + n]

(* Mutant: the sector is not kept.                                         *)
AddHardError_Drop(z, scratch) == [z EXCEPT !.capacity = @ - 1]

(* The new sector goes to the end of the list. *)
AddHardError(z, scratch) ==
    [z EXCEPT !.capacity = @ - 1, !.hard_errors = Append(@, scratch)]

(* Mutant: what is shifted into the buffer comes last.                     *)
Shifted_Behind(d, scratch) == Front(d) \o <<scratch>>

(* The deblock buffer moves on by one sector, too. *)
Shifted(d, scratch) == <<scratch>> \o Front(d)

(* zftape_write_segment(): until there are no more hard errors.  The       *)
(* deblock buffer follows the queue: it too is shifted.                    *)
RECURSIVE zftape_write_segment(_, _)
zftape_write_segment(z, s) ==
    LET d == z.deblock
        shift(r) == IF d = <<>> THEN AddHardError(r.z, r.scratch)
                    ELSE AddHardError([r.z EXCEPT !.deblock = Shifted(d, r.scratch)],
                                      Last(d))
        judge(w) == IF w.res = "ok" THEN [w EXCEPT !.written = TRUE]
                    ELSE IF w.res # "EIO" \/ ~w.head_error THEN w
                    ELSE zftape_write_segment(
                            Result(shift(ftape_hard_error_recovery(w)), "ok"), s)
    IN  judge(ftape_write_segment(z, s))

(* zftape_loop_until_writes_done(): or until a hard error. *)
zftape_loop_until_writes_done(z) ==
    LET keep(r) == Result(AddHardError(r.z, r.scratch), "ok")
        judge(w) == IF w.res = "ok" \/ ~w.head_error THEN w
                    ELSE keep(ftape_hard_error_recovery(w))
    IN  judge(ftape_loop_until_writes_done(z))

-----------------------------------------------------------------------------
(* zft_flush_buffers(). *)

(* flush_handle_hard_errors(): what was shifted out of the last segment is *)
(* padding, or it needs another segment.                                   *)
flush_handle_hard_errors(z, pad, old_seg_size) ==
    LET size == zft_get_seg_sz(z, z.pos.seg_pos)
        cnt == Len(z.hard_errors)
        fits == size - z.pos.seg_byte_pos - cnt >= -pad
        byte == z.pos.seg_byte_pos + cnt - (old_seg_size - size)
        next == [z EXCEPT !.pos.seg_pos = @ + 1, !.pos.seg_byte_pos = 0]
    IN  IF fits
        THEN [z |-> [zft_zap_write_buffers(z) EXCEPT !.pos.seg_byte_pos = byte],
              pad |-> size - byte, again |-> FALSE]
        ELSE [z |-> Result(empty_hard_error_list(next,
                               zft_get_seg_sz(next, next.pos.seg_pos)), "ok"),
              pad |-> pad, again |-> TRUE]

FlushFailed(z) ==
    [z EXCEPT !.pos.tape_pos = @ - z.pos.seg_byte_pos, !.pos.seg_byte_pos = 0,
              !.last_write_failed = TRUE]

Flushed(z) ==
    LET p == z.pos.seg_pos
        back == IF z.pos.seg_byte_pos # 0 THEN z.pos
                ELSE [z.pos EXCEPT !.seg_pos = p - 1,
                                   !.seg_byte_pos = zft_get_seg_sz(z, p - 1)]
    IN  [z EXCEPT !.pos = back, !.last_write_failed = FALSE, !.need_flush = FALSE]

(* The data in the deblock buffer is padded and written, and all writes    *)
(* are waited for, as often as hard errors make it necessary.              *)
RECURSIVE FlushSegment(_, _)
RECURSIVE FlushWrites(_, _, _)
FlushSegment(z, pad) ==
    LET size == zft_get_seg_sz(z, z.pos.seg_pos)
        full == z.pos.seg_byte_pos = size
        byte == IF full THEN size ELSE z.pos.seg_byte_pos - pad
        newpad == IF full THEN pad ELSE size - byte
        p == [z EXCEPT !.pos.seg_byte_pos = byte,
                       !.deblock = SubSeq(@, 1, byte) \o [i \in 1 .. size - byte |-> Pad]]
        wait(w) == IF w.res # "ok" THEN FlushFailed(w) ELSE FlushWrites(w, newpad, size)
    IN  wait(IF byte > 0 THEN zftape_write_segment(p, z.pos.seg_pos) ELSE z)
FlushWrites(z, pad, old_seg_size) ==
    LET goon(h) == IF h.again THEN FlushSegment(h.z, h.pad)
                   ELSE FlushWrites(h.z, h.pad, old_seg_size)
        judge(w) == IF w.res # "ok" THEN FlushFailed(w)
                    ELSE IF w.hard_errors = <<>> THEN Flushed(w)
                    ELSE goon(flush_handle_hard_errors(w, pad, old_seg_size))
    IN  judge(zftape_loop_until_writes_done(z))

(* Mutant: data that only fills a part of the deblock buffer is forgotten. *)
FlushNeeded_Writing(z) == z.writing

FlushNeeded(z) == z.writing \/ z.need_flush

zft_flush_buffers(z) ==
    LET idle == [z EXCEPT !.io_state = "idle"]
    IN  IF ~FlushNeeded(z) THEN z
        ELSE IF z.last_write_failed THEN Result(ftape_abort_operation(idle), "EIO")
        ELSE FlushSegment(idle, 0)

-----------------------------------------------------------------------------
(* The header segments and the volume table.  A segment that holds them is *)
(* read back after it was written, through the deblock buffer.             *)

(* zft_verify_write_segments() *)
zft_verify_write_segments(z) ==
    [ftape_abort_operation(z) EXCEPT !.deblock = <<>>, !.deblock_segment = -1,
                                     !.written = TRUE, !.need_flush = FALSE]

(* zft_write_header_segments(): they hold the map of bad sectors. *)
zft_write_header_segments(z) ==
    [zft_verify_write_segments(z) EXCEPT !.tape_bad = z.bad]

(* zft_update_volume_table() *)
zft_update_volume_table(z) ==
    LET c == zft_create_volume_headers(z)
    IN  [zft_verify_write_segments(c) EXCEPT !.table = c.vtbl_buf]

(* zft_update_header_segments() *)
zft_update_header_segments(z) ==
    LET h == [z EXCEPT !.header_changed = @ \/ z.written]
        header(x) == IF x.header_changed THEN zft_write_header_segments(x) ELSE x
        table(x) == IF x.vtbl_read /\ x.volume_table_changed
                    THEN zft_update_volume_table(x) ELSE x
        update(x) == [table(header(ftape_abort_operation(x))) EXCEPT
                        !.header_changed = FALSE, !.volume_table_changed = FALSE,
                        !.written = FALSE, !.anew = FALSE]
    IN  IF z.vtbl_broken \/ ~z.header_read THEN z
        ELSE IF ~h.header_changed /\ ~h.volume_table_changed THEN h
        ELSE Then(ftape_loop_until_writes_done(h), update)

(* zft_erase(), behind zft_check_write_access(), which reads the table. *)
zft_erase(z) ==
    LET e == [zft_init_vtbl(zft_get_capacity(z)) EXCEPT
                !.header_read = TRUE, !.header_changed = TRUE,
                !.vtbl_read = TRUE, !.volume_table_changed = TRUE, !.anew = TRUE]
    IN  zft_reset_position(ftape_abort_operation(zft_update_header_segments(e)))

-----------------------------------------------------------------------------
(* fill_deblock_buf(): the next sectors of the caller, as many as the      *)
(* segment has room for.                                                   *)
fill_deblock_buf(z, seg_sz, req_len) ==
    LET take(e, cnt) ==
            [e EXCEPT !.deblock = Place(e, [i \in 1 .. cnt |-> <<e.gen, e.acc + i>>]),
                      !.pos.volume_pos = @ + cnt,
                      !.pos.seg_byte_pos = @ + cnt,
                      !.pos.tape_pos = @ + cnt,
                      !.acc = @ + cnt, !.cnt = cnt]
        fill(e) == IF e.pos.tape_pos + 1 > e.capacity THEN Result(e, "ENOSPC")
                   ELSE take(e, Min({req_len, seg_sz - e.pos.seg_byte_pos}))
    IN  IF seg_sz = 0 THEN [z EXCEPT !.cnt = 0]
        ELSE Then(empty_hard_error_list(z, seg_sz), fill)

(* The loop of _zft_write(). *)
RECURSIVE WriteBlocks(_, _, _)
WriteBlocks(z, req_len, written) ==
    LET s == z.pos.seg_pos
        seg_sz == zft_get_seg_sz(z, s)
        flush == z.need_flush \/ written > 0
        next(w) == [w EXCEPT !.pos.seg_byte_pos = 0, !.pos.seg_pos = s + 1]
        full(f) == IF f.pos.seg_byte_pos # seg_sz THEN f
                   ELSE Then(zftape_write_segment(f, s), next)
        goon(w) == WriteBlocks(w, req_len - w.cnt, written + w.cnt)
        judge(f) == IF f.res = "ok" THEN Then(full(f), goon)
                    ELSE [f EXCEPT !.last_write_failed = FALSE, !.need_flush = flush,
                                   !.res = IF written > 0 THEN "ok" ELSE "ENOSPC"]
    IN  IF req_len = 0 /\ z.hard_errors = <<>>
        THEN [z EXCEPT !.last_write_failed = FALSE, !.need_flush = flush]
        ELSE judge(fill_deblock_buf(z, seg_sz, req_len))
=============================================================================
