------------------------------- MODULE ZftRead -------------------------------
(***************************************************************************)
(* Reading files (zftape-read.c), and the state between two operations     *)
(* (zft_def_idle_state(), zft_check_write_access() of zftape-ctl.c), which *)
(* both reading and writing start from.                                    *)
(***************************************************************************)
EXTENDS ZftWrite

(* zft_read_header_segments() *)
zft_read_header_segments(z) ==
    LET h == [z EXCEPT !.bad = z.tape_bad, !.deblock = <<>>, !.deblock_segment = -1]
    IN  [zft_init_vtbl(zft_get_capacity(ftape_abort_operation(h))) EXCEPT
            !.header_read = TRUE, !.vtbl_read = FALSE]

(* zft_read_volume_table() *)
zft_read_volume_table(z) ==
    LET t == [ftape_abort_operation(z) EXCEPT
                !.vtbl_buf = z.table, !.deblock = <<>>, !.deblock_segment = -1]
    IN  [zft_extract_volume_headers(t) EXCEPT !.vtbl_read = TRUE]

Header(z) == IF z.header_read THEN z ELSE zft_read_header_segments(z)

(* zft_def_idle_state(): the tables are read, or what was written is       *)
(* flushed and its volume is closed.                                       *)
zft_def_idle_state(z) ==
    LET table(h) == IF h.vtbl_read THEN h ELSE zft_read_volume_table(h)
        close(f) == Result(zft_close_volume(f), "ok")
        known == IF z.header_read /\ z.vtbl_read THEN Then(zft_flush_buffers(z), close)
                 ELSE zft_reset_position(table(Header(z)))
    IN  [ftape_abort_operation(known) EXCEPT !.buf_len_rd = 0, !.io_state = "idle"]

(* zft_check_write_access() *)
zft_check_write_access(z) ==
    LET table(h) == IF h.vtbl_read THEN h ELSE zft_reset_position(zft_read_volume_table(h))
        place(t) == IF zft_tape_at_lbot(t) \/ (~t.vtbl_broken /\ zft_tape_at_eod(t)) THEN t
                    ELSE Result(t, "EACCES")
    IN  IF z.offline THEN Result(z, "ENXIO")
        ELSE IF z.write_protected THEN Result(z, "EACCES")
        ELSE place(table(Header(z)))

(* check_write_access(): the first write opens a volume. *)
check_write_access(z) ==
    LET idle == [z EXCEPT !.io_state = "idle"]
        begin(x) == [x EXCEPT !.just_before_eof = FALSE, !.deblock_segment = -1,
                              !.io_state = "writing"]
    IN  IF z.io_state = "writing" THEN z
        ELSE Then(Then(zft_check_write_access(idle), zft_open_volume), begin)

(* _zft_write() *)
_zft_write(z, req_len) ==
    LET c == check_write_access([z EXCEPT !.last_write_failed = TRUE])
    IN  Then(c, LAMBDA x : WriteBlocks(x, req_len, 0))

-----------------------------------------------------------------------------
(* zft_fetch_segment(): of the cache in the deblock buffer, or of the tape. *)
zft_fetch_segment(z, s) ==
    IF s = z.deblock_segment THEN z
    ELSE [zft_release_deblock_buffer(z) EXCEPT
            !.deblock = z.tape[s],
            !.deblock_segment = IF zft_get_seg_sz(z, s) = 0 THEN -1 ELSE s]

(* Mutant: the position in the volume is not counted.                      *)
Remaining_Whole(z, i) == Volume(z, i).size

(* What is left of volume i. *)
Remaining(z, i) == Volume(z, i).size - z.pos.volume_pos

(* check_read_access(): cnt is the request, clipped at the end of the file. *)
check_read_access(z, req_len) ==
    LET enter(x, i) == [x EXCEPT !.io_state = "reading", !.eod = 0, !.volume = i,
                                 !.remaining = Remaining(x, i), !.buf_len_rd = 0]
        clip(x) == [x EXCEPT !.remaining = @ - req_len,
                             !.cnt = Min({req_len, x.remaining}),
                             !.clipped = x.remaining <= req_len]
        start(x) == IF zft_tape_at_eod(x)
                    THEN [x EXCEPT !.io_state = "reading", !.eod = 1, !.res = "EOD"]
                    ELSE clip(enter(x, zft_volume_by_segpos(x, x.pos.seg_pos)))
    IN  IF z.io_state = "reading"
        THEN IF ~zft_tape_at_eod(z) THEN clip(z)
             ELSE [z EXCEPT !.eod = Min({3, @ + 1}),
                            !.res = IF z.eod >= 2 THEN "EIO" ELSE "EOD"]
        ELSE IF z.offline THEN Result(z, "ENXIO")
        ELSE Then(zft_def_idle_state(z), start)

(* empty_deblock_buf(): to the caller. *)
empty_deblock_buf(z, req_len) ==
    LET p == z.pos
        n == Min({req_len, Len(z.deblock) - p.seg_byte_pos})
        passed == p.seg_byte_pos + n >= Len(z.deblock)
    IN  [z EXCEPT !.got.data = @ \o SubSeq(z.deblock, p.seg_byte_pos + 1, p.seg_byte_pos + n),
                  !.pos = [seg_pos |-> IF passed THEN p.seg_pos + 1 ELSE p.seg_pos,
                           seg_byte_pos |-> IF passed THEN 0 ELSE p.seg_byte_pos + n,
                           volume_pos |-> p.volume_pos + n,
                           tape_pos |-> p.tape_pos + n],
                  !.buf_len_rd = @ - n, !.cnt = @ - n]

(* The loop of _zft_read(), and what follows it. *)
RECURSIVE ReadBlocks(_)
ReadBlocks(z) ==
    LET s == z.pos.seg_pos
        empty == zft_get_seg_sz(z, s) = 0
        f == zft_fetch_segment(z, s)
        filled == [f EXCEPT !.buf_len_rd = Len(f.deblock) - f.pos.seg_byte_pos]
    IN  IF z.cnt <= 0 THEN z
        ELSE IF z.buf_len_rd = 0 /\ s > LastSegment THEN Result(z, "EIO")
        ELSE IF z.buf_len_rd = 0 /\ empty
        THEN ReadBlocks([f EXCEPT !.pos.seg_pos = s + 1, !.pos.seg_byte_pos = 0])
        ELSE IF z.buf_len_rd = 0 THEN ReadBlocks(empty_deblock_buf(filled, filled.cnt))
        ELSE ReadBlocks(empty_deblock_buf(z, z.cnt))

_zft_read(z, req_len) ==
    LET read(c) ==
            ReadBlocks([c EXCEPT !.got = [volume |-> c.volume, from |-> c.pos.volume_pos,
                                          asked |-> req_len, data |-> <<>>]])
        end(r) ==
            IF ~r.clipped THEN r
            ELSE IF r.just_before_eof /\ r.got.data = <<>>
            THEN [ftape_abort_operation(zft_move_past_eof(r)) EXCEPT !.io_state = "idle"]
            ELSE zft_position_before_eof([r EXCEPT !.just_before_eof = TRUE],
                                         Volume(r, r.volume))
    IN  Then(Then(check_read_access(z, req_len), read), end)
=============================================================================
