------------------------------- MODULE ZftVtbl -------------------------------
(***************************************************************************)
(* The volume table (zftape-vtbl.c): the list of volumes in memory and its *)
(* copy in the first data segment of the tape.                             *)
(*                                                                         *)
(* Modelled is a tape that this driver writes: no entries of other         *)
(* programs, no compression map, no end of file marks of old ftape.        *)
(* gen is the number of a volume among all ever created: it names its      *)
(* data.                                                                   *)
(***************************************************************************)
EXTENDS ZftRw

NoEntry == [start_seg |-> 0, end_seg |-> 0, size |-> 0, gen |-> 0]
Entry(v) == [start_seg |-> v.start_seg, end_seg |-> v.end_seg, size |-> v.size,
             gen |-> v.gen]
Slots == 1 .. MaxVolumes

(* zft_init_vtbl() *)
zft_init_vtbl(z) ==
    [z EXCEPT !.vtbl_broken = FALSE, !.vtbl = <<>>, !.eom_start = FirstSegment + 1]

(* Mutant: the volume is not marked as new.                                *)
NewVolume_Old(z, s, e, size, open) ==
    [start_seg |-> s, end_seg |-> e, size |-> size, open |-> open,
     new_volume |-> FALSE, gen |-> z.gen + 1]

(* The entry of a new volume, with what both zft_open_volume() and         *)
(* zft_weof() put in it.                                                   *)
NewVolume(z, s, e, size, open) ==
    [start_seg |-> s, end_seg |-> e, size |-> size, open |-> open,
     new_volume |-> TRUE, gen |-> z.gen + 1]

-----------------------------------------------------------------------------
(* zft_create_volume_headers(): new volumes go to their slots, the slots   *)
(* behind the last volume are cleared.  Without any volume the first slot  *)
(* is passed over.                                                         *)
zft_create_volume_headers(z) ==
    LET n == Len(z.vtbl)
        slot(i) == IF i <= n
                   THEN IF z.vtbl[i].new_volume THEN Entry(z.vtbl[i])
                        ELSE z.vtbl_buf[i]
                   ELSE IF n = 0 /\ i = 1 THEN z.vtbl_buf[1] ELSE NoEntry
    IN  [z EXCEPT !.vtbl_buf = [i \in Slots |-> slot(i)],
                  !.vtbl = [i \in 1 .. n |-> [z.vtbl[i] EXCEPT !.new_volume = FALSE]]]

(* zft_extract_volume_headers(): the entries up to the first that is none, *)
(* and whether they are in order and on the tape.                          *)
zft_extract_volume_headers(z) ==
    LET buf == z.vtbl_buf
        n == Max({0} \cup {i \in Slots : \A j \in 1 .. i : buf[j] # NoEntry})
        ends == [i \in 0 .. n |-> IF i = 0 THEN FirstSegment ELSE buf[i].end_seg]
    IN  [z EXCEPT
            !.vtbl = [i \in 1 .. n |->
                        [start_seg |-> buf[i].start_seg, end_seg |-> buf[i].end_seg,
                         size |-> buf[i].size, gen |-> buf[i].gen,
                         open |-> FALSE, new_volume |-> FALSE]],
            !.eom_start = ends[n] + 1,
            !.vtbl_broken = \E i \in 1 .. n :
                                \/ ends[i - 1] >= buf[i].start_seg
                                \/ buf[i].start_seg <= FirstSegment
                                \/ buf[i].end_seg > LastSegment]

-----------------------------------------------------------------------------
(* zft_open_volume(): at the begin of the tape all volumes are forgotten.  *)
zft_open_volume(z) ==
    LET anew == [zft_init_vtbl(z) EXCEPT !.anew = TRUE]
        a == IF zft_tape_at_lbot(z) THEN zft_reset_position(anew) ELSE z
    IN  IF a.pos.seg_pos # LastVolume(a).end_seg + 1 THEN Result(a, "EIO")
        ELSE IF Len(a.vtbl) >= MaxVolumes THEN Result(a, "ENOSPC")
        ELSE [a EXCEPT
                !.vtbl = Append(@, NewVolume(a, a.pos.seg_pos, LastSegment, a.capacity, TRUE)),
                !.pos.volume_pos = 0, !.pos.seg_byte_pos = 0,
                !.eom_start = LastSegment + 1,
                !.volume_table_changed = TRUE,
                !.gen = @ + 1, !.acc = 0]

(* zft_close_volume(): the volume ends where the tape is. *)
zft_close_volume(z) ==
    LET n == Len(z.vtbl)
        p == IF z.pos.seg_byte_pos = 0 /\ z.pos.seg_pos # LastVolume(z).start_seg
             THEN [z.pos EXCEPT !.seg_pos = @ - 1,
                                !.seg_byte_pos = zft_get_seg_sz(z, z.pos.seg_pos - 1)]
             ELSE z.pos
        c == MoveCache(MoveCache(z, p.seg_pos + 1), LastVolume(z).start_seg)
    IN  IF ~LastVolume(z).open THEN Result(z, "EIO")
        ELSE [c EXCEPT
                !.pos = p,
                !.vtbl[n].end_seg = p.seg_pos,
                !.vtbl[n].size = p.volume_pos,
                !.vtbl[n].open = FALSE,
                !.eom_start = p.seg_pos + 1,
                !.volume_table_changed = TRUE,
                !.just_before_eof = TRUE]

(* Mutant: the tape position moves by a whole segment.                     *)
zft_move_past_eof_Whole(z) ==
    [zft_release_deblock_buffer(z) EXCEPT
        !.pos = [seg_pos |-> z.pos.seg_pos + 1, seg_byte_pos |-> 0, volume_pos |-> 0,
                 tape_pos |-> z.pos.tape_pos + zft_get_seg_sz(z, z.pos.seg_pos)],
        !.just_before_eof = FALSE]

(* zft_move_past_eof() *)
zft_move_past_eof(z) ==
    [zft_release_deblock_buffer(z) EXCEPT
        !.pos = [seg_pos |-> z.pos.seg_pos + 1, seg_byte_pos |-> 0, volume_pos |-> 0,
                 tape_pos |-> z.pos.tape_pos + zft_get_seg_sz(z, z.pos.seg_pos)
                              - z.pos.seg_byte_pos],
        !.just_before_eof = FALSE]

(* zft_weof(): count file marks.  The first ends the open volume, each     *)
(* other is an empty volume of one segment.                                *)
zft_weof(z, count) ==
    LET a == IF zft_tape_at_lbot(z) THEN [zft_init_vtbl(z) EXCEPT !.anew = TRUE] ELSE z
        c == IF LastVolume(a).open THEN zft_move_past_eof(zft_close_volume(a)) ELSE a
        todo == IF LastVolume(a).open THEN count - 1 ELSE count
        room == Max({0, LastSegment + 1 - c.pos.seg_pos})
        n == Min({todo, room, MaxVolumes - Len(c.vtbl)})
        s == c.pos.seg_pos
        marks == [i \in 1 .. n |-> [NewVolume(c, s + i - 1, s + i - 1, 0, FALSE)
                                    EXCEPT !.gen = c.gen + i]]
        w == [c EXCEPT !.vtbl = @ \o marks,
                       !.pos.seg_pos = @ + n,
                       !.pos.tape_pos = @ + SizeOf(c, s, s + n - 1),
                       !.eom_start = IF n > 0 THEN s + n ELSE @,
                       !.gen = @ + n,
                       !.volume_table_changed = TRUE]
    IN  IF count = 0 THEN z
        ELSE IF n = todo THEN w
        ELSE Result(w, IF Len(w.vtbl) = MaxVolumes THEN "EINVAL" ELSE "ENOSPC")

(* zft_skip_volumes(): forward, or backward if count is negative. *)
zft_skip_volumes(z, count) ==
    LET i == zft_volume_by_segpos(z, z.pos.seg_pos)
        j == Max({1, Min({i + count, Len(z.vtbl) + 1})})
        v == Volume(z, j)
        r == zft_release_deblock_buffer(PositionAt(z, v.start_seg))
    IN  [r EXCEPT !.just_before_eof = (v.size = 0),
                  !.res = IF j = i + count THEN "ok" ELSE "EINVAL"]

(* zft_skip_to_eom() *)
zft_skip_to_eom(z) == [PositionAt(z, z.eom_start) EXCEPT !.just_before_eof = FALSE]

(* zft_blk_offs(): the block number of the first block of volume i; a file *)
(* mark counts as a block.                                                 *)
zft_blk_offs(z, i) ==
    LET before == 1 .. Min({i - 1, Len(z.vtbl)})
    IN  Cardinality({b \in before \X (0 .. z.capacity) : b[2] <= z.vtbl[b[1]].size})

(* zft_volume_by_blkpos(): the volume that holds block b. *)
zft_volume_by_blkpos(z, b) ==
    Min({i \in 1 .. Len(z.vtbl) : zft_blk_offs(z, i) + z.vtbl[i].size >= b}
        \cup {Len(z.vtbl) + 1})
=============================================================================
