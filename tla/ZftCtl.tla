-------------------------------- MODULE ZftCtl -------------------------------
(***************************************************************************)
(* The tape device (zftape-ctl.c, zftape-init.c): open, close, read, write *)
(* and the magnetic tape operations, each one action.                      *)
(*                                                                         *)
(* Modelled are the devices with a volume table (qft, nqft) and cartridges *)
(* without write protection.  The interrupt handler moves queued segments  *)
(* to the tape between the calls; a crash may come at any time.            *)
(***************************************************************************)
EXTENDS ZftRead

CONSTANTS
    Devices,        \* how the device is opened: read_only, no_rewind
    Calls,          \* the operations tried: pairs of a name and a count
    Lengths,        \* the lengths of reads and writes
    FaultPlans,     \* the write errors the tape may have in store
    MaxGen,         \* bound: volumes created in a behaviour
    MaxLength,      \* bound: sectors written for one volume
    Habits          \* what the callers do besides: see Careful

VARIABLE z

NoRead == [volume |-> 0, from |-> 0, asked |-> 0, data |-> <<>>]

(* The driver as it is loaded, with the cartridge of x. *)
Boot(x) ==
    [tape |-> x.tape, tape_bad |-> x.tape_bad, table |-> x.table,
     faults |-> x.faults, gen |-> x.gen,
     bad |-> x.tape_bad, capacity |-> 0,
     cache |-> [seg_pos |-> 0, tape_pos |-> 0],
     pos |-> [seg_pos |-> -1, seg_byte_pos |-> 0, volume_pos |-> 0, tape_pos |-> 0],
     vtbl |-> <<>>, eom_start |-> 0, vtbl_buf |-> <<>>,
     header_read |-> FALSE, vtbl_read |-> FALSE, vtbl_broken |-> FALSE,
     header_changed |-> FALSE, volume_table_changed |-> FALSE, written |-> FALSE,
     just_before_eof |-> FALSE, io_state |-> "idle", need_flush |-> FALSE,
     last_write_failed |-> FALSE, hard_errors |-> <<>>,
     deblock |-> <<>>, deblock_segment |-> -1, buf_len_rd |-> 0,
     volume |-> 1, remaining |-> 0, eod |-> 0, cnt |-> 0, clipped |-> FALSE,
     queue |-> <<>>, writing |-> FALSE, running |-> FALSE, head_error |-> FALSE,
     busy |-> FALSE, no_rewind |-> FALSE, read_only |-> FALSE,
     write_protected |-> FALSE, offline |-> FALSE, going_offline |-> FALSE,
     force_lock |-> FALSE, door_locked |-> FALSE, new_tape |-> TRUE,
     acc |-> 0, anew |-> FALSE, got |-> NoRead, sought |-> -1, res |-> "ok"]

(* zft_init_driver() *)
zft_init_driver(x) ==
    ftape_abort_operation(zft_reset_position([x EXCEPT
        !.header_read = FALSE, !.vtbl_read = FALSE, !.vtbl_broken = FALSE,
        !.offline = FALSE, !.write_protected = FALSE, !.going_offline = FALSE,
        !.header_changed = FALSE, !.volume_table_changed = FALSE,
        !.force_lock = FALSE, !.written = FALSE, !.anew = FALSE]))

(* zft_uninit_mem() *)
zft_uninit_mem(x) ==
    zft_zap_write_buffers(zft_release_deblock_buffer(
        [x EXCEPT !.vtbl = <<>>, !.vtbl_buf = <<>>]))

-----------------------------------------------------------------------------
(* _zft_open() *)
OpenTail(x) ==
    LET w == [x EXCEPT !.write_protected = x.read_only,
                       !.offline = IF x.new_tape THEN FALSE ELSE @]
        astray == /\ w.header_read /\ w.vtbl_read
                  /\ w.pos.seg_pos \in 0 .. FirstSegment
        p == IF astray THEN zft_reset_position(w) ELSE w
    IN  [p EXCEPT !.door_locked = TRUE, !.new_tape = FALSE]

_zft_open(x, read_only, no_rewind) ==
    LET a == [x EXCEPT !.read_only = read_only, !.no_rewind = no_rewind, !.busy = TRUE]
    IN  OpenTail(IF x.new_tape THEN zft_uninit_mem(zft_init_driver(a)) ELSE a)

(* The reopening that MTRESET and MTLOAD fake. *)
Reopen(x) == OpenTail(zft_init_driver(x))

(* _zft_close(): flush, a file mark, the tables if at the begin of the     *)
(* tape or about to rewind.                                                *)
CloseFile(x) ==
    LET mark(f) == IF LastVolume(f).open
                   THEN [zft_move_past_eof(zft_close_volume(f)) EXCEPT !.io_state = "idle"]
                   ELSE f
        save(c, ok) == IF ~zft_tape_at_lbot(c) /\ c.no_rewind THEN c
                       ELSE zft_release_deblock_buffer(
                                IF ok THEN zft_update_header_segments(c) ELSE c)
        end(f) == save(mark(f), f.res = "ok")
    IN  end(zft_flush_buffers(x))

(* Mutant: only the header segments are looked at.                         *)
NothingToSave_Header(x) == ~x.header_changed /\ ~x.force_lock

NothingToSave(x) == ~x.volume_table_changed /\ ~x.header_changed /\ ~x.force_lock

_zft_close(x) ==
    LET file == IF x.header_read /\ x.vtbl_read /\ ~x.vtbl_broken THEN CloseFile(x) ELSE x
        rewind(a) == IF a.no_rewind THEN a ELSE zft_reset_position(a)
        unlock(b) == IF b.going_offline
                     THEN [zft_uninit_mem(zft_init_driver(b)) EXCEPT
                                !.offline = TRUE, !.door_locked = FALSE]
                     ELSE IF NothingToSave(b) THEN [b EXCEPT !.door_locked = FALSE]
                     ELSE b
        done == IF x.offline THEN [zft_uninit_mem(x) EXCEPT !.door_locked = FALSE]
                ELSE unlock(rewind(ftape_abort_operation(file)))
    IN  [done EXCEPT !.busy = FALSE]

-----------------------------------------------------------------------------
(* The operations of MTIOCTOP that move the tape. *)

(* mt_tell(): the number of the block at the position. *)
mt_tell(x) == x.pos.volume_pos + zft_blk_offs(x, zft_volume_by_segpos(x, x.pos.seg_pos))

(* seek_block_in_volume() *)
seek_block_in_volume(x, block) ==
    LET v == Volume(x, zft_volume_by_segpos(x, x.pos.seg_pos))
        b == Max({0, Min({block, v.size})})
        t == TapePos(x, v.start_seg) + b
        c == SegByteCoord(x, t)
        p == [MoveCache(x, v.start_seg) EXCEPT
                !.pos = [seg_pos |-> c.seg_pos, seg_byte_pos |-> c.seg_byte_pos,
                         volume_pos |-> b, tape_pos |-> t],
                !.just_before_eof = (v.size = b)]
        e == IF v.size = b THEN zft_position_before_eof(p, v) ELSE p
    IN  Result(e, IF b = block THEN "ok" ELSE "EINVAL")

(* seek_block() *)
seek_block(x, block) ==
    LET i == zft_volume_by_blkpos(x, block)
        offset == zft_blk_offs(x, i)
        p == PositionAt(x, Volume(x, i).start_seg)
        s == seek_block_in_volume(p, block - offset)
        r == IF block <= 0
             THEN Result(zft_reset_position(x), IF block = 0 THEN "ok" ELSE "EINVAL")
             ELSE IF offset + Volume(x, i).size >= block THEN s
             ELSE Result(p, "EINVAL")
    IN  [r EXCEPT !.sought = block]

(* mt_fsf(), mt_bsf() *)
mt_fsf(x, n) == [zft_skip_volumes(x, n) EXCEPT !.just_before_eof = FALSE]
mt_bsf(x, n) == IF n = 0 THEN x ELSE zft_skip_volumes(x, 1 - n)

(* fsfbsfm(): to the end of a file, before its mark. *)
fsfbsfm(x, arg) ==
    LET s == zft_skip_volumes([x EXCEPT !.just_before_eof = FALSE],
                              IF arg < 0 THEN arg ELSE arg - 1)
        v == Volume(s, zft_volume_by_segpos(s, s.pos.seg_pos))
        e == [seek_block_in_volume(s, v.size) EXCEPT !.just_before_eof = TRUE]
    IN  IF arg = 0 THEN x ELSE IF s.res # "ok" THEN s ELSE e

(* mt_rew() *)
mt_rew(x) ==
    zft_reset_position(IF x.header_read /\ x.vtbl_read
                       THEN Result(zft_def_idle_state(x), "ok") ELSE x)

(* mt_setpart(): to another partition; the model has but one. *)
mt_setpart(x) ==
    IF ~(x.header_read /\ x.vtbl_read) THEN zft_init_driver(x)
    ELSE Then(zft_update_header_segments(mt_rew(x)), zft_init_driver)

(* The functions of mt_funs[]. *)
Function(x, op, n) ==
    CASE op = "FSF" -> mt_fsf(x, n)
      [] op = "BSF" -> mt_bsf(x, n)
      [] op = "FSR" -> seek_block(x, mt_tell(x) + n)
      [] op = "BSR" -> seek_block(x, mt_tell(x) - n)
      [] op = "SEEK" -> seek_block(x, n)
      [] op = "FSFM" -> fsfbsfm(x, n)
      [] op = "BSFM" -> fsfbsfm(x, -n)
      [] op = "EOM" -> zft_skip_to_eom(x)
      [] op = "WEOF" -> Then(zft_flush_buffers(x), LAMBDA y : zft_weof(y, n))
      [] op = "ERASE" -> zft_erase(x)
      [] op = "REW" -> mt_rew(x)
      [] op = "RETEN" -> IF x.header_read /\ x.vtbl_read
                         THEN Result(zft_def_idle_state(x), "ok") ELSE x
      [] op = "OFFL" -> IF x.offline THEN [x EXCEPT !.force_lock = FALSE, !.door_locked = FALSE]
                        ELSE mt_rew([x EXCEPT !.force_lock = FALSE, !.going_offline = TRUE])
      [] op = "NOP" -> IF x.offline THEN x ELSE Result(zft_def_idle_state(x), "ok")
      [] op = "LOCK" -> [x EXCEPT !.force_lock = TRUE, !.door_locked = TRUE]
      [] op = "UNLOCK" -> [x EXCEPT !.force_lock = FALSE, !.door_locked = FALSE]
      [] op = "LOAD" -> IF x.offline THEN Reopen(x) ELSE x
      [] op = "RESET" -> Reopen(x)
      [] op = "SETPART" -> mt_setpart(x)

(* mt_funs[]: what is permitted, and what is needed. *)
Online == {"FSF", "BSF", "FSR", "BSR", "WEOF", "REW", "RETEN", "BSFM", "FSFM", "EOM",
           "ERASE", "SEEK"}
Writes == {"WEOF", "ERASE"}
NeedIdle == {"FSF", "BSF", "FSR", "BSR", "BSFM", "FSFM", "EOM", "SEEK"}

(* mtioctop() *)
mtioctop(x, op, n) ==
    LET access == IF op \in Writes THEN zft_check_write_access(x) ELSE x
        idle(a) == IF op \in NeedIdle /\ ~x.offline THEN zft_def_idle_state(a) ELSE a
        save(r) == IF ~(r.header_read /\ r.vtbl_read /\ zft_tape_at_lbot(r)) THEN r
                   ELSE Then(zft_update_header_segments(Result(r, "ok")),
                             LAMBDA u : Result(u, r.res))
    IN  IF op \in Online /\ x.offline THEN Result(x, "ENXIO")
        ELSE Then(Then(access, idle), LAMBDA b : save(Function(b, op, n)))

-----------------------------------------------------------------------------
(* The actions.  What no later call looks at is cleared between two calls. *)
Return(x) ==
    LET reading == x.io_state = "reading"
        ok == x.res = "ok"
        keep(b, new, old) == IF b THEN new ELSE old
    IN  z' = [x EXCEPT !.res = "ok", !.cnt = 0, !.clipped = FALSE,
                       !.got = keep(ok, @, NoRead), !.sought = keep(ok, @, -1),
                       !.volume = keep(reading, @, 1),
                       !.remaining = keep(reading, @, 0),
                       !.eod = keep(reading, @, 0),
                       !.acc = keep(LastVolume(x).open, @, 0)]
Ready == [z EXCEPT !.got = NoRead, !.sought = -1]

(* What a careful caller leaves out: to ask for more room when the tape is *)
(* full, and to stop writing right at the end of a segment, when a sector  *)
(* that then turns out to be unwritable has its data forgotten             *)
(* (flush_handle_hard_errors()).                                           *)
AsksForRoom == z.pos.seg_pos > LastSegment
StopsAtBoundary == z.writing /\ z.pos.seg_byte_pos = 0
Careful(habit, careless) == careless => habit \in Habits
Stops == Careful("boundary", StopsAtBoundary)

Open ==
    /\ ~z.busy
    /\ \E d \in Devices : Return(_zft_open(Ready, d.read_only, d.no_rewind))

Close == z.busy /\ Stops /\ Return(_zft_close(Ready))

Write ==
    /\ z.busy /\ Careful("full", AsksForRoom) /\ (z.gen >= MaxGen => z.io_state = "writing")
    /\ \E n \in Lengths : z.acc + n <= MaxLength /\ Return(_zft_write(Ready, n))

Read == z.busy /\ Stops /\ \E n \in Lengths : Return(_zft_read(Ready, n))

Ioctl ==
    /\ z.busy /\ Stops
    /\ \E c \in Calls :
        /\ c[1] \in Writes => z.gen + c[2] <= MaxGen /\ Careful("full", AsksForRoom)
        /\ ~(c[1] = "SETPART" /\ z.offline)
        /\ Return(mtioctop(Ready, c[1], c[2]))

(* MTIOCPOS, MTIOCGETSIZE and MTIOCVOLINFO, which ask for the idle state    *)
(* and for tape positions: those at which the cached one is left.          *)
Query ==
    /\ z.busy /\ Stops /\ ~z.offline
    /\ \E y \in {zft_def_idle_state(Ready)} :
        LET v == Volume(y, zft_volume_by_segpos(y, y.pos.seg_pos))
        IN  \E s \in {y.cache.seg_pos, y.eom_start, v.start_seg} :
                Return(Then(y, LAMBDA x : MoveCache(x, s)))

(* The interrupt handler is done with a segment. *)
Runner == z.running /\ z.queue # <<>> /\ z' = TransferHead(z)

(* The machine stops, with all that is in memory: between two calls, or    *)
(* while the tables are being saved, when the header segments are written  *)
(* and the volume table is not.                                            *)
Crash ==
    /\ "crash" \in Habits
    /\ \/ z' = Boot(z)
       \/ /\ z.busy /\ Stops /\ z.header_read /\ z.vtbl_read /\ ~z.vtbl_broken
          /\ LET f == zft_flush_buffers(Ready)
             IN  f.res = "ok" /\ z' = Boot(zft_write_header_segments(f))

(* The cartridge is taken out and put back. *)
Reinsert == ~z.busy /\ ~z.door_locked /\ ~z.new_tape /\ z' = [z EXCEPT !.new_tape = TRUE]

Init ==
    \E p \in FaultPlans :
        z = Boot([tape |-> [s \in Segments |-> <<>>], tape_bad |-> BadSectors,
                  table |-> [i \in Slots |-> NoEntry], faults |-> p, gen |-> 0])

Next ==
    \/ Open \/ Close \/ Write \/ Read \/ Ioctl \/ Query
    \/ Runner \/ Crash \/ Reinsert

Spec == Init /\ [][Next]_z
=============================================================================
