------------------------------ MODULE ZftFiles -------------------------------
(***************************************************************************)
(* What the tape device promises: the files of TapeFiles, and more.        *)
(***************************************************************************)
EXTENDS ZftCtl

(* The data of the segments from a to b, with what still waits in buffers. *)
Stored(x, s) ==
    LET queued == {i \in DOMAIN x.queue : x.queue[i].seg = s}
    IN  IF queued = {} THEN x.tape[s] ELSE x.queue[Max(queued)].data
Data(x, a, b) == FlattenSeq([k \in 1 .. b - a + 1 |-> Stored(x, a + k - 1)])
Take(s, n) == SubSeq(s, 1, Min({n, Len(s)}))

FileOf(x, v) ==
    IF v.open
    THEN Data(x, v.start_seg, x.pos.seg_pos - 1)
            \o Take(x.deblock, x.pos.seg_byte_pos) \o x.hard_errors
    ELSE Take(Data(x, v.start_seg, v.end_seg), v.size)

(* The files by the tables of the cartridge. *)
SavedFiles(x) ==
    LET dead == [x EXCEPT !.queue = <<>>, !.vtbl_buf = x.table]
        t == zft_extract_volume_headers(dead)
    IN  [i \in DOMAIN t.vtbl |-> FileOf(dead, t.vtbl[i])]

Mounted(x) == x.header_read /\ x.vtbl_read
FilesOf(x) == IF Mounted(x) THEN [i \in DOMAIN x.vtbl |-> FileOf(x, x.vtbl[i])]
              ELSE SavedFiles(x)

(* The files are kept in variables of their own: they are computed once in *)
(* each step.                                                              *)
VARIABLES files, saved

FilesInit == Init /\ files = FilesOf(z) /\ saved = SavedFiles(z)
FilesNext ==
    /\ Next
    /\ files' = FilesOf(z')
    /\ saved' = IF z'.table = z.table /\ z'.tape = z.tape THEN saved ELSE SavedFiles(z')
FilesSpec == FilesInit /\ [][FilesNext]_<<z, files, saved>>

Promise == INSTANCE TapeFiles WITH
    open <- Mounted(z) /\ LastVolume(z).open, anew <- z.anew, mounted <- Mounted(z)

(* The device implements the abstract tape of files: only the last file    *)
(* grows, in the order it was written, no call changes another file, and   *)
(* when the driver forgets its tables, the cartridge has the files of the  *)
(* last time they were saved.                                              *)
KeepsFiles == Promise!Spec

-----------------------------------------------------------------------------
ZftTypeOK ==
    /\ z.pos.seg_pos \in -1 .. LastSegment + 1
    /\ z.pos.seg_byte_pos \in 0 .. Sectors
    /\ z.io_state \in {"idle", "reading", "writing"}
    /\ Len(z.queue) <= NrBuffers
    /\ Len(z.vtbl) <= MaxVolumes
    /\ \A s \in Segments : z.bad[s] \in 0 .. Sectors

(* The position is kept four times, by segment, offset, place in the       *)
(* volume and place on the tape (zft_position), and moved by every         *)
(* operation: the four agree.                                              *)
PositionsAgree ==
    LET v == IF LastVolume(z).open THEN LastVolume(z)
             ELSE Volume(z, zft_volume_by_segpos(z, z.pos.seg_pos))
    IN  Mounted(z) =>
            /\ z.capacity = SizeOf(z, FirstSegment, LastSegment)
            /\ z.pos.tape_pos = SizeOf(z, FirstSegment, z.pos.seg_pos - 1) + z.pos.seg_byte_pos
            /\ z.pos.volume_pos = z.pos.tape_pos - SizeOf(z, FirstSegment, v.start_seg - 1)

(* A read (_zft_read()) hands out the sectors of the file at the position, *)
(* in order and complete: less than asked for only at the end of the file. *)
ReadsAreExact ==
    LET g == z.got
        file == files[g.volume]
    IN  g.volume > 0 =>
            g.data = SubSeq(file, g.from + 1, Min({g.from + g.asked, Len(file)}))

(* When the driver takes its volume table for saved                        *)
(* (volume_table_changed is not set), the cartridge has the files that the *)
(* driver has: nothing is saved by halves, nothing deleted comes back.     *)
CleanTableIsSaved ==
    Mounted(z) /\ ~z.volume_table_changed /\ ~z.vtbl_broken => saved = files

(* A file that was closed has all the sectors that its entry in the volume *)
(* table counts (zft_close_volume()), each at its place.                   *)
ClosedFilesAreWhole ==
    \A i \in DOMAIN z.vtbl :
        Mounted(z) /\ ~z.vtbl[i].open =>
            /\ Len(files[i]) = z.vtbl[i].size
            /\ Promise!InOrder(files[i])

(* As long as something is not on the cartridge, the door stays locked     *)
(* after a close (_zft_close()), so that nobody takes the cartridge out.   *)
UnsavedTapeIsLocked ==
    ~z.busy /\ Mounted(z) /\ ~z.door_locked => files = saved

(* A successful MTSEEK, MTFSR or MTBSR (seek_block()) moves to the block   *)
(* asked for, as MTIOCPOS (mt_tell()) reports it, across bad sectors,      *)
(* empty files and file marks.                                             *)
SeeksArrive == z.sought >= 0 => mt_tell(z) = z.sought
=============================================================================
