# TLA+ models of the ftape driver

ftape is a Linux driver for floppy tape drives (QIC-40/80/3010/3020, Ditto Max).
The drive hangs on a floppy disk controller; the tape is a sequence of
*segments* of 32 sectors, 29 of data and 3 of error correction (ECC) code. While
the tape runs, the controller's interrupt handler transfers segment after segment
on its own, into or from a ring of buffers, and the process that reads or writes
looks at the buffers, stops the tape and starts it again. Much of what is hard in
the driver is in that relationship. The rest is in the layers on both sides: below,
a drive that is talked to by counting head steps and that may be changed, busy
or asleep; above, `zftape`, which makes a tape of files out of segments, some of
whose sectors turn out to be bad only when they are written.

All paths below are relative to `src/ftape/`.

## Inventory

| Component | State it keeps | Operations | What makes it correct |
|---|---|---|---|
| Segment buffers (`lowlevel/ftape-buffer.c`, `ftape-rw.c`, `fdc-io.h`) | ring of `buffer_struct`: status, segment, cluster, error maps, skip, retry | set up of a segment and of its next cluster, zapping, growing and shrinking of the ring | maps name every block that is not valid; a transfer goes into HEAD; HEAD and TAIL are in the ring |
| Interrupt handler (`lowlevel/fdc-isr.c`) | `runner_status`, `fdc->mode`, HEAD, `hide_interrupt`, `interrupt_seen`, `stop_read_ahead`, `setup_error` | result of a read, write, delete, verify, format transfer; seek; reset; stray interrupts | no full buffer is overwritten; nothing is lost or left out in a retry; the process is woken |
| Reading (`lowlevel/ftape-read.c`) | the loop of `ftape_read_segment()`, `driver_state`, TAIL | read a segment, ECC correction, header segments and their decoding | the caller gets its segment or an error, in bounded time |
| Writing (`lowlevel/ftape-write.c`) | the loops of `write_segment()`, `ftape_loop_until_writes_done()` | write, flush, start writing, hard error recovery | accepted data is in a buffer or on tape until an error is reported |
| Controller access (`lowlevel/fdc-io.c`) | `irq_level`, `in_reset`, `resetting`, `current_cylinder`, `seek_result` | masking, command, interrupt wait, reset, seek, read id, set up of a transfer, probing | masks nest; no wakeup is lost; the commands of process and handler do not mix |
| Motion and position (`lowlevel/ftape-rw.c`) | `location`, `tape_running`, `might_be_off_track` | start, stop, seek forward, skip, fast seek, logical end of a track | the wanted segment is found or an error is returned |
| QIC-117 commands (`lowlevel/ftape-io.c`) | `current_command`, `qic_cmd_level`, last status and error | command, report, ready wait, sense | a command is sent only in a state that allows it, and nesting is bounded |
| Drive control (`lowlevel/ftape-ctl.c`, `ftape-calibr.c`, `ftape-init.c`) | drive type, data rate, `formatted`, `no_tape` | enable, disable, new cartridge, abort operation, calibration | every exit leaves the driver in a state another open can start from |
| Bad sector map (`lowlevel/ftape-bsm.c`) | the map of the cartridge | extract, store, put and get an entry | what is stored is what is read back, in every format |
| ECC (`lowlevel/ftape-ecc.c`) | none | parity, correction | up to three known bad blocks are restored |
| Format, verify (`lowlevel/ftape-format.c`) | format buffers | format a track, verify a segment | the handler finds each track's parameters in time |
| zftape (`zftape/*.c`) | position, deblock buffer, volume table, file marks, dirty flags | read, write, ioctl, open, close | volumes do not overlap; what was written is found again |
| Compressor (`compressor/`) | the place in the segment, what was collected of a block | read compressed blocks of earlier versions, seek | blocks are returned in order; a seek ends, at its block |
| ISA and parallel port controllers (`internal/`, `parport/`) | register shadows | register access, probing | – |

How they interact: `zftape` calls `ftape_read_segment()`, `ftape_write_segment()`
and the flush under one semaphore, so there is one process at a time. That process
shares with the interrupt handler the ring, `runner_status` and the controller's
flags. It excludes the handler only while it holds the controller's interrupt
masked (`fdc_disable_irq()`, nested by `irq_level`), and sleeps in
`fdc_interrupt_wait()` with a timeout, at the end of which it resets the
controller. The handler asks the process to stop the tape by setting
`runner_status` to `aborting`, `logical_eot` or `end_of_tape`; the process asks the
handler to stop by `do_abort`. The handler sends one command of its own: the
seek that pauses the tape. As the drive understands the *number of head steps* as
a command, that seek and the process's commands must not mix, and both depend on
`current_cylinder`.

Hard behaviours, with their lines, are the `hazards` of `PROJECT.json`.

## Modules

| Module | Models |
|---|---|
| `FtapeBuffer` | one buffer as a record and what the code does with it: `setup_segment()`, both branches of `ftape_setup_new_segment()`, `ftape_calc_next_cluster()`, `determine_progress()`, `update_error_maps()`, `skip_bad_sector()`, `find_resume_point()`, `convert_sector_map()`. No variables. |
| `FdcIsr` | the ring and one run of the interrupt handler per action (`TransferInterrupt`, `SeekInterrupt`); the building blocks the two processes share: abort, stop, end of a track, start of the tape |
| `FtapeRead` | `ftape_read_segment()` and `ftape_wait_segment()`, one action per step of the loop; extends `FdcIsr` |
| `FtapeWrite` | `write_segment()`, `ftape_write_segment()`, `ftape_loop_until_writes_done()`, `ftape_abort_operation()`, and what the transfers leave on tape; extends `FdcIsr` |
| `FdcSync` | the layer below, on its own: masks, sleeps, resets, seeks and commands of `fdc-io.c`, nested as the C functions are, against the handler's interrupts and its own seek |
| `FtapePosition` | `ftape_start_tape()` and all below it: `determine_position()`, `seek_forward()`, `skip_reverse()`, `fast_seek()`, `check_bot_eot()`, `ftape_read_id()`, `ftape_seek_head_to_track()`, with what they learn of the drive's overshoot; the drive and the moving tape as its environment |
| `Qic117` | the command table of `qic117.h`, and the drive that obeys it (external) |
| `FtapeIo` | `ftape-io.c`: commands with their restrictions and repairs, parameters, reports, ready wait, data rates, waking up, reset, door and partitions; extends `Qic117` |
| `FtapeCtl` | `ftape-ctl.c` and the device calls that use it: finding a drive, its status, a new cartridge, calibration, open, close, bare device, `MTRESET`, `MTLOAD`, `MTOFFL`, `MTSETPART`; extends `FtapeIo` |
| `FtapeFormat` | `ftape-format.c` and the formatting branch of the handler |
| `FtapeHeader` | the tape parameters of a header segment: `ftape_decode_header_segment()` and the addresses computed from them. No variables. |
| `FtapeBsm` | the search for a header segment, and the bad sector map in both its representations; extends `FtapeHeader` |
| `ZftRw`, `ZftVtbl`, `ZftWrite`, `ZftRead` | `zftape-rw.c`, `zftape-vtbl.c`, `zftape-write.c` (with `ftape_hard_error_recovery()`), `zftape-read.c`: operators on the record `z`, each extending the one before |
| `ZftCtl` | the tape device: open, close, read, write, the operations of `MTIOCTOP` and the queries, each one action; crashes; extends `ZftRead` |
| `TapeFiles` | what the device promises: a tape of files (abstract) |
| `ZftFiles` | the files that `ZftCtl`'s state stands for, and that it implements `TapeFiles` |
| `BlockFile` | what a reader of a compressed file relies on: blocks in order, and seeks that end (abstract) |
| `ZftCompress` | `zftape-compress.c` with the calls of `zftape-read.c` and `zftape-ctl.c` that use it, and that it implements `BlockFile` |
| `MC*` | tapes, cylinders, drives and cartridges for TLC |
| `FdcIsrProofs`, `FtapeReadProofs`, `FtapeWriteProofs`, `FdcSyncProofs`, `FtapePositionProofs`, `FtapeCtlProofs`, `FtapeFormatProofs`, `FtapeBsmProofs` | lemmas and theorems, each about the module it is named after; `FdcIsrProofs` also about `FtapeBuffer`, `FtapeCtlProofs` about `FtapeIo` |

### How state and actions correspond to the code

- A buffer's data are not modelled; `moved` is the set of data blocks that
  transfers have put into it for its present segment, and `stray` is 1 once a retry
  was set up in it with the maps of another segment. Both are history variables: no
  guard looks at them. Error maps are sets of sectors, as the bitmaps of the code.
  The DMA address of the code (`ptr`) is `data_offset`, counted in sectors.
- The sectors of a segment are `SectorsPerSegment` (32 in the code), some of them
  bad in the cartridge's map (`BadSectors`). A segment with at most one good
  sector, the first, is a *fake* segment, as in the code.
- One run of the handler is atomic: the process runs on the same interrupt line
  and never sees half of it. Steps of the process are separated wherever the code
  can be interrupted between two accesses to shared state.
- What the controller reports is a choice over `Kinds`; every choice that is not
  a success is *charged* to `faults`, up to `MaxFaults`, and only kinds in `Faults`
  occur. "setup" and "pause" are the failures of the handler's own commands.
  "undecoded" is an abnormal termination with a status bit that
  `decode_irq_cause()` does not look at.
- `ftape_start_tape()` lets a retry go uncounted after too many overruns. How many
  are too many depends on distances on tape that are not modelled: the credit is a
  choice (`StartTape`) that is open once three faults have occurred.
- `DriveReachable`: to stop or start the tape the process has to talk to the drive,
  which waits for the seek of the handler (`fdc_seek_check()`); these actions are
  enabled only when it is over. Reports that fail in between are repeated up to
  four times (`ftape_report_raw_drive_status()`). What happens there in detail is
  `FdcSync`.
- Callers are chosen by the constant `Callers`. For reading: "forward" (streaming,
  as `zftape` reads a volume), "fresh" (any segment but the one just delivered) and
  "any". For writing: "stream" (segment after segment, asynchronously but for the last
  one, which a flush or an abort follows), "ascending" (the same with gaps between the
  segments) and "any".
- In `FtapeWrite` the data is the number of the call that wrote it. `tape` is the
  data of each segment on tape with the blocks that have been written, `accepted`
  what the caller was told is taken. An error returned to the caller ends the
  promise: from then on the caller knows that data may be lost.
- In `FdcSync` the call stack of the process is explicit. The label of a frame
  says where its function is; `NewCall` is what the rest of the driver calls. A
  command is `exact` if the drive sees the number of steps the sender meant.
  A controller command that has been started ends before the (much longer) timeout
  of the sleep that waits for it, unless its interrupt is lost.
- `FtapePosition` has the driver's view (`location`, the learned `ffw_overshoot`,
  `rew_overshoot`, `min_rewind`, `rew_eot_margin`) beside the truth (`head`, `at`,
  `moving`), in segments. The only links between the two are what `Ids` says of a
  sector id that passes the head and `check_bot_eot()` of the drive's status. `drift`
  is how far this drive's skips end from where they should, a property of the
  hardware that is chosen once. One action is one exchange with the drive. The
  data rate and FIFO threshold that `ftape_start_tape()` adapts are left out:
  they change no position.
- In `FtapeIo` and `FtapeCtl` every exchange with the drive is one step, so that
  between a status report and the command it was asked for the drive may end a
  motion, or somebody may pull out the cartridge. The C functions are frames of a
  stack; a label with a number is the place behind the n-th call in a function.
  A report fails as a whole: its four trials are one choice. What zftape does
  between two commands is only whether it holds tables, and of which cartridge.
- `FtapeFormat` lets the handler run between any two statements of
  `setup_format_buffer()` and of the loop that refills the ring. `laid` is what has
  passed the head, a history variable.
- In `FtapeBsm` a look up is two steps, the search and the store of the segment
  remembered, which the handler may interrupt if `Overlap` is TRUE. The list
  of bad sectors is a sequence in both of the header's list formats; the array
  format needs no search. The list in the header comes with the cartridge: it is in
  ascending order and describes the bad sectors of every segment (`Lists`), and a
  segment without a good sector is one flagged entry where the format has such
  entries. What `ftape_put_bad_sector_entry()` makes of the list is computed. `Weak` are
  the sectors of a segment that may go bad.
- In the `Zft` modules the whole state is one record, as in `zftape_info_t`; a C
  function is an operator from records to records that leaves its result in
  `z.res`. Lengths are counted in sectors, and a sector's data is the pair of the
  volume and the number it was written as, so that a sector that is lost,
  doubled or misplaced can be told. The low level driver is a queue of segments
  that `Runner` moves to the tape, one of them meeting a bad sector where
  `FaultPlans` says so. Between two calls, what no later call reads is cleared.
- `Habits` are what users do. `ZftCtl`: "crash" (the machine stops at any time),
  "boundary" (stopping to write exactly at the end of a segment), "full" (asking for
  room on a full tape; in no run: see Observations). `FtapeCtl`: "close" (the
  cartridge is changed only while the device is closed), "deselect" (a drive that was woken by hand
  is put to sleep again). `ZftCompress`: the four kinds of call that are known to fail, each as
  narrow as TLC lets it be (`Careful`); in its run nobody makes them.

## Runs

| Run | Properties | Instance, and why it is large enough |
|---|---|---|
| `ReadMaps` | `UnreadBlocksAreFlagged`, `ResumePointIsSound` | 3 segments of 4 sectors (one with a bad sector inside, one fake), 2 ECC blocks, up to 4 errors, failing set ups among them: enough for a first error to be passed over, a second to cause a retry, and both a soft and a hard error in the retried segment |
| `ReadRing` | `RestartIsSafe`, `CacheIsInOrder`, `TransferInHead`, `FullBuffersAreKept`, `ReadReturns` | 2 buffers and 3 segments: the ring is full, wraps around and the track ends; two faults, each one that the medium or the controller reports, a pause that fails, a timeout or a signal ("setup", "overrun" and "undecoded" are left out), under fairness |
| `WriteData` | `AcceptedDataIsHeld`, `FlushedDataIsOnTape`, `HardErrorIsRecoverable`, `WriteAheadKeepsSegments` | 3 writes of rising segments, with gaps, in either mode, into 2 buffers, so that the third has to wait and a gap is met with the ring full; 4 segments on one track, one with a bad sector, one fake; two faults of any kind but "setup" |
| `WriteReturns` | `CallsReturn` | up to three faults of any kind, which takes a sector past its retry limit of 1; two writes of rising segments, with gaps, and flushes, on 3 segments of 2 sectors without fake ones, 2 buffers, under fairness. One hang is excepted: `FlushHangs`, see the deviations |
| `FdcSync` | `MaskIsReleased`, `SeeksAreExact`, `CommandsDoNotMix`, `CallsEnd` | 3 cylinders (home and two others, so that steps from a wrong place can be told), 2 clusters (the handler goes on once, then pauses), one fault of each kind: a lost interrupt, an early wake up (signal), a failing command, a failing pause |
| `Position` | `HealthyDriveStarts`, `StartsWhereIdsSay`, `StartReturns` | 2 tracks (one each way) of 4 segments; 4 drives, each off in both directions by more than the initial overshoot; any sequence of starts; one fault: an id that is not found, a command or status that is lost, a head that does not reach its track, a signal |
| `Drive` | `KnownCartridge`, `ClosedIsReleased`, `RatesAgree`, `HealthyDriveOpens`, `CallsEnd` | a Colorado, a Ditto Max and an unknown drive that has to be found by trying, two cartridges; all device calls in any order; one incident, which is a report not heard, a motion that fails or a cartridge pulled out. `CallsEnd` under fairness |
| `Format` | `IdsAreInOrder`, `EndMeansWhole`, `TracksEnd` | 3 buffers of 2 segments, tracks of 1, 6, 8 and 11 segments: within a buffer, within the ring, once and twice around it, with a last buffer that is full or not; two faults of any kind but "fill"; three starts |
| `BadSectors` | `MapsAreExact`, `PlaceIsRight`, `OneCopyIsEnough`, `SegmentsHaveAddresses` | every header format; 5 segments, with no, some and only bad sectors; two sectors that go bad later, the first or last of a segment; the two copies in three places, each fine, unreadable or nonsense, and one read that fails; real headers of nine formatters, the repaired and the refused ones among them |
| `Zftape` | `PositionsAgree`, `ReadsAreExact`, `UnsavedTapeIsLocked`, `CleanTableIsSaved`, `SeeksArrive`, `KeepsFiles` | the volume table and 3 segments of 2 sectors, one sector bad; two volumes created and up to two file marks at a time; every operation in any order but `MTERASE`, the user's own `MTLOCK` and `MTUNLOCK`, and `MTRETEN`, whose model is part of that of `MTNOP`; crashes between and within calls. Reads and writes of 1 and 3 sectors: less and more than a segment |
| `HardErrors` | `ClosedFilesAreWhole`, `KeepsFiles` | the volume table and 8 segments, files of up to 5 sectors, reads and writes of 1 to 3; a bad sector met by the first to fourth segment that is written, with 2 buffers: in the buffer being flushed, with one behind it and with all full |
| `Compressed` | `KeepsBlocks` | five blocks of any of three sizes: smaller than a length, in the middle, and as large as a block that could not be compressed, so that segments hold several blocks, one and a rest, and a part of one only; segments of one size or of two; none or one of the first three that cannot be read; a signal in any call; any sequence of rewinds, reads and seeks, but for the four kinds of call that are known to fail (`Careful`, and the deviations below). All lengths are scaled down together (1 KB is 4 bytes, the 18 bytes are 4), and with them the thresholds of the fast seek |

Every `*TypeOK` documents the variables of its module. They hold in the same runs when
they are added to a configuration; some are proved.

Deadlock is checked where there is always a caller that can call again. In `Zftape`,
`HardErrors`, `Drive` and `BadSectors` callers use up a bounded number of
volumes, cartridge changes or bad sectors and may stop: these say `CHECK_DEADLOCK FALSE`.

### The device implements a tape of files

`TapeFiles` says what a user of the tape relies on: files one behind the other, of
which only the last can be written; `saved`, the files that the cartridge's own tables
describe and that are left after a crash; a rewritten tape whose old files are
gone (`anew`). `ZftFiles` computes `files` and `saved` from the state of the
device in each step (from the volume table in memory, the tape, the queue, the
deblock buffer and the list of hard errors; and from the table on tape alone), and
`KeepsFiles` is `TapeFiles`' specification under that mapping.

`BlockFile` says what is left of that when a file is compressed: blocks of one size to the
reader, whose compressed sizes and places on tape do not show. `KeepsBlocks` is its
specification under the mapping that forgets them; the end of every seek is part of it.

### Deviations that a change of constants shows

These have no run of their own; each configuration below differs from a passing one
only in the constants named, and TLC then finds the property violated.

| Configuration | Property | What happens |
|---|---|---|
| `ReadMaps` with `Callers = "any"`, `Faults = {}`, `MaxFaults = 0`, or with `Faults = {"ecc"}`, `MaxFaults = 1`, and this invariant | `RetriesStayInTheirBuffer` | The retry branch of `ftape_setup_new_segment()` (`ftape-rw.c:181`) is taken in a buffer with another segment's error maps and skip count, against `fdc-io.h:149`: a caller asks again for the segment it was just given, or a segment read ahead fails the ECC check and is retried in the next buffer. `UnreadBlocksAreFlagged` and `ResumePointIsSound` are not claimed of such a buffer (`stray`) |
| `WriteReturns` with `SectorsPerSegment = 3`, `Faults = {"setup"}` and this invariant | `FlushedDataIsOnTape` | After a failed set up in the handler (`fdc-isr.c:651`) a flush ends with success and data missing (`ftape-write.c:112`) |
| `WriteData` with `Callers = "any"`, `Faults = {}`, `MaxFaults = 0` | `AcceptedDataIsHeld` | A segment is written that does not follow the one in transfer; the handler asks for an abort (`fdc-isr.c:701`). `write_segment()` starts HEAD then although the runner is `aborting`, as it tests only for `running` (`ftape-write.c:353`), and the next call frees it, in transfer (`ftape-write.c:316-320`, "????") |
| `WriteData` with `IgnoreEccErr = TRUE`, `SectorsPerSegment = 4`, `Faults = {"medium"}`, `MaxFaults = 3` | `AcceptedDataIsHeld` | The fast fail of `ftape_setup_new_segment()` (`ftape-rw.c:188`), meant for reading, also passes over sectors that are still to be written, and the segment is done without them |
| `WriteReturns` without the disjunct `<>[]FlushHangs` | `CallsReturn` | The handler asks for an abort and leaves HEAD waiting: at a gap between the segments (`fdc-isr.c:701`), or when the set up of the next cluster fails (`fdc-isr.c:651-659`, `:713-718`). `ftape_loop_until_writes_done()` takes note of `aborting` only if HEAD is in error (`ftape-write.c:159`), and restarts only an idle runner (`:136`): the flush does not end. TLC finds the one with `Faults = {}`, the other with `Callers = "stream"` (no gaps) and `Faults = {"setup"}` |
| `FdcSync` with `Faults = {}` and, in `SeeksAreExact`, `work.op = "seek" => work.exact` | `SeeksAreExact` | `ft_send_to_drive()` works out the target from `current_cylinder` (`ftape-io.c:111-114`) before `fdc_seek()` masks the interrupt (`fdc-io.c:839`) and waits for the handler's seek (`fdc-io.c:321-355`). If the handler's pause ends in between, the drive sees another number of steps, that is another command, and `fdc_seek()` reports success |
| `FdcSync` with `MaxFaults = 0` and this invariant | `SleepsUnmasked` | `fdc_seek_check()` (`fdc-io.c:329`) sleeps with the interrupt masked when its caller had masked it already (`fdc-io.c:375`, and the comment at `:328`) |
| `Drive` with `Kinds <- MCMountain`, `Calls = {"reset"}`, `Habits = {}` | `KnownCartridge` | A cartridge changed while the device is open and reset: the status that clears the "new" bit is read by a command's check (`ftape-io.c:181`), which forgets it; the tables of the old cartridge stay (`ftape-ctl.c:296`) |
| `Drive` with `MaxIncidents = 2` | `KnownCartridge` | The cartridge is changed while the device is closed, and the open that notices it fails later on, as when the command of `ftape_init_drive()` is lost; it returns before `_zft_open()` forgets the tables (`zftape-ctl.c:968-979`). The "new" bit has gone from the drive, `init_drive_needed` is cleared at once (`ftape-ctl.c:549`), and the next open clears `new_tape` (`ftape-ctl.c:246`) and keeps the tables of the old cartridge. The other three invariants of the run hold with two incidents |
| `Drive` with `Kinds <- MCMountain`, `Calls = {}`, `MaxIncidents = 0`, `DeadDrives = TRUE` | `CallsEnd` | The unsigned timeout of `ftape_ready_wait()` (`ftape-io.c:317-342`) wraps around and the wait for a dead drive does not end |
| `HardErrors` with `Habits = {"boundary"}` | `ClosedFilesAreWhole` | A bad sector found by the flush when the position is at the begin of a segment: the data moved out of the buffer is forgotten (`zftape-write.c:390-400`) |
| `HardErrors` with `Calls <- MCErase`, `FaultPlans <- MCNoFaults`, `Habits = {"boundary"}` | `CleanTableIsSaved`; also `UnsavedTapeIsLocked` | `MTERASE` clears the table in memory and not the flag (`zftape-vtbl.c:339`): the files are back at the next open |
| `BadSectors` with `Overlap = TRUE`, `MaxPuts = 0` | `PlaceIsRight` | The handler, setting up its next segment (`fdc-isr.c:708`), looks up the bad sectors while the process is in a look up of its own (`zftape-rw.c:58`): nothing masks the interrupt between the search and the store of `last_reference` (`ftape-bsm.c:473`). The place and map remembered no longer belong to that segment, against the invariants of the comment at `ftape-bsm.c:463-468`, and a later look up returns the map of another segment |
| `Compressed` with `Habits = {"stale"}` | `KeepsBlocks` | `seek_block()` goes to the begin of the file and does not reset the compressor's place; if the seek begins slowly, `seek_in_segment()` (`zftape-compress.c:727`) goes on from the old one, against `zftape-compress.c:135`. A fast round sets the place anew (`zftape-compress.c:853`), and the run has these seeks from everywhere |
| `Compressed` with `Habits = {"squeezed"}` | `KeepsBlocks` | A cluster right behind the offset may start with 18 bytes or fewer left, as the comment at `zftape-compress.c:231` says. Only when a request, read or seek, ends just there, the rest of the segment is skipped, the cluster with it (`zftape-compress.c:510`, `:761`); requests that go on over it are in the run |
| `Compressed` with `Habits = {"holes"}` | `KeepsBlocks` | A fast seek to a block that ends between two segments with a block of their own, and what lies between them cannot be read or has none: having gone too far, the search finds the second again and again (`zftape-compress.c:678`) and the seek does not end. Seeks over such segments, to blocks before or behind, are in the run, and so are slow seeks |
| `Compressed` with `Habits = {"insist"}` | `KeepsBlocks` | After a read that failed, `remaining` stays as it was for the whole request (`zftape-read.c:272`), and the end of the file is reported early; a seek after it is in the run |
| `Format` with "fill" in `Faults` | `IdsAreInOrder` | `setup_format_buffer()` fails, which only parallel port controllers do, its result is ignored (`ftape-format.c:139`, `:166`), and the old ids are written again |

### Fairness

`WF(Interrupt)`, `WF(Complete)`, `WF(fdc_isr)`: the controller ends each command with
an interrupt, unless a fault says it was lost, and the processor serves it. Where
it does not, the timeout of the sleep is an action of the process. (`FtapeRead`
states it as: when the controller stays busy, interrupts come again and again;
`busy` is when the handler can be called.) `WF(Process)`: a process in the kernel is
scheduled; in `FtapePosition` also that the drive answers and that a tape that
runs reaches its end. In `FtapeCtl`, `WF(Driver)` is the same, and `WF(DriveDone)` says
that a drive ends the motion it was asked for, unless `DeadDrives`. In `FtapeFormat` the
user keeps polling, as its interface asks for (`ftape_format_status()` is what refills the ring), and a
tape that moves arrives at the end of the track. A seek in a
compressed file goes on as long as it has not ended. Nothing is assumed of other callers
and of signals. The actions that fail are inside the fair actions but bounded by
`MaxFaults` or `MaxIncidents`; the liveness properties say that the driver ends
every call once faults stop.

## Proofs

Everything in this section holds for every value of the constants that satisfies the
named assumptions: every tape, ring, number of faults and sequence of calls.

### The ring and the handler

The first two parts of `FdcIsrProofs` are the lemmas about the operators on buffers of
`FtapeBuffer`: what they do to the types, to status and to segment, how data blocks are counted (`BlockOrder`,
`BlocksCount`: a good sector's block is told apart from that of every other good sector,
and there are as many blocks as good sectors), and what they do to the error maps.
Its last part proves `HandlerStep`: one run of the handler keeps `IsrInv == IsrTypeOK /\ TransferSound`, independently of which
process runs. Types alone are not inductive: the handler sets up the segment
`next_segment` of HEAD, and that this is a segment of the tape follows from what
the buffer was when its transfer was started, which `TransferSound` carries along. The
steps that both processes take (abort, stop, end of a track, start) are proved there, too.

### Reading

`FtapeReadProofs`, of `FtapeRead`'s specification:

- `ReadTypeCorrect`: `[]ReadTypeOK`; no counter goes below zero, among other things;
- `ReadTransferInHead`: `[]TransferInHead`; while a cluster is transferred, the buffer
  in transfer is HEAD, with a status that says so, and the segment to be read next
  is its successor on the same track or none;
- `ReadRestartIsSafe`: `[]RestartIsSafe`; the process starts the runner on TAIL only when
  HEAD is there and the controller is not at work;
- `ReadCacheIsInOrder`: `[]CacheIsInOrder`; what has been read ahead is in order;
- `ReadKeepsFullBuffers`: `FullBuffersAreKept`; the handler changes no buffer whose data
  the process has not taken;
- `ReadUnreadBlocksAreFlagged`: `[]UnreadBlocksAreFlagged`; a block of a full buffer that
  no transfer has filled is flagged for the ECC code, and the buffer is complete;
- `ReadResumePointIsSound`: `[]ResumePointIsSound`; a retry leaves no readable sector out.

The inductive invariant is `ReadInv`: `IsrInv`, the types of the process, and `ReadRing`.
The last says where the ring is which: the buffers from TAIL up to HEAD are
full or given up, all others but HEAD are free (`RingOK`), and none of
the former was given up while the handler reads ahead (`AheadOK`). Without the
free part the handler could go on into a full buffer; without the order of
the ring, a wait that ends early could leave TAIL behind a free one.

The last two theorems rest on a second invariant, `MapInv`. It says of every buffer that
each good sector before `skip` has been read or is a hard error (`SkipOK`), of a full one
that it is flagged (`DoneOK`), and of the one in transfer that its counters agree with
each other and with the bad sector map, that every good sector it has passed was read or
is in an error map (`OnCourse`), and that the cluster has no bad sector in it
(`InCluster`). `SkipOK` is needed of all buffers, as `skip` outlives the try and is used by
the next one; `OnCourse`, because the error maps are of sectors and what was read is of
blocks, so that a data offset that is one off would flag the wrong one. Their
hypothesis is `~IgnoreEccErr`, the default of the module parameter (`ftape-init.c:57`): the
fast fail of `ftape_setup_new_segment()` gives sectors up unread, and means to. Both
properties are conditioned on `stray = 0`, see the first deviation above; no
buffer of the `ReadMaps` run is stray.

### Writing

`FtapeWriteProofs`, of `FtapeWrite`'s specification: `WriteTypeCorrect`, and
`WriteAheadKeeps` (`WriteAheadKeepsSegments`): the handler, when it goes on to the next
buffer by itself, writes it to the segment the process has filled it for. The inductive
invariant is `WriteInv`. `TransferInHead` is no part of it: with faults of the kind
"setup" it is not an invariant of writing, since `write_segment()` marks TAIL as waiting
after a wait that failed, and TAIL may be HEAD by then. `TransferSound` is what remains
true, and enough for the handler.

Its second part proves what becomes of the data:

- `WriteHoldsAcceptedData`: `[]AcceptedDataIsHeld`; what was accepted is on tape, with every
  block of its segment, or in a buffer still to be written, until an error is reported;
- `WriteFlushes`: `[]FlushedDataIsOnTape`; a flush that succeeds leaves all of it on tape;
- `WriteErrorsAreRecoverable`: `[]HardErrorIsRecoverable`; a hard error that
  `write_segment()` reports, or that the flush loop is about to (`ftape-write.c:159`), is one
  of HEAD, and is one sector.

Their hypothesis is `Orderly`: callers are "ascending" or "stream", "setup" is not among
`Faults`, and `~IgnoreEccErr`. Without any one of the three TLC finds one of the
properties violated (see the deviations above), so that it is what the code relies
on: `zft_flush_buffers()` and the write path of `zftape` write that way, while the segment
ioctl (`zftape-ctl.c:1403`) may not. Tape, ring, number and kinds of the other faults, of
retries and of calls are any.

The inductive invariant is `DataInv`. Once an error is reported, nothing is promised; after a
flush or an abort all that is promised is on tape (`RestOK`); in between (`Live`) it is `LiveOK`:

- `RingOK`, `SegOK`: the buffers from HEAD up to TAIL are a queue, waiting behind HEAD, of
  different segments none of which is beyond the call's. Were a segment queued twice,
  the buffer written last would decide which data is on tape.
- `DataOK`: each promise (`Due`, which has the data of the call under way as well) is on tape
  or in the queue; a queued buffer is the newest data of its segment; and the blocks
  that HEAD has written are on tape with HEAD's data.
- `MapsOK`, `HardOK`, `TransferOK`: HEAD leaves the queue when its transfer has passed every
  good sector, and each of those was written in this or an earlier try. That is the
  invariant `MapInv` of reading over again, for one buffer, and stronger: a retry never
  resumes behind a sector that was not written, and a HEAD with a hard error has one.
- `RunnerOK`: with the runner aborting, HEAD is not marked as in transfer, unless the
  last segment before a flush has been handed over (`Closing`), so that `write_segment()` does
  not take it for done; TAIL is judged to be waiting or in error only when no transfer is
  under way; and where a retry or a hard error is reported, TAIL is HEAD. This is the part
  that fails for other callers.
- `PhaseOK`: which steps of a call can be reached in which state of the driver.

### Controller

`FdcSyncProofs`, of `FdcSync`'s specification, for calls nested in any way:

- `MaskReleased`: `[]MaskIsReleased`; every call comes back with the interrupt enabled and
  no reset pending;
- `CommandsNeverMix`: `CommandsDoNotMix`; the process sends no command while the
  handler's seek is under way;
- `SeeksExact`: `[]SeeksAreExact`; a seek that succeeded is at its cylinder, and the drive
  sees as many steps as were meant: for every seek of the handler, and for one of
  the process if `current_cylinder` has not changed since `ft_send_to_drive()` looked at it
  (it may have: see the deviations). All of it unless an interrupt is lost or a
  sleep cut short (which `Undisturbed`, in the property itself, says);
- `SyncTypeCorrect`: `[]SyncTypeOK`; with it, the interrupt is masked at most twice.

Two invariants. `SyncInv` counts: `irq_level` is the number of frames on the stack
that are at a label where their function holds the mask, and `in_reset` the number of
those within a reset, which is therefore never two (`MaskOK`); and `hide_interrupt`
covers the handler's seek (`IsrSeekOK`). A count over a stack of unknown depth
is stated by a function from places to numbers (`Counts`), so that no
induction is needed. `ExactInv` relates the place of the process to what the controller is
doing. It needs the shape of the stack, that is, which function can have called
which (`Shape`, `Fits`): three frames of knowledge, the top one, the one it returns to
and the outermost one, are enough. Then there are five phases (`PhaseOK`): the driver is
closed; a reset polls the drives (`ResetOK`); `fdc_seek()` has its command sent and waits
(`SentOK`); `fdc_disable()` is past its reset (`ClosingOK`); and otherwise (`PlainOK`) a
transfer, the handler's seek, or nothing is under way, and the driver knows where the
head is. `HiddenOK` closes the gap that made the first attempt fail:
`fdc_issue_command()` may sleep with the interrupt masked by its caller, but only for the
handler's seek, and then it resets the controller before it sends anything.

### Position

`FtapePositionProofs`, for every tape, every drift of the drive's skips and every
sequence of lost ids, failed commands, missed tracks and signals:

- `PositionTypeCorrect`: `[]PositionTypeOK`; the location stays within the tape, or one
  track before it when an end of the tape is taken for one of an unknown track;
- `StartsInPlace`: `[]StartsWhereIdsSay`; a start that succeeds after an id has the tape
  running just before the segment.

The inductive invariant is `PositionInv`: the types, `MotionOK` and `ViewOK`.
`StartsWhereIdsSay` by itself says nothing of the states in which the driver still
computes from a location read earlier. `ViewOK` says where that is safe: a location
taken from an id is the truth (`Exact`) as long as the tape is known to run; a stale
one, of a tape that has stopped, is only used to decide which way to go, and ids are
read before the search ends. Two facts carry the last step:
a standing tape needs a run-up of at least one segment (`StandingReadsIds`), and a fast
skip is never made to a target already reached, because `min_count` is more than the
drive can be taken to fall short by (`FastSkipsReadIds`; -5 against 8 in the code,
`LimitsAssumption` here).

### Drive

`FtapeCtlProofs`, of `FtapeCtl`'s specification, for any drives, any sequence of device
calls, cartridge changes and incidents:

- `ReleasedWhenClosed`: `[]ClosedIsReleased`; between calls a closed device holds no
  controller and, unless something went wrong, no drive that is awake: after a close, after
  an open that failed anywhere, and after a bare session;
- `LevelsAreCounted`: `ftape_command()`, which calls itself to wait for the drive and to
  read its errors, has counted its levels down whenever a call has ended, and never has more
  than two. It refuses every command at the sixth level, so that a level lost per call
  would soon lose the drive. (A report is one step of the model: the levels that it counts
  and counts down again are not among the two.)

Their hypothesis is `FormatsByHand`: `mtiocftcmd()` is not used to send "format mode" to a
drive known to refuse it, which is the path that does lose a level (see the observations).
Where the Ditto Max of `Drive` may be sent that command, too, TLC finds that levels are lost
until every command is refused, so that `LevelsAreCounted` needs the hypothesis. It finds no
violation of `ClosedIsReleased` there, for a drive that obeys no command is not woken up
either; for that theorem the hypothesis spares the proof the levels lost.

The inductive invariant is `ReleaseInv`. As in `FdcSync`, the functions are frames of a
stack, and what one relies on when it goes on is what those above it leave behind:

- `Stacked`, `Bottom`, `BareOK`: which frame may be on which. `_zft_close()` goes on only
  with nothing above it, on a device not open yet only an open is under way, and
  through the bare device only commands run.
- `Nested`: the level is the number of frames that hold one. There are five shapes: none,
  a command, one that waits for the drive or is about to read its error, and the reading of
  the error, which may itself wait.
- `CommandsOK`: the command that puts the drive to sleep is under way on top of the stack
  only, where no repair can come between, and is sent only by a driver that has woken the
  drive up by the same method.
- `Asleep`: what is true at the places that go on after such work: the drive is quiet when
  `ftape_disable()` has called `ftape_put_drive_to_sleep()`, and everything is released where
  `_zft_close()` goes on, where an open has failed, and where a new one begins.
- `StaysAwake`: a drive that needs no waking up is not asleep, except while
  `ftape_activate_drive()` tries the other methods (`Trying`). Without it a drive that fell
  asleep could be found by the method "none" and be left for one that is awake.

Most of the functions take part in none of this. `Plainly` answers for all their steps: the
frame on top gives way to frames that are as free (`FreeRun`), and no promise is touched. The
others have one lemma per place (`RefusedStep` to `CloseStep`), put together in `IoStep`,
`CtlStep`, `CallersStep` and `WorldStep`.

### Formatting

`FtapeFormatProofs`: `FormatWritesIdsInOrder` (`[](FormatTypeOK /\ IdsAreInOrder)`) and
`FormatEndMeansWhole` (`[]EndMeansWhole`), under the hypothesis that "fill" is not among
`Faults`: `setup_format_buffer()` can fail with the parallel port controllers only, and
with it the ids are not in order (see the table of deviations above). `FormatInv` says of the
buffers that this track uses what each of them stands for: its ids, from `ptr` on, are
those of its segments, up to where `next_segment` says that the next buffer takes over
(`Good`), those behind HEAD that have not been filled again are done (`Behind`), and TAIL, while
it is filled, is none the handler may go to (`TailOK`, `RefillOK`).

### Header and bad sector map

`FtapeBsmProofs` proves three things. `AcceptedTapesAreAddressable`: for every set of cartridges,
whatever their headers say, `[]SegmentsHaveAddresses`. The consistency test of
`ftape_decode_header_segment()` is a set of equations between quotients of the
parameters; `ConsistentFits` shows that they imply, for every segment of the tape,
a side, cylinder and sector within the maxima of the header, from which
the segment is computed again. The arithmetic is split into lemmas on division that
the solver can do (`DivMod`, `Monotone`, `Unique`), on the number of segments on a side
(`SegmentsOfASide`) and on the cylinder of a segment (`CylinderOfASegment`). The
inductive invariant says that the search is at "decoded" only with parameters that
passed the test (`HeaderStep`, one step per action).

`OneCopySuffices` (`[]OneCopyIsEnough`): wherever the two copies are in front of the
boundary, the search ends without a header only if as many reads fail as there are
usable copies, or if the drive does not obey. `SearchInv` says how far the search has
come: up to the first copy as long as nothing failed, then behind it and up to the
second, and then the first was not usable or a fault has been spent on it.

`ExactMaps` (`[]MapsAreExact`) and `RightPlace` (`[]PlaceIsRight`): for every tape, in
every format, whatever order segments are asked for in and whatever sectors go bad in
between, the map answered is that of the segment, and the place remembered is the first
entry not before it. Their hypotheses are `~Overlap`, without which both are false (see the
deviations above), and `MaxReads <= 1`: a second reading of the header leaves the segment
remembered as it was (see the observations). `MapInv`, the inductive invariant, says
that the list describes the map (`Lists`), that the place is the one of the segment remembered
(`PlaceAt`), which between the search and the store is the segment being asked for
(`Here`), and what each call and the handler have been told. The argument is in four steps:

1. `ListFacts`, `SegmentEntries`, `FewEntries`: the entries of a segment are next to each
   other, give its map, and are as many as a segment has sectors only if all are bad.
   The last is what the code relies on when it takes a count of 32 for one flagged entry.
2. `ForwardFound`, `BackwardFound`: each search finds the entries and the place, from
   the place of any segment on the right side.
3. `ReplacedFacts`, `EntriesOf`, `ChangedList`: the list in which the entries of one
   segment have been replaced is in order again and describes the changed map.
4. One lemma per group of actions (`HeaderKeepsMaps`, `CallKeepsMaps`, `SetUpKeepsMaps`,
   `PutKeepsMaps`), put together in `MapStep`.

### Assumptions, and what is only model-checked

Assumptions, each named in the module that declares the constant: a segment has at
least two sectors, only the last segment of a track has no successor on tape, bad
sectors are sectors, the ring is not empty, counts are natural numbers, the ECC code corrects at least one block; cylinder 0
exists, a segment has a cluster; a format buffer holds a segment, and 2^32 is more than
it holds; a run-up is at least one segment and a fast skip longer than what a drive is
taken to fall short by; a drive is woken up in one of the three known ways or needs no
waking up (`KindsAssumption`); header fields are unsigned (`TapesAssumption`), a segment has a sector and a
cylinder a segment (`HeaderAssumption`); the two header copies are in front of the
boundary (`LayoutAssumption`), sector numbers fit below the flag of a three byte entry
(`BsmAssumption`), and the list on a cartridge is in order and describes its map
(`ListsAssumption`).

The inductive invariants were checked by TLC on the instances of the runs before they
were proved.

Only model-checked: liveness (`ReadReturns`, `CallsReturn`, `CallsEnd`, `StartReturns`,
`TracksEnd`), which the prover cannot do; `HealthyDriveStarts`
(what is learned of a drive converges before the retries are used up), which depends on
the numbers: drifts, limits and retries; of `FtapeCtl`, `KnownCartridge`, which is about one
incident and does not hold with two (see the deviations), `RatesAgree` and
`HealthyDriveOpens`, which depend on the rates a drive takes; and zftape with its
refinements, whose operators on the whole state are folds and recursive.

## Limits and observations

### Segments, handler, controller, motion

- Of the seeks of the process, `SeeksAreExact` promises the steps only if the handler has not
  moved the head between the look of `ft_send_to_drive()` at `current_cylinder` and the
  masking of the interrupt in `fdc_seek()`. The code has nothing to keep them apart.
- `SeeksAreExact` holds as long as no interrupt is lost and no signal ends a sleep
  early: otherwise a reset can end without the handler having read the cylinder, and
  the next command has the wrong number of steps. `ftape` blocks most signals
  while it sleeps, not SIGKILL, SIGSTOP and SIGINT (`lowlevel/ftape-init.h`).
- A set up that fails in the handler also hangs reading: TAIL stays in error while the
  process frees HEAD only. `ReadRing`, which checks `ReadReturns`, therefore leaves
  out the kind "setup", and `ReadMaps` has it. It leaves out "overrun" and
  "undecoded" for its size only: an overrun is an error that the handler retries in the same
  way, without counting it to the limit. So `ReadReturns` says nothing of overruns.
- Of the handler are left out: the branches for verifying, and the return when the
  controller does not give its result (`fdc-isr.c:921`, "what to do next ????"), after which
  runner and HEAD stay as they were and the process is woken.
- A retry may resume behind the last good sector of its segment.
  `ftape_read_segment()` then starts a transfer of no sectors, which the model lets
  end without effect; the handler, in the same position, looks at `sector_count`.
- `AcceptedDataIsHeld` is checked and proved for callers that write rising segments and
  flush after the last, as `zftape` does; for others it does not hold (see the
  deviations). So it is for deleted segments, which only the segment ioctl writes, one
  at a time (`zftape-ctl.c:1403-1438`): two of them without a flush in between lose data.
- Data is not promised for a segment that a later call writes again, from the moment of
  that call on.
- `CallsReturn` excepts one state, `FlushHangs`: the flush loop waiting for a HEAD that the
  handler left `waiting` when it asked for an abort (see the deviations). It is checked on a
  tape without fake segments (`WriteReturns`). Deleting
  over a segment without good sectors, `continue_xfer()` gives up the buffer because
  it expects the status `writing`, and the flush restarts it for ever
  (`fdc-isr.c:634`).
- `ftape_start_tape()` does not always end "just before the requested segment"
  (`ftape-rw.c:945`); hence the condition in `StartsWhereIdsSay`. The logical end of a
  track counts as its last segment, so a short start of that segment may succeed with
  the tape standing at the end. And `ftape_handle_logical_eot()` leaves
  `location` as it was: a run that was started from the begin of the track leaves
  `bot` set, and a start of that track's first segment then believes it.
- The result of `ftape_seek_head_to_track()` is ignored (`ftape-rw.c:1039`). The track
  is then -1, the end of the tape reads as a segment before all others, and
  `seek_forward()` never ends; `StartReturns` excludes that case.
- `fast_seek()` chooses the number of nibbles before it adds `rew_eot_margin`
  (`ftape-rw.c:510`): a skip of 250 segments with a margin of 8 is sent as one of 2. The
  loop around it repairs that (`Sent`; `Position` shows it).
- The branch of `handle_fdc_seek()` for a hidden interrupt is dead code: `fdc_isr()`
  clears `hide_interrupt` on entry.
- `ftape_new_cartridge()` leaves buffers in a state that only the first call's
  abort cleans; `IsrInit` is the state after it.

### Drive

- Left out: the FIFO threshold (`ftape_increase_threshold()`), the rechecks of the door
  (up to ten, collapsed into one), the branch of a vendor signature other than
  0xa5, a reopening after `MTLOAD` that failed to enable the drive. Cartridges are put in only
  while no call runs. A drive is referenced only by seeking its load point.
- A bare session, an error report in it, and a change of the cartridge leave the old
  tables in memory (`ftape-ctl.c:802-808`). So does a failing `init_drive`, which is not tried
  again (`ftape-ctl.c:549`), and an insertion just while `ftape_get_status()` reads an error.
- Commands sent by hand leave `diagnostic_mode` set. Entering format mode on a drive that
  cannot format returns with `qic_cmd_level` raised (`ftape-io.c:241`); it is the only such path,
  and no call of the instances takes it (`FormatsByHand`).
- A failing enable in `MTLOAD` leaves the device open without a controller. Command 24 also puts Mountain drives to
  sleep. `ftape_set_data_rate()` looks at a status it may not have read (a choice
  in the model). The repair loop of `ft_check_cmd_restrictions()` does not end when
  the communication is dead. A drive that was left awake by hand is taken for one that
  needs no waking up.

### Format

- Left out: `ftape_verify_segment()`, new parameters during a track, the access
  checks. A segment takes less than the five seconds the process sleeps for.
- `ftape_format_status()` returns -EAGAIN after every error, and the result 1 at the end
  of a track gets lost in the ioctl. After an underrun the id reported may be that of
  a buffer's last use.

### Header and bad sector map

- Left out: an overflow of the list's area, tape length and timeouts, the unscrambling
  of Ditto 2GB headers, the printing of the map, `deleted` of a TAIL from an earlier read, and the return of the
  search before its first read when the drive says the cartridge is not formatted (`ftape-read.c:348`).
- A second reading of the header resets the place and not the segment remembered; the
  next look up may be wrong. `BadSectors` reads it once.
- The decoding divides by `segments_per_head` before it is tested for 0. A search that
  meets deleted segments only, up to the boundary, is a success without a header. 32 bad sectors
  listed one by one are taken for a flagged entry later. A header that is given
  up half way leaves its parameters behind; only `used_header_segment` says so.

### zftape

- Left out: raw devices, `MTIOCRDFTSEG` and `MTIOCWRFTSEG`, the file marks of old
  ftape versions (`zftape-eof.c`), entries of other programs in the volume table, signals, errors in writing the tables, write protected cartridges, blocks
  other than a sector.
- Seen and kept out of the instances: two hard errors in one flush (the list is in
  reverse order and the padding counted wrongly); appending to a full tape
  (a volume behind the last segment, habit "full"); `MTSETPART` while offline, which goes
  online without locking the door; a file mark after a write of no bytes; a
  failing flush at close, which keeps `volume_pos`; data that is accepted and then moved
  beyond the end of the tape; `MTERASE`, which clears from the second slot on and one slot too many, and leaves the files to come
  back and the door to be opened with the table unsaved, so that `CleanTableIsSaved`, `UnsavedTapeIsLocked` and
  `KeepsFiles` are claimed of the other calls only;
  the mode of the first open, which holds for later ones. `_zft_write()` returns 0
  for errors other than -ENOSPC.

### Compressed files

- The files are those that earlier versions of the driver wrote, as the comment at
  `zftape-compress.c:52` and the reader describe them (external). Lengths are read only where the
  writer put one: elsewhere the model reads 0. No segment of a file has bad
  sectors only. `zft_uncompress()` gives a block from all of its data and
  an error from anything else.
- A signal is there during a whole call or not at all. Memory is always there.
  `zftc_open()` clears the handle with the pointers to its buffers, which leak.

Not modelled, and why: the text of `/proc` files and traces (no state), register
accesses of the ISA and parallel port controllers (hardware below the level of
`fdc-io.c`), the arithmetic of the ECC code (29 KB of data; its promise is modelled
in `FtapeRead`), the LZRW3-A compression (third party), tools and start-up code.

## Plan

Done: the ring, the handler, reading, writing, hard errors, the access to the
controller, the search for a segment, commands and drive control, formatting,
headers and the bad sector map, the tape device with its files and compressed files. Left:

1. Proofs: the rates (`RatesAgree`), and `KnownCartridge` for a session with one incident.
2. Verifying, as a third process on top of `FdcIsr`.
3. Growing and shrinking the ring (`ftape-buffer.c`): HEAD and TAIL stay in it.
4. Raw devices, in the `Zft` modules.
