------------------------------- MODULE FdcIsr -------------------------------
(***************************************************************************)
(* The floppy controller's interrupt handler: what fdc_isr() does when the *)
(* controller has read or written a cluster of sectors, or has finished    *)
(* the seek by which the handler pauses the tape.  The handler walks the   *)
(* ring of segment buffers on its own (the "runner") while the process     *)
(* that reads or writes the tape sleeps or works on other buffers; the     *)
(* process is in FtapeRead and FtapeWrite, which extend this module.       *)
(*                                                                         *)
(* One action is one run of the handler, from the interrupt to its return: *)
(* the process never sees the state in between.                            *)
(***************************************************************************)
EXTENDS FtapeBuffer

CONSTANTS NrBuffers,      \* fdc->nr_buffers, the length of the ring
          MaxFaults,      \* bound on what may go wrong in one behaviour
          Faults          \* the kinds of fault that may occur

ASSUME NrBuffersAssumption == NrBuffers \in Nat \ {0}
ASSUME FaultsAssumption == MaxFaults \in Nat

VARIABLES
    buffers,        \* the ring of buffers
    head, tail,     \* HEAD: the runner's buffer, TAIL: the process's buffer
    runner_status,  \* ftape->runner_status
    fdc_mode,       \* fdc->mode
    busy,           \* the controller executes a command and will interrupt
    hide_interrupt, \* fdc->hide_interrupt: the handler's seek is under way
    interrupt_seen, \* fdc->interrupt_seen
    setup_error,    \* fdc->setup_error # 0
    stop_read_ahead,\* fdc->stop_read_ahead
    driver_state,   \* ftape->driver_state
    old_driver_state, old_segment_id,  \* what ftape_setup_new_segment() saw last
    last_segment_skipped,
    faults          \* how many faults have occurred

ring       == <<head, tail, buffers>>
controller == <<fdc_mode, busy, hide_interrupt, interrupt_seen, setup_error>>
setup      == <<old_driver_state, old_segment_id, last_segment_skipped>>
isrvars    == <<ring, controller, setup, runner_status, stop_read_ahead,
                driver_state, faults>>

Ring == 0 .. (NrBuffers - 1)
next(i) == (i + 1) % NrBuffers

RunnerStates == {"idle", "running", "do_abort", "aborting", "logical_eot",
                 "end_of_tape"}
Modes        == {"idle", "reading_data", "writing_data", "deleting", "seeking"}
DriverStates == {"waiting", "reading", "writing", "deleting"}
None         == -1

FaultKinds == {"medium", "overrun", "mismatch", "undecoded", "deleted", "setup",
               "pause", "timeout", "drive", "ecc", "signal"}
ASSUME FaultKindsAssumption == Faults \subseteq FaultKinds

IsrTypeOK ==
    /\ buffers \in [Ring -> Buffer]
    /\ head \in Ring /\ tail \in Ring
    /\ runner_status \in RunnerStates
    /\ fdc_mode \in Modes
    /\ busy \in BOOLEAN /\ hide_interrupt \in BOOLEAN
    /\ interrupt_seen \in BOOLEAN /\ setup_error \in BOOLEAN
    /\ stop_read_ahead \in BOOLEAN
    /\ driver_state \in DriverStates /\ old_driver_state \in DriverStates
    /\ old_segment_id \in Segments \cup {None}
    /\ last_segment_skipped \in Segments \cup {None}
    /\ faults \in Nat

(* The driver before its first call, or after an abort: the buffers have   *)
(* been zapped, nothing is under way.                                      *)
IsrInit ==
    /\ \E seg \in Segments : /\ \A t \in Segments : seg <= t
                             /\ buffers = [i \in Ring |-> NewBuffer(seg)]
    /\ head = 0 /\ tail = 0
    /\ runner_status = "idle"
    /\ fdc_mode = "idle" /\ busy = FALSE
    /\ hide_interrupt = FALSE /\ interrupt_seen = FALSE /\ setup_error = FALSE
    /\ stop_read_ahead = FALSE
    /\ driver_state = "waiting" /\ old_driver_state = "waiting"
    /\ old_segment_id = None /\ last_segment_skipped = None
    /\ faults = 0

Fault(kind) == kind \in Faults /\ faults < MaxFaults /\ faults' = faults + 1
NoFault == UNCHANGED faults

HEAD == buffers[head]
TAIL == buffers[tail]

-----------------------------------------------------------------------------
(* Set up of a segment and of a transfer, by handler and process alike      *)

(* ftape_setup_new_segment() takes its retry branch for the segment it was *)
(* called for last, whatever buffer it is given.                           *)
Retrying(seg) == driver_state = old_driver_state /\ seg = old_segment_id

ftape_setup_new_segment(b, seg, mayskip) ==
    IF Retrying(seg) THEN setup_retry(b, seg, mayskip, last_segment_skipped)
                     ELSE setup_fresh(b, seg)

RememberSetup(b, seg, mayskip) ==
    /\ old_driver_state' = driver_state
    /\ old_segment_id' = seg
    /\ last_segment_skipped' =
          IF /\ Retrying(seg) /\ mayskip = 1
             /\ FastFail(b, seg, last_segment_skipped)
          THEN seg ELSE last_segment_skipped

(* ftape_start_tape() answers an excess of overruns in earlier tries by a  *)
(* larger FIFO threshold or a lower data rate, if it can, and does not     *)
(* count the retry.  How many overruns are too many depends on how far     *)
(* they are apart, three at the least.                                     *)
MinTolerance == 3

StartTape(b) ==
    {b} \cup {c \in {[b EXCEPT !.retry = @ - 1]} :
                /\ runner_status = "idle" /\ b.retry > 0
                /\ "overrun" \in Faults /\ faults >= MinTolerance}

(* How the handler returns.  Every interrupt ends a command of the         *)
(* controller; what comes next is the transfer the handler has just set    *)
(* up, nothing, or the seek that pauses the tape, which hides this         *)
(* interrupt from the process: fdc_isr() then skips the wake up.           *)
Run(mode)  == /\ fdc_mode' = mode /\ busy' = TRUE
              /\ hide_interrupt' = FALSE /\ interrupt_seen' = TRUE
              /\ setup_error' = FALSE
Stop(mode) == /\ fdc_mode' = mode /\ busy' = FALSE
              /\ hide_interrupt' = FALSE /\ interrupt_seen' = TRUE

(* What may fail after the transfer has been accounted for: nothing, the   *)
(* set up of the next transfer, or the command that pauses the tape.       *)
Late == {"none"} \cup (Faults \cap {"setup", "pause"})

pause_tape(late) ==
    /\ late \in {"none", "pause"}
    /\ fdc_mode' = IF late = "none" THEN "seeking" ELSE fdc_mode
    /\ busy' = (late = "none")
    /\ hide_interrupt' = TRUE
    /\ UNCHANGED interrupt_seen

-----------------------------------------------------------------------------
(* continue_xfer() and retry_sector()                                       *)

IsWrite == fdc_mode \in {"writing_data", "deleting"}

SetHead(b) == buffers' = [buffers EXCEPT ![head] = b]

(* Deleted data in segment 0 lets one more segment be read, no more.       *)
StopNext(b) == stop_read_ahead \/ (b.deleted = 1 /\ b.segment_id = 0)

(* The handler and the process disagree: give the buffer up.               *)
UnexpectedState(b) ==
    \/ runner_status # "running"
    \/ IsWrite /\ b.status # "writing"
    \/ ~IsWrite /\ b.status # "reading"

GiveUpBuffer(b) ==
    /\ SetHead([b EXCEPT !.status = "error"])
    /\ head' = next(head)
    /\ runner_status' = "aborting"
    /\ Stop("idle")
    /\ stop_read_ahead' = StopNext(b)
    /\ UNCHANGED setup

(* Another cluster of the same segment.                                    *)
ContinueSegment(b, late) ==
    \/ /\ late = "none"
       /\ SetHead(b)
       /\ Run(fdc_mode)
       /\ UNCHANGED <<head, runner_status, setup, stop_read_ahead>>
    \/ /\ late = "setup"
       /\ GiveUpBuffer([b EXCEPT !.bytes = b.data_offset])
       /\ setup_error' = TRUE

(* The segment is complete: its buffer is done and HEAD moves on.          *)
FinishBuffer(b) == [b EXCEPT !.bytes = b.data_offset, !.status = "done"]

StatusAhead == IF driver_state = "waiting"
               THEN IF IsWrite THEN "writing" ELSE "reading"
               ELSE driver_state

(* Read or write ahead into the next buffer n of the ring.                 *)
StartAhead(b, n, late) ==
    LET ahead   == ftape_setup_new_segment(buffers[n], b.next_segment, 0)
        stopped == [ahead EXCEPT !.next_segment = IF StopNext(b) THEN 0 ELSE @]
        ready   == ftape_calc_next_cluster(stopped)
        both(s) == buffers' = [buffers EXCEPT ![head] = FinishBuffer(b),
                                              ![n] = [ready EXCEPT !.status = s]]
    IN  /\ RememberSetup(buffers[n], b.next_segment, 0)
        /\ stop_read_ahead' = FALSE
        /\ \/ /\ late = "none" /\ ready.sector_count > 0
              /\ both(StatusAhead)
              /\ Run(fdc_mode)
              /\ UNCHANGED runner_status
           \/ /\ late = IF ready.sector_count > 0 THEN "setup" ELSE "none"
              /\ both("waiting")
              /\ runner_status' = "aborting"   \* do_abort, then aborting
              /\ Stop("idle")
              /\ setup_error' = (late = "setup")

(* Mutant: the handler goes on whatever the next buffer holds.             *)
RingFull_Never == FALSE

(* The next buffer is not free, or there is none.                          *)
RingFull == next(head) = head \/ buffers[next(head)].status # "waiting"

(* Mutant: the segment ids are not compared.                               *)
Astray_Never(b) == FALSE

(* What the next buffer holds is to be written somewhere else.             *)
Astray(b) == IsWrite /\ b.next_segment # buffers[next(head)].segment_id

FinishSegment(b, late) ==
    LET eot     == (b.segment_id + 1) % SegmentsPerTrack = 0
        pausing == ~eot /\ (b.next_segment = 0 \/ RingFull)
        astray  == Astray(b)
    IN  /\ head' = next(head)
        /\ \/ /\ eot \/ pausing \/ astray
              /\ SetHead(FinishBuffer(b))
              /\ stop_read_ahead' = StopNext(b)
              /\ UNCHANGED <<setup, setup_error>>
              /\ \/ /\ eot /\ late = "none"
                    /\ runner_status' = "logical_eot"
                    /\ Stop("idle")
                 \/ /\ pausing
                    /\ runner_status' = "idle"
                    /\ pause_tape(late)
                 \/ /\ ~eot /\ ~pausing /\ late = "none"
                    /\ runner_status' = "aborting"   \* do_abort, then aborting
                    /\ Stop("idle")
           \/ /\ ~eot /\ ~pausing /\ ~astray
              /\ StartAhead(b, next(head), late)

continue_xfer(b, skip, late) ==
    LET c == IF b.remaining > 0 THEN ftape_calc_next_cluster(b) ELSE b
        unexpected == skip > 0 /\ UnexpectedState(b)
    IN  \/ /\ unexpected /\ late = "none"
           /\ GiveUpBuffer(b)
           /\ UNCHANGED setup_error
        \/ /\ ~unexpected /\ b.remaining > 0 /\ c.sector_count > 0
           /\ ContinueSegment(c, late)
        \/ /\ ~unexpected /\ ~(b.remaining > 0 /\ c.sector_count > 0)
           /\ FinishSegment(c, late)

retry_sector(b, skip, late) ==
    /\ SetHead([b EXCEPT !.status = "error", !.skip = skip])
    /\ runner_status' = "aborting"
    /\ pause_tape(late)
    /\ UNCHANGED <<head, setup, setup_error, stop_read_ahead>>

-----------------------------------------------------------------------------
(* handle_fdc_busy(): the controller enters its result phase                *)

(* The result get_transfer_size() makes of the controller's status: how    *)
(* many sectors of the cluster were moved, and why it stopped.             *)
(* "undecoded" is an abnormal termination none of whose status bits        *)
(* decode_irq_cause() looks at (not writable, end of cylinder): it comes   *)
(* out as no_error with sectors missing.  "mismatch" is the -EAGAIN of a   *)
(* count that disagrees with the DMA residue.  An error after the last     *)
(* sector is a mismatch too, but only where there is a DMA residue to      *)
(* compare with: the parallel port controllers report it as it is.         *)
Causes == [ no_error  |-> {"no_error"},  undecoded |-> {"no_error"},
            deleted   |-> {"no_error"},  mismatch  |-> {"no_error"},
            medium    |-> MediumErrors,  overrun   |-> {"overrun"} ]

Result(kind) ==
    LET partly == 0 .. (HEAD.sector_count - 1) IN
    [ cause : Causes[kind],
      transferred : CASE kind \in {"no_error", "deleted", "mismatch"} ->
                            {HEAD.sector_count}
                      [] kind = "undecoded" \/ HEAD.sector_count = 0 -> partly
                      [] OTHER -> partly \cup {HEAD.sector_count} ]

Charge(kind, late) ==
    LET cost == (IF kind = "no_error" THEN 0 ELSE 1) + (IF late = "none" THEN 0 ELSE 1)
    IN  faults' = faults + cost /\ faults' <= MaxFaults

Kinds == {"no_error"} \cup
         (Faults \cap {"undecoded", "deleted", "mismatch", "medium", "overrun"})

(* The aborted transfer's interrupt only ends the abort.                   *)
AbortedTransfer ==
    /\ runner_status \in {"do_abort", "aborting"}
    /\ runner_status' = "aborting"
    /\ Stop(fdc_mode)
    /\ UNCHANGED <<head, buffers, setup, setup_error, stop_read_ahead>>

FakeTransfer(late) == continue_xfer([HEAD EXCEPT !.remaining = 0], 1, late)

MismatchedTransfer(late) == retry_sector([HEAD EXCEPT !.sector_count = 0], 0, late)

DeletedTransfer(late) ==
    continue_xfer(deleted_data(HEAD), SectorsPerSegment - HEAD.sector_offset, late)

(* A read goes on after the first bad sector of a segment, for the ECC     *)
(* code to correct it, and is retried after the second.                    *)
ReadTransfer(result, late) ==
    \E b \in {determine_progress(HEAD, result.cause, result.transferred)} :
    LET retry == HEAD.soft_error_map # {} \/ HEAD.hard_error_map # {}
        skip  == IF retry THEN find_resume_point(b) ELSE b.sector_offset
    IN  \/ /\ result.cause = "no_error"
           /\ continue_xfer(b, 0, late)
        \/ /\ result.cause # "no_error"
           /\ IF retry /\ skip < SectorsPerSegment
              THEN retry_sector(b, skip, late)
              ELSE continue_xfer(b, skip, late)

WriteTransfer(result, late) ==
    \E b \in {determine_progress(HEAD, result.cause, result.transferred)} :
    \/ /\ result.cause = "no_error"
       /\ continue_xfer(b, 0, late)
    \/ /\ result.cause \in Errors \ {"data_crc"}
       /\ retry_sector(b, find_resume_point(b), late)
    \/ /\ result.cause = "data_crc" /\ late = "none"   \* unforeseen write error
       /\ SetHead(b)
       /\ Stop("idle")
       /\ UNCHANGED <<head, runner_status, setup, setup_error, stop_read_ahead>>

handle_fdc_busy(kind, late) ==
    \/ AbortedTransfer /\ kind = "no_error" /\ late = "none"
    \/ /\ runner_status \notin {"do_abort", "aborting"}
       /\ \/ /\ IsFake(HEAD) /\ kind = "no_error"
             /\ FakeTransfer(late)
          \/ /\ ~IsFake(HEAD) /\ kind = "mismatch"
             /\ MismatchedTransfer(late)
          \/ /\ ~IsFake(HEAD) /\ kind = "deleted" /\ ~IsWrite
             /\ DeletedTransfer(late)
          \/ /\ ~IsFake(HEAD) /\ kind \notin {"mismatch", "deleted"}
             /\ \E result \in Result(kind) :
                   IF IsWrite THEN WriteTransfer(result, late)
                              ELSE ReadTransfer(result, late)

(* fdc_isr() at the end of a transfer.                                     *)
TransferInterrupt ==
    /\ busy /\ fdc_mode # "seeking"
    /\ \E kind \in Kinds, late \in Late :
          handle_fdc_busy(kind, late) /\ Charge(kind, late)
    /\ UNCHANGED <<tail, driver_state>>

(* fdc_isr() at the end of the seek that pauses the tape; hide_interrupt   *)
(* is cleared on entry, so this one wakes the process.                     *)
SeekInterrupt ==
    /\ busy /\ fdc_mode = "seeking"
    /\ Stop("idle")
    /\ NoFault
    /\ UNCHANGED <<ring, setup, setup_error, runner_status, stop_read_ahead,
                   driver_state>>

fdc_isr == TransferInterrupt \/ SeekInterrupt

-----------------------------------------------------------------------------
(* What the process does to the runner, in reads and writes alike           *)

(* The commands the process sends to the drive wait for the handler's seek *)
(* (fdc_seek_check); FdcSync has the details.                              *)
DriveReachable == ~(busy /\ fdc_mode = "seeking")

(* Mutant: the controller is left running.                                 *)
ControllerQuiet_LeaveBusy ==
    interrupt_seen' = FALSE /\ UNCHANGED <<fdc_mode, busy, hide_interrupt>>

(* A controller found busy is reset; the commands clear interrupt_seen.    *)
ControllerQuiet ==
    /\ fdc_mode' = "idle" /\ busy' = FALSE
    /\ hide_interrupt' = FALSE /\ interrupt_seen' = FALSE

ftape_dumb_stop ==
    /\ DriveReachable
    /\ ControllerQuiet
    /\ runner_status' = IF runner_status \in {"aborting", "do_abort"}
                        THEN "idle" ELSE runner_status

(* The first half of ftape_abort_operation(): the handler may still run    *)
(* before the tape has stopped.                                            *)
AbortBegin ==
    runner_status' = IF runner_status = "running" THEN "do_abort" ELSE runner_status

(* Mutant: only HEAD goes back.                                            *)
ftape_reset_buffer_LeaveTail ==
    head' = 0 /\ old_segment_id' = None /\ UNCHANGED tail

ftape_reset_buffer == head' = 0 /\ tail' = 0 /\ old_segment_id' = None

(* Mutant: the buffers that are full stay so.                              *)
fdc_zap_buffers_LeaveFull ==
    buffers' = [i \in Ring |-> IF buffers[i].status = "done" THEN buffers[i]
                               ELSE fdc_zap_buffer(buffers[i])]

fdc_zap_buffers == buffers' = [i \in Ring |-> fdc_zap_buffer(buffers[i])]

(* The second half, ftape_dumb_stop(), ftape_stop_tape() if that left the  *)
(* runner in another state than idle, and ftape_zap_read_buffers().        *)
AbortEnd ==
    /\ DriveReachable
    /\ ControllerQuiet
    /\ runner_status' = "idle"
    /\ fdc_zap_buffers
    /\ ftape_reset_buffer
    /\ UNCHANGED <<old_driver_state, last_segment_skipped, setup_error,
                   stop_read_ahead>>

(* Mutant: the runner is left at the end of the track.                     *)
ftape_handle_logical_eot_Stay == UNCHANGED runner_status

(* ftape_handle_logical_eot(): wait for the drive to reach the end of the  *)
(* track.                                                                  *)
ftape_handle_logical_eot ==
    runner_status' = IF runner_status \in {"logical_eot", "end_of_tape"}
                     THEN "idle" ELSE runner_status

-----------------------------------------------------------------------------
(* A property of the handler with either process                            *)

Transferring == busy /\ fdc_mode # "seeking"

(***************************************************************************)
(* While the controller transfers a cluster, HEAD is the buffer it works   *)
(* on: marked as in transfer, the cluster within what remains of its       *)
(* segment, and with a successor the handler may go on to.  The handler    *)
(* charges whatever the controller reports to HEAD without looking, so no  *)
(* step of a process may move, free or refill HEAD meanwhile.              *)
(***************************************************************************)
TransferInHead ==
    Transferring =>
        /\ HEAD.status \in {"reading", "writing", "deleting"}
        /\ HEAD.sector_count <= HEAD.remaining
        /\ HEAD.next_segment \in {0, HEAD.segment_id + 1}
        /\ fdc_mode \in {"reading_data", "writing_data", "deleting"}

=============================================================================
